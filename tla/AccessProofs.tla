---------------------------- MODULE AccessProofs ----------------------------
(***************************************************************************)
(* Proofs about Access: types, MFA that only a verified code turns on, the *)
(* bound on what a principal still does when its rights are gone, and that *)
(* requests that overlap do not undo each other.                           *)
(*                                                                         *)
(* None of the three invariants is inductive.  A request under way acts on *)
(* what it loaded, so the invariant says of each slot which columns it     *)
(* writes and with which values, and of a reset that it leaves mfa alone   *)
(* only if it has loaded FALSE: if the row has TRUE by the time of the     *)
(* commit, they overlapped.  The bound on late acts is a count: every late *)
(* act was one of the requests under way when the rights of u changed, so  *)
(* that the late acts and the requests that lack their role are fewer than *)
(* the slots; the slot that made the change is none of them.               *)
(***************************************************************************)
EXTENDS Access, FiniteSetTheorems, TLAPS

-----------------------------------------------------------------------------
(* The inductive invariant.                                                *)

\* The requests that count when u makes them without the role they need.
Acts == {"set role", "switch", "reset mfa", "bind", "delete", "unbind", "mutate"}

Ops == {"none", "login", "enroll", "confirm", "verify", "create"} \cup Acts

\* What a request is made of.
Fields == {"op", "actor", "mfa", "secret", "sets", "had", "gives", "ok"}

\* One of the bindings 1..n, or none.
Inserted(b, n) ==
    /\ b \in [id : 0..n, role : Roles]
    /\ b # NoBinding => b.id # 0

\* What a request may have in its copy, and what it may ask for, when i secrets were
\* generated and n bindings inserted.
RequestOk(h, i, n) ==
    /\ DOMAIN h = Fields
    /\ h.op \in Ops /\ h.mfa \in BOOLEAN /\ h.secret \in 0..i /\ h.gives \in Roles
    /\ Inserted(h.had, n)
    /\ DOMAIN h.sets \subseteq Asked(h)
    /\ "role" \in DOMAIN h.sets => h.sets["role"] \in Roles
    /\ "disabled" \in DOMAIN h.sets => h.sets["disabled"] \in BOOLEAN
    /\ "secret" \in DOMAIN h.sets => h.sets["secret"] = NoSecret
    /\ "mfa" \in DOMAIN h.sets => h.sets["mfa"] = (h.op = "confirm")
    \* A reset writes FALSE unless that is what it has loaded.
    /\ h.op = "reset mfa" /\ h.mfa => "mfa" \in DOMAIN h.sets
    /\ h.op = "confirm" /\ h.ok => h.secret # NoSecret

WellFormed ==
    /\ row \in Row /\ row.secret <= issued
    /\ Inserted(binding, bound) /\ (binding # NoBinding => Live)
    /\ tokens \subseteq {"mfa", "enroll", "full"}
    /\ issued \in 0..MaxSecrets /\ bound \in 0..MaxBindings
    /\ confirmed \subseteq 1..issued
    /\ request = [t \in Threads |-> request[t]]
    /\ \A t \in Threads : RequestOk(request[t], issued, bound)
    /\ late \in Nat

\* What u may do now.
Entitled == {op \in Acts : Live /\ ~row.disabled /\ HasRole(op)}

\* The requests u made without having the role they need any more.
Lacking == {t \in Threads : request[t].actor = "u" /\ request[t].op \in Acts \ Entitled}

\* Each late act was under way when u's rights changed, and so was each that may follow.
LateOrLacking == late + Cardinality(Lacking) < Cardinality(Threads)

IInv == WellFormed /\ MfaMeansConfirmed /\ LateOrLacking

-----------------------------------------------------------------------------
(* What the model's operators return.                                      *)

LEMMA AskedFor ==
    ASSUME NEW h
    PROVE  /\ h.op = "set role" => Asked(h) = {"role"}
           /\ h.op = "switch" => Asked(h) = {"disabled"}
           /\ h.op = "confirm" => Asked(h) = {"mfa"}
           /\ h.op \in {"enroll", "reset mfa"} => Asked(h) = {"secret", "mfa"}
           /\ h.op \notin {"set role", "switch", "confirm", "enroll", "reset mfa"} => Asked(h) = {}
<1>1. h.op = "set role" => Asked(h) = {"role"}
  BY DEF Asked
<1>2. h.op = "switch" => Asked(h) = {"disabled"}
  BY DEF Asked
<1>3. h.op = "confirm" => Asked(h) = {"mfa"}
  BY DEF Asked
<1>4. h.op \in {"enroll", "reset mfa"} => Asked(h) = {"secret", "mfa"}
  BY DEF Asked
<1>5. h.op \notin {"set role", "switch", "confirm", "enroll", "reset mfa"} => Asked(h) = {}
  BY DEF Asked
<1> QED
  BY <1>1, <1>2, <1>3, <1>4, <1>5

\* The values a request writes belong in the columns it writes.
Fits(sets) ==
    /\ DOMAIN sets \subseteq Columns
    /\ "role" \in DOMAIN sets => sets["role"] \in Roles
    /\ "disabled" \in DOMAIN sets => sets["disabled"] \in BOOLEAN
    /\ "secret" \in DOMAIN sets => sets["secret"] \in 0..MaxSecrets
    /\ "mfa" \in DOMAIN sets => sets["mfa"] \in BOOLEAN

LEMMA MergedRow ==
    ASSUME row \in Row, NEW h, Fits(h.sets)
    PROVE  /\ Merged(h) \in Row /\ Merged(h).status = row.status
           /\ \A c \in Columns : Merged(h)[c] = IF c \in DOMAIN h.sets THEN h.sets[c] ELSE row[c]
<1>1. DOMAIN row = {"status", "role", "disabled", "secret", "mfa"}
  BY DEF Row
<1>2. /\ row.status \in {"unborn", "live", "gone"} /\ row.role \in Roles
      /\ row.disabled \in BOOLEAN /\ row.secret \in 0..MaxSecrets /\ row.mfa \in BOOLEAN
  BY DEF Row
<1>3. /\ Merged(h).status = row.status
      /\ \A c \in Columns : Merged(h)[c] = IF c \in DOMAIN h.sets THEN h.sets[c] ELSE row[c]
  BY <1>1 DEF Merged, Columns, Fits
<1>4. Merged(h) = [status |-> Merged(h).status, role |-> Merged(h).role,
                   disabled |-> Merged(h).disabled, secret |-> Merged(h).secret,
                   mfa |-> Merged(h).mfa]
  BY <1>1 DEF Merged
<1>5. /\ Merged(h).role \in Roles /\ Merged(h).disabled \in BOOLEAN
      /\ Merged(h).secret \in 0..MaxSecrets /\ Merged(h).mfa \in BOOLEAN
  BY <1>2, <1>3 DEF Fits, Columns
<1>6. Merged(h) \in Row
  BY <1>2, <1>3, <1>4, <1>5 DEF Row
<1> QED
  BY <1>3, <1>6

\* The rights of u lie in its role, its switch and its binding.
LEMMA SameRights ==
    ASSUME row'.status = row.status, row'.role = row.role, row'.disabled = row.disabled,
           binding' = binding
    PROVE  Entitled' = Entitled
<1>1. Live' <=> Live
  BY DEF Live
<1>2. EffectiveRole' = EffectiveRole
  BY DEF EffectiveRole, RoleAtLeast
<1>3. ASSUME NEW op \in Acts PROVE HasRole(op)' <=> HasRole(op)
  BY <1>2 DEF HasRole, RoleAtLeast
<1> QED
  BY <1>1, <1>3 DEF Entitled

LEMMA NoneInserted == ASSUME NEW n \in Nat PROVE Inserted(NoBinding, n)
BY DEF Inserted, NoBinding, Roles

\* What a request has stays right when secrets and bindings are added.
LEMMA RequestStays ==
    ASSUME NEW h, NEW i \in Nat, NEW n \in Nat, NEW j \in Nat, NEW m \in Nat,
           RequestOk(h, i, n), i <= j, n <= m
    PROVE  RequestOk(h, j, m)
<1>1. h.secret \in 0..i /\ Inserted(h.had, n)
  BY DEF RequestOk
<1>2. h.secret \in 0..j
  BY <1>1
<1>3. Inserted(h.had, m)
  BY <1>1 DEF Inserted
<1> QED
  BY <1>2, <1>3 DEF RequestOk

LEMMA Counters ==
    ASSUME WellFormed
    PROVE  issued \in Nat /\ bound \in Nat
BY BoundsAssumption DEF WellFormed

\* A slot is served anew; the others keep what they have.
LEMMA ServeKeeps ==
    ASSUME WellFormed, NEW t \in Threads, NEW h, Serve(t, h), RequestOk(h, issued', bound'),
           issued <= issued', bound <= bound', issued' \in Nat, bound' \in Nat
    PROVE  /\ request' = [u \in Threads |-> request'[u]]
           /\ \A u \in Threads : RequestOk(request'[u], issued', bound')
           /\ request'[t] = h /\ \A u \in Threads \ {t} : request'[u] = request[u]
<1>1. request' = [request EXCEPT ![t] = h] /\ request = [u \in Threads |-> request[u]]
  BY DEF Serve, WellFormed
<1>2. request'[t] = h /\ \A u \in Threads \ {t} : request'[u] = request[u]
  BY <1>1
<1>3. request' = [u \in Threads |-> request'[u]]
  BY <1>1
<1>4. ASSUME NEW u \in Threads, u # t PROVE RequestOk(request'[u], issued', bound')
  <2>1. RequestOk(request[u], issued, bound) /\ request'[u] = request[u]
    BY <1>2, <1>4 DEF WellFormed
  <2> QED
    BY <2>1, RequestStays, Counters
<1> QED
  BY <1>2, <1>3, <1>4

LEMMA LackingFinite ==
    /\ IsFiniteSet(Lacking) /\ Cardinality(Lacking) \in Nat
    /\ Cardinality(Threads) \in Nat
BY ThreadsAssumption, FS_Subset, FS_CardinalityType DEF Lacking

\* Fewer requests lack their role, and none has acted.
LEMMA LackingShrinks ==
    ASSUME LateOrLacking, late \in Nat, Lacking' \subseteq Lacking, late' = late
    PROVE  LateOrLacking'
<1>1. Cardinality(Lacking') <= Cardinality(Lacking) /\ Cardinality(Lacking') \in Nat
  BY LackingFinite, FS_Subset, FS_CardinalityType
<1> QED
  BY <1>1, LackingFinite DEF LateOrLacking

-----------------------------------------------------------------------------
(* Requests begin.                                                         *)

\* A request that begins keeps the invariant if it is well formed and u, when it makes
\* it, has the role.
LEMMA BeginKeeps ==
    ASSUME IInv, NEW t \in Threads, NEW h, Serve(t, h), Begins,
           RequestOk(h, issued, bound), h.actor # "u" \/ h.op \notin Acts \ Entitled
    PROVE  IInv'
<1>1. UNCHANGED <<row, binding, tokens, issued, bound, confirmed, overlapped, late>>
  BY DEF Begins
<1>2. WellFormed /\ issued \in Nat /\ bound \in Nat
  BY Counters DEF IInv
<1>4. /\ request' = [u \in Threads |-> request'[u]]
      /\ \A u \in Threads : RequestOk(request'[u], issued', bound')
      /\ request'[t] = h /\ \A u \in Threads \ {t} : request'[u] = request[u]
  BY <1>1, <1>2, ServeKeeps
<1>5. WellFormed'
  BY <1>1, <1>2, <1>4 DEF WellFormed, Live
<1>6. Entitled' = Entitled
  BY <1>1, SameRights
<1>7. Lacking' \subseteq Lacking
  BY <1>4, <1>6 DEF Lacking
<1>8. LateOrLacking'
  BY <1>1, <1>2, <1>7, LackingShrinks DEF IInv, WellFormed
<1>9. MfaMeansConfirmed'
  BY <1>1 DEF IInv, MfaMeansConfirmed
<1> QED
  BY <1>5, <1>8, <1>9 DEF IInv

LEMMA BeginLoginKeeps ==
    ASSUME IInv, NEW t \in Threads, BeginLogin(t)
    PROVE  IInv'
<1>1. WellFormed /\ Begins /\ row.mfa \in BOOLEAN
  BY DEF IInv, WellFormed, Row, BeginLogin
<1>2. PICK ok : Serve(t, [Request("login", "u") EXCEPT !.ok = ok, !.mfa = row.mfa])
  BY DEF BeginLogin
<1>3. PICK h : h = [Request("login", "u") EXCEPT !.ok = ok, !.mfa = row.mfa]
  OBVIOUS
<1>4. /\ DOMAIN h = Fields /\ h.op = "login" /\ h.mfa = row.mfa /\ h.secret = 0
      /\ DOMAIN h.sets = {} /\ h.had = NoBinding /\ h.gives = "viewer"
  BY <1>3 DEF Request, Idle, Fields, NoSecret
<1>5. RequestOk(h, issued, bound)
  BY <1>1, <1>4, NoneInserted, Counters DEF RequestOk, Ops, Roles
<1> QED
  BY <1>1, <1>2, <1>3, <1>4, <1>5, BeginKeeps DEF Acts

LEMMA BeginEnrollKeeps ==
    ASSUME IInv, NEW t \in Threads, BeginEnroll(t)
    PROVE  IInv'
<1>1. /\ WellFormed /\ Begins /\ Serve(t, Loaded("enroll", "u"))
      /\ row.mfa \in BOOLEAN /\ row.secret \in 0..issued
  BY BoundsAssumption DEF IInv, WellFormed, Row, BeginEnroll
<1>2. PICK h : h = Loaded("enroll", "u")
  OBVIOUS
<1>3. /\ DOMAIN h = Fields /\ h.op = "enroll" /\ h.mfa = row.mfa /\ h.secret = row.secret
      /\ DOMAIN h.sets = {} /\ h.had = NoBinding /\ h.gives = "viewer"
  BY <1>2 DEF Loaded, Request, Idle, Fields
<1>4. RequestOk(h, issued, bound)
  BY <1>1, <1>3, NoneInserted, Counters DEF RequestOk, Ops, Roles
<1> QED
  BY <1>1, <1>2, <1>3, <1>4, BeginKeeps DEF Acts

LEMMA BeginVerifyKeeps ==
    ASSUME IInv, NEW t \in Threads, BeginVerify(t)
    PROVE  IInv'
<1>1. WellFormed /\ Begins /\ row.mfa \in BOOLEAN /\ row.secret \in 0..issued
  BY BoundsAssumption DEF IInv, WellFormed, Row, BeginVerify
<1>2. PICK scope \in {"mfa", "enroll"} : \E code \in 0..issued :
         LET ok == row.secret # NoSecret /\ code = row.secret
         IN  /\ PreAuth(scope)
             /\ IF scope = "enroll"
                THEN Serve(t, [Loaded("confirm", "u") EXCEPT !.ok = ok,
                                  !.sets = IF ok THEN Changed([mfa |-> TRUE]) ELSE @])
                ELSE Serve(t, [Request("verify", "u") EXCEPT !.ok = ok])
  BY DEF BeginVerify
<1>3. PICK code \in 0..issued :
         LET ok == row.secret # NoSecret /\ code = row.secret
         IN  /\ PreAuth(scope)
             /\ IF scope = "enroll"
                THEN Serve(t, [Loaded("confirm", "u") EXCEPT !.ok = ok,
                                  !.sets = IF ok THEN Changed([mfa |-> TRUE]) ELSE @])
                ELSE Serve(t, [Request("verify", "u") EXCEPT !.ok = ok])
  BY <1>2
<1>4. PICK ok \in BOOLEAN : ok <=> row.secret # NoSecret /\ code = row.secret
  OBVIOUS
<1>5. CASE scope = "enroll"
  <2>1. PICK e : e = Changed([mfa |-> TRUE])
    OBVIOUS
  <2>2. PICK h : h = [Loaded("confirm", "u") EXCEPT !.ok = ok, !.sets = IF ok THEN e ELSE @]
    OBVIOUS
  <2>3. Serve(t, h)
    BY <1>3, <1>4, <1>5, <2>1, <2>2
  <2>4. /\ DOMAIN h = Fields /\ h.op = "confirm" /\ h.mfa = row.mfa /\ h.secret = row.secret
        /\ h.had = NoBinding /\ h.gives = "viewer" /\ h.ok = ok
    BY <2>2 DEF Loaded, Request, Idle, Fields
  <2>5. h.sets = e \/ DOMAIN h.sets = {}
    BY <2>2 DEF Loaded, Request, Idle, Fields
  <2>6. DOMAIN e \subseteq {"mfa"} /\ ("mfa" \in DOMAIN e => e["mfa"] = TRUE)
    BY <2>1 DEF Changed
  <2>7. DOMAIN h.sets \subseteq {"mfa"} /\ ("mfa" \in DOMAIN h.sets => h.sets["mfa"] = TRUE)
    BY <2>5, <2>6
  <2>8. Asked(h) = {"mfa"}
    BY <2>4, AskedFor
  <2>9. RequestOk(h, issued, bound)
    BY <1>1, <1>4, <2>4, <2>7, <2>8, NoneInserted, Counters DEF RequestOk, Ops, Roles
  <2> QED
    BY <1>1, <2>3, <2>4, <2>9, BeginKeeps DEF Acts
<1>6. CASE scope # "enroll"
  <2>1. PICK h : h = [Request("verify", "u") EXCEPT !.ok = ok]
    OBVIOUS
  <2>2. Serve(t, h)
    BY <1>3, <1>4, <1>6, <2>1
  <2>3. /\ DOMAIN h = Fields /\ h.op = "verify" /\ h.mfa \in BOOLEAN /\ h.secret \in 0..issued
        /\ DOMAIN h.sets = {} /\ h.had = NoBinding /\ h.gives = "viewer"
    BY <1>1, <2>1, Counters DEF Request, Idle, Fields, NoSecret
  <2>4. RequestOk(h, issued, bound)
    BY <1>1, <2>3, NoneInserted, Counters DEF RequestOk, Ops, Roles
  <2> QED
    BY <1>1, <2>2, <2>3, <2>4, BeginKeeps DEF Acts
<1> QED
  BY <1>5, <1>6

\* Who is admitted has the role the request needs.
LEMMA AdmittedMay ==
    ASSUME NEW actor, NEW op, NEW h, Admitted(actor, op), h.actor = actor,
           HasRole(op) => HasRole(h.op)
    PROVE  h.actor # "u" \/ h.op \notin Acts \ Entitled
<1>1. CASE actor = "root"
  BY <1>1
<1>2. CASE Guard(op) /\ h.op \in Acts
  BY <1>2 DEF Guard, Entitled
<1> QED
  BY <1>1, <1>2 DEF Admitted

LEMMA BeginUpdateKeeps ==
    ASSUME IInv, NEW t \in Threads, BeginUpdate(t)
    PROVE  IInv'
<1>0. Begins
  BY DEF BeginUpdate
<1>1. WellFormed /\ Begins /\ row.mfa \in BOOLEAN /\ row.secret \in 0..issued /\ 0 \in 0..issued
  BY <1>0, Counters DEF IInv, WellFormed, Row
<1>2. PICK actor \in {"u", "root"} :
         /\ Admitted(actor, "update")
         /\ \/ \E r \in Roles :
                 Serve(t, [Request("set role", actor) EXCEPT !.sets = Changed([role |-> r])])
            \/ \E d \in BOOLEAN :
                 Serve(t, [Request("switch", actor) EXCEPT !.sets = Changed([disabled |-> d])])
            \/ Serve(t, [Loaded("reset mfa", actor) EXCEPT
                            !.sets = Changed([secret |-> NoSecret, mfa |-> FALSE])])
  BY DEF BeginUpdate
<1>3. /\ HasRole("update") => HasRole("set role")
      /\ HasRole("update") => HasRole("switch")
      /\ HasRole("update") => HasRole("reset mfa")
  BY DEF HasRole
<1>4. ASSUME NEW r \in Roles,
             Serve(t, [Request("set role", actor) EXCEPT !.sets = Changed([role |-> r])])
      PROVE  IInv'
  <2>1. PICK e : e = Changed([role |-> r])
    OBVIOUS
  <2>2. PICK h : h = [Request("set role", actor) EXCEPT !.sets = e]
    OBVIOUS
  <2>3. /\ DOMAIN h = Fields /\ h.op = "set role" /\ h.actor = actor /\ h.mfa \in BOOLEAN
        /\ h.secret \in 0..issued /\ h.sets = e /\ h.had = NoBinding /\ h.gives = "viewer"
    BY <1>1, <2>2 DEF Request, Idle, Fields, NoSecret
  <2>4. DOMAIN e \subseteq {"role"} /\ ("role" \in DOMAIN e => e["role"] = r)
    BY <2>1 DEF Changed
  <2>5. Asked(h) = {"role"}
    BY <2>3, AskedFor
  <2>6. RequestOk(h, issued, bound)
    BY <2>3, <2>4, <2>5, <1>1, NoneInserted, Counters DEF RequestOk, Ops, Acts, Roles
  <2>7. h.actor # "u" \/ h.op \notin Acts \ Entitled
    BY <1>2, <1>3, <2>3, AdmittedMay
  <2> QED
    BY <1>1, <1>4, <2>1, <2>2, <2>6, <2>7, BeginKeeps
<1>5. ASSUME NEW d \in BOOLEAN,
             Serve(t, [Request("switch", actor) EXCEPT !.sets = Changed([disabled |-> d])])
      PROVE  IInv'
  <2>1. PICK e : e = Changed([disabled |-> d])
    OBVIOUS
  <2>2. PICK h : h = [Request("switch", actor) EXCEPT !.sets = e]
    OBVIOUS
  <2>3. /\ DOMAIN h = Fields /\ h.op = "switch" /\ h.actor = actor /\ h.mfa \in BOOLEAN
        /\ h.secret \in 0..issued /\ h.sets = e /\ h.had = NoBinding /\ h.gives = "viewer"
    BY <1>1, <2>2 DEF Request, Idle, Fields, NoSecret
  <2>4. DOMAIN e \subseteq {"disabled"} /\ ("disabled" \in DOMAIN e => e["disabled"] = d)
    BY <2>1 DEF Changed
  <2>5. Asked(h) = {"disabled"}
    BY <2>3, AskedFor
  <2>6. RequestOk(h, issued, bound)
    BY <2>3, <2>4, <2>5, <1>1, NoneInserted, Counters DEF RequestOk, Ops, Acts, Roles
  <2>7. h.actor # "u" \/ h.op \notin Acts \ Entitled
    BY <1>2, <1>3, <2>3, AdmittedMay
  <2> QED
    BY <1>1, <1>5, <2>1, <2>2, <2>6, <2>7, BeginKeeps
<1>6. CASE Serve(t, [Loaded("reset mfa", actor) EXCEPT
                         !.sets = Changed([secret |-> NoSecret, mfa |-> FALSE])])
  <2>1. PICK e : e = Changed([secret |-> NoSecret, mfa |-> FALSE])
    OBVIOUS
  <2>2. PICK h : h = [Loaded("reset mfa", actor) EXCEPT !.sets = e]
    OBVIOUS
  <2>3. /\ DOMAIN h = Fields /\ h.op = "reset mfa" /\ h.actor = actor /\ h.mfa = row.mfa
        /\ h.secret = row.secret /\ h.sets = e /\ h.had = NoBinding /\ h.gives = "viewer"
    BY <2>2 DEF Loaded, Request, Idle, Fields
  <2>4. /\ DOMAIN e \subseteq {"secret", "mfa"} /\ (row.mfa => "mfa" \in DOMAIN e)
        /\ ("secret" \in DOMAIN e => e["secret"] = NoSecret)
        /\ ("mfa" \in DOMAIN e => e["mfa"] = FALSE)
    BY <2>1, <1>1 DEF Changed
  <2>5. Asked(h) = {"secret", "mfa"}
    BY <2>3, AskedFor
  <2>6. RequestOk(h, issued, bound)
    BY <2>3, <2>4, <2>5, <1>1, NoneInserted, Counters DEF RequestOk, Ops, Acts, Roles
  <2>7. h.actor # "u" \/ h.op \notin Acts \ Entitled
    BY <1>2, <1>3, <2>3, AdmittedMay
  <2> QED
    BY <1>1, <1>6, <2>1, <2>2, <2>6, <2>7, BeginKeeps
<1> QED
  BY <1>2, <1>4, <1>5, <1>6

LEMMA BeginCreateKeeps ==
    ASSUME IInv, NEW t \in Threads, BeginCreate(t)
    PROVE  IInv'
<1>1. WellFormed /\ Begins /\ 0 \in 0..issued
  BY BoundsAssumption DEF IInv, WellFormed, BeginCreate
<1>2. PICK r \in Roles : Serve(t, [Request("create", "root") EXCEPT !.gives = r])
  BY DEF BeginCreate
<1>3. PICK h : h = [Request("create", "root") EXCEPT !.gives = r]
  OBVIOUS
<1>4. /\ DOMAIN h = Fields /\ h.op = "create" /\ h.mfa \in BOOLEAN /\ h.secret \in 0..issued
      /\ DOMAIN h.sets = {} /\ h.had = NoBinding /\ h.gives = r
  BY <1>1, <1>3 DEF Request, Idle, Fields, NoSecret
<1>5. RequestOk(h, issued, bound)
  BY <1>1, <1>4, NoneInserted, Counters DEF RequestOk, Ops
<1> QED
  BY <1>1, <1>2, <1>3, <1>4, <1>5, BeginKeeps DEF Acts

LEMMA BeginBindKeeps ==
    ASSUME IInv, NEW t \in Threads, BeginBind(t)
    PROVE  IInv'
<1>1. WellFormed /\ Begins /\ 0 \in 0..issued /\ Inserted(binding, bound)
  BY BoundsAssumption DEF IInv, WellFormed, BeginBind
<1>2. PICK actor \in {"u", "root"} :
         \E r \in Roles : 
           /\ Admitted(actor, "bind")
           /\ Serve(t, [Request("bind", actor) EXCEPT !.had = binding, !.gives = r])
  BY DEF BeginBind
<1>3. PICK r \in Roles :
         /\ Admitted(actor, "bind")
         /\ Serve(t, [Request("bind", actor) EXCEPT !.had = binding, !.gives = r])
  BY <1>2
<1>4. PICK h : h = [Request("bind", actor) EXCEPT !.had = binding, !.gives = r]
  OBVIOUS
<1>5. /\ DOMAIN h = Fields /\ h.op = "bind" /\ h.actor = actor /\ h.mfa \in BOOLEAN
      /\ h.secret \in 0..issued /\ DOMAIN h.sets = {} /\ h.had = binding /\ h.gives = r
  BY <1>1, <1>4 DEF Request, Idle, Fields, NoSecret
<1>6. RequestOk(h, issued, bound)
  BY <1>1, <1>5 DEF RequestOk, Ops, Acts
<1>7. h.actor # "u" \/ h.op \notin Acts \ Entitled
  BY <1>3, <1>5, AdmittedMay
<1> QED
  BY <1>1, <1>3, <1>4, <1>6, <1>7, BeginKeeps

LEMMA BeginOtherKeeps ==
    ASSUME IInv, NEW t \in Threads, BeginOther(t)
    PROVE  IInv'
<1>1. WellFormed /\ Begins /\ 0 \in 0..issued /\ Inserted(binding, bound)
  BY BoundsAssumption DEF IInv, WellFormed, BeginOther
<1>2. ASSUME NEW actor \in {"u", "root"}, Admitted(actor, "delete"),
             Serve(t, Request("delete", actor))
      PROVE  IInv'
  <2>1. PICK h : h = Request("delete", actor)
    OBVIOUS
  <2>2. /\ DOMAIN h = Fields /\ h.op = "delete" /\ h.actor = actor /\ h.mfa \in BOOLEAN
        /\ h.secret \in 0..issued /\ DOMAIN h.sets = {} /\ h.had = NoBinding
        /\ h.gives = "viewer"
    BY <1>1, <2>1 DEF Request, Idle, Fields, NoSecret
  <2>3. RequestOk(h, issued, bound)
    BY <1>1, <2>2, NoneInserted, Counters DEF RequestOk, Ops, Acts, Roles
  <2> QED
    BY <1>1, <1>2, <2>1, <2>2, <2>3, AdmittedMay, BeginKeeps
<1>3. ASSUME NEW actor \in {"u", "root"}, Admitted(actor, "unbind"),
             Serve(t, [Request("unbind", actor) EXCEPT !.had = binding])
      PROVE  IInv'
  <2>1. PICK h : h = [Request("unbind", actor) EXCEPT !.had = binding]
    OBVIOUS
  <2>2. /\ DOMAIN h = Fields /\ h.op = "unbind" /\ h.actor = actor /\ h.mfa \in BOOLEAN
        /\ h.secret \in 0..issued /\ DOMAIN h.sets = {} /\ h.had = binding
        /\ h.gives = "viewer"
    BY <1>1, <2>1 DEF Request, Idle, Fields, NoSecret
  <2>3. RequestOk(h, issued, bound)
    BY <1>1, <2>2 DEF RequestOk, Ops, Acts, Roles
  <2> QED
    BY <1>1, <1>3, <2>1, <2>2, <2>3, AdmittedMay, BeginKeeps
<1>4. ASSUME Guard("mutate"), Serve(t, Request("mutate", "u"))
      PROVE  IInv'
  <2>1. PICK h : h = Request("mutate", "u")
    OBVIOUS
  <2>2. /\ DOMAIN h = Fields /\ h.op = "mutate" /\ h.actor = "u" /\ h.mfa \in BOOLEAN
        /\ h.secret \in 0..issued /\ DOMAIN h.sets = {} /\ h.had = NoBinding
        /\ h.gives = "viewer"
    BY <1>1, <2>1 DEF Request, Idle, Fields, NoSecret
  <2>3. RequestOk(h, issued, bound)
    BY <1>1, <2>2, NoneInserted, Counters DEF RequestOk, Ops, Acts, Roles
  <2>4. Admitted("u", "mutate")
    BY <1>4 DEF Admitted
  <2> QED
    BY <1>1, <1>4, <2>1, <2>2, <2>3, <2>4, AdmittedMay, BeginKeeps
<1> QED
  BY <1>2, <1>3, <1>4 DEF BeginOther

-----------------------------------------------------------------------------
(* Requests end.                                                           *)

\* An idle slot is well formed and lacks nothing.
LEMMA IdleIsOk ==
    ASSUME NEW i \in Nat, NEW n \in Nat, NEW h, h = Idle
    PROVE  RequestOk(h, i, n) /\ h.op = "none"
<1>1. /\ DOMAIN h = Fields /\ h.op = "none" /\ h.mfa \in BOOLEAN /\ h.secret \in 0..i
      /\ DOMAIN h.sets = {} /\ h.had = NoBinding /\ h.gives = "viewer"
  BY DEF Idle, Fields, NoSecret
<1>2. RequestOk(h, i, n)
  BY <1>1, NoneInserted DEF RequestOk, Ops, Roles
<1> QED
  BY <1>1, <1>2

\* The slot of a request that ends is idle; the others keep what they have.
LEMMA EndKeeps ==
    ASSUME IInv, NEW t \in Threads, Ends(t), issued <= issued', bound <= bound',
           issued' \in Nat, bound' \in Nat
    PROVE  /\ request' = [u \in Threads |-> request'[u]]
           /\ \A u \in Threads : RequestOk(request'[u], issued', bound')
           /\ request'[t].op = "none" /\ \A u \in Threads \ {t} : request'[u] = request[u]
<1>1. PICK h : h = Idle
  OBVIOUS
<1>2. Serve(t, h) /\ WellFormed
  BY <1>1 DEF Ends, IInv
<1>3. RequestOk(h, issued', bound') /\ h.op = "none"
  BY <1>1, IdleIsOk
<1> QED
  BY <1>2, <1>3, ServeKeeps

\* A request ends that may always be made: no fewer rights, no later acts.
LEMMA NotLate ==
    ASSUME IInv, NEW t \in Threads, request'[t].op = "none",
           \A u \in Threads \ {t} : request'[u] = request[u],
           Entitled \subseteq Entitled', late' = late
    PROVE  LateOrLacking' /\ late' \in Nat
<1>1. Lacking' \subseteq Lacking
  <2> SUFFICES ASSUME NEW u \in Threads, request'[u].actor = "u",
                      request'[u].op \in Acts \ Entitled'
               PROVE  u \in Lacking
    BY DEF Lacking
  <2>1. u # t
    BY DEF Acts
  <2> QED
    BY <2>1 DEF Lacking
<1>2. late \in Nat /\ LateOrLacking
  BY DEF IInv, WellFormed
<1> QED
  BY <1>1, <1>2, LackingShrinks

\* A request ends that needs a role: it was late, or the rights of u have changed, or not.
LEMMA CountLateKeeps ==
    ASSUME IInv, NEW t \in Threads, request'[t].op = "none",
           \A u \in Threads \ {t} : request'[u] = request[u],
           request[t].op \in Acts, CountLate(request[t])
    PROVE  LateOrLacking' /\ late' \in Nat
<1>1. late \in Nat /\ LateOrLacking
  BY DEF IInv, WellFormed
<1>2. Cardinality(Threads) \in Nat /\ Cardinality(Lacking) \in Nat /\ IsFiniteSet(Lacking)
  BY LackingFinite
<1>3. t \notin Lacking'
  BY DEF Lacking, Acts
<1>4. CASE row' # row \/ binding' # binding
  <2>1. late' = 0
    BY <1>4 DEF CountLate
  <2>2. Lacking' \subseteq Threads \ {t}
    BY <1>3 DEF Lacking
  <2>3. /\ IsFiniteSet(Threads \ {t})
        /\ Cardinality(Threads \ {t}) = Cardinality(Threads) - 1
    BY ThreadsAssumption, FS_RemoveElement
  <2>4. Cardinality(Lacking') <= Cardinality(Threads \ {t}) /\ IsFiniteSet(Lacking')
    BY <2>2, <2>3, FS_Subset
  <2>5. Cardinality(Lacking') \in Nat
    BY <2>4, FS_CardinalityType
  <2>6. LateOrLacking'
    BY <1>2, <2>1, <2>3, <2>4, <2>5 DEF LateOrLacking
  <2> QED
    BY <2>1, <2>6
<1>5. CASE ~(row' # row \/ binding' # binding)
  <2>1. Entitled' = Entitled
    BY <1>5, SameRights
  <2>2. Lacking' = Lacking \ {t}
    BY <1>3, <2>1 DEF Lacking
  <2>3. t \in Lacking <=> /\ request[t].actor = "u"
                          /\ ~(Live /\ ~row.disabled /\ HasRole(request[t].op))
    BY DEF Lacking, Entitled
  <2>4. CASE t \in Lacking
    <3>1. late' = late + 1
      BY <1>5, <2>3, <2>4 DEF CountLate
    <3>2. Cardinality(Lacking') = Cardinality(Lacking) - 1
      BY <1>2, <2>2, <2>4, FS_RemoveElement
    <3>3. LateOrLacking'
      BY <1>1, <1>2, <3>1, <3>2 DEF LateOrLacking
    <3> QED
      BY <1>1, <3>1, <3>3
  <2>5. CASE t \notin Lacking
    <3>1. late' = late
      BY <1>5, <2>3, <2>5 DEF CountLate
    <3> QED
      BY <2>1, <3>1, NotLate
  <2> QED
    BY <2>4, <2>5
<1> QED
  BY <1>4, <1>5

LEMMA LoginSucceedsKeeps ==
    ASSUME IInv, NEW t \in Threads, LoginSucceeds(t)
    PROVE  IInv'
<1>1. /\ Ends(t) /\ UNCHANGED <<row, binding, issued, bound, confirmed, overlapped, late>>
      /\ tokens' \subseteq tokens \cup {"mfa", "enroll"}
  BY DEF LoginSucceeds
<1>2. WellFormed /\ issued \in Nat /\ bound \in Nat
  BY Counters DEF IInv
<1>3. /\ request' = [u \in Threads |-> request'[u]]
      /\ \A u \in Threads : RequestOk(request'[u], issued', bound')
      /\ request'[t].op = "none" /\ \A u \in Threads \ {t} : request'[u] = request[u]
  BY <1>1, <1>2, EndKeeps
<1>4. WellFormed'
  BY <1>1, <1>2, <1>3 DEF WellFormed, Live
<1>5. LateOrLacking'
  BY <1>1, <1>3, SameRights, NotLate
<1>6. MfaMeansConfirmed'
  BY <1>1 DEF IInv, MfaMeansConfirmed
<1> QED
  BY <1>4, <1>5, <1>6 DEF IInv

LEMMA FailsKeeps ==
    ASSUME IInv, NEW t \in Threads, Fails(t)
    PROVE  IInv'
<1>1. /\ Ends(t)
      /\ UNCHANGED <<row, binding, tokens, issued, bound, confirmed, overlapped, late>>
  BY DEF Fails
<1>2. WellFormed /\ issued \in Nat /\ bound \in Nat
  BY Counters DEF IInv
<1>3. /\ request' = [u \in Threads |-> request'[u]]
      /\ \A u \in Threads : RequestOk(request'[u], issued', bound')
      /\ request'[t].op = "none" /\ \A u \in Threads \ {t} : request'[u] = request[u]
  BY <1>1, <1>2, EndKeeps
<1>4. WellFormed'
  BY <1>1, <1>2, <1>3 DEF WellFormed, Live
<1>5. LateOrLacking'
  BY <1>1, <1>3, SameRights, NotLate
<1>6. MfaMeansConfirmed'
  BY <1>1 DEF IInv, MfaMeansConfirmed
<1> QED
  BY <1>4, <1>5, <1>6 DEF IInv

\* A column changes only to what the request writes in it.
LEMMA RowWritten ==
    ASSUME WellFormed, NEW h, RequestOk(h, issued, bound), row' = row \/ row' = Merged(h)
    PROVE  /\ row' \in Row /\ row'.status = row.status /\ row'.secret <= issued
           /\ \A c \in Columns : row'[c] = row[c] \/ (c \in DOMAIN h.sets /\ row'[c] = h.sets[c])
           /\ row'.mfa /\ ~row.mfa => h.op = "confirm"
           /\ row'.secret # row.secret => row'.secret = NoSecret /\ h.op \in {"enroll", "reset mfa"}
<1>1. /\ row \in Row /\ row.secret <= issued
      /\ issued \in Nat /\ row.secret \in Nat /\ MaxSecrets \in Nat
  BY Counters, BoundsAssumption DEF WellFormed, Row
<1>2. /\ DOMAIN h.sets \subseteq Asked(h)
      /\ "role" \in DOMAIN h.sets => h.sets["role"] \in Roles
      /\ "disabled" \in DOMAIN h.sets => h.sets["disabled"] \in BOOLEAN
      /\ "secret" \in DOMAIN h.sets => h.sets["secret"] = NoSecret
      /\ "mfa" \in DOMAIN h.sets => h.sets["mfa"] = (h.op = "confirm")
  BY DEF RequestOk
<1>3. DOMAIN h.sets \subseteq Columns
  BY <1>2, AskedFor DEF Columns
<1>4. Fits(h.sets)
  <2>1. "mfa" \in DOMAIN h.sets => h.sets["mfa"] \in BOOLEAN
    BY <1>2
  <2>2. "secret" \in DOMAIN h.sets => h.sets["secret"] \in 0..MaxSecrets
    BY <1>1, <1>2 DEF NoSecret
  <2> QED
    BY <1>2, <1>3, <2>1, <2>2 DEF Fits
<1>5. CASE row' = row
  BY <1>1, <1>5
<1>6. CASE row' = Merged(h)
  <2>1. /\ row' \in Row /\ row'.status = row.status
        /\ \A c \in Columns : row'[c] = IF c \in DOMAIN h.sets THEN h.sets[c] ELSE row[c]
    BY <1>1, <1>4, <1>6, MergedRow
  <2>2. row'.secret = row.secret \/ (row'.secret = NoSecret /\ "secret" \in DOMAIN h.sets)
    BY <1>2, <2>1 DEF Columns
  <2>3. row'.mfa = row.mfa \/ ("mfa" \in DOMAIN h.sets /\ row'.mfa = (h.op = "confirm"))
    BY <1>2, <2>1 DEF Columns
  <2>4. row'.secret <= issued
    BY <1>1, <2>2 DEF NoSecret
  <2>5. "secret" \in DOMAIN h.sets => h.op \in {"enroll", "reset mfa"}
    <3>1. "secret" \in DOMAIN h.sets => "secret" \in Asked(h)
      BY <1>2
    <3>2. \/ Asked(h) = {} \/ Asked(h) = {"role"} \/ Asked(h) = {"disabled"} \/ Asked(h) = {"mfa"}
          \/ h.op \in {"enroll", "reset mfa"}
      BY AskedFor
    <3>3. CASE h.op \in {"enroll", "reset mfa"}
      BY <3>3
    <3>4. CASE Asked(h) = {} \/ Asked(h) = {"role"} \/ Asked(h) = {"disabled"} \/ Asked(h) = {"mfa"}
      <4>1. "secret" \notin Asked(h)
        BY <3>4
      <4> QED
        BY <3>1, <4>1
    <3> QED
      BY <3>2, <3>3, <3>4
  <2>6. row'.mfa /\ ~row.mfa => h.op = "confirm"
    BY <2>1, <1>1, <2>3 DEF Row
  <2> QED
    BY <2>1, <2>2, <2>4, <2>5, <2>6
<1> QED
  BY <1>5, <1>6

LEMMA UpdatesKeeps ==
    ASSUME IInv, NEW t \in Threads, Updates(t)
    PROVE  IInv'
<1>1. PICK h : h = request[t]
  OBVIOUS
<1>2. /\ Ends(t) /\ h.op \in {"set role", "switch", "reset mfa"}
      /\ (row' = row \/ row' = Merged(h))
      /\ binding' = binding /\ CountLate(request[t])
      /\ UNCHANGED <<tokens, issued, bound, confirmed>>
      /\ overlapped' = (overlapped \/ (h.op = "reset mfa" /\ Overlaps(h)))
  BY <1>1 DEF Updates
<1>3. WellFormed /\ issued \in Nat /\ bound \in Nat /\ RequestOk(h, issued, bound)
  BY <1>1, Counters DEF IInv, WellFormed
<1>4. /\ request' = [u \in Threads |-> request'[u]]
      /\ \A u \in Threads : RequestOk(request'[u], issued', bound')
      /\ request'[t].op = "none" /\ \A u \in Threads \ {t} : request'[u] = request[u]
  <2>1. Ends(t) /\ issued' = issued /\ bound' = bound
    BY <1>2
  <2> QED
    BY <1>3, <2>1, EndKeeps
<1>5. /\ row' \in Row /\ row'.status = row.status /\ row'.secret <= issued
      /\ row'.mfa /\ ~row.mfa => h.op = "confirm"
      /\ row'.secret # row.secret => row'.secret = NoSecret /\ h.op \in {"enroll", "reset mfa"}
      /\ \A c \in Columns : row'[c] = row[c] \/ (c \in DOMAIN h.sets /\ row'[c] = h.sets[c])
  BY <1>2, <1>3, RowWritten
<1>6. LateOrLacking' /\ late' \in Nat
  BY <1>1, <1>2, <1>4, CountLateKeeps DEF Acts
<1>7. WellFormed'
  BY <1>2, <1>3, <1>4, <1>5, <1>6 DEF WellFormed, Live
<1>8. MfaMeansConfirmed'
  <2> SUFFICES ASSUME row'.mfa PROVE row'.secret \in confirmed \/ overlapped'
    BY <1>2 DEF MfaMeansConfirmed
  <2>1. row.mfa /\ (row.secret \in confirmed \/ overlapped)
    BY <1>2, <1>5 DEF IInv, MfaMeansConfirmed
  <2>2. CASE row'.secret = row.secret \/ overlapped
    BY <1>2, <2>1, <2>2
  <2>3. CASE row'.secret # row.secret
    <3>1. h.op = "reset mfa" /\ row' = Merged(h)
      BY <1>2, <1>5, <2>3
    <3>2. "mfa" \notin DOMAIN h.sets
      <4> SUFFICES ASSUME "mfa" \in DOMAIN h.sets PROVE FALSE
        OBVIOUS
      <4>1. Merged(h).mfa = h.sets["mfa"]
        BY <1>3 DEF Merged, WellFormed, Row
      <4>2. ~h.sets["mfa"]
        BY <1>3, <3>1 DEF RequestOk
      <4> QED
        BY <3>1, <4>1, <4>2
    <3>3. ~h.mfa
      BY <1>3, <3>1, <3>2 DEF RequestOk
    <3>4. Overlaps(h)
      BY <2>1, <3>3 DEF Overlaps
    <3> QED
      BY <1>2, <3>1, <3>4
  <2> QED
    BY <2>2, <2>3
<1> QED
  BY <1>6, <1>7, <1>8 DEF IInv

\* An enrolment that commits: the row as it was loaded, with a new secret and MFA off.
LEMMA EnrollsKeeps ==
    ASSUME IInv, NEW t \in Threads, Enrolls(t)
    PROVE  IInv'
<1>1. PICK e : e = Enrolled(request[t])
  OBVIOUS
<1>2. PICK h : h = [request[t] EXCEPT !.sets = e]
  OBVIOUS
<1>3. /\ Ends(t) /\ request[t].op = "enroll" /\ issued' = issued + 1 /\ issued < MaxSecrets
      /\ row' = IF Stale(h) THEN row ELSE Merged(h)
      /\ overlapped' = (overlapped \/ Overlaps(h))
      /\ UNCHANGED <<binding, tokens, bound, confirmed, late>>
  BY <1>1, <1>2 DEF Enrolls
<1>4. WellFormed /\ issued \in Nat /\ bound \in Nat /\ RequestOk(request[t], issued, bound)
  BY Counters DEF IInv, WellFormed
<1>5. MaxSecrets \in Nat /\ row \in Row /\ row.mfa \in BOOLEAN /\ row.secret \in Nat
  BY <1>4, BoundsAssumption DEF WellFormed, Row
<1>6. issued' \in Nat /\ bound' \in Nat /\ issued <= issued' /\ bound <= bound'
      /\ issued' \in 0..MaxSecrets
  BY <1>3, <1>4, <1>5
<1>7. /\ request' = [u \in Threads |-> request'[u]]
      /\ \A u \in Threads : RequestOk(request'[u], issued', bound')
      /\ request'[t].op = "none" /\ \A u \in Threads \ {t} : request'[u] = request[u]
  BY <1>3, <1>6, EndKeeps
<1>8. h.sets = e /\ h.mfa = request[t].mfa /\ h.secret = request[t].secret
  BY <1>2, <1>4 DEF RequestOk, Fields
<1>9. /\ DOMAIN e = (IF request[t].mfa THEN {"secret", "mfa"} ELSE {"secret"})
      /\ e["secret"] = issued + 1 /\ ("mfa" \in DOMAIN e => e["mfa"] = FALSE)
  BY <1>1 DEF Enrolled
<1>10. Fits(h.sets)
  <2>1. issued + 1 \in 0..MaxSecrets
    BY <1>3, <1>4, <1>5
  <2>2. DOMAIN h.sets \subseteq Columns /\ "role" \notin DOMAIN h.sets
        /\ "disabled" \notin DOMAIN h.sets
    BY <1>8, <1>9 DEF Columns
  <2>3. h.sets["secret"] \in 0..MaxSecrets /\ ("mfa" \in DOMAIN h.sets => h.sets["mfa"] \in BOOLEAN)
    BY <2>1, <1>8, <1>9
  <2> QED
    BY <2>2, <2>3 DEF Fits
<1>11. /\ Merged(h) \in Row /\ Merged(h).status = row.status
       /\ \A c \in Columns : Merged(h)[c] = IF c \in DOMAIN h.sets THEN h.sets[c] ELSE row[c]
  BY <1>5, <1>10, MergedRow
<1>12. /\ Merged(h).secret = issued + 1 /\ Merged(h).role = row.role
       /\ Merged(h).disabled = row.disabled
       /\ Merged(h).mfa = IF h.mfa THEN FALSE ELSE row.mfa
  BY <1>8, <1>9, <1>11 DEF Columns
<1>13. /\ row' \in Row /\ row'.status = row.status /\ row'.role = row.role
       /\ row'.disabled = row.disabled /\ row'.secret <= issued'
  BY <1>3, <1>4, <1>5, <1>11, <1>12 DEF WellFormed
<1>14. Entitled' = Entitled
  BY <1>3, <1>13, SameRights
<1>15. LateOrLacking' /\ late' \in Nat
  BY <1>3, <1>7, <1>14, NotLate
<1>16. WellFormed'
  BY <1>3, <1>4, <1>6, <1>7, <1>13, <1>15 DEF WellFormed, Live
<1>17. MfaMeansConfirmed'
  <2> SUFFICES ASSUME row'.mfa PROVE row'.secret \in confirmed \/ overlapped'
    BY <1>3 DEF MfaMeansConfirmed
  <2>1. CASE row' = row
    BY <1>3, <2>1 DEF IInv, MfaMeansConfirmed
  <2>2. CASE row' = Merged(h)
    <3>1. ~h.mfa /\ row.mfa
      BY <1>12, <2>2
    <3> QED
      BY <1>3, <3>1 DEF Overlaps
  <2> QED
    BY <1>3, <2>1, <2>2
<1> QED
  BY <1>15, <1>16, <1>17 DEF IInv

LEMMA VerifySucceedsKeeps ==
    ASSUME IInv, NEW t \in Threads, VerifySucceeds(t)
    PROVE  IInv'
<1>1. PICK h : h = request[t]
  OBVIOUS
<1>2. /\ Ends(t) /\ h.op \in {"confirm", "verify"} /\ h.ok
      /\ \/ UNCHANGED <<row, tokens, confirmed, overlapped>>
         \/ /\ row' = Merged(h)
            /\ confirmed' = IF h.op = "confirm" THEN confirmed \cup {h.secret} ELSE confirmed
            /\ overlapped' = (overlapped \/ (h.op = "confirm" /\ Overlaps(h)))
            /\ tokens' = tokens \cup {"full"}
      /\ UNCHANGED <<binding, issued, bound, late>>
  BY <1>1 DEF VerifySucceeds
<1>3. WellFormed /\ issued \in Nat /\ bound \in Nat /\ RequestOk(h, issued, bound)
  BY <1>1, Counters DEF IInv, WellFormed
<1>4. /\ request' = [u \in Threads |-> request'[u]]
      /\ \A u \in Threads : RequestOk(request'[u], issued', bound')
      /\ request'[t].op = "none" /\ \A u \in Threads \ {t} : request'[u] = request[u]
  <2>1. Ends(t) /\ issued' = issued /\ bound' = bound
    BY <1>2
  <2> QED
    BY <1>3, <2>1, EndKeeps
<1>5. row' = row \/ row' = Merged(h)
  BY <1>2
<1>6. /\ row' \in Row /\ row'.status = row.status /\ row'.secret <= issued
      /\ row'.mfa /\ ~row.mfa => h.op = "confirm"
      /\ row'.secret # row.secret => row'.secret = NoSecret /\ h.op \in {"enroll", "reset mfa"}
      /\ \A c \in Columns : row'[c] = row[c] \/ (c \in DOMAIN h.sets /\ row'[c] = h.sets[c])
  BY <1>3, <1>5, RowWritten
<1>7. DOMAIN h.sets \subseteq {"mfa"}
  BY <1>2, <1>3, AskedFor DEF RequestOk
<1>8. row'.secret = row.secret /\ row'.role = row.role /\ row'.disabled = row.disabled
  BY <1>6, <1>7 DEF Columns
<1>9. Entitled' = Entitled
  BY <1>2, <1>6, <1>8, SameRights
<1>10. LateOrLacking' /\ late' \in Nat
  <2>1. late' = late
    BY <1>2
  <2> QED
    BY <1>4, <1>9, <2>1, NotLate
<1>11. confirmed' \subseteq 1..issued
  <2>1. h.op = "confirm" => h.secret \in 1..issued
    BY <1>2, <1>3 DEF RequestOk, NoSecret
  <2> QED
    BY <1>2, <1>3, <2>1 DEF WellFormed
<1>12. WellFormed'
  BY <1>2, <1>3, <1>4, <1>6, <1>10, <1>11 DEF WellFormed, Live
<1>13. MfaMeansConfirmed'
  <2> SUFFICES ASSUME row'.mfa PROVE row'.secret \in confirmed' \/ overlapped'
    BY DEF MfaMeansConfirmed
  <2>0. confirmed \subseteq confirmed'
    BY <1>2
  <2>1. overlapped => overlapped'
    BY <1>2, Zenon
  <2>2. CASE row.mfa
    BY <1>8, <2>0, <2>1, <2>2 DEF IInv, MfaMeansConfirmed
  <2>3. CASE ~row.mfa
    <3>1. h.op = "confirm" /\ row' # row
      BY <1>6, <2>3
    <3>2. h.secret \in confirmed' /\ (Overlaps(h) => overlapped')
      BY <1>2, <3>1
    <3> QED
      BY <1>8, <3>2 DEF Overlaps
  <2> QED
    BY <2>2, <2>3
<1> QED
  BY <1>10, <1>12, <1>13 DEF IInv

LEMMA CreatesKeeps ==
    ASSUME IInv, NEW t \in Threads, Creates(t)
    PROVE  IInv'
<1>1. /\ Ends(t) /\ request[t].op = "create"
      /\ row' = IF row = Unborn THEN [row EXCEPT !.status = "live", !.role = request[t].gives]
                ELSE row
      /\ UNCHANGED <<binding, tokens, issued, bound, confirmed, overlapped, late>>
  BY DEF Creates
<1>2. /\ WellFormed /\ issued \in Nat /\ bound \in Nat /\ MaxSecrets \in Nat
      /\ request[t].gives \in Roles
  BY Counters, BoundsAssumption DEF IInv, WellFormed, RequestOk
<1>3. /\ request' = [u \in Threads |-> request'[u]]
      /\ \A u \in Threads : RequestOk(request'[u], issued', bound')
      /\ request'[t].op = "none" /\ \A u \in Threads \ {t} : request'[u] = request[u]
  <2>1. Ends(t) /\ issued' = issued /\ bound' = bound
    BY <1>1
  <2> QED
    BY <1>2, <2>1, EndKeeps
<1>4. CASE row = Unborn
  <2>1. /\ row'.status = "live" /\ row'.role = request[t].gives /\ row'.disabled = FALSE
        /\ row'.secret = NoSecret /\ row'.mfa = FALSE
        /\ row' = [status |-> row'.status, role |-> row'.role, disabled |-> row'.disabled,
                   secret |-> row'.secret, mfa |-> row'.mfa]
    BY <1>1, <1>4 DEF Unborn
  <2>2. NoSecret \in 0..MaxSecrets /\ NoSecret <= issued
    BY <1>2 DEF NoSecret
  <2>3. row' \in Row
    BY <1>2, <2>1, <2>2 DEF Row
  <2>4. ~Live
    BY <1>4 DEF Unborn, Live
  <2>5. Entitled \subseteq Entitled'
    BY <2>4 DEF Entitled
  <2>6. LateOrLacking' /\ late' \in Nat
    <3>1. late' = late
      BY <1>1
    <3> QED
      BY <1>3, <2>5, <3>1, NotLate
  <2>7. WellFormed'
    BY <1>1, <1>2, <1>3, <2>1, <2>2, <2>3, <2>6 DEF WellFormed, Live
  <2>8. MfaMeansConfirmed'
    BY <2>1 DEF MfaMeansConfirmed
  <2> QED
    BY <2>6, <2>7, <2>8 DEF IInv
<1>5. CASE row # Unborn
  <2>1. UNCHANGED <<row, binding, tokens, issued, bound, confirmed, overlapped, late>>
    BY <1>1, <1>5
  <2>2. LateOrLacking' /\ late' \in Nat
    BY <1>3, <2>1, SameRights, NotLate
  <2>3. WellFormed'
    BY <1>2, <1>3, <2>1 DEF WellFormed, Live
  <2>4. MfaMeansConfirmed'
    BY <2>1 DEF IInv, MfaMeansConfirmed
  <2> QED
    BY <2>2, <2>3, <2>4 DEF IInv
<1> QED
  BY <1>4, <1>5

LEMMA DeletesKeeps ==
    ASSUME IInv, NEW t \in Threads, Deletes(t)
    PROVE  IInv'
<1>1. /\ Ends(t) /\ request[t].op \in Acts /\ CountLate(request[t])
      /\ row' = [Unborn EXCEPT !.status = "gone"] /\ binding' = NoBinding
      /\ UNCHANGED <<tokens, issued, bound, confirmed, overlapped>>
  BY DEF Deletes, Acts
<1>2. WellFormed /\ issued \in Nat /\ bound \in Nat /\ MaxSecrets \in Nat
  BY Counters, BoundsAssumption DEF IInv
<1>3. /\ request' = [u \in Threads |-> request'[u]]
      /\ \A u \in Threads : RequestOk(request'[u], issued', bound')
      /\ request'[t].op = "none" /\ \A u \in Threads \ {t} : request'[u] = request[u]
  <2>1. Ends(t) /\ issued' = issued /\ bound' = bound
    BY <1>1
  <2> QED
    BY <1>2, <2>1, EndKeeps
<1>4. LateOrLacking' /\ late' \in Nat
  BY <1>1, <1>3, CountLateKeeps
<1>5. /\ row'.status = "gone" /\ row'.role = "viewer" /\ row'.disabled = FALSE
      /\ row'.secret = 0 /\ row'.mfa = FALSE
      /\ row' = [status |-> row'.status, role |-> row'.role, disabled |-> row'.disabled,
                 secret |-> row'.secret, mfa |-> row'.mfa]
  BY <1>1 DEF Unborn, NoSecret
<1>6. row' \in Row /\ row'.secret <= issued
  <2>1. row'.secret \in 0..MaxSecrets /\ row'.secret <= issued
    BY <1>2, <1>5
  <2>2. row'.status \in {"unborn", "live", "gone"} /\ row'.role \in Roles
    BY <1>5 DEF Roles
  <2>3. row'.disabled \in BOOLEAN /\ row'.mfa \in BOOLEAN
    BY <1>5
  <2> QED
    BY <1>5, <2>1, <2>2, <2>3 DEF Row
<1>7. Inserted(binding', bound')
  BY <1>1, <1>2, NoneInserted
<1>8. WellFormed'
  BY <1>1, <1>2, <1>3, <1>4, <1>6, <1>7 DEF WellFormed
<1>9. MfaMeansConfirmed'
  BY <1>5 DEF MfaMeansConfirmed
<1> QED
  BY <1>4, <1>8, <1>9 DEF IInv

\* A request that acts on the binding only, or on neither.
LEMMA BindingKeeps ==
    ASSUME IInv, NEW t \in Threads, Ends(t), request[t].op \in Acts, CountLate(request[t]),
           row' = row, bound <= bound', bound' \in 0..MaxBindings,
           Inserted(binding', bound'), binding' # NoBinding => Live,
           UNCHANGED <<tokens, issued, confirmed, overlapped>>
    PROVE  IInv'
<1>1. WellFormed /\ issued \in Nat /\ bound \in Nat /\ bound' \in Nat
  BY Counters, BoundsAssumption DEF IInv
<1>2. /\ request' = [u \in Threads |-> request'[u]]
      /\ \A u \in Threads : RequestOk(request'[u], issued', bound')
      /\ request'[t].op = "none" /\ \A u \in Threads \ {t} : request'[u] = request[u]
  BY <1>1, EndKeeps
<1>3. LateOrLacking' /\ late' \in Nat
  BY <1>2, CountLateKeeps
<1>4. WellFormed'
  BY <1>1, <1>2, <1>3 DEF WellFormed, Live
<1>5. MfaMeansConfirmed'
  BY DEF IInv, MfaMeansConfirmed
<1> QED
  BY <1>3, <1>4, <1>5 DEF IInv

LEMMA BindsKeeps ==
    ASSUME IInv, NEW t \in Threads, Binds(t)
    PROVE  IInv'
<1>1. PICK h : h = request[t]
  OBVIOUS
<1>2. /\ Ends(t) /\ request[t].op \in Acts /\ CountLate(request[t]) /\ row' = row
      /\ UNCHANGED <<tokens, issued, confirmed, overlapped>>
  BY DEF Binds, Acts
<1>3. \/ /\ h.had = NoBinding /\ Live /\ binding = NoBinding /\ bound < MaxBindings
         /\ binding' = [id |-> bound + 1, role |-> h.gives]
         /\ bound' = bound + 1
      \/ /\ h.had # NoBinding /\ binding.id = h.had.id
         /\ binding' = [binding EXCEPT !.role = h.gives]
         /\ bound' = bound
      \/ UNCHANGED <<binding, bound>>
  BY <1>1 DEF Binds
<1>4. /\ RequestOk(h, issued, bound) /\ bound \in Nat /\ MaxBindings \in Nat
      /\ bound \in 0..MaxBindings /\ Inserted(binding, bound) /\ (binding # NoBinding => Live)
  BY <1>1, Counters, BoundsAssumption DEF IInv, WellFormed
<1>5. h.gives \in Roles /\ Inserted(h.had, bound)
  BY <1>4 DEF RequestOk
<1>6. CASE /\ h.had = NoBinding /\ Live /\ binding = NoBinding /\ bound < MaxBindings
           /\ binding' = [id |-> bound + 1, role |-> h.gives]
           /\ bound' = bound + 1
  <2>1. bound' \in 0..MaxBindings /\ bound <= bound' /\ bound' \in Nat
    BY <1>4, <1>6
  <2>2. Inserted(binding', bound')
    BY <1>4, <1>5, <1>6, <2>1 DEF Inserted
  <2> QED
    BY <1>2, <1>6, <2>1, <2>2, BindingKeeps
<1>7. CASE /\ h.had # NoBinding /\ binding.id = h.had.id
           /\ binding' = [binding EXCEPT !.role = h.gives]
           /\ bound' = bound
  <2>1. h.had.id # 0
    BY <1>5, <1>7 DEF Inserted
  <2>2. binding # NoBinding
    BY <1>7, <2>1 DEF NoBinding
  <2>3. binding' = [id |-> binding.id, role |-> h.gives]
    BY <1>4, <1>7 DEF Inserted
  <2>4. Inserted(binding', bound')
    BY <1>4, <1>5, <1>7, <2>1, <2>3 DEF Inserted
  <2>5. bound' \in 0..MaxBindings /\ bound <= bound'
    BY <1>4, <1>7
  <2> QED
    BY <1>2, <1>4, <2>2, <2>4, <2>5, BindingKeeps
<1>8. CASE UNCHANGED <<binding, bound>>
  <2>1. bound' \in 0..MaxBindings /\ bound <= bound' /\ Inserted(binding', bound')
    BY <1>4, <1>8
  <2> QED
    BY <1>2, <1>4, <1>8, <2>1, BindingKeeps
<1> QED
  BY <1>3, <1>6, <1>7, <1>8

LEMMA UnbindsKeeps ==
    ASSUME IInv, NEW t \in Threads, Unbinds(t)
    PROVE  IInv'
<1>1. /\ Ends(t) /\ request[t].op \in Acts /\ CountLate(request[t]) /\ row' = row
      /\ UNCHANGED <<tokens, issued, bound, confirmed, overlapped>>
      /\ (binding' = NoBinding \/ binding' = binding)
  BY DEF Unbinds, Acts
<1>2. /\ bound \in Nat /\ bound \in 0..MaxBindings
      /\ Inserted(binding, bound) /\ (binding # NoBinding => Live)
  BY Counters DEF IInv, WellFormed
<1>3. /\ bound <= bound' /\ bound' \in 0..MaxBindings /\ Inserted(binding', bound')
      /\ (binding' # NoBinding => Live)
  BY <1>1, <1>2, NoneInserted
<1> QED
  BY <1>1, <1>3, BindingKeeps

LEMMA MutatesKeeps ==
    ASSUME IInv, NEW t \in Threads, Mutates(t)
    PROVE  IInv'
<1>1. /\ Ends(t) /\ request[t].op \in Acts /\ CountLate(request[t]) /\ row' = row
      /\ UNCHANGED <<tokens, issued, bound, confirmed, overlapped>>
      /\ binding' = binding
  BY DEF Mutates, Acts
<1>2. /\ bound \in Nat /\ bound \in 0..MaxBindings
      /\ Inserted(binding, bound) /\ (binding # NoBinding => Live)
  BY Counters DEF IInv, WellFormed
<1>3. /\ bound <= bound' /\ bound' \in 0..MaxBindings /\ Inserted(binding', bound')
      /\ (binding' # NoBinding => Live)
  BY <1>1, <1>2
<1> QED
  BY <1>1, <1>3, BindingKeeps

-----------------------------------------------------------------------------
(* The invariant.                                                          *)

LEMMA InitEstablishes == Init => IInv
<1> SUFFICES ASSUME Init PROVE IInv
  OBVIOUS
<1>1. /\ row = Unborn /\ binding = NoBinding /\ tokens = {}
      /\ request = [t \in Threads |-> Idle]
      /\ issued = 0 /\ bound = 0 /\ confirmed = {} /\ overlapped = FALSE /\ late = 0
  BY DEF Init
<1>2. \A t \in Threads : RequestOk(request[t], 0, 0) /\ request[t].op = "none"
  <2>1. PICK h : h = Idle
    OBVIOUS
  <2>2. RequestOk(h, 0, 0) /\ h.op = "none"
    BY <2>1, IdleIsOk
  <2> QED
    BY <1>1, <2>1, <2>2
<1>3. request = [t \in Threads |-> request[t]]
  BY <1>1
<1>4. row \in Row /\ row.secret <= issued /\ ~row.mfa
  <2>1. 0 \in 0..MaxSecrets
    BY BoundsAssumption
  <2> QED
    BY <1>1, <2>1 DEF Row, Unborn, NoSecret, Roles
<1>5. Inserted(binding, bound)
  BY <1>1, NoneInserted
<1>6. WellFormed
  BY <1>1, <1>2, <1>3, <1>4, <1>5, BoundsAssumption DEF WellFormed
<1>7. Lacking = {}
  BY <1>2 DEF Lacking, Acts
<1>8. Cardinality(Threads) > 0
  <2>1. Cardinality(Threads) \in Nat /\ Cardinality(Threads) # 0
    BY ThreadsAssumption, FS_EmptySet, FS_CardinalityType
  <2> QED
    BY <2>1
<1>9. LateOrLacking
  BY <1>1, <1>7, <1>8, LackingFinite, FS_EmptySet DEF LateOrLacking
<1>10. MfaMeansConfirmed
  BY <1>4 DEF MfaMeansConfirmed
<1> QED
  BY <1>6, <1>9, <1>10 DEF IInv

LEMMA StepPreserves == IInv /\ [Next]_vars => IInv'
<1> SUFFICES ASSUME IInv, [Next]_vars PROVE IInv'
  OBVIOUS
<1>1. CASE UNCHANGED vars
  BY <1>1 DEF IInv, WellFormed, MfaMeansConfirmed, LateOrLacking, Lacking, Entitled, Live,
              HasRole, EffectiveRole, vars
<1>2. CASE Next
  <2>1. PICK t \in Threads : Begin(t) \/ End(t)
    BY <1>2 DEF Next
  <2>2. CASE Begin(t)
    BY <2>2, BeginLoginKeeps, BeginEnrollKeeps, BeginVerifyKeeps, BeginUpdateKeeps,
       BeginCreateKeeps, BeginBindKeeps, BeginOtherKeeps DEF Begin
  <2>3. CASE End(t)
    BY <2>3, LoginSucceedsKeeps, EnrollsKeeps, VerifySucceedsKeeps, UpdatesKeeps,
       CreatesKeeps, DeletesKeeps, BindsKeeps, UnbindsKeeps, MutatesKeeps, FailsKeeps DEF End
  <2> QED
    BY <2>1, <2>2, <2>3
<1> QED
  BY <1>1, <1>2

\* The inductive invariant holds in every state of every run.
THEOREM Invariance == Spec => []IInv
BY InitEstablishes, StepPreserves, PTL DEF Spec

\* Types: a binding has its principal, a secret in use was generated, and what a request
\* holds of either comes from there.
THEOREM Typed == Spec => []TypeOK
<1>1. IInv => TypeOK
  <2> SUFFICES ASSUME IInv PROVE TypeOK
    OBVIOUS
  <2>1. ASSUME NEW t \in Threads
        PROVE  /\ DOMAIN request[t].sets \subseteq Columns /\ request[t].secret \in 0..issued
               /\ request[t].had \in [id : 0..bound, role : Roles]
    <3>1. RequestOk(request[t], issued, bound)
      BY DEF IInv, WellFormed
    <3>2. /\ DOMAIN request[t].sets \subseteq Asked(request[t])
          /\ request[t].secret \in 0..issued
          /\ request[t].had \in [id : 0..bound, role : Roles]
      BY <3>1 DEF RequestOk, Inserted
    <3>3. Asked(request[t]) \subseteq Columns
      BY AskedFor, ZenonT(40) DEF Columns
    <3> QED
      BY <3>2, <3>3
  <2> QED
    BY <2>1 DEF IInv, WellFormed, Inserted, TypeOK
<1> QED
  BY <1>1, Invariance, PTL

\* MFA is on with a secret nobody has verified only if two requests that change the MFA
\* of a principal overlapped: begin_enrollment and reset_mfa turn it off, unless a
\* confirmation turned it on after they had loaded the row.
THEOREM ConfirmedMfa == Spec => []MfaMeansConfirmed
<1>1. IInv => MfaMeansConfirmed
  BY DEF IInv
<1> QED
  BY <1>1, Invariance, PTL

\* rbac_guard reads the principal on every request, so that who is disabled, deleted or
\* demoted keeps at most the requests that were under way.
THEOREM LateActs == Spec => []LateActsBounded
<1>1. IInv => LateActsBounded
  <2> SUFFICES ASSUME IInv PROVE LateActsBounded
    OBVIOUS
  <2>1. late \in Nat /\ late + Cardinality(Lacking) < Cardinality(Threads)
    BY DEF IInv, WellFormed, LateOrLacking
  <2> QED
    BY <2>1, LackingFinite DEF LateActsBounded
<1> QED
  BY <1>1, Invariance, PTL

\* A column of a live principal changes only when the request that ends asked for it.
LEMMA OnlyAsked ==
    ASSUME IInv, NEW t \in Threads, End(t), NEW c \in Columns, Live, Live', row'[c] # row[c]
    PROVE  ~AtRest(t) /\ AtRest(t)' /\ c \in Asked(request[t])
<1>1. /\ Ends(t) /\ issued \in Nat /\ bound \in Nat /\ issued' \in Nat /\ bound' \in Nat
      /\ issued <= issued' /\ bound <= bound'
  <2>1. issued \in Nat /\ bound \in Nat
    BY Counters DEF IInv
  <2>2. Ends(t) /\ issued' \in {issued, issued + 1} /\ bound' \in {bound, bound + 1}
    BY DEF End, LoginSucceeds, Enrolls, VerifySucceeds, Updates, Creates, Deletes, Binds,
           Unbinds, Mutates, Fails
  <2> QED
    BY <2>1, <2>2
<1>2. AtRest(t)'
  <2>1. request'[t].op = "none"
    BY <1>1, EndKeeps
  <2> QED
    BY <2>1 DEF AtRest
<1>3. RequestOk(request[t], issued, bound) /\ row \in Row
  BY DEF IInv, WellFormed
<1>4. PICK h : h = request[t]
  OBVIOUS
<1>5. row'[c] = row[c] \/ c \in Asked(h) \/ h.op = "enroll"
      \/ ~(row' = row \/ row' = Merged(h))
  <2> SUFFICES ASSUME row' = row \/ row' = Merged(h)
               PROVE  row'[c] = row[c] \/ c \in Asked(h)
    OBVIOUS
  <2>1. row'[c] = row[c] \/ c \in DOMAIN h.sets
    BY <1>3, <1>4, RowWritten DEF IInv
  <2> QED
    BY <1>3, <1>4, <2>1 DEF RequestOk
<1>6. CASE Enrolls(t)
  <2>1. PICK g : g = [request[t] EXCEPT !.sets = Enrolled(request[t])]
    OBVIOUS
  <2>2. h.op = "enroll" /\ (row' = row \/ row' = Merged(g))
    BY <1>4, <1>6, <2>1 DEF Enrolls
  <2>3. DOMAIN g.sets \subseteq {"secret", "mfa"}
    BY <1>3, <2>1 DEF RequestOk, Fields, Enrolled
  <2>4. c \in {"secret", "mfa"}
    BY <1>3, <2>2, <2>3 DEF Merged, Row, Columns
  <2> QED
    BY <1>2, <1>4, <2>2, <2>4, AskedFor DEF AtRest
<1>7. CASE VerifySucceeds(t) \/ Updates(t)
  <2>1. (row' = row \/ row' = Merged(h)) /\ h.op # "none" /\ h.op # "enroll"
    BY <1>4, <1>7 DEF VerifySucceeds, Updates
  <2> QED
    BY <1>2, <1>4, <1>5, <2>1 DEF AtRest
<1>8. CASE Creates(t)
  BY <1>8 DEF Creates, Live, Unborn
<1>9. CASE Deletes(t)
  BY <1>9 DEF Deletes, Live, Unborn
<1>10. CASE LoginSucceeds(t) \/ Binds(t) \/ Unbinds(t) \/ Mutates(t) \/ Fails(t)
  BY <1>10 DEF LoginSucceeds, Binds, Unbinds, Mutates, Fails
<1> QED
  BY <1>6, <1>7, <1>8, <1>9, <1>10 DEF End

\* A session writes the columns it changed and no others: requests that overlap do not
\* undo each other.
THEOREM LostUpdates == Spec => NoLostUpdate
<1>1. IInv /\ [Next]_vars =>
        [\A c \in Columns : Live /\ Live' /\ row'[c] # row[c] =>
           \E t \in Threads : ~AtRest(t) /\ AtRest(t)' /\ c \in Asked(request[t])]_vars
  <2> SUFFICES ASSUME IInv, Next, NEW c \in Columns, Live, Live', row'[c] # row[c]
               PROVE  \E t \in Threads : ~AtRest(t) /\ AtRest(t)' /\ c \in Asked(request[t])
    OBVIOUS
  <2>1. PICK t \in Threads : Begin(t) \/ End(t)
    BY DEF Next
  <2>2. ~Begin(t)
    BY DEF Begin, BeginLogin, BeginEnroll, BeginVerify, BeginUpdate, BeginCreate, BeginBind,
           BeginOther, Begins
  <2> QED
    BY <2>1, <2>2, OnlyAsked
<1> QED
  BY <1>1, Invariance, PTL DEF Spec, NoLostUpdate
=============================================================================
