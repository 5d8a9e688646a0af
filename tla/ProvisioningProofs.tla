-------------------------- MODULE ProvisioningProofs --------------------------
(***************************************************************************)
(* Proofs about Provisioning, for any sites, requests and bounds, any      *)
(* kinds of sites, deletions, redirects and crashes:                       *)
(*                                                                         *)
(*   Typed            Spec => []TypeOK                                     *)
(*   Matching         Spec => []PlacementMatchesAudit                      *)
(*   Truthfulness     Spec => []AuditTellsTruth                            *)
(*   Grounding        Spec => []PlacementsAreGrounded                      *)
(*   CreationsAudited Spec => []EveryCreationAudited                       *)
(*   CommandsAreNew   Spec => []AskedOnce                                  *)
(*   WedgeStays       Spec => WedgeIsFinal                                 *)
(*                                                                         *)
(* while requests do not overlap (OneAtATime):                             *)
(*                                                                         *)
(*   RevocationsHold  Spec => []RevokedWasTurnedOff                        *)
(*   MissingIsGone    Spec => []MissingMeansGone                           *)
(*                                                                         *)
(* and while, besides, every site is a shim that stays registered          *)
(* (Working):                                                              *)
(*                                                                         *)
(*   TargetsRecorded  Spec => []EveryTargetRecorded                        *)
(*                                                                         *)
(* Without their hypotheses the last three are false.                      *)
(*                                                                         *)
(* The first four speak of what is committed, and what is committed was    *)
(* loaded, sent and answered while other handlers ran.  So IInv says of a  *)
(* session that its rows and its log go together (Session), that what it   *)
(* loaded has not been taken away (Rooted: ids are never erased while the  *)
(* node is registered), that its entries and the answer it has just heard  *)
(* are true of the node (Truthful), and that the answer belongs to the     *)
(* row it waits for (Sent: a request has its own number, and calls a site  *)
(* once).  That two sessions never hold one row is not needed: the columns *)
(* they write do not contradict these properties.                          *)
(*                                                                         *)
(* Traced says that a user that was created, or may yet be, is accounted   *)
(* for by the log, by the errors, or by the handler that has yet to write  *)
(* its entry; Fresh, that no node has a user of a request that has yet to  *)
(* be sent there.                                                          *)
(*                                                                         *)
(* The others need that nobody has overtaken the session that commits.     *)
(* Serial says that the rows a lone session loaded are still the committed *)
(* ones, and that its copies are settled; Whole that nothing aborts but    *)
(* for the reasons EveryTargetRecorded excepts, and that every target a    *)
(* request has come to has its outcome.                                    *)
(*                                                                         *)
(* For the wedge, a handler that keeps the event loop waiting for a row is *)
(* told from one that is waited for: the holder cannot run, and nothing    *)
(* else ends its transaction.                                              *)
(***************************************************************************)
EXTENDS Provisioning, FiniteSetTheorems, TLAPS

-----------------------------------------------------------------------------
(* The inductive invariant.                                                *)

Fields == {"pc", "op", "n", "asked", "todo", "made", "doomed", "long", "base", "copy", "held",
           "log", "reply", "fate"}

\* Where a handler has the event-loop thread.
Running == {"logical", "next", "flush", "flush sync"}

\* ... where an exception has left it, and what its session holds is lost.
Aborting == {"abort", "rollback"}

Entries == [op : Mutations, site : Sites, id : UserIds \cup {NoUser},
            result : {"success", "failure"}]

Commands == [n : 1..MaxOps, site : Sites, op : Mutations, id : UserIds \cup {NoUser}]

\* A sequence of sites, each once.
Order(t) ==
    /\ t \in Seq(Sites)
    /\ \A i, j \in DOMAIN t : t[i] = t[j] => i = j

\* The sites a request is still to call.
Unsent(h) ==
    IF h.pc \in {"logical", "next"} THEN ToSet(h.todo)
    ELSE IF h.pc \in {"call", "flush", "close"} THEN ToSet(Tail(h.todo))
    ELSE {}

\* What a handler is made of, after k requests.
Shape(h, k) ==
    /\ DOMAIN h = Fields
    /\ h.pc \in Running \cup Aborting \cup {"idle", "call", "close", "done"}
    /\ h.op \in Mutations \cup {"none", "sync"}
    /\ h.n \in 0..k
    /\ Order(h.todo)
    /\ h.made \in BOOLEAN
    /\ h.base \in [Sites -> Row] /\ h.copy \in [Sites -> Row]
    /\ h.held \subseteq Sites
    /\ h.log \subseteq Entries
    /\ h.reply.kind \in {"none", "ok", "error", "garbled"} /\ h.reply.id \in UserIds \cup {NoUser}
    /\ h.pc \in {"call", "flush", "close", "flush sync"} => h.todo # <<>>
    /\ h.pc \in {"logical", "next", "flush", "close"} => h.op \in Mutations /\ h.n # 0
    /\ h.pc = "call" => h.op = "sync" \/ (h.op \in Mutations /\ h.n # 0)
    /\ h.pc = "flush sync" => h.op = "sync"
    /\ h.op = "sync" => h.log = {}

\* A row a session loaded is a settled one, and its own is pending only while it waits
\* for the node; an id it gave to a row is in its log, and will be written.
Session(h) ==
    /\ \A s \in Sites :
         /\ h.base[s].status # "pending"
         /\ h.copy[s].status = "pending"
            => h.pc \in Aborting \/ (h.pc = "call" /\ h.op = "provision" /\ s = Head(h.todo))
         /\ h.copy[s].status \in {"active", "revoked", "missing"} => h.copy[s].id # NoUser
         /\ h.copy[s].id # h.base[s].id
            => /\ h.copy[s].id # NoUser /\ Created(s, h.copy[s].id) \in h.log
               /\ s \in h.held \/ h.pc \in Aborting \/ (h.pc = "flush" /\ s = Head(h.todo))
    /\ \A e \in h.log : e.site \notin Unsent(h)
    /\ \A e \in h.log : e.op = "provision" /\ e.result = "success"
                        => h.copy[e.site].id # NoUser
    /\ h.pc = "call" /\ h.op \in {"revoke", "delete"} => h.copy[Head(h.todo)].id # NoUser
    /\ h.pc = "call" /\ h.op = "provision" /\ h.reply.kind = "ok"
       => h.reply.id \in UserIds /\ h.reply.id = h.n

\* How a session stands to the tables: placements p, registered nodes g, identity i.
Rooted(h, p, g, i) ==
    /\ \A s \in Sites : h.base[s].id # NoUser /\ s \in g => p[s].id # NoUser
    /\ \A s \in Sites : h.base[s] # NoRow => i
    /\ h.pc \in {"next", "call", "flush", "close"} /\ h.op \in Mutations => h.made \/ i
    /\ h.held \subseteq g

\* On nodes with users m, user u of s was revoked, or is gone, as far as s can be believed.
WasRevoked(m, s, u) == s \in Redirecting \/ m[s][u] \in {"off", "back", "gone"}
WasDeleted(m, s, u) == s \in Redirecting \/ m[s][u] = "gone"

\* What entry e reports of nodes with users m, if it reports a success.
Truth(e, m) ==
    /\ e.id \in UserIds
    /\ e.op = "provision" => m[e.site][e.id] # "none"
    /\ e.op = "revoke" => WasRevoked(m, e.site, e.id)
    /\ e.op = "delete" => WasDeleted(m, e.site, e.id)

\* What a session recorded is true, and so is what it has just heard.
Truthful(h, m) ==
    /\ \A e \in h.log : e.result = "success" => Truth(e, m)
    /\ h.pc = "call" /\ h.reply.kind = "ok" =>
         /\ h.op = "provision" => m[Head(h.todo)][h.reply.id] # "none"
         /\ h.op = "revoke" => WasRevoked(m, Head(h.todo), h.copy[Head(h.todo)].id)
         /\ h.op = "delete" => WasDeleted(m, Head(h.todo), h.copy[Head(h.todo)].id)

\* Its commands w: none for a site it is still to call, and the one it waits for has the
\* id of its row.
Sent(h, w) ==
    \A c \in w : c.n = h.n =>
        /\ c.site \notin Unsent(h)
        /\ h.pc = "call" /\ h.op \in {"revoke", "delete"} /\ Head(h.todo) = c.site
           => c.id = h.copy[c.site].id

WellFormed ==
    /\ remote \in [Sites -> [UserIds -> {"none", "on", "off", "back", "gone"}]]
    /\ network \subseteq Commands /\ \A c \in network : c.n <= ops
    /\ identity \in BOOLEAN
    /\ placement \in [Sites -> {row \in Row : row.status # "pending"}]
    /\ audit \subseteq Entries
    /\ loop \in Requests \cup {Nobody}
    /\ DOMAIN req = Requests
    /\ ops \in 0..MaxOps /\ restarts \in 0..MaxRestarts
    /\ registered \subseteq Sites

HandlerOk(h, k, p, g, i, m, w) ==
    Shape(h, k) /\ Session(h) /\ Rooted(h, p, g, i) /\ Truthful(h, m) /\ Sent(h, w)

Handlers ==
    /\ \A r \in Requests : HandlerOk(req[r], ops, placement, registered, identity, remote, network)
    /\ \A r \in Requests : loop = r <=> req[r].pc \in Running
    /\ \A q, r \in Requests : q # r /\ req[q].n # 0 => req[q].n # req[r].n

\* AuditTellsTruth, with Truth.
TrueAudit == \A e \in audit : e.result = "success" => Truth(e, remote)

IInv ==
    WellFormed /\ Handlers /\ PlacementMatchesAudit /\ TrueAudit /\ PlacementsAreGrounded

-----------------------------------------------------------------------------
(* Sequences of sites.                                                     *)

LEMMA RestOfOrder ==
    ASSUME NEW t, Order(t), t # <<>>
    PROVE  /\ Order(Tail(t)) /\ Head(t) \in Sites /\ Head(t) \in ToSet(t)
           /\ Head(t) \notin ToSet(Tail(t)) /\ ToSet(Tail(t)) \subseteq ToSet(t)
<1>1. t \in Seq(Sites) /\ 1 \in DOMAIN t /\ Head(t) = t[1]
  BY DEF Order
<1>2. /\ Tail(t) \in Seq(Sites)
      /\ \A i \in DOMAIN Tail(t) : /\ i + 1 \in DOMAIN t /\ Tail(t)[i] = t[i + 1]
                                   /\ i \in Nat /\ i # 0
  BY <1>1
<1>3. Order(Tail(t))
  BY <1>1, <1>2 DEF Order
<1>4. ASSUME NEW i \in DOMAIN Tail(t) PROVE Tail(t)[i] # Head(t) /\ Tail(t)[i] \in ToSet(t)
  BY <1>1, <1>2 DEF Order, ToSet
<1> QED
  BY <1>1, <1>3, <1>4 DEF ToSet

\* An order of some sites.
LEMMA SomeOrder ==
    ASSUME NEW S, S \subseteq Sites, NEW t \in SetToSeqs(S)
    PROVE  Order(t)
<1>1. Cardinality(S) \in Nat
  BY SitesAssumption, FS_Subset, FS_CardinalityType
<1>2. t \in [1..Cardinality(S) -> S]
      /\ \A i, j \in 1..Cardinality(S) : i # j => t[i] # t[j]
  BY DEF SetToSeqs
<1>3. t \in Seq(S) /\ DOMAIN t = 1..Cardinality(S)
  BY <1>1, <1>2
<1>4. \A i \in DOMAIN t : t[i] \in S
  BY <1>2, <1>3
<1> QED
  BY <1>2, <1>3, <1>4 DEF Order

-----------------------------------------------------------------------------
(* What stays true when others move.                                       *)

\* A user that was created is not forgotten, nor that it was revoked, and none comes back that
\* is gone.
Ages(m1, m2) ==
    \A s \in Sites, u \in UserIds :
        /\ m1[s][u] # "none" => m2[s][u] # "none"
        /\ m1[s][u] \in {"off", "back", "gone"} => m2[s][u] \in {"off", "back", "gone"}
        /\ m1[s][u] = "gone" => m2[s][u] = "gone"

LEMMA AgesNot == ASSUME NEW m PROVE Ages(m, m)
BY DEF Ages

LEMMA TruthStays ==
    ASSUME NEW e \in Entries, NEW m1, NEW m2, Ages(m1, m2), Truth(e, m1)
    PROVE  Truth(e, m2)
<1>1. e.site \in Sites /\ e.id \in UserIds
  BY DEF Truth, Entries
<1> QED
  BY <1>1 DEF Truth, Ages, WasRevoked, WasDeleted

\* What IInv says of a handler stays true while that does not move, and the tables, the
\* nodes and the network go on.
LEMMA HandlerStays ==
    ASSUME NEW h, NEW k1 \in Nat, NEW p1, NEW g1, NEW i1, NEW m1, NEW w1,
           NEW k2 \in Nat, NEW p2, NEW g2, NEW i2, NEW m2, NEW w2,
           HandlerOk(h, k1, p1, g1, i1, m1, w1),
           k1 <= k2, g2 \subseteq g1, h.held \subseteq g2, i1 => i2, Ages(m1, m2),
           \A s \in Sites \cap g2 : p1[s].id # NoUser => p2[s].id # NoUser,
           \A c \in w2 : c \in w1 \/ c.n # h.n
    PROVE  HandlerOk(h, k2, p2, g2, i2, m2, w2)
<1>0. Shape(h, k1)
  BY DEF HandlerOk
<1>a. h.n \in 0..k1
  BY <1>0 DEF Shape
<1>b. h.n \in 0..k2
  BY <1>a
<1>1. Shape(h, k2)
  BY <1>0, <1>b DEF Shape
<1>2. Session(h)
  BY DEF HandlerOk
<1>3. Rooted(h, p2, g2, i2)
  BY DEF HandlerOk, Rooted
<1>4. \A e \in h.log : e.result = "success" => Truth(e, m2)
  BY TruthStays DEF HandlerOk, Truthful, Shape
<1>5. ASSUME h.pc = "call", h.reply.kind = "ok"
      PROVE  LET s == Head(h.todo)
             IN  /\ h.op = "provision" => m2[s][h.reply.id] # "none"
                 /\ h.op = "revoke" => WasRevoked(m2, s, h.copy[s].id)
                 /\ h.op = "delete" => WasDeleted(m2, s, h.copy[s].id)
  <2>1. PICK s : s = Head(h.todo)
    OBVIOUS
  <2>2. s \in Sites
    BY <1>5, <2>1, RestOfOrder DEF HandlerOk, Shape
  <2>3. h.op = "provision" => h.reply.id \in UserIds
    BY <1>5 DEF HandlerOk, Session
  <2>4. h.op \in {"revoke", "delete"} => h.copy[s].id \in UserIds
    BY <1>5, <2>1, <2>2 DEF HandlerOk, Session, Shape, Row
  <2>5. /\ h.op = "provision" => m1[s][h.reply.id] # "none"
        /\ h.op = "revoke" => WasRevoked(m1, s, h.copy[s].id)
        /\ h.op = "delete" => WasDeleted(m1, s, h.copy[s].id)
    BY <1>5, <2>1 DEF HandlerOk, Truthful
  <2> QED
    BY <2>1, <2>2, <2>3, <2>4, <2>5 DEF Ages, WasRevoked, WasDeleted
<1>6. Truthful(h, m2)
  BY <1>4, <1>5 DEF Truthful
<1>7. Sent(h, w2)
  BY DEF HandlerOk, Sent
<1> QED
  BY <1>1, <1>2, <1>3, <1>6, <1>7 DEF HandlerOk

\* A step of r's handler: what has to be shown of it, and what follows for the others.
LEMMA StepOfOne ==
    ASSUME IInv, NEW r \in Requests, NEW h, Update(r, h),
           HandlerOk(h, ops', placement', registered', identity', remote', network'),
           UNCHANGED <<remote, registered>>,
           ops' \in Nat, ops <= ops', identity => identity',
           \A s \in Sites : placement[s].id # NoUser => placement'[s].id # NoUser,
           \A c \in network' : c \in network \/ (c.n = req[r].n /\ c.n # 0),
           \/ loop \in {Nobody, r} /\ loop' \in {Nobody, r} /\ (loop' = r <=> h.pc \in Running)
           \/ loop' = loop /\ loop # r /\ h.pc \notin Running,
           h.n = 0 \/ h.n = req[r].n \/ (loop = Nobody /\ h.n > ops)
    PROVE  Handlers'
<1>1. req'[r] = h /\ \A q \in Requests \ {r} : req'[q] = req[q]
  BY DEF Update, IInv, WellFormed
<1>a. \A q \in Requests : Shape(req[q], ops)
  BY DEF IInv, Handlers, HandlerOk
<1>b. \A q \in Requests : req[q].n \in 0..ops
  BY <1>a DEF Shape
<1>2. ops \in Nat /\ \A q \in Requests : req[q].n \in 0..ops
  BY <1>b, BoundsAssumption DEF IInv, WellFormed
<1>3. ASSUME NEW q \in Requests, q # r
      PROVE  HandlerOk(req[q], ops', placement', registered', identity', remote', network')
  <2>1. HandlerOk(req[q], ops, placement, registered, identity, remote, network)
    BY DEF IInv, Handlers
  <2>2. \A c \in network' : c \in network \/ c.n # req[q].n
    BY <1>3 DEF IInv, Handlers
  <2>3. req[q].held \subseteq registered'
    BY <2>1 DEF HandlerOk, Rooted
  <2>4. Ages(remote, remote')
    BY AgesNot
  <2> QED
    BY <1>2, <2>1, <2>2, <2>3, <2>4, HandlerStays
<1>4. \A q \in Requests :
         HandlerOk(req'[q], ops', placement', registered', identity', remote', network')
  BY <1>1, <1>3
<1>5. ASSUME NEW q \in Requests PROVE loop' = q <=> req'[q].pc \in Running
  BY <1>1, RequestsAssumption DEF IInv, Handlers
<1>6. ASSUME NEW p \in Requests, NEW q \in Requests, p # q, req'[p].n # 0
      PROVE  req'[p].n # req'[q].n
  <2>1. CASE p # r /\ q # r
    BY <1>1, <1>6, <2>1 DEF IInv, Handlers
  <2>2. CASE p = r
    BY <1>1, <1>2, <1>6, <2>2 DEF IInv, Handlers
  <2>3. CASE q = r
    BY <1>1, <1>2, <1>6, <2>3 DEF IInv, Handlers
  <2> QED
    BY <2>1, <2>2, <2>3
<1> QED
  BY <1>4, <1>5, <1>6 DEF Handlers

\* A step of a handler that leaves the tables and the nodes alone.
LEMMA HandlerKeeps ==
    ASSUME IInv, NEW r \in Requests, NEW h, Update(r, h),
           HandlerOk(h, ops', placement, registered, identity, remote, network'),
           UNCHANGED <<remote, identity, placement, audit, restarts, registered>>,
           network' \subseteq Commands, \A c \in network' : c.n <= ops',
           \A c \in network' : c \in network \/ (c.n = req[r].n /\ c.n # 0),
           ops' \in 0..MaxOps, ops <= ops',
           \/ loop \in {Nobody, r} /\ loop' \in {Nobody, r} /\ (loop' = r <=> h.pc \in Running)
           \/ loop' = loop /\ loop # r /\ h.pc \notin Running,
           h.n = 0 \/ h.n = req[r].n \/ (loop = Nobody /\ h.n > ops)
    PROVE  IInv'
<1>1. Handlers'
  BY StepOfOne, BoundsAssumption
<1>2. WellFormed'
  BY DEF IInv, WellFormed, Update
<1>3. PlacementMatchesAudit' /\ TrueAudit' /\ PlacementsAreGrounded'
  BY DEF IInv, PlacementMatchesAudit, TrueAudit, PlacementsAreGrounded
<1> QED
  BY <1>1, <1>2, <1>3 DEF IInv

-----------------------------------------------------------------------------
(* Sessions at their beginning and at their end.                           *)

LEMMA EmptyRow ==
    /\ NoRow \in Row /\ NoRow.id = NoUser /\ NoRow.status = "none"
    /\ NoRows \in [Sites -> Row] /\ \A s \in Sites : NoRows[s] = NoRow
BY DEF NoRow, Row, Statuses, NoRows

LEMMA NoReplyIs == NoReply.kind = "none" /\ NoReply.id = NoUser
BY DEF NoReply

\* A session that has neither rows nor entries and is in no request.
LEMMA FreshOk ==
    ASSUME NEW h, NEW k \in Nat, NEW p, NEW g, NEW i, NEW m, NEW w, w \subseteq Commands,
           DOMAIN h = Fields, h.pc \in {"idle", "done"}, h.op \in Mutations \cup {"none", "sync"},
           h.n = 0, h.todo = <<>>, h.made = FALSE, h.base = NoRows, h.copy = NoRows,
           h.held = {}, h.log = {}, h.reply = NoReply
    PROVE  HandlerOk(h, k, p, g, i, m, w)
<1>1. Order(h.todo)
  BY DEF Order
<1>a. h.n \in 0..k /\ h.n = 0
  OBVIOUS
<1>b. h.base \in [Sites -> Row] /\ h.copy \in [Sites -> Row]
  BY EmptyRow
<1>c. h.held \subseteq Sites /\ h.log \subseteq Entries /\ h.made \in BOOLEAN
  OBVIOUS
<1>d. h.reply.kind = "none" /\ h.reply.id = NoUser
  BY NoReplyIs
<1>2. Shape(h, k)
  BY <1>1, <1>a, <1>b, <1>c, <1>d DEF Shape
<1>3. \A s \in Sites : h.base[s] = NoRow /\ h.copy[s] = NoRow
  BY EmptyRow
<1>4. Session(h)
  BY <1>3, EmptyRow DEF Session
<1>5. Rooted(h, p, g, i)
  BY <1>3, EmptyRow DEF Rooted
<1>6. Truthful(h, m)
  BY DEF Truthful
<1>7. \A c \in w : c.n # 0
  BY DEF Commands
<1>8. Sent(h, w)
  BY <1>7 DEF Sent
<1> QED
  BY <1>2, <1>4, <1>5, <1>6, <1>8 DEF HandlerOk

LEMMA ClosedIs ==
    /\ DOMAIN Closed = Fields
    /\ Closed.pc = "idle" /\ Closed.op = "none" /\ Closed.n = 0 /\ Closed.todo = <<>>
    /\ Closed.made = FALSE /\ Closed.doomed = FALSE
    /\ Closed.base = NoRows /\ Closed.copy = NoRows
    /\ Closed.held = {} /\ Closed.log = {} /\ Closed.reply = NoReply
BY DEF Closed, Fields

LEMMA ClosedOk ==
    ASSUME NEW k \in Nat, NEW p, NEW g, NEW i, NEW m, NEW w, w \subseteq Commands
    PROVE  HandlerOk(Closed, k, p, g, i, m, w)
BY ClosedIs, FreshOk

LEMMA FinishedOk ==
    ASSUME NEW q, NEW j, Shape(q, j),
           NEW k \in Nat, NEW p, NEW g, NEW i, NEW m, NEW w, w \subseteq Commands
    PROVE  /\ HandlerOk(Finished(q), k, p, g, i, m, w)
           /\ Finished(q).pc = "done" /\ Finished(q).n = 0
<1>1. PICK h : h = Finished(q)
  OBVIOUS
<1>2. /\ DOMAIN h = Fields /\ h.pc = "done" /\ h.op = q.op /\ h.n = 0 /\ h.todo = <<>>
      /\ h.made = FALSE /\ h.base = NoRows /\ h.copy = NoRows
      /\ h.held = {} /\ h.log = {} /\ h.reply = NoReply
  BY <1>1, ClosedIs DEF Finished, Fields
<1>3. q.op \in Mutations \cup {"none", "sync"}
  BY DEF Shape
<1>4. HandlerOk(h, k, p, g, i, m, w)
  BY <1>2, <1>3, FreshOk
<1> QED
  BY <1>1, <1>2, <1>4

\* What the invariant says of one handler, in its parts.
LEMMA OneHandler ==
    ASSUME IInv, NEW r \in Requests
    PROVE  /\ Shape(req[r], ops) /\ Session(req[r])
           /\ Rooted(req[r], placement, registered, identity)
           /\ Truthful(req[r], remote) /\ Sent(req[r], network)
           /\ loop = r <=> req[r].pc \in Running
           /\ ops \in Nat /\ MaxOps \in Nat /\ ops \in 0..MaxOps
           /\ network \subseteq Commands /\ \A c \in network : c.n <= ops
BY BoundsAssumption DEF IInv, Handlers, HandlerOk, WellFormed

LEMMA BeginProvisionKeeps ==
    ASSUME IInv, NEW r \in Requests, BeginProvision(r)
    PROVE  IInv'
<1>1. PICK t \in SetToAllKPermutations(Sites) \ {<<>>} :
         Update(r, [Closed EXCEPT !.pc = "logical", !.op = "provision", !.n = ops + 1,
                                  !.todo = t, !.asked = ToSet(t)])
  BY DEF BeginProvision
<1>2. PICK h : h = [Closed EXCEPT !.pc = "logical", !.op = "provision", !.n = ops + 1,
                                  !.todo = t, !.asked = ToSet(t)]
  OBVIOUS
<1>3. /\ DOMAIN h = Fields /\ h.pc = "logical" /\ h.op = "provision" /\ h.n = ops + 1
      /\ h.todo = t /\ h.made = FALSE /\ h.base = NoRows /\ h.copy = NoRows
      /\ h.held = {} /\ h.log = {} /\ h.reply = NoReply
  BY <1>2, ClosedIs DEF Fields
<1>4. PICK S \in SUBSET Sites : t \in SetToSeqs(S)
  BY DEF SetToAllKPermutations
<1>5. Order(t)
  BY <1>4, SomeOrder
<1>6. /\ ops' = ops + 1 /\ ops \in Nat /\ ops' \in 0..MaxOps /\ ops' # 0 /\ ops' \in Nat
      /\ loop = Nobody /\ loop' = r
  BY OneHandler DEF BeginProvision
<1>a. h.n \in 0..ops' /\ h.n # 0
  BY <1>3, <1>6
<1>b. h.base \in [Sites -> Row] /\ h.copy \in [Sites -> Row]
  BY <1>3, EmptyRow
<1>c. h.held \subseteq Sites /\ h.log \subseteq Entries /\ h.made \in BOOLEAN
  BY <1>3
<1>d. h.reply.kind = "none" /\ h.reply.id = NoUser
  BY <1>3, NoReplyIs
<1>7. Shape(h, ops')
  BY <1>3, <1>5, <1>a, <1>b, <1>c, <1>d DEF Shape, Mutations, Running
<1>8. \A s \in Sites : h.base[s] = NoRow /\ h.copy[s] = NoRow
  BY <1>3, EmptyRow
<1>9. Session(h) /\ Rooted(h, placement, registered, identity) /\ Truthful(h, remote)
  BY <1>3, <1>8, EmptyRow DEF Session, Rooted, Truthful
<1>10. \A c \in network : c.n <= ops /\ c.n \in Nat
  BY OneHandler DEF Commands
<1>11. \A c \in network : c.n # h.n /\ c.n <= ops'
  BY <1>3, <1>6, <1>10
<1>12. Sent(h, network)
  BY <1>11 DEF Sent
<1>13. HandlerOk(h, ops', placement, registered, identity, remote, network)
  BY <1>7, <1>9, <1>12 DEF HandlerOk
<1>14. UNCHANGED <<remote, network, identity, placement, audit, restarts, registered>>
  BY DEF BeginProvision
<1>15. ops <= ops' /\ h.n > ops /\ h.pc \in Running
  BY <1>3, <1>6 DEF Running
<1> QED
  BY <1>1, <1>2, <1>6, <1>11, <1>13, <1>14, <1>15, OneHandler, HandlerKeeps

\* A deprovision starts from the settled rows.
LEMMA BeginDeprovisionKeeps ==
    ASSUME IInv, NEW r \in Requests, BeginDeprovision(r)
    PROVE  IInv'
<1>1. PICK op \in {"revoke", "delete"}, t \in SetToSeqs({s \in Sites : placement[s] # NoRow}) :
         Update(r, [Closed EXCEPT !.pc = "next", !.op = op, !.n = ops + 1,
                                  !.todo = t, !.asked = ToSet(t),
                                  !.base = placement, !.copy = placement])
  BY DEF BeginDeprovision
<1>2. PICK h : h = [Closed EXCEPT !.pc = "next", !.op = op, !.n = ops + 1,
                                  !.todo = t, !.asked = ToSet(t),
                                  !.base = placement, !.copy = placement]
  OBVIOUS
<1>3. /\ DOMAIN h = Fields /\ h.pc = "next" /\ h.op = op /\ h.n = ops + 1
      /\ h.todo = t /\ h.made = FALSE /\ h.base = placement /\ h.copy = placement
      /\ h.held = {} /\ h.log = {} /\ h.reply = NoReply
  BY <1>2, ClosedIs DEF Fields
<1>4. Order(t)
  BY SomeOrder
<1>e. ops' = ops + 1 /\ ops < MaxOps /\ loop = Nobody /\ loop' = r
  BY DEF BeginDeprovision
<1>f. ops \in Nat /\ MaxOps \in Nat
  BY OneHandler
<1>5. /\ ops' = ops + 1 /\ ops \in Nat /\ ops' \in 0..MaxOps /\ ops' # 0 /\ ops' \in Nat
      /\ loop = Nobody /\ loop' = r
  BY <1>e, <1>f
<1>a. h.n \in 0..ops' /\ h.n # 0
  BY <1>3, <1>5
<1>b. h.base \in [Sites -> Row] /\ h.copy \in [Sites -> Row]
      /\ \A s \in Sites : placement[s].status # "pending"
  BY <1>3 DEF IInv, WellFormed
<1>c. h.held \subseteq Sites /\ h.log \subseteq Entries /\ h.made \in BOOLEAN
  BY <1>3
<1>d. h.reply.kind = "none" /\ h.reply.id = NoUser
  BY <1>3, NoReplyIs
<1>6. Shape(h, ops')
  BY <1>3, <1>4, <1>a, <1>b, <1>c, <1>d DEF Shape, Mutations, Running
<1>7. Session(h)
  BY <1>3, <1>b DEF Session, IInv, PlacementsAreGrounded
<1>8. Rooted(h, placement, registered, identity) /\ Truthful(h, remote)
  BY <1>3 DEF Rooted, Truthful, IInv, PlacementsAreGrounded, BeginDeprovision
<1>9. \A c \in network : c.n <= ops /\ c.n \in Nat
  BY OneHandler DEF Commands
<1>10. \A c \in network : c.n # h.n /\ c.n <= ops'
  BY <1>3, <1>5, <1>9
<1>11. Sent(h, network)
  BY <1>10 DEF Sent
<1>12. HandlerOk(h, ops', placement, registered, identity, remote, network)
  BY <1>6, <1>7, <1>8, <1>11 DEF HandlerOk
<1>13. UNCHANGED <<remote, network, identity, placement, audit, restarts, registered>>
  BY DEF BeginDeprovision
<1>14. ops <= ops' /\ h.n > ops /\ h.pc \in Running
  BY <1>3, <1>5 DEF Running
<1> QED
  BY <1>1, <1>2, <1>5, <1>10, <1>12, <1>13, <1>14, OneHandler, HandlerKeeps

LEMMA BeginSyncKeeps ==
    ASSUME IInv, NEW r \in Requests, NEW s \in Sites, BeginSync(r, s)
    PROVE  IInv'
<1>1. PICK h : h = [Closed EXCEPT !.pc = "call", !.op = "sync", !.todo = <<s>>, !.asked = {s},
                                  !.base[s] = placement[s], !.copy[s] = placement[s]]
  OBVIOUS
<1>2. /\ DOMAIN h = Fields /\ h.pc = "call" /\ h.op = "sync" /\ h.n = 0
      /\ h.todo = <<s>> /\ h.made = FALSE
      /\ h.base = [NoRows EXCEPT ![s] = placement[s]]
      /\ h.copy = [NoRows EXCEPT ![s] = placement[s]]
      /\ h.held = {} /\ h.log = {} /\ h.reply = NoReply
  BY <1>1, ClosedIs DEF Fields
<1>3. /\ h.base \in [Sites -> Row] /\ h.copy \in [Sites -> Row]
      /\ \A x \in Sites : h.base[x] = h.copy[x]
                          /\ h.base[x] = IF x = s THEN placement[s] ELSE NoRow
      /\ placement[s].status # "pending"
  BY <1>2, EmptyRow DEF IInv, WellFormed
<1>4. Order(<<s>>)
  BY DEF Order
<1>5. ops \in Nat /\ h.n \in 0..ops
  BY <1>2, OneHandler
<1>6. h.held \subseteq Sites /\ h.log \subseteq Entries /\ h.made \in BOOLEAN
      /\ h.reply.kind = "none" /\ h.reply.id = NoUser
  BY <1>2, NoReplyIs
<1>a. h.todo # <<>>
  BY <1>2
<1>7. Shape(h, ops)
  BY <1>2, <1>3, <1>4, <1>5, <1>6, <1>a DEF Shape, Mutations, Running
<1>8. Session(h)
  BY <1>2, <1>3, EmptyRow DEF Session, IInv, PlacementsAreGrounded
<1>9. Rooted(h, placement, registered, identity) /\ Truthful(h, remote)
  BY <1>2, <1>3, <1>6, EmptyRow DEF Rooted, Truthful, IInv, PlacementsAreGrounded, Mutations
<1>10. \A c \in network : c.n # h.n
  BY <1>2, OneHandler DEF Commands
<1>11. Sent(h, network)
  BY <1>10 DEF Sent
<1>12. HandlerOk(h, ops, placement, registered, identity, remote, network)
  BY <1>7, <1>8, <1>9, <1>11 DEF HandlerOk
<1>13. /\ Update(r, h) /\ loop = Nobody
       /\ UNCHANGED <<remote, network, identity, placement, audit, loop, ops, restarts,
                      registered>>
  BY <1>1 DEF BeginSync
<1>14. ops' \in 0..MaxOps /\ ops <= ops'
  BY <1>13, OneHandler
<1>15. h.pc \notin Running /\ loop' # r
  BY <1>2, <1>13, RequestsAssumption DEF Running
<1> QED
  BY <1>2, <1>12, <1>13, <1>14, <1>15, OneHandler, HandlerKeeps

-----------------------------------------------------------------------------
(* The handler's steps.                                                    *)

\* A handler that only moves: its rows, log and locks stay, and so do its sites to call.
LEMMA MovesOk ==
    ASSUME NEW q, NEW h, NEW k, NEW p, NEW g, NEW i, NEW m, NEW w,
           HandlerOk(q, k, p, g, i, m, w),
           DOMAIN h = Fields, h.op = q.op, h.n = q.n, h.base = q.base, h.copy = q.copy,
           h.held = q.held, h.log = q.log, h.reply = q.reply, Order(h.todo),
           h.made \in BOOLEAN,
           h.pc \in {"next", "close"}, q.op \in Mutations, q.n # 0,
           q.pc \in {"logical", "next", "flush", "close"},
           h.pc = "close" => h.todo # <<>>,
           h.made \/ i,
           \A s \in Sites : h.copy[s].id # h.base[s].id => s \in h.held,
           Unsent(h) \subseteq Unsent(q)
    PROVE  HandlerOk(h, k, p, g, i, m, w)
<1>1. Shape(q, k) /\ Session(q) /\ Rooted(q, p, g, i) /\ Truthful(q, m) /\ Sent(q, w)
  BY DEF HandlerOk
<1>2. Shape(h, k)
  BY <1>1 DEF Shape, Running
<1>3. \A s \in Sites : q.copy[s].status # "pending"
  BY <1>1 DEF Session, Aborting
<1>5. Session(h)
  BY <1>1, <1>3 DEF Session
<1>6. Rooted(h, p, g, i)
  BY <1>1 DEF Rooted
<1>7. Truthful(h, m)
  BY <1>1 DEF Truthful
<1>8. Sent(h, w)
  BY <1>1 DEF Sent
<1> QED
  BY <1>2, <1>5, <1>6, <1>7, <1>8 DEF HandlerOk

\* An exception leaves the handler: its rows and its log stay with it until the rollback.
LEMMA RaisesOk ==
    ASSUME NEW q, NEW h, NEW k, NEW p, NEW g, NEW i, NEW m, NEW w,
           Shape(q, k), Rooted(q, p, g, i), DOMAIN h = Fields,
           \A s \in Sites :
             /\ q.base[s].status # "pending"
             /\ q.copy[s].status \in {"active", "revoked", "missing"} => q.copy[s].id # NoUser
             /\ q.copy[s].id # q.base[s].id
                => q.copy[s].id # NoUser /\ Created(s, q.copy[s].id) \in q.log,
           \A e \in q.log : e.op = "provision" /\ e.result = "success"
                            => q.copy[e.site].id # NoUser,
           \A e \in q.log : e.result = "success" => Truth(e, m),
           h.pc \in Aborting, h.op = q.op, h.n = q.n, h.base = q.base, h.copy = q.copy,
           h.log = q.log, h.todo = q.todo, h.made \in BOOLEAN,
           h.held \in {q.held, {}}, h.reply \in {q.reply, NoReply}
    PROVE  HandlerOk(h, k, p, g, i, m, w)
<1>1. h.reply.kind \in {"none", "ok", "error", "garbled"} /\ h.reply.id \in UserIds \cup {NoUser}
  BY NoReplyIs DEF Shape
<1>2. Shape(h, k)
  BY <1>1 DEF Shape, Aborting, Running
<1>3. Unsent(h) = {}
  BY DEF Unsent, Aborting
<1>4. Session(h)
  BY <1>3 DEF Session, Aborting
<1>5. Rooted(h, p, g, i)
  BY DEF Rooted, Aborting
<1>6. Truthful(h, m)
  BY DEF Truthful, Aborting
<1>7. Sent(h, w)
  BY <1>3 DEF Sent, Aborting
<1> QED
  BY <1>2, <1>4, <1>5, <1>6, <1>7 DEF HandlerOk

LEMMA GetOrCreateKeeps ==
    ASSUME IInv, NEW r \in Requests, GetOrCreateLogical(r)
    PROVE  IInv'
<1>1. PICK h : h = [req[r] EXCEPT !.pc = "next", !.made = ~identity]
  OBVIOUS
<1>2. PICK q : q = req[r]
  OBVIOUS
<1>3. /\ Shape(q, ops) /\ Session(q)
      /\ HandlerOk(q, ops, placement, registered, identity, remote, network)
  BY <1>2, OneHandler DEF HandlerOk
<1>4. /\ loop = r /\ q.pc = "logical" /\ Update(r, h)
      /\ UNCHANGED <<remote, network, identity, placement, audit, loop, ops, restarts,
                     registered>>
  BY <1>1, <1>2 DEF GetOrCreateLogical
<1>5. /\ DOMAIN h = Fields /\ h.pc = "next" /\ h.op = q.op /\ h.n = q.n /\ h.base = q.base
      /\ h.copy = q.copy /\ h.held = q.held /\ h.log = q.log /\ h.reply = q.reply
      /\ h.todo = q.todo
  BY <1>1, <1>2, <1>3 DEF Shape, Fields
<1>6. h.made = ~identity
  BY <1>1, <1>2, <1>3 DEF Shape, Fields
<1>7. q.op \in Mutations /\ q.n # 0 /\ Order(h.todo)
  BY <1>3, <1>4, <1>5 DEF Shape
<1>8. h.made \in BOOLEAN /\ (h.made \/ identity)
  BY <1>6 DEF IInv, WellFormed
<1>9. \A s \in Sites : h.copy[s].id # h.base[s].id => s \in h.held
  BY <1>3, <1>4, <1>5 DEF Aborting, Session
<1>10. Unsent(h) \subseteq Unsent(q)
  BY <1>4, <1>5 DEF Unsent
<1>11. HandlerOk(h, ops, placement, registered, identity, remote, network)
  BY <1>3, <1>4, <1>5, <1>7, <1>8, <1>9, <1>10, MovesOk
<1>12. ops' \in 0..MaxOps /\ ops <= ops'
  BY <1>4, OneHandler
<1>13. h.pc \in Running
  BY <1>5 DEF Running
<1> QED
  BY <1>2, <1>4, <1>5, <1>11, <1>12, <1>13, OneHandler, HandlerKeeps

LEMMA RaisesKeeps ==
    ASSUME IInv, NEW r \in Requests, loop \in {Nobody, r}, loop' = Nobody, NEW h, Update(r, h),
           DOMAIN h = Fields, h.pc \in Aborting, h.op = req[r].op, h.n = req[r].n,
           h.base = req[r].base, h.copy = req[r].copy, h.log = req[r].log,
           h.todo = req[r].todo, h.made \in BOOLEAN,
           h.held \in {req[r].held, {}}, h.reply \in {req[r].reply, NoReply},
           UNCHANGED <<remote, network, identity, placement, audit, ops, restarts, registered>>
    PROVE  IInv'
<1>1. PICK q : q = req[r]
  OBVIOUS
<1>2. /\ Shape(q, ops) /\ Session(q) /\ Rooted(q, placement, registered, identity)
      /\ Truthful(q, remote)
  BY <1>1, OneHandler
<1>3. \A s \in Sites :
        /\ q.base[s].status # "pending"
        /\ q.copy[s].status \in {"active", "revoked", "missing"} => q.copy[s].id # NoUser
        /\ q.copy[s].id # q.base[s].id
           => q.copy[s].id # NoUser /\ Created(s, q.copy[s].id) \in q.log
  BY <1>2 DEF Session
<1>4. \A e \in q.log : e.op = "provision" /\ e.result = "success"
                       => q.copy[e.site].id # NoUser
  BY <1>2 DEF Session
<1>5. \A e \in q.log : e.result = "success" => Truth(e, remote)
  BY <1>2 DEF Truthful
<1>7. HandlerOk(h, ops, placement, registered, identity, remote, network)
  BY <1>1, <1>2, <1>3, <1>4, <1>5, RaisesOk
<1>8. ops' \in 0..MaxOps /\ ops <= ops'
  BY OneHandler
<1>9. h.pc \notin Running /\ loop' # r
  BY RequestsAssumption DEF Running, Aborting
<1> QED
  BY <1>7, <1>8, <1>9, OneHandler, HandlerKeeps

\* The ways a handler is left, with what its session held or with none of it.
LEMMA RaiseKeeps ==
    ASSUME IInv, NEW r \in Requests, loop \in {Nobody, r}, NEW why,
           \/ Raise(r, Unlocked(req[r]), why)
           \/ RaiseOutOfCall(r, req[r], why)
           \/ RaiseOutOfCall(r, Unlocked(req[r]), why),
           UNCHANGED <<remote, network, identity, placement, audit, ops, restarts, registered>>
    PROVE  IInv'
<1>1. PICK q : q = req[r]
  OBVIOUS
<1>2. DOMAIN q = Fields /\ q.made \in BOOLEAN
  BY <1>1, OneHandler DEF Shape
<1>3. CASE RaiseOutOfCall(r, q, why)
  <2>1. PICK h : h = [q EXCEPT !.pc = "abort", !.fate = why, !.reply = NoReply]
    OBVIOUS
  <2>2. Update(r, h) /\ loop' = Nobody
    BY <1>3, <2>1 DEF RaiseOutOfCall
  <2>3. /\ DOMAIN h = Fields /\ h.pc \in Aborting /\ h.op = q.op /\ h.n = q.n /\ h.base = q.base
        /\ h.copy = q.copy /\ h.held = q.held /\ h.log = q.log /\ h.reply = NoReply
        /\ h.todo = q.todo /\ h.made = q.made
    BY <1>2, <2>1 DEF Fields, Aborting
  <2> QED
    BY <1>1, <1>2, <2>2, <2>3, RaisesKeeps
<1>4. CASE RaiseOutOfCall(r, Unlocked(q), why)
  <2>1. PICK h : h = [Unlocked(q) EXCEPT !.pc = "abort", !.fate = why, !.reply = NoReply]
    OBVIOUS
  <2>2. Update(r, h) /\ loop' = Nobody
    BY <1>4, <2>1 DEF RaiseOutOfCall
  <2>3. /\ DOMAIN h = Fields /\ h.pc \in Aborting /\ h.op = q.op /\ h.n = q.n /\ h.base = q.base
        /\ h.copy = q.copy /\ h.held = {} /\ h.log = q.log /\ h.reply = NoReply
        /\ h.todo = q.todo /\ h.made = FALSE
    BY <1>2, <2>1 DEF Fields, Aborting, Unlocked
  <2> QED
    BY <1>1, <2>2, <2>3, RaisesKeeps
<1>5. CASE Raise(r, Unlocked(q), why)
  <2>1. PICK h : h = [Unlocked(q) EXCEPT !.pc = "rollback", !.fate = why]
    OBVIOUS
  <2>2. Update(r, h) /\ loop' = Nobody
    BY <1>5, <2>1 DEF Raise
  <2>3. /\ DOMAIN h = Fields /\ h.pc \in Aborting /\ h.op = q.op /\ h.n = q.n /\ h.base = q.base
        /\ h.copy = q.copy /\ h.held = {} /\ h.log = q.log /\ h.reply = q.reply
        /\ h.todo = q.todo /\ h.made = FALSE
    BY <1>2, <2>1 DEF Fields, Aborting, Unlocked
  <2> QED
    BY <1>1, <2>2, <2>3, RaisesKeeps
<1> QED
  BY <1>1, <1>3, <1>4, <1>5

LEMMA UnwindsKeeps ==
    ASSUME IInv, NEW r \in Requests, Unwinds(r)
    PROVE  IInv'
<1>1. PICK q : q = req[r]
  OBVIOUS
<1>2. PICK h : h = [q EXCEPT !.pc = "rollback"]
  OBVIOUS
<1>3. DOMAIN q = Fields /\ q.made \in BOOLEAN
  BY <1>1, OneHandler DEF Shape
<1>4. /\ loop = Nobody /\ loop' = Nobody /\ Update(r, h)
      /\ UNCHANGED <<remote, network, identity, placement, audit, ops, restarts, registered>>
  BY <1>1, <1>2 DEF Unwinds
<1>5. /\ DOMAIN h = Fields /\ h.pc \in Aborting /\ h.op = q.op /\ h.n = q.n /\ h.base = q.base
      /\ h.copy = q.copy /\ h.held = q.held /\ h.log = q.log /\ h.reply = q.reply
      /\ h.todo = q.todo /\ h.made = q.made
  BY <1>2, <1>3 DEF Fields, Aborting
<1> QED
  BY <1>1, <1>3, <1>4, <1>5, RaisesKeeps

\* The end of a request that changes no table.
LEMMA EndKeeps ==
    ASSUME IInv, NEW r \in Requests, loop = Nobody \/ req[r].pc \notin Running,
           Update(r, Finished(req[r])),
           UNCHANGED <<remote, network, identity, placement, audit, loop, ops, restarts,
                       registered>>
    PROVE  IInv'
<1>1. PICK h : h = Finished(req[r])
  OBVIOUS
<1>2. Shape(req[r], ops) /\ ops \in Nat /\ network \subseteq Commands
  BY OneHandler
<1>3. /\ HandlerOk(h, ops, placement, registered, identity, remote, network)
      /\ h.pc = "done" /\ h.n = 0
  BY <1>1, <1>2, FinishedOk
<1>4. ops' \in 0..MaxOps /\ ops <= ops'
  BY OneHandler
<1>5. h.pc \notin Running /\ loop # r /\ loop' = loop
  BY <1>3, OneHandler, RequestsAssumption DEF Running
<1> QED
  BY <1>1, <1>3, <1>4, <1>5, OneHandler, HandlerKeeps

LEMMA ClosesKeeps ==
    ASSUME IInv, NEW r \in Requests, Closes(r)
    PROVE  IInv'
<1>1. PICK h : h = [req[r] EXCEPT !.pc = "next", !.todo = Tail(@)]
  OBVIOUS
<1>2. PICK q : q = req[r]
  OBVIOUS
<1>3. /\ Shape(q, ops) /\ Session(q) /\ Rooted(q, placement, registered, identity)
      /\ HandlerOk(q, ops, placement, registered, identity, remote, network)
  BY <1>2, OneHandler DEF HandlerOk
<1>4. /\ loop = Nobody /\ loop' = r /\ q.pc = "close" /\ Update(r, h)
      /\ UNCHANGED <<remote, network, identity, placement, audit, ops, restarts, registered>>
  BY <1>1, <1>2 DEF Closes
<1>5. /\ DOMAIN h = Fields /\ h.pc = "next" /\ h.op = q.op /\ h.n = q.n /\ h.base = q.base
      /\ h.copy = q.copy /\ h.held = q.held /\ h.log = q.log /\ h.reply = q.reply
      /\ h.todo = Tail(q.todo) /\ h.made = q.made
  BY <1>1, <1>2, <1>3 DEF Shape, Fields
<1>6. q.op \in Mutations /\ q.n # 0 /\ Order(q.todo) /\ q.todo # <<>> /\ h.made \in BOOLEAN
  BY <1>3, <1>4, <1>5 DEF Shape
<1>7. Order(h.todo)
  BY <1>5, <1>6, RestOfOrder
<1>8. h.made \/ identity
  BY <1>3, <1>4, <1>5, <1>6 DEF Rooted
<1>9. \A s \in Sites : h.copy[s].id # h.base[s].id => s \in h.held
  BY <1>3, <1>4, <1>5 DEF Aborting, Session
<1>10. Unsent(h) \subseteq Unsent(q)
  BY <1>4, <1>5 DEF Unsent
<1>11. HandlerOk(h, ops, placement, registered, identity, remote, network)
  BY <1>3, <1>4, <1>5, <1>6, <1>7, <1>8, <1>9, <1>10, MovesOk
<1>12. ops' \in 0..MaxOps /\ ops <= ops'
  BY <1>4, OneHandler
<1>13. h.pc \in Running
  BY <1>5 DEF Running
<1> QED
  BY <1>2, <1>4, <1>5, <1>11, <1>12, <1>13, OneHandler, HandlerKeeps

\* What a flush writes it holds from then on.
LEMMA FlushKeeps ==
    ASSUME IInv, NEW r \in Requests, Flush(r)
    PROVE  IInv'
<1>2. PICK q : q = req[r]
  OBVIOUS
<1>3. PICK s : s = Head(q.todo)
  OBVIOUS
<1>4. \/ \E why : RaiseOutOfCall(r, Unlocked(q), why)
      \/ \E written \in {TRUE, q.copy[s] # q.base[s]} :
           /\ written => s \in registered
           /\ Update(r, [q EXCEPT !.pc = "close", !.long = FALSE,
                                  !.held = IF written THEN @ \cup {s} ELSE @])
           /\ loop' = Nobody
  BY <1>2, <1>3 DEF Flush
<1>5. /\ loop = r /\ q.pc = "flush"
      /\ UNCHANGED <<remote, network, identity, placement, audit, ops, restarts, registered>>
  BY <1>2 DEF Flush
<1>6. CASE \E why : RaiseOutOfCall(r, Unlocked(q), why)
  BY <1>2, <1>5, <1>6, RaiseKeeps
<1>7. ASSUME NEW written \in {TRUE, q.copy[s] # q.base[s]},
             written => s \in registered,
             Update(r, [q EXCEPT !.pc = "close", !.long = FALSE,
                                 !.held = IF written THEN @ \cup {s} ELSE @]),
             loop' = Nobody
      PROVE  IInv'
  <2>1. PICK h : h = [q EXCEPT !.pc = "close", !.long = FALSE,
                               !.held = IF written THEN @ \cup {s} ELSE @]
    OBVIOUS
  <2>2. /\ Shape(q, ops) /\ Session(q) /\ Rooted(q, placement, registered, identity)
        /\ Truthful(q, remote) /\ Sent(q, network)
    BY <1>2, OneHandler
  <2>3. /\ DOMAIN h = Fields /\ h.pc = "close" /\ h.op = q.op /\ h.n = q.n /\ h.base = q.base
        /\ h.copy = q.copy /\ h.log = q.log /\ h.reply = q.reply
        /\ h.todo = q.todo /\ h.made = q.made
        /\ h.held = IF written THEN q.held \cup {s} ELSE q.held
    BY <2>1, <2>2 DEF Shape, Fields
  <2>4. q.op \in Mutations /\ q.n # 0 /\ Order(q.todo) /\ q.todo # <<>>
    BY <1>5, <2>2 DEF Shape
  <2>5. s \in Sites
    BY <1>3, <2>4, RestOfOrder
  <2>6. h.held \subseteq Sites /\ q.held \subseteq h.held
    BY <2>2, <2>3, <2>5 DEF Shape
  <2>7. Shape(h, ops)
    BY <2>2, <2>3, <2>4, <2>6 DEF Shape
  <2>8. \A x \in Sites : h.copy[x].id # h.base[x].id => x \in h.held
    BY <1>3, <1>5, <1>7, <2>2, <2>3 DEF Session, Aborting
  <2>9. Unsent(h) = Unsent(q)
    BY <1>5, <2>3 DEF Unsent
  <2>10. Session(h)
    BY <1>5, <2>2, <2>3, <2>8, <2>9 DEF Aborting, Session
  <2>11. Rooted(h, placement, registered, identity)
    BY <1>5, <1>7, <2>2, <2>3 DEF Rooted
  <2>12. Truthful(h, remote)
    BY <2>2, <2>3 DEF Truthful
  <2>13. Sent(h, network)
    BY <2>2, <2>3, <2>9 DEF Sent
  <2>14. HandlerOk(h, ops, placement, registered, identity, remote, network)
    BY <2>7, <2>10, <2>11, <2>12, <2>13 DEF HandlerOk
  <2>15. ops' \in 0..MaxOps /\ ops <= ops'
    BY <1>5, OneHandler
  <2>16. h.pc \notin Running /\ loop' # r
    BY <1>7, <2>3, RequestsAssumption DEF Running
  <2> QED
    BY <1>2, <1>5, <1>7, <2>1, <2>3, <2>14, <2>15, <2>16, OneHandler, HandlerKeeps, ZenonT(40)
<1> QED
  BY <1>4, <1>6, <1>7

\* What an answer makes of the row of its site, and the entry that records it.
Settles(q, s, row, e) ==
    /\ e.site = s /\ e.op = q.op
    /\ \/ /\ q.op = "provision" /\ q.reply.kind = "ok"
          /\ row.id = q.reply.id /\ row.status = "active" /\ e = Created(s, q.reply.id)
       \/ /\ q.op = "provision" /\ q.reply.kind # "ok"
          /\ row.id = q.copy[s].id /\ row.status = "failed" /\ e.result = "failure"
       \/ /\ q.op # "provision" /\ q.reply.kind = "ok"
          /\ row.id = q.copy[s].id /\ row.status = "revoked"
          /\ e.id = row.id /\ e.result = "success"
       \/ /\ q.op # "provision" /\ q.reply.kind # "ok"
          /\ row = q.copy[s] /\ e.result = "failure"

LEMMA EntryIs ==
    ASSUME NEW op \in Mutations, NEW s \in Sites, NEW u \in UserIds \cup {NoUser},
           NEW result \in {"success", "failure"}
    PROVE  /\ Entry(op, s, u, result) \in Entries
           /\ Entry(op, s, u, result).op = op /\ Entry(op, s, u, result).site = s
           /\ Entry(op, s, u, result).id = u /\ Entry(op, s, u, result).result = result
BY DEF Entry, Entries

LEMMA OutcomeSettles ==
    ASSUME NEW q, NEW k, Shape(q, k), q.pc = "call", q.op \in Mutations,
           NEW s, s = Head(q.todo), NEW o, o = Answered(q)
    PROVE  /\ DOMAIN o = Fields /\ o.op = q.op /\ o.n = q.n /\ o.todo = q.todo
           /\ o.made = q.made /\ o.base = q.base /\ o.held = q.held
           /\ o.asked = q.asked /\ o.doomed = q.doomed
           /\ o.copy \in [Sites -> Row] /\ \A x \in Sites : x # s => o.copy[x] = q.copy[x]
           /\ \E e \in Entries : o.log = q.log \cup {e} /\ Settles(q, s, o.copy[s], e)
<1>1. s \in Sites
  BY RestOfOrder DEF Shape
<1>2. /\ DOMAIN q = Fields /\ q.copy \in [Sites -> Row] /\ q.copy[s] \in Row
      /\ q.reply.id \in UserIds \cup {NoUser} /\ q.copy[s].id \in UserIds \cup {NoUser}
  BY <1>1 DEF Shape, Row
<1>3. CASE q.op = "provision" /\ q.reply.kind = "ok"
  <2>1. PICK e : e = Entry(q.op, s, q.reply.id, "success")
    OBVIOUS
  <2>2. o = [q EXCEPT !.copy[s] = [id |-> q.reply.id, status |-> "active"],
                      !.log = @ \cup {e}]
    BY <1>3, <2>1 DEF Answered, Outcome
  <2>3. e \in Entries /\ e.site = s /\ e.op = q.op /\ e = Created(s, q.reply.id)
    BY <1>1, <1>2, <1>3, <2>1, EntryIs DEF Created
  <2>4. /\ DOMAIN o = Fields /\ o.op = q.op /\ o.n = q.n /\ o.todo = q.todo
        /\ o.made = q.made /\ o.base = q.base /\ o.held = q.held
        /\ o.asked = q.asked /\ o.doomed = q.doomed
        /\ o.log = q.log \cup {e}
        /\ o.copy = [q.copy EXCEPT ![s] = [id |-> q.reply.id, status |-> "active"]]
    BY <1>2, <2>2 DEF Fields
  <2>5. [id |-> q.reply.id, status |-> "active"] \in Row
    BY <1>2 DEF Row, Statuses
  <2>6. /\ o.copy \in [Sites -> Row] /\ \A x \in Sites : x # s => o.copy[x] = q.copy[x]
        /\ o.copy[s].id = q.reply.id /\ o.copy[s].status = "active"
    BY <1>1, <1>2, <2>4, <2>5
  <2> QED
    BY <1>3, <2>3, <2>4, <2>6 DEF Settles
<1>4. CASE q.op = "provision" /\ q.reply.kind # "ok"
  <2>1. PICK e : e = Entry(q.op, s, NoUser, "failure")
    OBVIOUS
  <2>2. o = [q EXCEPT !.copy[s].status = "failed", !.log = @ \cup {e}]
    BY <1>4, <2>1 DEF Answered, Outcome
  <2>3. e \in Entries /\ e.site = s /\ e.op = q.op /\ e.result = "failure"
    BY <1>1, <2>1, EntryIs
  <2>4. /\ DOMAIN o = Fields /\ o.op = q.op /\ o.n = q.n /\ o.todo = q.todo
        /\ o.made = q.made /\ o.base = q.base /\ o.held = q.held
        /\ o.asked = q.asked /\ o.doomed = q.doomed
        /\ o.log = q.log \cup {e}
        /\ o.copy = [q.copy EXCEPT ![s] = [q.copy[s] EXCEPT !.status = "failed"]]
    BY <1>2, <2>2 DEF Fields
  <2>5. /\ [q.copy[s] EXCEPT !.status = "failed"] \in Row
        /\ [q.copy[s] EXCEPT !.status = "failed"].id = q.copy[s].id
        /\ [q.copy[s] EXCEPT !.status = "failed"].status = "failed"
    BY <1>2 DEF Row, Statuses
  <2>6. /\ o.copy \in [Sites -> Row] /\ \A x \in Sites : x # s => o.copy[x] = q.copy[x]
        /\ o.copy[s].id = q.copy[s].id /\ o.copy[s].status = "failed"
    BY <1>1, <1>2, <2>4, <2>5
  <2> QED
    BY <1>4, <2>3, <2>4, <2>6 DEF Settles
<1>5. CASE q.op # "provision" /\ q.reply.kind = "ok"
  <2>1. PICK e : e = Entry(q.op, s, q.copy[s].id, "success")
    OBVIOUS
  <2>2. o = [q EXCEPT !.copy[s].status = "revoked", !.log = @ \cup {e}]
    BY <1>5, <2>1 DEF Answered, Outcome, Mutations
  <2>3. e \in Entries /\ e.site = s /\ e.op = q.op /\ e.result = "success" /\ e.id = q.copy[s].id
    BY <1>1, <1>2, <2>1, EntryIs
  <2>4. /\ DOMAIN o = Fields /\ o.op = q.op /\ o.n = q.n /\ o.todo = q.todo
        /\ o.made = q.made /\ o.base = q.base /\ o.held = q.held
        /\ o.asked = q.asked /\ o.doomed = q.doomed
        /\ o.log = q.log \cup {e}
        /\ o.copy = [q.copy EXCEPT ![s] = [q.copy[s] EXCEPT !.status = "revoked"]]
    BY <1>2, <2>2 DEF Fields
  <2>5. /\ [q.copy[s] EXCEPT !.status = "revoked"] \in Row
        /\ [q.copy[s] EXCEPT !.status = "revoked"].id = q.copy[s].id
        /\ [q.copy[s] EXCEPT !.status = "revoked"].status = "revoked"
    BY <1>2 DEF Row, Statuses
  <2>6. /\ o.copy \in [Sites -> Row] /\ \A x \in Sites : x # s => o.copy[x] = q.copy[x]
        /\ o.copy[s].id = q.copy[s].id /\ o.copy[s].status = "revoked"
    BY <1>1, <1>2, <2>4, <2>5
  <2> QED
    BY <1>5, <2>3, <2>4, <2>6 DEF Settles
<1>6. CASE q.op # "provision" /\ q.reply.kind # "ok"
  <2>1. PICK e : e = Entry(q.op, s, q.copy[s].id, "failure")
    OBVIOUS
  <2>2. o = [q EXCEPT !.log = @ \cup {e}]
    BY <1>6, <2>1 DEF Answered, Outcome, Mutations
  <2>3. e \in Entries /\ e.site = s /\ e.op = q.op /\ e.result = "failure"
    BY <1>1, <1>2, <2>1, EntryIs
  <2>4. /\ DOMAIN o = Fields /\ o.op = q.op /\ o.n = q.n /\ o.todo = q.todo
        /\ o.made = q.made /\ o.base = q.base /\ o.held = q.held
        /\ o.asked = q.asked /\ o.doomed = q.doomed
        /\ o.log = q.log \cup {e} /\ o.copy = q.copy
    BY <1>2, <2>2 DEF Fields
  <2> QED
    BY <1>2, <1>6, <2>3, <2>4 DEF Settles
<1> QED
  BY <1>3, <1>4, <1>5, <1>6

LEMMA ResumeKeeps ==
    ASSUME IInv, NEW r \in Requests, Resume(r)
    PROVE  IInv'
<1>1. PICK q : q = req[r]
  OBVIOUS
<1>2. PICK o : o = Answered(q)
  OBVIOUS
<1>3. PICK h : h = [o EXCEPT !.pc = "flush", !.reply = NoReply]
  OBVIOUS
<1>4. PICK s : s = Head(q.todo)
  OBVIOUS
<1>5. /\ Shape(q, ops) /\ Session(q) /\ Rooted(q, placement, registered, identity)
      /\ Truthful(q, remote) /\ Sent(q, network)
  BY <1>1, OneHandler
<1>e. CASE RaiseOutOfCall(r, q, "answer")
  <2>1. /\ loop = Nobody
        /\ UNCHANGED <<remote, network, identity, placement, audit, ops, restarts, registered>>
    BY DEF Resume
  <2> QED
    BY <1>1, <1>e, <2>1, RaiseKeeps
<1> SUFFICES ASSUME Continue(r) PROVE IInv'
  BY <1>1, <1>e DEF Resume
<1>6. /\ loop = Nobody /\ loop' = r /\ q.pc = "call" /\ q.op # "sync" /\ Update(r, h)
      /\ UNCHANGED <<remote, network, identity, placement, audit, ops, restarts, registered>>
  BY <1>1, <1>2, <1>3 DEF Resume, Continue
<1>7. q.op \in Mutations /\ q.n # 0 /\ Order(q.todo) /\ q.todo # <<>>
  BY <1>5, <1>6 DEF Shape
<1>8. s \in Sites /\ s \notin ToSet(Tail(q.todo))
  BY <1>4, <1>7, RestOfOrder
<1>9. /\ DOMAIN o = Fields /\ o.op = q.op /\ o.n = q.n /\ o.todo = q.todo
      /\ o.made = q.made /\ o.base = q.base /\ o.held = q.held
      /\ o.asked = q.asked /\ o.doomed = q.doomed
      /\ o.copy \in [Sites -> Row] /\ \A x \in Sites : x # s => o.copy[x] = q.copy[x]
      /\ \E e \in Entries : o.log = q.log \cup {e} /\ Settles(q, s, o.copy[s], e)
  BY <1>2, <1>4, <1>5, <1>6, <1>7, OutcomeSettles
<1>10. PICK e \in Entries : o.log = q.log \cup {e} /\ Settles(q, s, o.copy[s], e)
  BY <1>9
<1>11. /\ DOMAIN h = Fields /\ h.pc = "flush" /\ h.op = q.op /\ h.n = q.n /\ h.todo = q.todo
       /\ h.made = q.made /\ h.base = q.base /\ h.held = q.held /\ h.reply = NoReply
       /\ h.copy = o.copy /\ h.log = q.log \cup {e}
  BY <1>3, <1>9, <1>10 DEF Fields
<1>12. h.log \subseteq Entries /\ h.reply.kind = "none" /\ h.reply.id = NoUser
  BY <1>5, <1>11, NoReplyIs DEF Shape
<1>a. /\ h.n \in 0..ops /\ h.n # 0 /\ h.op \in Mutations /\ Order(h.todo) /\ h.todo # <<>>
      /\ h.made \in BOOLEAN /\ h.base \in [Sites -> Row] /\ h.copy \in [Sites -> Row]
      /\ h.held \subseteq Sites
  BY <1>5, <1>7, <1>9, <1>11 DEF Shape
<1>13. Shape(h, ops)
  BY <1>a, <1>11, <1>12 DEF Shape, Mutations, Running
<1>14. Unsent(h) = Unsent(q) /\ s \notin Unsent(h)
  BY <1>6, <1>8, <1>11 DEF Unsent
<1>15. /\ o.copy[s].status # "pending" \/ q.op # "provision"
       /\ o.copy[s].status \in {"active", "revoked", "missing"} => o.copy[s].id # NoUser
       /\ q.reply.kind = "ok" => o.copy[s].id # NoUser
       /\ o.copy[s].id # q.base[s].id => o.copy[s].id # NoUser /\ Created(s, o.copy[s].id) \in h.log
  BY <1>4, <1>5, <1>6, <1>7, <1>8, <1>10, <1>11 DEF Settles, Session, UserIds, NoUser, Mutations
<1>16. \A x \in Sites :
         /\ h.base[x].status # "pending"
         /\ h.copy[x].status # "pending"
         /\ h.copy[x].status \in {"active", "revoked", "missing"} => h.copy[x].id # NoUser
         /\ h.copy[x].id # h.base[x].id
            => /\ h.copy[x].id # NoUser /\ Created(x, h.copy[x].id) \in h.log
               /\ x \in h.held \/ x = s
  BY <1>4, <1>5, <1>6, <1>9, <1>10, <1>11, <1>15, SMTT(20) DEF Aborting, Session, Settles
<1>17. \A d \in h.log : d.site \notin Unsent(h)
  BY <1>5, <1>10, <1>11, <1>14 DEF Session, Settles
<1>18. \A d \in h.log : d.op = "provision" /\ d.result = "success" => h.copy[d.site].id # NoUser
  <2>1. SUFFICES ASSUME NEW d \in h.log, d.op = "provision", d.result = "success"
                 PROVE  h.copy[d.site].id # NoUser
    OBVIOUS
  <2>2. d.site \in Sites
    BY <1>12 DEF Entries
  <2>3. CASE d = e
    BY <1>10, <1>11, <1>15, <2>1, <2>3 DEF Settles
  <2>4. CASE d \in q.log
    <3>1. q.copy[d.site].id # NoUser
      BY <1>5, <2>1, <2>4 DEF Session
    <3>2. CASE d.site = s
      BY <1>10, <1>11, <1>15, <3>1, <3>2 DEF Settles
    <3>3. CASE d.site # s
      BY <1>9, <1>11, <2>2, <3>1, <3>3
    <3> QED
      BY <3>2, <3>3
  <2> QED
    BY <1>11, <2>3, <2>4
<1>19. Session(h)
  BY <1>4, <1>11, <1>16, <1>17, <1>18 DEF Session
<1>20. Rooted(h, placement, registered, identity)
  BY <1>5, <1>6, <1>11 DEF Rooted
<1>21. ASSUME e.result = "success" PROVE Truth(e, remote)
  <2>1. /\ q.op = "provision" => remote[s][q.reply.id] # "none" /\ q.reply.id \in UserIds
        /\ q.op = "revoke" => WasRevoked(remote, s, q.copy[s].id)
        /\ q.op = "delete" => WasDeleted(remote, s, q.copy[s].id)
        /\ q.reply.kind = "ok"
    BY <1>4, <1>5, <1>6, <1>10, <1>21 DEF Settles, Truthful, Session
  <2>2. q.op # "provision" => q.copy[s].id \in UserIds
    BY <1>4, <1>5, <1>6, <1>7, <1>8 DEF Session, Shape, Mutations, Row
  <2>3. /\ e.site = s /\ e.op = q.op
        /\ q.op = "provision" => e.id = q.reply.id
        /\ q.op # "provision" => e.id = q.copy[s].id
    BY <1>10, <1>21, <2>1 DEF Settles, Created, Entry
  <2> QED
    BY <1>7, <2>1, <2>2, <2>3 DEF Truth, Mutations
<1>22. Truthful(h, remote)
  BY <1>5, <1>11, <1>21 DEF Truthful
<1>23. Sent(h, network)
  BY <1>5, <1>11, <1>14 DEF Sent
<1>24. HandlerOk(h, ops, placement, registered, identity, remote, network)
  BY <1>13, <1>19, <1>20, <1>22, <1>23 DEF HandlerOk
<1>25. ops' \in 0..MaxOps /\ ops <= ops'
  BY <1>6, OneHandler
<1>26. h.pc \in Running
  BY <1>11 DEF Running
<1> QED
  BY <1>1, <1>6, <1>11, <1>24, <1>25, <1>26, OneHandler, HandlerKeeps

\* A session whose handler is about to call site s: the row of s may be pending already.
Reached(q, s) ==
    /\ \A x \in Sites :
         /\ q.base[x].status # "pending"
         /\ q.copy[x].status = "pending" => q.op = "provision" /\ x = s
         /\ q.copy[x].status \in {"active", "revoked", "missing"} => q.copy[x].id # NoUser
         /\ q.copy[x].id # q.base[x].id
            => /\ q.copy[x].id # NoUser /\ Created(x, q.copy[x].id) \in q.log
               /\ x \in q.held
    /\ \A e \in q.log : e.site \notin ToSet(q.todo)
    /\ \A e \in q.log : e.op = "provision" /\ e.result = "success"
                        => q.copy[e.site].id # NoUser

LEMMA SendKeeps ==
    ASSUME IInv, NEW r \in Requests, NEW q, NEW id \in UserIds \cup {NoUser},
           loop = r, req[r].pc = "next", req[r].todo # <<>>,
           Send(r, q, id), Shape(q, ops), q.pc = "next", q.n = req[r].n, q.todo = req[r].todo,
           Reached(q, Head(q.todo)), Rooted(q, placement, registered, identity),
           \A e \in q.log : e.result = "success" => Truth(e, remote),
           q.op \in {"revoke", "delete"} => id = q.copy[Head(q.todo)].id /\ id # NoUser,
           UNCHANGED <<remote, identity, placement, audit, ops, restarts, registered>>
    PROVE  IInv'
<1>1. PICK h : h = [q EXCEPT !.pc = "call", !.reply = NoReply]
  OBVIOUS
<1>2. PICK s : s = Head(q.todo)
  OBVIOUS
<1>3. PICK c : c = [n |-> q.n, site |-> s, op |-> q.op, id |-> id]
  OBVIOUS
<1>4. Update(r, h) /\ network' = network \cup {c} /\ loop' = Nobody
  BY <1>1, <1>2, <1>3 DEF Send
<1>5. /\ DOMAIN h = Fields /\ h.pc = "call" /\ h.op = q.op /\ h.n = q.n /\ h.todo = q.todo
      /\ h.made = q.made /\ h.base = q.base /\ h.copy = q.copy /\ h.held = q.held
      /\ h.log = q.log /\ h.reply = NoReply
  BY <1>1 DEF Shape, Fields
<1>6. /\ q.op \in Mutations /\ q.n # 0 /\ Order(q.todo) /\ q.todo # <<>>
      /\ q.n \in 0..ops /\ ops \in 0..MaxOps /\ MaxOps \in Nat /\ ops \in Nat
  BY OneHandler DEF Shape
<1>7. s \in Sites /\ s \in ToSet(q.todo) /\ s \notin ToSet(Tail(q.todo))
      /\ ToSet(Tail(q.todo)) \subseteq ToSet(q.todo)
  BY <1>2, <1>6, RestOfOrder
<1>8. c.n = q.n /\ c.site = s /\ c.op = q.op /\ c.id = id /\ c \in Commands /\ c.n <= ops
  <2>1. q.n \in 1..MaxOps /\ q.n <= ops
    BY <1>6
  <2> QED
    BY <1>3, <1>6, <1>7, <2>1 DEF Commands
<1>9. Shape(h, ops)
  <2>1. h.reply.kind = "none" /\ h.reply.id = NoUser
    BY <1>5, NoReplyIs
  <2> QED
    BY <1>5, <1>6, <2>1 DEF Shape, Mutations, Running
<1>10. Unsent(h) = ToSet(Tail(q.todo))
  BY <1>5 DEF Unsent
<1>11. h.reply.kind # "ok"
  BY <1>5, NoReplyIs
<1>12. Session(h)
  BY <1>2, <1>5, <1>7, <1>10, <1>11 DEF Session, Reached
<1>13. Rooted(h, placement, registered, identity)
  BY <1>5 DEF Rooted, Shape
<1>14. Truthful(h, remote)
  BY <1>5, <1>11 DEF Truthful
<1>15. Sent(h, network')
  <2>1. \A d \in network : d.n = h.n => d.site \notin ToSet(q.todo)
    BY <1>5, OneHandler DEF Sent, Unsent
  <2> QED
    BY <1>2, <1>4, <1>5, <1>7, <1>8, <1>10, <2>1 DEF Sent
<1>16. HandlerOk(h, ops, placement, registered, identity, remote, network')
  BY <1>9, <1>12, <1>13, <1>14, <1>15 DEF HandlerOk
<1>17. ops' \in 0..MaxOps /\ ops <= ops'
  BY OneHandler
<1>18. h.pc \notin Running /\ loop' # r
  BY <1>4, <1>5, RequestsAssumption DEF Running
<1>19. /\ network' \subseteq Commands /\ \A d \in network' : d.n <= ops'
       /\ \A d \in network' : d \in network \/ (d.n = req[r].n /\ d.n # 0)
  BY <1>4, <1>6, <1>8, OneHandler
<1> QED
  BY <1>4, <1>5, <1>16, <1>17, <1>18, <1>19, HandlerKeeps

LEMMA NextTargetKeeps ==
    ASSUME IInv, NEW r \in Requests, NextTarget(r)
    PROVE  IInv'
<1>1. PICK q : q = req[r]
  OBVIOUS
<1>2. PICK s : s = Head(q.todo)
  OBVIOUS
<1>3. PICK new : new = IF placement[s] = NoRow THEN [id |-> NoUser, status |-> "pending"]
                       ELSE placement[s]
  OBVIOUS
<1>4. PICK l : l = [q EXCEPT !.base[s] = placement[s], !.copy[s] = new]
  OBVIOUS
<1>5. /\ loop = r /\ q.pc = "next" /\ q.op = "provision" /\ q.todo # <<>>
      /\ UNCHANGED <<remote, identity, placement, audit, ops, restarts, registered>>
  BY <1>1 DEF NextTarget
<1>6. \/ /\ s \notin registered
         /\ Update(r, [l EXCEPT !.copy[s].status = "failed", !.doomed = TRUE, !.todo = Tail(@)])
         /\ UNCHANGED <<network, loop>>
      \/ (\E why : Raise(r, l, why)) /\ UNCHANGED network
      \/ \E org \in OrgIds \ {"nourl"} : Send(r, [l EXCEPT !.long = (org = "long")], NoUser)
  BY <1>1, <1>2, <1>3, <1>4 DEF NextTarget
<1>7. /\ Shape(q, ops) /\ Session(q) /\ Rooted(q, placement, registered, identity)
      /\ Truthful(q, remote) /\ Sent(q, network)
  BY <1>1, OneHandler
<1>8. /\ Order(q.todo) /\ q.n # 0 /\ s \in Sites /\ s \in ToSet(q.todo)
      /\ Order(Tail(q.todo)) /\ ToSet(Tail(q.todo)) \subseteq ToSet(q.todo)
  BY <1>2, <1>5, <1>7, RestOfOrder DEF Shape
<1>9. /\ placement[s] \in Row /\ placement[s].status # "pending"
      /\ placement[s].status \in {"active", "revoked", "missing"} => placement[s].id # NoUser
      /\ placement[s] # NoRow => identity /\ s \in registered
  BY <1>8 DEF IInv, WellFormed, PlacementsAreGrounded
<1>10. /\ new \in Row /\ new.id = placement[s].id
       /\ new.status \in {"active", "revoked", "missing"} => new.id # NoUser
       /\ s \notin registered => new.id = NoUser
  <2>1. CASE placement[s] = NoRow
    BY <1>3, <2>1 DEF NoRow, Row, Statuses
  <2>2. CASE placement[s] # NoRow
    BY <1>3, <1>9, <2>2
  <2> QED
    BY <2>1, <2>2
<1>11. /\ DOMAIN l = Fields /\ l.pc = "next" /\ l.op = "provision" /\ l.n = q.n
       /\ l.todo = q.todo /\ l.made = q.made /\ l.held = q.held /\ l.log = q.log
       /\ l.reply = q.reply
       /\ l.base = [q.base EXCEPT ![s] = placement[s]] /\ l.copy = [q.copy EXCEPT ![s] = new]
  BY <1>4, <1>5, <1>7 DEF Shape, Fields
<1>12. q.base \in [Sites -> Row] /\ q.copy \in [Sites -> Row]
  BY <1>7 DEF Shape
<1>13. /\ l.base \in [Sites -> Row] /\ l.base[s] = placement[s]
       /\ l.copy \in [Sites -> Row] /\ l.copy[s] = new
       /\ \A x \in Sites : x # s => l.base[x] = q.base[x] /\ l.copy[x] = q.copy[x]
  BY <1>8, <1>9, <1>10, <1>11, <1>12
<1>14. Shape(l, ops)
  BY <1>5, <1>7, <1>8, <1>11, <1>13 DEF Shape, Mutations, Running
<1>15. \A e \in q.log : e.site \notin ToSet(q.todo) /\ e.site # s /\ e.site \in Sites
  BY <1>5, <1>7, <1>8 DEF Session, Unsent, Shape, Entries
<1>16. Reached(l, s)
  <2>1. \A x \in Sites :
         /\ l.base[x].status # "pending"
         /\ l.copy[x].status = "pending" => l.op = "provision" /\ x = s
         /\ l.copy[x].status \in {"active", "revoked", "missing"} => l.copy[x].id # NoUser
         /\ l.copy[x].id # l.base[x].id
            => /\ l.copy[x].id # NoUser /\ Created(x, l.copy[x].id) \in l.log
               /\ x \in l.held
    BY <1>5, <1>7, <1>9, <1>10, <1>11, <1>13 DEF Aborting, Session
  <2>2. \A e \in l.log : e.op = "provision" /\ e.result = "success"
                         => l.copy[e.site].id # NoUser
    BY <1>7, <1>11, <1>13, <1>15 DEF Session
  <2> QED
    BY <1>11, <1>15, <2>1, <2>2 DEF Reached
<1>17. Rooted(l, placement, registered, identity)
  BY <1>5, <1>7, <1>9, <1>11, <1>13 DEF Rooted
<1>18. \A e \in l.log : e.result = "success" => Truth(e, remote)
  BY <1>7, <1>11 DEF Truthful
<1>19. CASE \E org \in OrgIds \ {"nourl"} : Send(r, [l EXCEPT !.long = (org = "long")], NoUser)
  <2>1. PICK org \in OrgIds : Send(r, [l EXCEPT !.long = (org = "long")], NoUser)
    BY <1>19
  <2>2. PICK h : h = [l EXCEPT !.long = (org = "long")]
    OBVIOUS
  <2>3. /\ DOMAIN h = Fields /\ h.pc = "next" /\ h.op = "provision" /\ h.n = q.n
        /\ h.todo = q.todo /\ h.made = l.made /\ h.held = l.held /\ h.log = l.log
        /\ h.reply = l.reply /\ h.base = l.base /\ h.copy = l.copy
    BY <1>11, <2>2 DEF Fields
  <2>4. Shape(h, ops)
    BY <1>11, <1>14, <2>3 DEF Shape
  <2>5. Reached(h, s) /\ Rooted(h, placement, registered, identity)
    BY <1>11, <1>16, <1>17, <2>3 DEF Reached, Rooted
  <2>6. /\ Reached(h, Head(h.todo)) /\ h.op \notin {"revoke", "delete"}
        /\ \A e \in h.log : e.result = "success" => Truth(e, remote)
    BY <1>2, <1>18, <2>3, <2>5
  <2>7. Send(r, h, NoUser) /\ h.n = req[r].n /\ h.todo = req[r].todo
    BY <1>1, <2>1, <2>2, <2>3
  <2>8. /\ loop = r /\ req[r].pc = "next" /\ req[r].todo # <<>>
        /\ UNCHANGED <<remote, identity, placement, audit, ops, restarts, registered>>
    BY <1>1, <1>5
  <2> QED
    BY <2>3, <2>4, <2>5, <2>6, <2>7, <2>8, SendKeeps
<1>20. ops' \in 0..MaxOps /\ ops <= ops'
  BY <1>5, OneHandler
<1>21. CASE (\E why : Raise(r, l, why)) /\ UNCHANGED network
  <2>0. PICK why : Raise(r, l, why)
    BY <1>21
  <2>1. PICK h : h = [l EXCEPT !.pc = "rollback", !.fate = why]
    OBVIOUS
  <2>2. Update(r, h) /\ loop' = Nobody
    BY <2>0, <2>1 DEF Raise
  <2>3. /\ DOMAIN h = Fields /\ h.pc \in Aborting /\ h.op = l.op /\ h.n = l.n /\ h.todo = l.todo
        /\ h.made = l.made /\ h.base = l.base /\ h.copy = l.copy /\ h.held = l.held
        /\ h.log = l.log /\ h.reply = l.reply
    BY <1>11, <2>1 DEF Fields, Aborting
  <2>4. h.made \in BOOLEAN
    BY <1>14, <2>3 DEF Shape
  <2>5. /\ \A x \in Sites :
           /\ l.base[x].status # "pending"
           /\ l.copy[x].status \in {"active", "revoked", "missing"} => l.copy[x].id # NoUser
           /\ l.copy[x].id # l.base[x].id
              => l.copy[x].id # NoUser /\ Created(x, l.copy[x].id) \in l.log
        /\ \A e \in l.log : e.op = "provision" /\ e.result = "success"
                            => l.copy[e.site].id # NoUser
    BY <1>16 DEF Reached
  <2>9. HandlerOk(h, ops, placement, registered, identity, remote, network)
    BY <1>14, <1>17, <1>18, <2>3, <2>4, <2>5, RaisesOk
  <2>10. h.pc \notin Running /\ loop' # r
    BY <2>2, <2>3, RequestsAssumption DEF Running, Aborting
  <2> QED
    BY <1>1, <1>5, <1>11, <1>20, <1>21, <2>2, <2>3, <2>9, <2>10, OneHandler, HandlerKeeps
<1>22. CASE /\ s \notin registered
            /\ Update(r, [l EXCEPT !.copy[s].status = "failed", !.doomed = TRUE,
                                   !.todo = Tail(@)])
            /\ UNCHANGED <<network, loop>>
  <2>1. PICK h : h = [l EXCEPT !.copy[s].status = "failed", !.doomed = TRUE, !.todo = Tail(@)]
    OBVIOUS
  <2>2. /\ DOMAIN h = Fields /\ h.pc = "next" /\ h.op = "provision" /\ h.n = q.n
        /\ h.todo = Tail(q.todo)
        /\ h.made = l.made /\ h.base = l.base /\ h.held = l.held
        /\ h.log = l.log /\ h.reply = l.reply
        /\ h.copy = [l.copy EXCEPT ![s] = [l.copy[s] EXCEPT !.status = "failed"]]
    BY <1>11, <2>1 DEF Fields
  <2>3. /\ [new EXCEPT !.status = "failed"] \in Row
        /\ [new EXCEPT !.status = "failed"].id = new.id
        /\ [new EXCEPT !.status = "failed"].status = "failed"
    BY <1>10 DEF Row, Statuses
  <2>4. /\ h.copy \in [Sites -> Row] /\ h.copy[s].id = new.id /\ h.copy[s].status = "failed"
        /\ \A x \in Sites : x # s => h.copy[x] = l.copy[x]
    BY <1>8, <1>13, <2>2, <2>3
  <2>a. /\ h.n \in 0..ops /\ h.n # 0 /\ h.made \in BOOLEAN /\ h.base \in [Sites -> Row]
        /\ h.held \subseteq Sites /\ h.log \subseteq Entries
        /\ h.reply.kind \in {"none", "ok", "error", "garbled"}
        /\ h.reply.id \in UserIds \cup {NoUser}
    BY <1>8, <1>11, <1>14, <2>2 DEF Shape
  <2>5. Shape(h, ops)
    BY <1>8, <2>a, <2>2, <2>4 DEF Shape, Mutations, Running
  <2>6. Unsent(h) = ToSet(Tail(q.todo))
    BY <2>2 DEF Unsent
  <2>7. Session(h)
    <3>1. \A x \in Sites :
           /\ h.base[x].status # "pending" /\ h.copy[x].status # "pending"
           /\ h.copy[x].status \in {"active", "revoked", "missing"} => h.copy[x].id # NoUser
           /\ h.copy[x].id # h.base[x].id
              => /\ h.copy[x].id # NoUser /\ Created(x, h.copy[x].id) \in h.log
                 /\ x \in h.held
      BY <1>10, <1>13, <1>16, <2>2, <2>4 DEF Reached
    <3>2. \A e \in h.log : e.op = "provision" /\ e.result = "success"
                           => h.copy[e.site].id # NoUser
      BY <1>11, <1>15, <1>16, <2>2, <2>4 DEF Reached
    <3>3. \A e \in h.log : e.site \notin Unsent(h)
      BY <1>8, <1>11, <1>15, <2>2, <2>6
    <3> QED
      BY <2>2, <3>1, <3>2, <3>3 DEF Session
  <2>8. Rooted(h, placement, registered, identity)
    BY <1>5, <1>11, <1>17, <2>2 DEF Rooted
  <2>9. Truthful(h, remote)
    BY <1>18, <2>2 DEF Truthful
  <2>10. Sent(h, network)
    BY <1>5, <1>7, <1>8, <2>2, <2>6 DEF Sent, Unsent
  <2>11. HandlerOk(h, ops, placement, registered, identity, remote, network)
    BY <2>5, <2>7, <2>8, <2>9, <2>10 DEF HandlerOk
  <2>12. h.pc \in Running
    BY <2>2 DEF Running
  <2> QED
    BY <1>1, <1>5, <1>20, <1>22, <2>1, <2>2, <2>11, <2>12, OneHandler, HandlerKeeps
<1> QED
  BY <1>6, <1>19, <1>21, <1>22

LEMMA NextPlacementKeeps ==
    ASSUME IInv, NEW r \in Requests, NextPlacement(r)
    PROVE  IInv'
<1>1. PICK q : q = req[r]
  OBVIOUS
<1>2. PICK s : s = Head(q.todo)
  OBVIOUS
<1>3. /\ loop = r /\ q.pc = "next" /\ q.op \in {"revoke", "delete"} /\ q.todo # <<>>
      /\ UNCHANGED <<remote, identity, placement, audit, ops, restarts, registered>>
  BY <1>1 DEF NextPlacement
<1>4. \/ /\ Update(r, [q EXCEPT !.todo = Tail(@)])
         /\ UNCHANGED <<network, loop>>
      \/ q.copy[s].id # NoUser /\ Send(r, q, q.copy[s].id)
  BY <1>1, <1>2 DEF NextPlacement
<1>5. /\ Shape(q, ops) /\ Session(q) /\ Rooted(q, placement, registered, identity)
      /\ Truthful(q, remote) /\ Sent(q, network)
      /\ HandlerOk(q, ops, placement, registered, identity, remote, network)
  BY <1>1, OneHandler DEF HandlerOk
<1>6. /\ Order(q.todo) /\ q.n # 0 /\ s \in Sites /\ q.op \in Mutations
      /\ Order(Tail(q.todo)) /\ ToSet(Tail(q.todo)) \subseteq ToSet(q.todo)
  BY <1>2, <1>3, <1>5, RestOfOrder DEF Shape
<1>7. q.copy[s].id \in UserIds \cup {NoUser}
  BY <1>5, <1>6 DEF Shape, Row
<1>8. CASE q.copy[s].id # NoUser /\ Send(r, q, q.copy[s].id)
  <2>1. Reached(q, s)
    BY <1>3, <1>5 DEF Aborting, Session, Reached, Unsent
  <2>2. \A e \in q.log : e.result = "success" => Truth(e, remote)
    BY <1>5 DEF Truthful
  <2> QED
    BY <1>1, <1>2, <1>3, <1>5, <1>7, <1>8, <2>1, <2>2, SendKeeps
<1>9. CASE /\ Update(r, [q EXCEPT !.todo = Tail(@)])
           /\ UNCHANGED <<network, loop>>
  <2>1. PICK h : h = [q EXCEPT !.todo = Tail(@)]
    OBVIOUS
  <2>2. /\ DOMAIN h = Fields /\ h.pc = "next" /\ h.op = q.op /\ h.n = q.n /\ h.base = q.base
        /\ h.copy = q.copy /\ h.held = q.held /\ h.log = q.log /\ h.reply = q.reply
        /\ h.todo = Tail(q.todo) /\ h.made = q.made
    BY <1>3, <1>5, <2>1 DEF Shape, Fields
  <2>3. h.made \in BOOLEAN
    BY <1>5, <2>2 DEF Shape
  <2>4. h.made \/ identity
    BY <1>3, <1>5, <1>6, <2>2 DEF Rooted
  <2>5. \A x \in Sites : h.copy[x].id # h.base[x].id => x \in h.held
    BY <1>3, <1>5, <2>2 DEF Aborting, Session
  <2>6. Unsent(h) \subseteq Unsent(q)
    BY <1>3, <1>6, <2>2 DEF Unsent
  <2>7. HandlerOk(h, ops, placement, registered, identity, remote, network)
    BY <1>3, <1>5, <1>6, <2>2, <2>3, <2>4, <2>5, <2>6, MovesOk
  <2>8. ops' \in 0..MaxOps /\ ops <= ops'
    BY <1>3, OneHandler
  <2>9. h.pc \in Running
    BY <2>2 DEF Running
  <2> QED
    BY <1>1, <1>3, <1>9, <2>1, <2>2, <2>7, <2>8, <2>9, OneHandler, HandlerKeeps
<1> QED
  BY <1>4, <1>8, <1>9

\* A handler that hears an answer, or that there will be none.
LEMMA HearsOk ==
    ASSUME NEW q, NEW k, NEW p, NEW g, NEW i, NEW m, NEW w,
           HandlerOk(q, k, p, g, i, m, w), q.pc = "call",
           NEW reply, reply.kind \in {"ok", "error", "garbled"},
           reply.id \in UserIds \cup {NoUser},
           reply.kind = "ok" =>
             /\ q.op = "provision" => /\ reply.id \in UserIds /\ reply.id = q.n
                                      /\ m[Head(q.todo)][reply.id] # "none"
             /\ q.op = "revoke" => WasRevoked(m, Head(q.todo), q.copy[Head(q.todo)].id)
             /\ q.op = "delete" => WasDeleted(m, Head(q.todo), q.copy[Head(q.todo)].id),
           NEW h, h = [q EXCEPT !.reply = reply]
    PROVE  HandlerOk(h, k, p, g, i, m, w) /\ h.pc = "call" /\ h.n = q.n
<1>1. Shape(q, k) /\ Session(q) /\ Rooted(q, p, g, i) /\ Truthful(q, m) /\ Sent(q, w)
  BY DEF HandlerOk
<1>2. /\ DOMAIN h = Fields /\ h.pc = "call" /\ h.op = q.op /\ h.n = q.n /\ h.base = q.base
      /\ h.copy = q.copy /\ h.held = q.held /\ h.log = q.log
      /\ h.todo = q.todo /\ h.made = q.made /\ h.reply = reply
  BY <1>1 DEF Shape, Fields
<1>3. Shape(h, k)
  BY <1>1, <1>2 DEF Shape
<1>4. Unsent(h) = Unsent(q)
  BY <1>2 DEF Unsent
<1>5. Session(h)
  BY <1>1, <1>2, <1>4 DEF Session
<1>6. Rooted(h, p, g, i)
  BY <1>1, <1>2 DEF Rooted
<1>7. Truthful(h, m)
  BY <1>1, <1>2 DEF Truthful
<1>8. Sent(h, w)
  BY <1>1, <1>2, <1>4 DEF Sent
<1> QED
  BY <1>2, <1>3, <1>5, <1>6, <1>7, <1>8 DEF HandlerOk

LEMMA FailedIs ==
    /\ Failed.kind = "error" /\ Failed.id = NoUser
    /\ Garbled.kind = "garbled" /\ Garbled.id = NoUser
BY DEF Failed, Garbled

LEMMA OkIs == ASSUME NEW u, NEW seen PROVE Ok(u, seen).kind = "ok" /\ Ok(u, seen).id = u
BY DEF Ok

\* An answer that reaches r and changes nothing else.
LEMMA HearsKeeps ==
    ASSUME IInv, NEW r \in Requests, req[r].pc = "call",
           NEW reply, reply.kind \in {"ok", "error"}, reply.id = NoUser,
           reply.kind = "ok" => req[r].op = "sync",
           Update(r, [req[r] EXCEPT !.reply = reply]),
           UNCHANGED <<remote, network, identity, placement, audit, loop, ops, restarts,
                       registered>>
    PROVE  IInv'
<1>1. PICK h : h = [req[r] EXCEPT !.reply = reply]
  OBVIOUS
<1>2. HandlerOk(req[r], ops, placement, registered, identity, remote, network)
  BY OneHandler DEF HandlerOk
<1>3. HandlerOk(h, ops, placement, registered, identity, remote, network)
      /\ h.pc = "call" /\ h.n = req[r].n
  BY <1>1, <1>2, HearsOk
<1>4. ops' \in 0..MaxOps /\ ops <= ops'
  BY OneHandler
<1>5. h.pc \notin Running /\ req[r].pc \notin Running
  BY <1>3 DEF Running
<1>6. loop # r
  BY <1>5, OneHandler
<1> QED
  BY <1>1, <1>3, <1>4, <1>5, <1>6, OneHandler, HandlerKeeps

LEMMA SyncResumeKeeps ==
    ASSUME IInv, NEW r \in Requests, SyncResume(r)
    PROVE  IInv'
<1>1. PICK q : q = req[r]
  OBVIOUS
<1>2. PICK s : s = Head(q.todo)
  OBVIOUS
<1>3. /\ loop = Nobody /\ q.pc = "call" /\ q.op = "sync"
      /\ UNCHANGED <<remote, network, identity, placement, audit, ops, restarts, registered>>
  BY <1>1 DEF SyncResume
<1>4. \/ Update(r, Finished(q)) /\ UNCHANGED loop
      \/ /\ Update(r, [q EXCEPT !.pc = "flush sync", !.copy[s] = Reconciled(@, q.reply.seen),
                                !.reply = NoReply])
         /\ loop' = r
  BY <1>1, <1>2 DEF SyncResume
<1>5. CASE Update(r, Finished(q)) /\ UNCHANGED loop
  BY <1>1, <1>3, <1>5, EndKeeps
<1>6. CASE /\ Update(r, [q EXCEPT !.pc = "flush sync",
                                  !.copy[s] = Reconciled(@, q.reply.seen),
                                  !.reply = NoReply])
           /\ loop' = r
  <2>1. PICK row : row = Reconciled(q.copy[s], q.reply.seen)
    OBVIOUS
  <2>2. PICK h : h = [q EXCEPT !.pc = "flush sync", !.copy[s] = row, !.reply = NoReply]
    OBVIOUS
  <2>3. Update(r, h)
    BY <1>6, <2>1, <2>2
  <2>4. /\ Shape(q, ops) /\ Session(q) /\ Rooted(q, placement, registered, identity)
        /\ Truthful(q, remote) /\ Sent(q, network)
    BY <1>1, OneHandler
  <2>5. Order(q.todo) /\ q.todo # <<>> /\ s \in Sites /\ q.log = {}
    BY <1>2, <1>3, <2>4, RestOfOrder DEF Shape
  <2>6. q.copy \in [Sites -> Row] /\ q.copy[s] \in Row
    BY <2>4, <2>5 DEF Shape
  <2>7. q.copy[s].status # "pending"
    BY <1>3, <2>4, <2>5 DEF Aborting, Session
  <2>8. /\ row \in Row /\ row.id = q.copy[s].id /\ row.status # "pending"
        /\ row.status \in {"active", "revoked", "missing"} => row.id # NoUser
    BY <2>1, <2>4, <2>5, <2>6, <2>7 DEF Reconciled, Row, Statuses, Session
  <2>9. /\ DOMAIN h = Fields /\ h.pc = "flush sync" /\ h.op = q.op /\ h.n = q.n
        /\ h.base = q.base /\ h.held = q.held /\ h.log = q.log
        /\ h.todo = q.todo /\ h.made = q.made /\ h.reply = NoReply
        /\ h.copy = [q.copy EXCEPT ![s] = row]
    BY <2>2, <2>4 DEF Shape, Fields
  <2>10. /\ h.copy \in [Sites -> Row] /\ h.copy[s] = row
         /\ \A x \in Sites : x # s => h.copy[x] = q.copy[x]
    BY <2>5, <2>6, <2>8, <2>9
  <2>11. Shape(h, ops)
    <3>1. h.reply.kind = "none" /\ h.reply.id = NoUser
      BY <2>9, NoReplyIs
    <3>2. /\ h.n \in 0..ops /\ h.op = "sync" /\ Order(h.todo) /\ h.todo # <<>>
          /\ h.made \in BOOLEAN /\ h.base \in [Sites -> Row] /\ h.held \subseteq Sites
          /\ h.log = {}
      BY <1>3, <2>4, <2>5, <2>9 DEF Shape
    <3> QED
      BY <2>9, <2>10, <3>1, <3>2 DEF Shape, Running
  <2>12. \A x \in Sites :
           /\ h.base[x].status # "pending" /\ h.copy[x].status # "pending"
           /\ h.copy[x].status \in {"active", "revoked", "missing"} => h.copy[x].id # NoUser
           /\ h.copy[x].id = h.base[x].id
    <3>1. \A x \in Sites : /\ q.copy[x].id = q.base[x].id /\ q.copy[x].status # "pending"
                           /\ q.base[x].status # "pending"
      BY <1>3, <2>4, <2>5 DEF Aborting, Session
    <3> QED
      BY <2>4, <2>8, <2>9, <2>10, <3>1, ZenonT(40) DEF Session
  <2>13. Session(h)
    BY <2>5, <2>9, <2>12 DEF Session
  <2>14. Rooted(h, placement, registered, identity) /\ Truthful(h, remote)
    BY <2>4, <2>5, <2>9 DEF Rooted, Truthful
  <2>15. Sent(h, network)
    BY <2>9 DEF Sent, Unsent
  <2>16. HandlerOk(h, ops, placement, registered, identity, remote, network)
    BY <2>11, <2>13, <2>14, <2>15 DEF HandlerOk
  <2>17. ops' \in 0..MaxOps /\ ops <= ops'
    BY <1>3, OneHandler
  <2>18. h.pc \in Running
    BY <2>9 DEF Running
  <2> QED
    BY <1>1, <1>3, <1>6, <2>3, <2>9, <2>16, <2>17, <2>18, OneHandler, HandlerKeeps
<1> QED
  BY <1>4, <1>5, <1>6

-----------------------------------------------------------------------------
(* Commits.                                                                *)

\* A row that is written at the end of a session: settled, never without the id it had,
\* and with a new one only if the session's log has it.
LEMMA MergedOk ==
    ASSUME IInv, NEW h, Shape(h, ops), Session(h), Rooted(h, placement, registered, identity),
           h.pc \in {"next", "flush sync"}, NEW s \in registered
    PROVE  /\ Merged(h, s) \in Row /\ Merged(h, s).status # "pending"
           /\ Merged(h, s).status \in {"active", "revoked", "missing"}
              => Merged(h, s).id # NoUser
           /\ placement[s].id # NoUser \/ h.copy[s].id # NoUser => Merged(h, s).id # NoUser
           /\ \/ Merged(h, s).id = placement[s].id
              \/ Merged(h, s).id = h.copy[s].id /\ h.copy[s].id # h.base[s].id
<1>1. s \in Sites
  BY DEF IInv, WellFormed
<1>2. placement[s] \in Row /\ placement[s].status # "pending"
  BY <1>1 DEF IInv, WellFormed
<1>3. placement[s].status \in {"active", "revoked", "missing"} => placement[s].id # NoUser
  BY <1>1 DEF IInv, PlacementsAreGrounded
<1>4. h.base[s] \in Row /\ h.copy[s] \in Row
  BY <1>1 DEF Shape
<1>5. /\ h.copy[s].status # "pending"
      /\ h.copy[s].status \in {"active", "revoked", "missing"} => h.copy[s].id # NoUser
      /\ h.copy[s].id # h.base[s].id => h.copy[s].id # NoUser
  BY <1>1 DEF Aborting, Session
<1>6. h.base[s].id # NoUser => placement[s].id # NoUser
  BY <1>1 DEF Rooted
<1>7. PICK row : row = Merged(h, s)
  OBVIOUS
<1>8. /\ row \in Row
      /\ row.id = IF h.copy[s].id # h.base[s].id THEN h.copy[s].id ELSE placement[s].id
      /\ row.status = IF h.copy[s].status # h.base[s].status
                      THEN h.copy[s].status ELSE placement[s].status
  BY <1>2, <1>4, <1>7 DEF Merged, Row
<1> QED
  BY <1>2, <1>3, <1>5, <1>6, <1>7, <1>8

LEMMA CommitKeeps ==
    ASSUME IInv, NEW r \in Requests, Commit(r)
    PROVE  IInv'
<1>1. PICK q : q = req[r]
  OBVIOUS
<1>2. /\ loop = r /\ q.pc = "next" /\ UNCHANGED <<remote, network, ops, restarts, registered>>
  BY <1>1 DEF Commit
<1>3. \/ Raise(r, Unlocked(q), "request") /\ UNCHANGED <<identity, placement, audit>>
      \/ /\ identity' = (identity \/ q.made)
         /\ placement' = [s \in Sites |-> IF s \in q.held THEN Merged(q, s) ELSE placement[s]]
         /\ audit' = audit \cup q.log
         /\ Update(r, Finished(q))
         /\ loop' = Nobody
  BY <1>1 DEF Commit
<1>4. CASE Raise(r, Unlocked(q), "request") /\ UNCHANGED <<identity, placement, audit>>
  BY <1>1, <1>2, <1>4, RaiseKeeps
<1>5. CASE /\ identity' = (identity \/ q.made)
           /\ placement' = [s \in Sites |-> IF s \in q.held THEN Merged(q, s) ELSE placement[s]]
           /\ audit' = audit \cup q.log
           /\ Update(r, Finished(q))
           /\ loop' = Nobody
  <2>1. /\ Shape(q, ops) /\ Session(q) /\ Rooted(q, placement, registered, identity)
        /\ Truthful(q, remote)
    BY <1>1, OneHandler
  <2>2. q.held \subseteq registered /\ q.held \subseteq Sites /\ registered \subseteq Sites
    BY <2>1 DEF Rooted, Shape, IInv, WellFormed
  <2>3. \A s \in Sites : placement'[s] = IF s \in q.held THEN Merged(q, s) ELSE placement[s]
    BY <1>5
  <2>4. \A s \in q.held :
          /\ placement'[s] \in Row /\ placement'[s].status # "pending"
          /\ placement'[s].status \in {"active", "revoked", "missing"}
             => placement'[s].id # NoUser
          /\ placement[s].id # NoUser \/ q.copy[s].id # NoUser => placement'[s].id # NoUser
          /\ \/ placement'[s].id = placement[s].id
             \/ placement'[s].id = q.copy[s].id /\ q.copy[s].id # q.base[s].id
    <3>1. SUFFICES ASSUME NEW s \in q.held
                   PROVE  /\ Merged(q, s) \in Row /\ Merged(q, s).status # "pending"
                          /\ Merged(q, s).status \in {"active", "revoked", "missing"}
                             => Merged(q, s).id # NoUser
                          /\ placement[s].id # NoUser \/ q.copy[s].id # NoUser
                             => Merged(q, s).id # NoUser
                          /\ \/ Merged(q, s).id = placement[s].id
                             \/ Merged(q, s).id = q.copy[s].id /\ q.copy[s].id # q.base[s].id
      BY <2>2, <2>3
    <3>2. s \in registered /\ q.pc \in {"next", "flush sync"}
      BY <1>2, <2>2
    <3> QED
      BY <2>1, <3>2, MergedOk
  <2>5. \A s \in Sites : s \notin q.held => placement'[s] = placement[s]
    BY <2>3
  <2>6. placement' \in [Sites -> {row \in Row : row.status # "pending"}]
    <3>1. \A s \in Sites : placement'[s] \in {row \in Row : row.status # "pending"}
      BY <2>4, <2>5 DEF IInv, WellFormed
    <3> QED
      BY <1>5, <3>1
  <2>7. q.log \subseteq Entries /\ q.made \in BOOLEAN
    BY <2>1 DEF Shape
  <2>8. identity' \in BOOLEAN /\ (identity => identity')
    BY <1>5, <2>7 DEF IInv, WellFormed
  <2>9. WellFormed'
    BY <1>2, <1>5, <2>6, <2>7, <2>8 DEF IInv, WellFormed, Update
  <2>10. \A s \in Sites : placement[s].id # NoUser => placement'[s].id # NoUser
    BY <2>4, <2>5
  <2>11. Handlers'
    <3>1. PICK h : h = Finished(q)
      OBVIOUS
    <3>2. ops' \in Nat /\ ops <= ops' /\ network' \subseteq Commands
      BY <1>2, OneHandler
    <3>3. /\ HandlerOk(h, ops', placement', registered', identity', remote', network')
          /\ h.pc = "done" /\ h.n = 0
      BY <2>1, <3>1, <3>2, FinishedOk
    <3>4. h.pc \notin Running /\ loop' # r
      BY <1>5, <3>3, RequestsAssumption DEF Running
    <3> QED
      BY <1>1, <1>2, <1>5, <2>8, <2>10, <3>1, <3>2, <3>3, <3>4, StepOfOne
  <2>12. PlacementMatchesAudit'
    <3>1. ASSUME NEW s \in Sites, placement'[s].id # NoUser
          PROVE  Created(s, placement'[s].id) \in audit'
      <4>1. CASE placement'[s].id = placement[s].id
        BY <1>5, <3>1, <4>1 DEF IInv, PlacementMatchesAudit
      <4>2. CASE placement'[s].id = q.copy[s].id /\ q.copy[s].id # q.base[s].id
        BY <1>5, <2>1, <3>1, <4>2 DEF Session
      <4> QED
        BY <2>4, <2>5, <4>1, <4>2
    <3>2. ASSUME NEW e \in audit', e.op = "provision", e.result = "success",
                 e.site \in registered
          PROVE  placement'[e.site].id # NoUser
      <4>1. e.site \in Sites
        BY <3>2, <2>2
      <4>2. CASE e \in audit
        BY <2>10, <3>2, <4>1, <4>2 DEF IInv, PlacementMatchesAudit
      <4>3. CASE e \in q.log
        <5>1. q.copy[e.site].id # NoUser
          BY <2>1, <3>2, <4>3 DEF Session
        <5>2. CASE e.site \in q.held
          BY <2>4, <5>1, <5>2
        <5>3. CASE e.site \notin q.held
          <6>1. q.copy[e.site].id = q.base[e.site].id
            BY <1>2, <2>1, <4>1, <5>3 DEF Session, Aborting
          <6>2. placement[e.site].id # NoUser
            BY <2>1, <3>2, <4>1, <5>1, <6>1 DEF Rooted
          <6> QED
            BY <2>10, <4>1, <6>2
        <5> QED
          BY <5>2, <5>3
      <4> QED
        BY <1>5, <4>2, <4>3
    <3> QED
      BY <1>2, <3>1, <3>2 DEF PlacementMatchesAudit
  <2>13. TrueAudit'
    BY <1>2, <1>5, <2>1 DEF IInv, TrueAudit, Truthful
  <2>14. PlacementsAreGrounded'
    <3>1. q.op \in Mutations
      BY <1>2, <2>1 DEF Shape
    <3>2. q.made \/ identity
      BY <1>2, <2>1, <3>1 DEF Rooted
    <3>3. identity'
      BY <1>5, <3>2
    <3>4. ASSUME NEW s \in Sites
          PROVE  /\ placement'[s] # NoRow => s \in registered
                 /\ placement'[s].status \in {"active", "revoked", "missing"}
                    => placement'[s].id # NoUser
      <4>1. CASE s \in q.held
        BY <2>2, <2>4, <4>1
      <4>2. CASE s \notin q.held
        BY <2>5, <4>2 DEF IInv, PlacementsAreGrounded
      <4> QED
        BY <4>1, <4>2
    <3> QED
      BY <1>2, <3>3, <3>4 DEF PlacementsAreGrounded
  <2> QED
    BY <2>9, <2>11, <2>12, <2>13, <2>14 DEF IInv
<1> QED
  BY <1>3, <1>4, <1>5

\* A sync writes the status only: its session has no entry, so no id of its own.
LEMMA SyncCommitKeeps ==
    ASSUME IInv, NEW r \in Requests, SyncCommit(r)
    PROVE  IInv'
<1>1. PICK q : q = req[r]
  OBVIOUS
<1>2. PICK s : s = Head(q.todo)
  OBVIOUS
<1>3. /\ loop = r /\ q.pc = "flush sync"
      /\ UNCHANGED <<remote, network, identity, audit, ops, restarts, registered>>
  BY <1>1 DEF SyncCommit
<1>4. \/ Update(r, Finished(q)) /\ loop' = Nobody /\ UNCHANGED placement
      \/ /\ s \in registered
         /\ placement' = IF q.base[s] = NoRow THEN placement
                         ELSE [placement EXCEPT ![s] = Merged(q, s)]
         /\ Update(r, Finished(q))
         /\ loop' = Nobody
  BY <1>1, <1>2 DEF SyncCommit
<1>5. CASE Update(r, Finished(q)) /\ loop' = Nobody /\ UNCHANGED placement
  <2>1. PICK h : h = Finished(q)
    OBVIOUS
  <2>2. Shape(q, ops) /\ ops \in Nat /\ network \subseteq Commands
    BY <1>1, OneHandler
  <2>3. /\ HandlerOk(h, ops, placement, registered, identity, remote, network)
        /\ h.pc = "done" /\ h.n = 0
    BY <2>1, <2>2, FinishedOk
  <2>4. ops' \in 0..MaxOps /\ ops <= ops'
    <3>1. ops' = ops
      BY <1>3
    <3>2. ops \in 0..MaxOps /\ ops \in Nat
      BY OneHandler
    <3> QED
      BY <3>1, <3>2
  <2>5. h.pc \notin Running /\ loop' # r
    BY <1>5, <2>3, RequestsAssumption DEF Running
  <2> QED
    BY <1>3, <1>5, <2>1, <2>3, <2>4, <2>5, OneHandler, HandlerKeeps
<1>6. CASE /\ s \in registered
           /\ placement' = IF q.base[s] = NoRow THEN placement
                           ELSE [placement EXCEPT ![s] = Merged(q, s)]
           /\ Update(r, Finished(q))
           /\ loop' = Nobody
  <2>1. /\ Shape(q, ops) /\ Session(q) /\ Rooted(q, placement, registered, identity)
    BY <1>1, OneHandler
  <2>2. q.op = "sync" /\ q.log = {}
    BY <1>3, <2>1 DEF Shape
  <2>3. s \in Sites /\ placement \in [Sites -> {row \in Row : row.status # "pending"}]
    BY <1>6 DEF IInv, WellFormed
  <2>4. q.copy[s].id = q.base[s].id
    BY <2>1, <2>2, <2>3 DEF Session
  <2>5. PICK row : row = Merged(q, s)
    OBVIOUS
  <2>6. /\ row \in Row /\ row.status # "pending" /\ row.id = placement[s].id
        /\ row.status \in {"active", "revoked", "missing"} => row.id # NoUser
    BY <1>3, <1>6, <2>1, <2>4, <2>5, MergedOk
  <2>7. /\ placement' \in [Sites -> {x \in Row : x.status # "pending"}]
        /\ \A x \in Sites : placement'[x] = placement[x]
                            \/ (x = s /\ placement'[x] = row /\ q.base[s] # NoRow)
    BY <1>6, <2>3, <2>5, <2>6
  <2>8. \A x \in Sites : placement'[x].id = placement[x].id
    BY <2>6, <2>7
  <2>9. WellFormed'
    BY <1>3, <1>6, <2>7 DEF IInv, WellFormed, Update
  <2>10. Handlers'
    <3>1. PICK h : h = Finished(q)
      OBVIOUS
    <3>a. ops' = ops /\ network' = network
      BY <1>3
    <3>b. ops \in Nat /\ network \subseteq Commands
      BY OneHandler
    <3>2. ops' \in Nat /\ ops <= ops' /\ network' \subseteq Commands
      BY <3>a, <3>b
    <3>3. /\ HandlerOk(h, ops', placement', registered', identity', remote', network')
          /\ h.pc = "done" /\ h.n = 0
      BY <2>1, <3>1, <3>2, FinishedOk
    <3>4. h.pc \notin Running /\ loop' # r
      BY <1>6, <3>3, RequestsAssumption DEF Running
    <3>5. \A x \in Sites : placement[x].id # NoUser => placement'[x].id # NoUser
      BY <2>8
    <3> QED
      BY <1>1, <1>3, <1>6, <3>1, <3>2, <3>3, <3>4, <3>5, StepOfOne
  <2>11. registered \subseteq Sites
    BY DEF IInv, WellFormed
  <2>12. PlacementMatchesAudit'
    BY <1>3, <2>8, <2>11 DEF IInv, PlacementMatchesAudit
  <2>13. TrueAudit'
    BY <1>3 DEF IInv, TrueAudit
  <2>14. PlacementsAreGrounded'
    <3>1. q.base[s] # NoRow => identity
      BY <2>1, <2>3 DEF Rooted
    <3> QED
      BY <1>3, <1>6, <2>6, <2>7, <3>1 DEF IInv, PlacementsAreGrounded
  <2> QED
    BY <2>9, <2>10, <2>12, <2>13, <2>14 DEF IInv
<1> QED
  BY <1>4, <1>5, <1>6

-----------------------------------------------------------------------------
(* The network and the nodes.                                              *)

\* The state of a user changes: none comes back.
LEMMA SetUserAges ==
    ASSUME IInv, NEW s \in Sites, NEW u \in UserIds, NEW state \in {"on", "off", "back", "gone"},
           SetUser(s, u, state),
           \/ remote[s][u] = "none"
           \/ remote[s][u] \in {"on", "off", "back"} /\ state \in {"off", "gone"}
           \/ remote[s][u] = "off" /\ state = "back"
    PROVE  /\ remote' \in [Sites -> [UserIds -> {"none", "on", "off", "back", "gone"}]]
           /\ remote'[s][u] = state /\ Ages(remote, remote')
<1>1. remote \in [Sites -> [UserIds -> {"none", "on", "off", "back", "gone"}]]
  BY DEF IInv, WellFormed
<1>2. remote' = [remote EXCEPT ![s] = [remote[s] EXCEPT ![u] = state]]
  BY DEF SetUser
<1>3. [remote[s] EXCEPT ![u] = state] \in [UserIds -> {"none", "on", "off", "back", "gone"}]
  BY <1>1
<1>4. /\ remote' \in [Sites -> [UserIds -> {"none", "on", "off", "back", "gone"}]]
      /\ \A x \in Sites : x # s => remote'[x] = remote[x]
      /\ remote'[s] = [remote[s] EXCEPT ![u] = state]
  BY <1>1, <1>2, <1>3
<1>5. remote'[s][u] = state /\ \A v \in UserIds : v # u => remote'[s][v] = remote[s][v]
  BY <1>1, <1>4
<1>6. ASSUME NEW x \in Sites, NEW v \in UserIds
      PROVE  /\ remote[x][v] # "none" => remote'[x][v] # "none"
             /\ remote[x][v] \in {"off", "back", "gone"}
                => remote'[x][v] \in {"off", "back", "gone"}
             /\ remote[x][v] = "gone" => remote'[x][v] = "gone"
  <2>1. CASE x = s /\ v = u
    BY <1>5, <2>1
  <2>2. CASE ~(x = s /\ v = u)
    BY <1>4, <1>5, <2>2
  <2> QED
    BY <2>1, <2>2
<1> QED
  BY <1>4, <1>5, <1>6 DEF Ages

\* A step of the nodes or the network: handlers hear at most an answer.
LEMMA EnvironmentKeeps ==
    ASSUME IInv,
           remote' \in [Sites -> [UserIds -> {"none", "on", "off", "back", "gone"}]],
           Ages(remote, remote'), network' \subseteq network,
           DOMAIN req' = Requests,
           \A r \in Requests : /\ HandlerOk(req'[r], ops, placement, registered, identity,
                                            remote', network')
                               /\ req'[r].n = req[r].n /\ req'[r].pc = req[r].pc,
           UNCHANGED <<identity, placement, audit, loop, ops, restarts, registered>>
    PROVE  IInv'
<1>1. WellFormed'
  BY DEF IInv, WellFormed
<1>2. Handlers'
  BY DEF IInv, Handlers
<1>3. PlacementMatchesAudit' /\ PlacementsAreGrounded'
  BY DEF IInv, PlacementMatchesAudit, PlacementsAreGrounded
<1>4. TrueAudit'
  BY TruthStays DEF IInv, WellFormed, TrueAudit
<1> QED
  BY <1>1, <1>2, <1>3, <1>4 DEF IInv

\* The answer to c reaches who waits for it; it has to be true on the node as it is now.
LEMMA AnswerKeeps ==
    ASSUME IInv, NEW c \in network, NEW reply, Answer(c, reply),
           remote' \in [Sites -> [UserIds -> {"none", "on", "off", "back", "gone"}]],
           Ages(remote, remote'), network' = network \ {c},
           reply.kind \in {"ok", "error", "garbled"}, reply.id \in UserIds \cup {NoUser},
           reply.kind = "ok" =>
             /\ c.op = "provision" => /\ reply.id \in UserIds /\ reply.id = c.n
                                      /\ remote'[c.site][reply.id] # "none"
             /\ c.op = "revoke" => WasRevoked(remote', c.site, c.id)
             /\ c.op = "delete" => WasDeleted(remote', c.site, c.id),
           UNCHANGED <<identity, placement, audit, loop, ops, restarts, registered>>
    PROVE  IInv'
<1>1. DOMAIN req' = Requests
      /\ \A r \in Requests : req'[r] = IF Waits(r, c) THEN [req[r] EXCEPT !.reply = reply]
                                       ELSE req[r]
  BY DEF Answer
<1>2. ASSUME NEW r \in Requests
      PROVE  /\ HandlerOk(req'[r], ops, placement, registered, identity, remote', network')
             /\ req'[r].n = req[r].n /\ req'[r].pc = req[r].pc
  <2>1. PICK q : q = req[r]
    OBVIOUS
  <2>2. /\ HandlerOk(q, ops, placement, registered, identity, remote, network)
        /\ ops \in Nat /\ Sent(q, network) /\ Rooted(q, placement, registered, identity)
    BY <2>1, OneHandler DEF HandlerOk
  <2>3. q.held \subseteq registered
    BY <2>2 DEF Rooted
  <2>4. HandlerOk(q, ops, placement, registered, identity, remote', network')
    BY <2>2, <2>3, HandlerStays
  <2>5. CASE ~Waits(r, c)
    BY <1>1, <2>1, <2>4, <2>5
  <2>6. CASE Waits(r, c)
    <3>1. q.pc = "call" /\ q.op = c.op /\ q.n = c.n /\ Head(q.todo) = c.site
      BY <2>1, <2>6 DEF Waits
    <3>2. q.op \in {"revoke", "delete"} => q.copy[Head(q.todo)].id = c.id
      BY <2>2, <3>1 DEF Sent
    <3>3. reply.kind = "ok" =>
            /\ q.op = "provision" => /\ reply.id \in UserIds /\ reply.id = q.n
                                     /\ remote'[Head(q.todo)][reply.id] # "none"
            /\ q.op = "revoke" => WasRevoked(remote', Head(q.todo), q.copy[Head(q.todo)].id)
            /\ q.op = "delete" => WasDeleted(remote', Head(q.todo), q.copy[Head(q.todo)].id)
      BY <3>1, <3>2
    <3>4. PICK h : h = [q EXCEPT !.reply = reply]
      OBVIOUS
    <3>5. /\ HandlerOk(h, ops, placement, registered, identity, remote', network')
          /\ h.pc = "call" /\ h.n = q.n
      BY <2>4, <3>1, <3>3, <3>4, HearsOk, SMTT(20)
    <3> QED
      BY <1>1, <2>1, <2>6, <3>1, <3>4, <3>5
  <2> QED
    BY <2>5, <2>6
<1> QED
  BY <1>1, <1>2, EnvironmentKeeps

\* What becomes of an answer under way.
Arriving(arrives, reply) ==
    CASE arrives = "whole" -> reply
      [] arrives = "garbled" -> Garbled
      [] arrives = "lost" -> Failed

LEMMA ArrivingIs ==
    ASSUME NEW arrives \in {"whole", "garbled", "lost"}, NEW reply
    PROVE  \/ Arriving(arrives, reply) = reply
           \/ /\ Arriving(arrives, reply).kind \in {"error", "garbled"}
              /\ Arriving(arrives, reply).id = NoUser
BY FailedIs DEF Arriving

LEMMA NodeExecutesKeeps ==
    ASSUME IInv, NodeExecutes
    PROVE  IInv'
<1>1. PICK c \in network, arrives \in {"whole", "garbled", "lost"} :
        /\ \/ /\ c.op = "provision" /\ remote[c.site][c.n] = "none"
              /\ SetUser(c.site, c.n, "on")
              /\ Answer(c, Arriving(arrives, Ok(c.n, {})))
           \/ /\ c.op = "revoke" /\ c.id \in Present(c.site)
              /\ SetUser(c.site, c.id, "off")
              /\ Answer(c, Arriving(arrives, Ok(NoUser, {})))
           \/ /\ c.op = "delete" /\ c.id \in Present(c.site)
              /\ SetUser(c.site, c.id, "gone")
              /\ Answer(c, Arriving(arrives, Ok(NoUser, {})))
           \/ /\ c.op \in {"revoke", "delete"} /\ c.id \notin Present(c.site)
              /\ Answer(c, Arriving(arrives, Failed))
              /\ UNCHANGED remote
        /\ network' = network \ {c}
        /\ UNCHANGED <<identity, placement, audit, loop, ops, restarts, registered>>
  BY DEF NodeExecutes, Arriving
<1>2. c \in Commands /\ c.site \in Sites /\ c.n \in UserIds
  BY DEF IInv, WellFormed, Commands, UserIds
<1>3. CASE /\ c.op = "provision" /\ remote[c.site][c.n] = "none"
           /\ SetUser(c.site, c.n, "on")
           /\ Answer(c, Arriving(arrives, Ok(c.n, {})))
  <2>3. PICK reply : reply = Arriving(arrives, Ok(c.n, {}))
    OBVIOUS
  <2>4. /\ remote' \in [Sites -> [UserIds -> {"none", "on", "off", "back", "gone"}]]
        /\ remote'[c.site][c.n] = "on" /\ Ages(remote, remote')
    BY <1>2, <1>3, SetUserAges
  <2>5. /\ reply.kind \in {"ok", "error", "garbled"} /\ reply.id \in UserIds \cup {NoUser}
        /\ reply.kind = "ok" => reply.id = c.n
    BY <1>2, <2>3, ArrivingIs, OkIs
  <2> QED
    BY <1>1, <1>2, <1>3, <2>3, <2>4, <2>5, AnswerKeeps
<1>4. CASE /\ c.op = "revoke" /\ c.id \in Present(c.site)
           /\ SetUser(c.site, c.id, "off")
           /\ Answer(c, Arriving(arrives, Ok(NoUser, {})))
  <2>1. c.id \in UserIds /\ remote[c.site][c.id] \in {"on", "off", "back"}
    BY <1>4 DEF Present
  <2>2. PICK reply : reply = Arriving(arrives, Ok(NoUser, {}))
    OBVIOUS
  <2>3. /\ remote' \in [Sites -> [UserIds -> {"none", "on", "off", "back", "gone"}]]
        /\ remote'[c.site][c.id] = "off" /\ Ages(remote, remote')
    BY <1>2, <1>4, <2>1, SetUserAges
  <2>4. reply.kind \in {"ok", "error", "garbled"} /\ reply.id \in UserIds \cup {NoUser}
    BY <2>2, ArrivingIs, OkIs
  <2>5. WasRevoked(remote', c.site, c.id)
    BY <2>3 DEF WasRevoked
  <2> QED
    BY <1>1, <1>4, <2>2, <2>3, <2>4, <2>5, AnswerKeeps
<1>5. CASE /\ c.op = "delete" /\ c.id \in Present(c.site)
           /\ SetUser(c.site, c.id, "gone")
           /\ Answer(c, Arriving(arrives, Ok(NoUser, {})))
  <2>1. c.id \in UserIds /\ remote[c.site][c.id] \in {"on", "off", "back"}
    BY <1>5 DEF Present
  <2>2. PICK reply : reply = Arriving(arrives, Ok(NoUser, {}))
    OBVIOUS
  <2>3. /\ remote' \in [Sites -> [UserIds -> {"none", "on", "off", "back", "gone"}]]
        /\ remote'[c.site][c.id] = "gone" /\ Ages(remote, remote')
    BY <1>2, <1>5, <2>1, SetUserAges
  <2>4. reply.kind \in {"ok", "error", "garbled"} /\ reply.id \in UserIds \cup {NoUser}
    BY <2>2, ArrivingIs, OkIs
  <2>5. WasDeleted(remote', c.site, c.id)
    BY <2>3 DEF WasDeleted
  <2> QED
    BY <1>1, <1>5, <2>2, <2>3, <2>4, <2>5, AnswerKeeps
<1>6. CASE Answer(c, Arriving(arrives, Failed)) /\ UNCHANGED remote
  <2>1. remote' \in [Sites -> [UserIds -> {"none", "on", "off", "back", "gone"}]]
        /\ Ages(remote, remote')
    BY <1>6, AgesNot DEF IInv, WellFormed
  <2>2. PICK reply : reply = Arriving(arrives, Failed)
    OBVIOUS
  <2>3. reply.kind \in {"error", "garbled"} /\ reply.id = NoUser
    BY <2>2, ArrivingIs, FailedIs
  <2> QED
    BY <1>1, <1>6, <2>1, <2>2, <2>3, AnswerKeeps
<1> QED
  BY <1>1, <1>3, <1>4, <1>5, <1>6

LEMMA NodeRefusesKeeps ==
    ASSUME IInv, NodeRefuses
    PROVE  IInv'
<1>1. PICK c \in network :
        /\ network' = network \ {c}
        /\ \/ \E reply \in {Failed, Garbled} : Answer(c, reply)
           \/ c.site \in Redirecting /\ c.op # "provision" /\ Answer(c, Ok(NoUser, {}))
        /\ UNCHANGED <<remote, identity, placement, audit, loop, ops, restarts, registered>>
  BY DEF NodeRefuses
<1>2. remote' \in [Sites -> [UserIds -> {"none", "on", "off", "back", "gone"}]]
      /\ Ages(remote, remote')
  BY <1>1, AgesNot DEF IInv, WellFormed
<1>3. PICK reply : /\ reply \in {Failed, Garbled}
                      \/ (reply = Ok(NoUser, {}) /\ c.site \in Redirecting /\ c.op # "provision")
                   /\ Answer(c, reply)
  BY <1>1
<1>4. /\ reply.kind \in {"ok", "error", "garbled"} /\ reply.id = NoUser
      /\ reply.kind = "ok" => c.op # "provision" /\ c.site \in Redirecting
  BY <1>3, FailedIs, OkIs
<1>5. reply.kind = "ok" => /\ WasRevoked(remote', c.site, c.id)
                           /\ WasDeleted(remote', c.site, c.id)
  BY <1>4 DEF WasRevoked, WasDeleted
<1> QED
  BY <1>1, <1>2, <1>3, <1>4, <1>5, AnswerKeeps

\* The users of a node change, and nothing else.
LEMMA UsersKeep ==
    ASSUME IInv, DeletedOnNode \/ EnabledOnNode
    PROVE  IInv'
<1>1. PICK s \in Sites, u \in UserIds :
        \/ remote[s][u] \in {"on", "off", "back"} /\ SetUser(s, u, "gone")
        \/ remote[s][u] = "off" /\ SetUser(s, u, "back")
  BY DEF DeletedOnNode, EnabledOnNode, Present
<1>3. UNCHANGED <<network, identity, placement, audit, loop, req, ops, restarts, registered>>
  BY DEF DeletedOnNode, EnabledOnNode
<1>5. /\ remote' \in [Sites -> [UserIds -> {"none", "on", "off", "back", "gone"}]]
      /\ Ages(remote, remote')
  BY <1>1, SetUserAges
<1>6. ASSUME NEW r \in Requests
      PROVE  HandlerOk(req[r], ops, placement, registered, identity, remote', network)
  <2>1. /\ HandlerOk(req[r], ops, placement, registered, identity, remote, network)
        /\ ops \in Nat /\ req[r].held \subseteq registered
    BY OneHandler DEF HandlerOk, Rooted
  <2> QED
    BY <1>5, <2>1, HandlerStays
<1> QED
  BY <1>3, <1>5, <1>6, EnvironmentKeeps DEF IInv, WellFormed

\* A node that a transaction has written to is not deleted under it.
LEMMA NodeDeletedKeeps ==
    ASSUME IInv, NodeDeleted
    PROVE  IInv'
<1>1. PICK s \in Deletable \cap registered :
         /\ \A r \in Requests : s \notin req[r].held
         /\ registered' = registered \ {s}
         /\ placement' = [placement EXCEPT ![s] = NoRow]
  BY DEF NodeDeleted
<1>2. UNCHANGED <<remote, network, identity, audit, loop, req, ops, restarts>>
  BY DEF NodeDeleted
<1>3. s \in Sites /\ placement \in [Sites -> {row \in Row : row.status # "pending"}]
  BY DEF IInv, WellFormed
<1>4. /\ placement' \in [Sites -> {row \in Row : row.status # "pending"}]
      /\ placement'[s] = NoRow /\ \A x \in Sites : x # s => placement'[x] = placement[x]
  BY <1>1, <1>3, EmptyRow
<1>5. WellFormed'
  BY <1>1, <1>2, <1>4 DEF IInv, WellFormed
<1>6. ASSUME NEW r \in Requests
      PROVE  HandlerOk(req'[r], ops', placement', registered', identity', remote', network')
  <2>1. /\ HandlerOk(req[r], ops, placement, registered, identity, remote, network)
        /\ ops \in Nat /\ req[r].held \subseteq registered
    BY OneHandler DEF HandlerOk, Rooted
  <2>2. req[r].held \subseteq registered' /\ registered' \subseteq registered
    BY <1>1, <2>1
  <2>3. \A x \in Sites \cap registered' : placement[x].id # NoUser => placement'[x].id # NoUser
    BY <1>1, <1>4
  <2> QED
    BY <1>2, <2>1, <2>2, <2>3, AgesNot, HandlerStays
<1>7. Handlers'
  BY <1>2, <1>6 DEF IInv, Handlers
<1>8. PlacementMatchesAudit'
  BY <1>1, <1>2, <1>4, EmptyRow DEF IInv, WellFormed, PlacementMatchesAudit
<1>9. TrueAudit'
  BY <1>2 DEF IInv, TrueAudit
<1>10. PlacementsAreGrounded'
  BY <1>1, <1>2, <1>4, EmptyRow DEF IInv, PlacementsAreGrounded
<1> QED
  BY <1>5, <1>7, <1>8, <1>9, <1>10 DEF IInv

LEMMA RestartKeeps ==
    ASSUME IInv, Restart
    PROVE  IInv'
<1>1. /\ restarts < MaxRestarts /\ restarts' = restarts + 1
      /\ req' = [r \in Requests |-> Closed] /\ loop' = Nobody
      /\ UNCHANGED <<remote, network, identity, placement, audit, ops, registered>>
  BY DEF Restart
<1>2. restarts \in 0..MaxRestarts
  BY DEF IInv, WellFormed
<1>3. restarts' \in 0..MaxRestarts
  BY <1>1, <1>2, BoundsAssumption
<1>4. WellFormed'
  BY <1>1, <1>3 DEF IInv, WellFormed
<1>5. /\ network' \subseteq Commands /\ ops' \in Nat
  BY <1>1, BoundsAssumption DEF IInv, WellFormed
<1>6. \A r \in Requests : req'[r] = Closed
  BY <1>1
<1>7. ASSUME NEW r \in Requests
      PROVE  HandlerOk(req'[r], ops', placement', registered', identity', remote', network')
  BY <1>5, <1>6, ClosedOk
<1>8. \A r \in Requests : loop' # r /\ req'[r].pc \notin Running /\ req'[r].n = 0
  BY <1>1, <1>6, ClosedIs, RequestsAssumption DEF Running
<1>9. Handlers'
  BY <1>7, <1>8 DEF Handlers
<1> QED
  BY <1>1, <1>4, <1>9 DEF IInv, PlacementMatchesAudit, TrueAudit, PlacementsAreGrounded

-----------------------------------------------------------------------------
(* The invariant holds.                                                    *)

LEMMA InitEstablishes == Init => IInv
<1> SUFFICES ASSUME Init PROVE IInv
  OBVIOUS
<1>1. /\ network = {} /\ audit = {} /\ loop = Nobody /\ placement = NoRows
      /\ req = [r \in Requests |-> Closed] /\ ops = 0 /\ restarts = 0 /\ identity = FALSE
      /\ remote = [s \in Sites |-> [u \in UserIds |-> "none"]]
      /\ registered = {s \in Sites : Kind[s] # "absent"}
  BY DEF Init
<1>2. /\ placement \in [Sites -> {row \in Row : row.status # "pending"}]
      /\ \A s \in Sites : placement[s] = NoRow
  BY <1>1, EmptyRow DEF NoRows
<1>3. remote \in [Sites -> [UserIds -> {"none", "on", "off", "back", "gone"}]]
  BY <1>1
<1>4. ops \in 0..MaxOps /\ restarts \in 0..MaxRestarts /\ ops \in Nat
  BY <1>1, BoundsAssumption
<1>5. /\ network \subseteq Commands /\ audit \subseteq Entries /\ registered \subseteq Sites
      /\ identity \in BOOLEAN /\ DOMAIN req = Requests /\ \A c \in network : c.n <= ops
      /\ loop \in Requests \cup {Nobody}
  BY <1>1
<1>6. WellFormed
  BY <1>2, <1>3, <1>4, <1>5 DEF WellFormed
<1>7. \A r \in Requests : req[r] = Closed
  BY <1>1
<1>8. \A r \in Requests :
        HandlerOk(req[r], ops, placement, registered, identity, remote, network)
  BY <1>4, <1>5, <1>7, ClosedOk
<1>9. \A r \in Requests : loop # r /\ req[r].pc \notin Running /\ req[r].n = 0
  BY <1>1, <1>7, ClosedIs, RequestsAssumption DEF Running
<1>10. Handlers
  BY <1>8, <1>9 DEF Handlers
<1>11. PlacementMatchesAudit /\ TrueAudit /\ PlacementsAreGrounded
  BY <1>1, <1>2, EmptyRow DEF PlacementMatchesAudit, TrueAudit, PlacementsAreGrounded
<1> QED
  BY <1>6, <1>10, <1>11 DEF IInv

LEMMA StutterKeeps == ASSUME IInv, UNCHANGED vars PROVE IInv'
BY DEF vars, IInv, WellFormed, Handlers, PlacementMatchesAudit, TrueAudit,
       PlacementsAreGrounded

LEMMA StepPreserves == IInv /\ [Next]_vars => IInv'
<1> SUFFICES ASSUME IInv, [Next]_vars PROVE IInv'
  OBVIOUS
<1>1. ASSUME NEW r \in Requests, Begin(r) PROVE IInv'
  BY <1>1, BeginProvisionKeeps, BeginDeprovisionKeeps, BeginSyncKeeps DEF Begin
<1>2. ASSUME NEW r \in Requests, Handler(r) PROVE IInv'
  <2>1. CASE Rollback(r)
    BY <2>1, EndKeeps DEF Rollback, Running
  <2> QED
    BY <1>2, <2>1, GetOrCreateKeeps, NextTargetKeeps, NextPlacementKeeps, ResumeKeeps,
       FlushKeeps, ClosesKeeps, CommitKeeps, UnwindsKeeps, SyncResumeKeeps, SyncCommitKeeps
       DEF Handler
<1>3. ASSUME NEW r \in Requests, TimesOut(r) PROVE IInv'
  BY <1>3, FailedIs, HearsKeeps DEF TimesOut
<1>4. ASSUME NEW r \in Requests, NEW s \in Sites, NodeLists(r, s) PROVE IInv'
  <2>1. PICK reply : reply = Ok(NoUser, Present(s))
    OBVIOUS
  <2>2. /\ req[r].pc = "call" /\ req[r].op = "sync"
        /\ Update(r, [req[r] EXCEPT !.reply = reply])
        /\ UNCHANGED <<remote, network, identity, placement, audit, loop, ops, restarts,
                       registered>>
    BY <1>4, <2>1 DEF NodeLists
  <2>3. reply.kind = "ok" /\ reply.id = NoUser
    BY <2>1, OkIs
  <2> QED
    BY <2>2, <2>3, HearsKeeps
<1>5. CASE Environment
  BY <1>5, NodeExecutesKeeps, NodeRefusesKeeps, UsersKeep, NodeDeletedKeeps, RestartKeeps
     DEF Environment
<1>6. CASE UNCHANGED vars
  BY <1>6, StutterKeeps
<1> QED
  BY <1>1, <1>2, <1>3, <1>4, <1>5, <1>6 DEF Next

\* The inductive invariant holds in every reachable state.
THEOREM Invariance == Spec => []IInv
BY InitEstablishes, StepPreserves, PTL DEF Spec

-----------------------------------------------------------------------------
(* What follows.                                                           *)

\* Every variable keeps its type; a request has the event loop exactly where its handler
\* runs; and no committed placement is pending.
THEOREM Typed == Spec => []TypeOK
<1> DEFINE ErrorsOk == errors \subseteq 0..MaxOps
<1>a. IInv /\ ErrorsOk /\ [Next]_vars => ErrorsOk'
  <2> SUFFICES ASSUME IInv, ErrorsOk, [Next]_vars PROVE ErrorsOk'
    OBVIOUS
  <2>1. \A r \in Requests : req[r].n \in 0..MaxOps
    <3> SUFFICES ASSUME NEW r \in Requests PROVE req[r].n \in 0..MaxOps
      OBVIOUS
    <3>1. req[r].n \in 0..ops /\ ops \in 0..MaxOps /\ MaxOps \in Nat
      BY OneHandler DEF Shape
    <3> QED
      BY <3>1
  <2>2. CASE \E r \in Requests : Rollback(r)
    BY <2>1, <2>2 DEF Rollback
  <2>3. CASE Restart
    BY <2>1, <2>3 DEF Restart
  <2>4. ASSUME NEW r \in Requests, Begin(r) \/ TimesOut(r) \/ \E s \in Sites : NodeLists(r, s)
        PROVE  ErrorsOk'
    BY <2>4 DEF Begin, BeginProvision, BeginDeprovision, BeginSync, TimesOut, NodeLists
  <2>5. ASSUME NEW r \in Requests, Handler(r), ~Rollback(r) PROVE ErrorsOk'
    BY <2>5 DEF Handler, GetOrCreateLogical, NextTarget, NextPlacement, Resume, Flush, Closes,
                Commit, Unwinds, SyncResume, SyncCommit
  <2>6. CASE Environment
    BY <2>3, <2>6 DEF Environment, NodeExecutes, NodeRefuses, DeletedOnNode, EnabledOnNode,
                      NodeDeleted
  <2>7. CASE UNCHANGED vars
    BY <2>7 DEF vars
  <2> QED
    BY <2>2, <2>4, <2>5, <2>6, <2>7 DEF Next
<1>b. Init => ErrorsOk
  BY DEF Init
<1>1. ASSUME IInv, ErrorsOk PROVE TypeOK
  <2>1. \A c \in network : c.n \in 1..MaxOps /\ c.site \in Sites /\ c.op \in Mutations
                           /\ c.id \in UserIds \cup {NoUser}
    BY <1>1 DEF IInv, WellFormed, Commands
  <2>2. \A e \in audit : e.op \in Mutations /\ e.site \in Sites
    BY <1>1 DEF IInv, WellFormed, Entries
  <2>3. \A r \in Requests : /\ req[r].base \in [Sites -> Row]
                            /\ req[r].copy \in [Sites -> Row]
                            /\ req[r].held \subseteq Sites
                            /\ loop = r <=> req[r].pc \in Running
    BY <1>1, OneHandler DEF Shape
  <2> QED
    BY <1>1, <2>1, <2>2, <2>3 DEF IInv, WellFormed, TypeOK, Running
<1> HIDE DEF ErrorsOk
<1> QED
  BY <1>1, <1>a, <1>b, Invariance, PTL DEF Spec

\* A placement has a remote user exactly where a committed entry says that one was created,
\* whatever handlers, deletions, lost answers and crashes come between.
THEOREM Matching == Spec => []PlacementMatchesAudit
<1>1. IInv => PlacementMatchesAudit
  BY DEF IInv
<1> QED
  BY <1>1, Invariance, PTL

\* A committed entry that reports a success reports what the node did.
THEOREM Truthfulness == Spec => []AuditTellsTruth
<1>1. ASSUME IInv, NEW e \in audit, e.result = "success"
      PROVE  CASE e.op = "provision" -> remote[e.site][e.id] # "none"
               [] e.op = "revoke" -> Revoked(e.site, e.id) \/ e.site \in Redirecting
               [] e.op = "delete" -> remote[e.site][e.id] = "gone" \/ e.site \in Redirecting
  <2>1. e.op \in {"provision", "revoke", "delete"}
    BY <1>1 DEF IInv, WellFormed, Entries, Mutations
  <2>2. Truth(e, remote)
    BY <1>1 DEF IInv, TrueAudit
  <2> QED
    BY <2>1, <2>2 DEF Truth, WasRevoked, WasDeleted, Revoked
<1>2. IInv => AuditTellsTruth
  BY <1>1 DEF AuditTellsTruth
<1> QED
  BY <1>2, Invariance, PTL

\* A placement belongs to a committed identity and a registered node, and has a remote user
\* where its status speaks of one.
THEOREM Grounding == Spec => []PlacementsAreGrounded
<1>1. IInv => PlacementsAreGrounded
  BY DEF IInv
<1> QED
  BY <1>1, Invariance, PTL

-----------------------------------------------------------------------------
(* One handler at a time.                                                  *)

\* No two requests overlap.
OneAtATime == \A q, r \in Requests : q = r

\* What a row of site s says of its remote user is so on nodes m.
Settled(row, s, m) ==
    /\ row.status = "revoked" => WasRevoked(m, s, row.id)
    /\ row.status = "missing" => m[s][row.id] = "gone"

\* A session that is alone: the rows it loaded are still the committed ones p, unless their
\* node is gone; its own are settled; and a list it has just heard is still right about the
\* user it looks for.
Alone(h, p, g, m) ==
    /\ \A s \in g : h.base[s] # NoRow => h.base[s] = p[s]
    /\ \A s \in h.held : h.base[s] = p[s]
    /\ \A s \in Sites : h.base[s].id # NoUser => m[s][h.base[s].id] # "none"
    /\ \A s \in Sites : Settled(h.copy[s], s, m)
    /\ h.pc = "call" /\ h.op = "sync" /\ h.reply.kind = "ok" =>
         LET s == Head(h.todo)
         IN  h.copy[s].id # NoUser /\ h.copy[s].id \notin h.reply.seen
             => m[s][h.copy[s].id] = "gone"

Serial ==
    /\ \A s \in Sites : Settled(placement[s], s, remote)
    /\ \A r \in Requests : Alone(req[r], placement, registered, remote)

LEMMA EmptySettled == ASSUME NEW s, NEW m PROVE Settled(NoRow, s, m)
BY EmptyRow DEF Settled

LEMMA FreshAlone ==
    ASSUME NEW h, NEW p, NEW g, NEW m, g \subseteq Sites,
           h.base = NoRows, h.copy = NoRows, h.held = {}, h.reply = NoReply
    PROVE  Alone(h, p, g, m)
<1>1. \A s \in Sites : h.base[s] = NoRow /\ h.copy[s] = NoRow
  BY EmptyRow
<1>2. h.reply.kind # "ok"
  BY NoReplyIs
<1> QED
  BY <1>1, <1>2, EmptyRow, EmptySettled DEF Alone

\* A committed row's user has been created.
LEMMA PlacedIsUsed ==
    ASSUME IInv, NEW s \in Sites, placement[s].id # NoUser
    PROVE  remote[s][placement[s].id] # "none"
<1>1. PICK u : u = placement[s].id
  OBVIOUS
<1>2. u \in UserIds
  BY <1>1 DEF IInv, WellFormed, Row
<1>3. Created(s, u) \in audit
  BY <1>1 DEF IInv, PlacementMatchesAudit
<1>4. /\ Created(s, u).op = "provision" /\ Created(s, u).site = s /\ Created(s, u).id = u
      /\ Created(s, u).result = "success"
  BY DEF Created, Entry
<1>5. Truth(Created(s, u), remote)
  BY <1>3, <1>4 DEF IInv, TrueAudit
<1> QED
  BY <1>1, <1>4, <1>5 DEF Truth

LEMMA SettledStays ==
    ASSUME NEW row \in Row, NEW s \in Sites, NEW m1, NEW m2, Ages(m1, m2), Settled(row, s, m1),
           row.status \in {"active", "revoked", "missing"} => row.id # NoUser
    PROVE  Settled(row, s, m2)
<1>1. row.status \in {"revoked", "missing"} => row.id \in UserIds
  BY DEF Row
<1> QED
  BY <1>1 DEF Settled, Ages, WasRevoked

\* A step of the only handler.
LEMMA SerialStep ==
    ASSUME IInv, Serial, OneAtATime, NEW r \in Requests, NEW h, Update(r, h),
           UNCHANGED <<remote, registered>>,
           \A s \in Sites : Settled(placement'[s], s, remote),
           Alone(h, placement', registered, remote)
    PROVE  Serial'
<1>1. \A q \in Requests : req'[q] = h
  BY DEF Update, IInv, WellFormed, OneAtATime
<1> QED
  BY <1>1 DEF Serial

\* A session that moves without touching its rows.
LEMMA SerialMoves ==
    ASSUME IInv, Serial, OneAtATime, NEW r \in Requests, NEW h, Update(r, h),
           h.base = req[r].base, h.copy = req[r].copy, h.held = req[r].held,
           h.pc # "call" \/ h.op # "sync" \/ h.reply.kind # "ok",
           UNCHANGED <<remote, placement, registered>>
    PROVE  Serial'
<1>1. Alone(h, placement, registered, remote)
  BY DEF Serial, Alone
<1> QED
  BY <1>1, SerialStep DEF Serial

\* ... or with which an exception leaves the handler.
LEMMA SerialRaises ==
    ASSUME IInv, Serial, OneAtATime, NEW r \in Requests, NEW why,
           \/ Raise(r, Unlocked(req[r]), why)
           \/ RaiseOutOfCall(r, req[r], why)
           \/ RaiseOutOfCall(r, Unlocked(req[r]), why),
           UNCHANGED <<remote, placement, registered>>
    PROVE  Serial'
<1>1. PICK q : q = req[r]
  OBVIOUS
<1>2. DOMAIN q = Fields /\ Alone(q, placement, registered, remote)
  BY <1>1, OneHandler DEF Shape, Serial
<1>3. PICK h : /\ \/ h = [Unlocked(q) EXCEPT !.pc = "rollback", !.fate = why]
                  \/ h = [q EXCEPT !.pc = "abort", !.fate = why, !.reply = NoReply]
                  \/ h = [Unlocked(q) EXCEPT !.pc = "abort", !.fate = why, !.reply = NoReply]
               /\ Update(r, h)
  BY <1>1 DEF Raise, RaiseOutOfCall
<1>4. /\ h.pc \in Aborting /\ h.base = q.base /\ h.copy = q.copy /\ h.held \in {q.held, {}}
  BY <1>2, <1>3 DEF Fields, Aborting, Unlocked
<1>5. Alone(h, placement, registered, remote)
  BY <1>2, <1>4 DEF Alone, Aborting
<1> QED
  BY <1>3, <1>5, SerialStep DEF Serial

\* A session that begins without rows, or ends.
LEMMA SerialFresh ==
    ASSUME IInv, Serial, OneAtATime, NEW r \in Requests, NEW h, Update(r, h),
           h.base = NoRows, h.copy = NoRows, h.held = {}, h.reply = NoReply,
           \A s \in Sites : Settled(placement'[s], s, remote),
           UNCHANGED <<remote, registered>>
    PROVE  Serial'
<1>1. registered \subseteq Sites
  BY DEF IInv, WellFormed
<1>2. Alone(h, placement', registered, remote)
  BY <1>1, FreshAlone
<1> QED
  BY <1>2, SerialStep

LEMMA SerialEnd ==
    ASSUME IInv, Serial, OneAtATime, NEW r \in Requests, Update(r, Finished(req[r])),
           \A s \in Sites : Settled(placement'[s], s, remote),
           UNCHANGED <<remote, registered>>
    PROVE  Serial'
<1>1. PICK h : h = Finished(req[r])
  OBVIOUS
<1>2. h.base = NoRows /\ h.copy = NoRows /\ h.held = {} /\ h.reply = NoReply
  BY <1>1, ClosedIs DEF Finished, Fields
<1> QED
  BY <1>1, <1>2, SerialFresh

LEMMA SerialBegins ==
    ASSUME IInv, Serial, OneAtATime, NEW r \in Requests, Begin(r)
    PROVE  Serial'
<1>1. CASE BeginProvision(r)
  <2>1. PICK t :
          Update(r, [Closed EXCEPT !.pc = "logical", !.op = "provision", !.n = ops + 1,
                                   !.todo = t, !.asked = ToSet(t)])
    BY <1>1 DEF BeginProvision
  <2>2. PICK h : h = [Closed EXCEPT !.pc = "logical", !.op = "provision", !.n = ops + 1,
                                    !.todo = t, !.asked = ToSet(t)]
    OBVIOUS
  <2>3. h.base = NoRows /\ h.copy = NoRows /\ h.held = {} /\ h.reply = NoReply
    BY <2>2, ClosedIs DEF Fields
  <2>4. UNCHANGED <<remote, placement, registered>>
    BY <1>1 DEF BeginProvision
  <2> QED
    BY <2>1, <2>2, <2>3, <2>4, SerialFresh DEF Serial
<1>2. CASE BeginDeprovision(r)
  <2>1. PICK op, t :
          Update(r, [Closed EXCEPT !.pc = "next", !.op = op, !.n = ops + 1,
                                   !.todo = t, !.asked = ToSet(t),
                                   !.base = placement, !.copy = placement])
    BY <1>2 DEF BeginDeprovision
  <2>2. PICK h : h = [Closed EXCEPT !.pc = "next", !.op = op, !.n = ops + 1,
                                    !.todo = t, !.asked = ToSet(t),
                                    !.base = placement, !.copy = placement]
    OBVIOUS
  <2>3. h.base = placement /\ h.copy = placement /\ h.held = {} /\ h.pc = "next"
    BY <2>2, ClosedIs DEF Fields
  <2>4. UNCHANGED <<remote, placement, registered>>
    BY <1>2 DEF BeginDeprovision
  <2>5. Alone(h, placement, registered, remote)
    BY <2>3, PlacedIsUsed DEF Alone, Serial
  <2> QED
    BY <2>1, <2>2, <2>4, <2>5, SerialStep DEF Serial
<1>3. ASSUME NEW s \in Sites, BeginSync(r, s) PROVE Serial'
  <2>1. PICK h : h = [Closed EXCEPT !.pc = "call", !.op = "sync", !.todo = <<s>>, !.asked = {s},
                                    !.base[s] = placement[s], !.copy[s] = placement[s]]
    OBVIOUS
  <2>2. /\ h.base = [NoRows EXCEPT ![s] = placement[s]]
        /\ h.copy = [NoRows EXCEPT ![s] = placement[s]]
        /\ h.held = {} /\ h.reply = NoReply
    BY <2>1, ClosedIs DEF Fields
  <2>3. \A x \in Sites : h.base[x] = h.copy[x]
                         /\ h.base[x] = IF x = s THEN placement[s] ELSE NoRow
    BY <2>2, EmptyRow
  <2>4. UNCHANGED <<remote, placement, registered>> /\ Update(r, h)
    BY <1>3, <2>1 DEF BeginSync
  <2>5. registered \subseteq Sites
    BY DEF IInv, WellFormed
  <2>6. \A x \in Sites : Settled(h.copy[x], x, remote)
    BY <2>3, EmptySettled DEF Serial
  <2>7. Alone(h, placement, registered, remote)
    BY <2>2, <2>3, <2>5, <2>6, NoReplyIs, PlacedIsUsed, EmptyRow DEF Alone
  <2> QED
    BY <2>4, <2>7, SerialStep DEF Serial
<1> QED
  BY <1>1, <1>2, <1>3 DEF Begin

LEMMA SerialNextTarget ==
    ASSUME IInv, Serial, OneAtATime, NEW r \in Requests, NextTarget(r)
    PROVE  Serial'
<1>1. PICK q : q = req[r]
  OBVIOUS
<1>2. PICK s : s = Head(q.todo)
  OBVIOUS
<1>3. PICK new : new = IF placement[s] = NoRow THEN [id |-> NoUser, status |-> "pending"]
                       ELSE placement[s]
  OBVIOUS
<1>4. PICK l : l = [q EXCEPT !.base[s] = placement[s], !.copy[s] = new]
  OBVIOUS
<1>5. /\ q.pc = "next" /\ q.op = "provision" /\ q.todo # <<>>
      /\ UNCHANGED <<remote, placement, registered>>
  BY <1>1 DEF NextTarget
<1>6. \/ Update(r, [l EXCEPT !.copy[s].status = "failed", !.doomed = TRUE, !.todo = Tail(@)])
      \/ \E why : Update(r, [l EXCEPT !.pc = "rollback", !.fate = why])
      \/ \E long : Update(r, [[l EXCEPT !.long = long] EXCEPT !.pc = "call", !.reply = NoReply])
  BY <1>1, <1>2, <1>3, <1>4 DEF NextTarget, Raise, Send
<1>7. Shape(q, ops) /\ Alone(q, placement, registered, remote)
  BY <1>1, OneHandler DEF Serial
<1>8. s \in Sites
  BY <1>2, <1>5, <1>7, RestOfOrder DEF Shape
<1>9. /\ new.id = placement[s].id \/ new.status = "pending"
      /\ Settled(new, s, remote) /\ Settled([new EXCEPT !.status = "failed"], s, remote)
  <2>1. placement[s] \in Row
    BY <1>8 DEF IInv, WellFormed
  <2>2. [new EXCEPT !.status = "failed"].status = "failed"
    BY <1>3, <2>1 DEF Row
  <2>3. new = placement[s] \/ new.status = "pending"
    BY <1>3
  <2> QED
    BY <1>8, <2>2, <2>3 DEF Settled, Serial
<1>10. /\ DOMAIN l = Fields /\ l.pc = "next" /\ l.op = "provision"
       /\ l.held = q.held
       /\ l.base = [q.base EXCEPT ![s] = placement[s]] /\ l.copy = [q.copy EXCEPT ![s] = new]
  BY <1>4, <1>5, <1>7 DEF Shape, Fields
<1>11. q.base \in [Sites -> Row] /\ q.copy \in [Sites -> Row] /\ registered \subseteq Sites
       /\ q.held \subseteq Sites
  BY <1>7 DEF Shape, IInv, WellFormed
<1>12. /\ l.base[s] = placement[s] /\ l.copy[s] = new
       /\ \A x \in Sites : x # s => l.base[x] = q.base[x] /\ l.copy[x] = q.copy[x]
  BY <1>8, <1>10, <1>11
<1>13. \A h : h.base = l.base /\ h.held = l.held /\ h.op = "provision"
              /\ (\A x \in Sites : Settled(h.copy[x], x, remote))
              => Alone(h, placement, registered, remote)
  BY <1>7, <1>8, <1>10, <1>11, <1>12, PlacedIsUsed DEF Alone
<1>14. \A x \in Sites : Settled(l.copy[x], x, remote)
  BY <1>7, <1>9, <1>12 DEF Alone
<1>15. CASE Update(r, [l EXCEPT !.copy[s].status = "failed", !.doomed = TRUE, !.todo = Tail(@)])
  <2>1. PICK h : h = [l EXCEPT !.copy[s].status = "failed", !.doomed = TRUE, !.todo = Tail(@)]
    OBVIOUS
  <2>2. /\ h.op = "provision" /\ h.base = l.base /\ h.held = l.held
        /\ h.copy = [l.copy EXCEPT ![s] = [l.copy[s] EXCEPT !.status = "failed"]]
    BY <1>10, <2>1 DEF Fields
  <2>3. /\ h.copy[s] = [new EXCEPT !.status = "failed"]
        /\ \A x \in Sites : x # s => h.copy[x] = l.copy[x]
    BY <1>8, <1>10, <1>11, <1>12, <2>2
  <2>4. \A x \in Sites : Settled(h.copy[x], x, remote)
    BY <1>9, <1>14, <2>3
  <2> QED
    BY <1>5, <1>13, <1>15, <2>1, <2>2, <2>4, SerialStep DEF Serial
<1>16. ASSUME NEW why, Update(r, [l EXCEPT !.pc = "rollback", !.fate = why]) PROVE Serial'
  <2>1. PICK h : h = [l EXCEPT !.pc = "rollback", !.fate = why]
    OBVIOUS
  <2>2. h.op = "provision" /\ h.base = l.base /\ h.held = l.held /\ h.copy = l.copy
    BY <1>10, <2>1 DEF Fields
  <2> QED
    BY <1>5, <1>13, <1>14, <1>16, <2>1, <2>2, SerialStep DEF Serial
<1>17. ASSUME NEW long,
              Update(r, [[l EXCEPT !.long = long] EXCEPT !.pc = "call", !.reply = NoReply])
       PROVE  Serial'
  <2>1. PICK h : h = [[l EXCEPT !.long = long] EXCEPT !.pc = "call", !.reply = NoReply]
    OBVIOUS
  <2>2. h.op = "provision" /\ h.base = l.base /\ h.held = l.held /\ h.copy = l.copy
    BY <1>10, <2>1 DEF Fields
  <2> QED
    BY <1>5, <1>13, <1>14, <1>17, <2>1, <2>2, SerialStep DEF Serial
<1> QED
  BY <1>6, <1>15, <1>16, <1>17

\* The steps that only pass the turn, and what an await hears that is no list.
LEMMA SerialPasses ==
    ASSUME IInv, Serial, OneAtATime, NEW r \in Requests,
           \/ GetOrCreateLogical(r) \/ NextPlacement(r) \/ Closes(r) \/ TimesOut(r) \/ Unwinds(r)
    PROVE  Serial'
<1>1. PICK q : q = req[r]
  OBVIOUS
<1>2. DOMAIN q = Fields
  BY <1>1, OneHandler DEF Shape
<1>3. CASE GetOrCreateLogical(r)
  <2>1. PICK h : h = [q EXCEPT !.pc = "next", !.made = ~identity]
    OBVIOUS
  <2>2. h.pc = "next" /\ h.base = q.base /\ h.copy = q.copy /\ h.held = q.held
    BY <1>2, <2>1 DEF Fields
  <2>3. Update(r, h) /\ UNCHANGED <<remote, placement, registered>>
    BY <1>1, <1>3, <2>1 DEF GetOrCreateLogical
  <2> QED
    BY <1>1, <2>2, <2>3, SerialMoves
<1>4. CASE NextPlacement(r)
  <2>1. /\ q.pc = "next" /\ q.op \in {"revoke", "delete"}
        /\ UNCHANGED <<remote, placement, registered>>
        /\ \/ Update(r, [q EXCEPT !.todo = Tail(@)])
           \/ Update(r, [q EXCEPT !.pc = "call", !.reply = NoReply])
    BY <1>1, <1>4 DEF NextPlacement, Send
  <2>2. CASE Update(r, [q EXCEPT !.todo = Tail(@)])
    <3>1. PICK h : h = [q EXCEPT !.todo = Tail(@)]
      OBVIOUS
    <3>2. h.pc = "next" /\ h.base = q.base /\ h.copy = q.copy /\ h.held = q.held
      BY <1>2, <2>1, <3>1 DEF Fields
    <3> QED
      BY <1>1, <2>1, <2>2, <3>1, <3>2, SerialMoves
  <2>3. CASE Update(r, [q EXCEPT !.pc = "call", !.reply = NoReply])
    <3>1. PICK h : h = [q EXCEPT !.pc = "call", !.reply = NoReply]
      OBVIOUS
    <3>2. h.op # "sync" /\ h.base = q.base /\ h.copy = q.copy /\ h.held = q.held
      BY <1>2, <2>1, <3>1 DEF Fields
    <3> QED
      BY <1>1, <2>1, <2>3, <3>1, <3>2, SerialMoves
  <2> QED
    BY <2>1, <2>2, <2>3
<1>5. CASE Closes(r)
  <2>1. PICK h : h = [q EXCEPT !.pc = "next", !.todo = Tail(@)]
    OBVIOUS
  <2>2. h.pc = "next" /\ h.base = q.base /\ h.copy = q.copy /\ h.held = q.held
    BY <1>2, <2>1 DEF Fields
  <2>3. Update(r, h) /\ UNCHANGED <<remote, placement, registered>>
    BY <1>1, <1>5, <2>1 DEF Closes
  <2> QED
    BY <1>1, <2>2, <2>3, SerialMoves
<1>6. CASE TimesOut(r)
  <2>1. PICK h : h = [q EXCEPT !.reply = Failed]
    OBVIOUS
  <2>2. h.reply.kind = "error" /\ h.base = q.base /\ h.copy = q.copy /\ h.held = q.held
    BY <1>2, <2>1, FailedIs DEF Fields
  <2>3. Update(r, h) /\ UNCHANGED <<remote, placement, registered>>
    BY <1>1, <1>6, <2>1 DEF TimesOut
  <2> QED
    BY <1>1, <2>2, <2>3, SerialMoves
<1>7. CASE Unwinds(r)
  <2>1. PICK h : h = [q EXCEPT !.pc = "rollback"]
    OBVIOUS
  <2>2. h.pc = "rollback" /\ h.base = q.base /\ h.copy = q.copy /\ h.held = q.held
    BY <1>2, <2>1 DEF Fields
  <2>3. Update(r, h) /\ UNCHANGED <<remote, placement, registered>>
    BY <1>1, <1>7, <2>1 DEF Unwinds
  <2> QED
    BY <1>1, <2>2, <2>3, SerialMoves
<1> QED
  BY <1>3, <1>4, <1>5, <1>6, <1>7

\* A flush writes only what the session loaded and still stands.
LEMMA SerialFlush ==
    ASSUME IInv, Serial, OneAtATime, NEW r \in Requests, Flush(r)
    PROVE  Serial'
<1>1. PICK q : q = req[r]
  OBVIOUS
<1>2. PICK s : s = Head(q.todo)
  OBVIOUS
<1>3. q.pc = "flush" /\ UNCHANGED <<remote, placement, registered>>
  BY <1>1 DEF Flush
<1>4. \/ \E why : RaiseOutOfCall(r, Unlocked(q), why)
      \/ \E written \in {TRUE, q.copy[s] # q.base[s]} :
           /\ written => /\ s \in registered
                         /\ q.base[s] = NoRow => placement[s] = NoRow
           /\ Update(r, [q EXCEPT !.pc = "close", !.long = FALSE,
                                  !.held = IF written THEN @ \cup {s} ELSE @])
  BY <1>1, <1>2 DEF Flush
<1>5. CASE \E why : RaiseOutOfCall(r, Unlocked(q), why)
  BY <1>1, <1>3, <1>5, SerialRaises
<1>6. ASSUME NEW written \in {TRUE, q.copy[s] # q.base[s]},
             written => /\ s \in registered
                        /\ q.base[s] = NoRow => placement[s] = NoRow,
             Update(r, [q EXCEPT !.pc = "close", !.long = FALSE,
                                 !.held = IF written THEN @ \cup {s} ELSE @])
      PROVE  Serial'
  <2>1. PICK h : h = [q EXCEPT !.pc = "close", !.long = FALSE,
                               !.held = IF written THEN @ \cup {s} ELSE @]
    OBVIOUS
  <2>2. Shape(q, ops) /\ Alone(q, placement, registered, remote)
    BY <1>1, OneHandler DEF Serial
  <2>3. /\ h.pc = "close" /\ h.base = q.base /\ h.copy = q.copy
        /\ h.held = IF written THEN q.held \cup {s} ELSE q.held
    BY <2>1, <2>2 DEF Shape, Fields
  <2>4. written => q.base[s] = placement[s]
    BY <1>6, <2>2 DEF Alone
  <2>5. Alone(h, placement, registered, remote)
    BY <2>2, <2>3, <2>4 DEF Alone
  <2> QED
    BY <1>3, <1>6, <2>1, <2>5, SerialStep DEF Serial
<1> QED
  BY <1>4, <1>5, <1>6

\* A row that an answer settles says what the node did.
LEMMA SerialResume ==
    ASSUME IInv, Serial, OneAtATime, NEW r \in Requests, Resume(r)
    PROVE  Serial'
<1>1. PICK q : q = req[r]
  OBVIOUS
<1>2. PICK o : o = Answered(q)
  OBVIOUS
<1>3. PICK h : h = [o EXCEPT !.pc = "flush", !.reply = NoReply]
  OBVIOUS
<1>4. PICK s : s = Head(q.todo)
  OBVIOUS
<1>e. CASE RaiseOutOfCall(r, q, "answer")
  <2>1. UNCHANGED <<remote, placement, registered>>
    BY DEF Resume
  <2> QED
    BY <1>1, <1>e, <2>1, SerialRaises
<1> SUFFICES ASSUME Continue(r) PROVE Serial'
  BY <1>1, <1>e DEF Resume
<1>5. /\ Shape(q, ops) /\ Truthful(q, remote) /\ Alone(q, placement, registered, remote)
  BY <1>1, OneHandler DEF Serial
<1>6. /\ q.pc = "call" /\ q.op # "sync" /\ Update(r, h)
      /\ UNCHANGED <<remote, placement, registered>>
  BY <1>1, <1>2, <1>3 DEF Resume, Continue
<1>7. q.op \in Mutations
  BY <1>5, <1>6 DEF Shape
<1>8. /\ DOMAIN o = Fields /\ o.base = q.base /\ o.held = q.held
      /\ \A x \in Sites : x # s => o.copy[x] = q.copy[x]
      /\ \E e \in Entries : Settles(q, s, o.copy[s], e)
  BY <1>2, <1>4, <1>5, <1>6, <1>7, OutcomeSettles
<1>9. h.pc = "flush" /\ h.base = q.base /\ h.held = q.held /\ h.copy = o.copy
  BY <1>3, <1>8 DEF Fields
<1>10. s \in Sites
  BY <1>4, <1>5, <1>6, RestOfOrder DEF Shape
<1>11. Settled(o.copy[s], s, remote)
  <2>1. PICK e \in Entries : Settles(q, s, o.copy[s], e)
    BY <1>8
  <2>2. Settled(q.copy[s], s, remote)
    BY <1>5, <1>10 DEF Alone
  <2>3. CASE q.op = "provision"
    BY <2>1, <2>3 DEF Settles, Settled
  <2>4. CASE q.op # "provision" /\ q.reply.kind # "ok"
    BY <2>1, <2>2, <2>4 DEF Settles
  <2>5. CASE q.op # "provision" /\ q.reply.kind = "ok"
    <3>1. WasRevoked(remote, s, q.copy[s].id)
      BY <1>4, <1>5, <1>6, <1>7, <2>5 DEF Truthful, Mutations, WasRevoked, WasDeleted
    <3>2. o.copy[s].id = q.copy[s].id /\ o.copy[s].status = "revoked"
      BY <2>1, <2>5 DEF Settles
    <3> QED
      BY <3>1, <3>2 DEF Settled
  <2> QED
    BY <2>3, <2>4, <2>5
<1>12. \A x \in Sites : Settled(h.copy[x], x, remote)
  BY <1>5, <1>8, <1>9, <1>11 DEF Alone
<1>13. Alone(h, placement, registered, remote)
  BY <1>5, <1>9, <1>12 DEF Alone
<1> QED
  BY <1>6, <1>13, SerialStep DEF Serial

\* The node's list lacks only users that are gone: the one the session looks for was there.
LEMMA SerialLists ==
    ASSUME IInv, Serial, OneAtATime, NEW r \in Requests, NEW s \in Sites, NodeLists(r, s)
    PROVE  Serial'
<1>1. PICK q : q = req[r]
  OBVIOUS
<1>2. PICK h : h = [q EXCEPT !.reply = Ok(NoUser, Present(s))]
  OBVIOUS
<1>3. /\ q.pc = "call" /\ q.op = "sync" /\ q.todo = <<s>> /\ Update(r, h)
      /\ UNCHANGED <<remote, placement, registered>>
  BY <1>1, <1>2 DEF NodeLists
<1>4. /\ Shape(q, ops) /\ Session(q) /\ Alone(q, placement, registered, remote)
  BY <1>1, OneHandler DEF Serial
<1>5. /\ h.base = q.base /\ h.copy = q.copy /\ h.held = q.held /\ h.todo = <<s>>
      /\ h.reply = Ok(NoUser, Present(s))
  BY <1>2, <1>3, <1>4 DEF Shape, Fields
<1>6. h.reply.seen = Present(s) /\ Head(h.todo) = s
  BY <1>5 DEF Ok
<1>7. ASSUME h.copy[s].id # NoUser, h.copy[s].id \notin Present(s)
      PROVE  remote[s][h.copy[s].id] = "gone"
  <2>1. PICK u : u = h.copy[s].id
    OBVIOUS
  <2>2. u = q.base[s].id
    BY <1>3, <1>4, <1>5, <2>1 DEF Shape, Session
  <2>3. u \in UserIds
    BY <1>4, <1>5, <1>7, <2>1 DEF Shape, Row
  <2>4. remote[s][u] # "none"
    BY <1>4, <1>7, <2>1, <2>2 DEF Alone
  <2>5. remote[s][u] \in {"none", "on", "off", "back", "gone"}
    BY <2>3 DEF IInv, WellFormed
  <2> QED
    BY <1>7, <2>1, <2>3, <2>4, <2>5 DEF Present
<1>8. Alone(h, placement, registered, remote)
  BY <1>4, <1>5, <1>6, <1>7 DEF Alone
<1> QED
  BY <1>3, <1>8, SerialStep DEF Serial

LEMMA SerialSyncResume ==
    ASSUME IInv, Serial, OneAtATime, NEW r \in Requests, SyncResume(r)
    PROVE  Serial'
<1>1. PICK q : q = req[r]
  OBVIOUS
<1>2. PICK s : s = Head(q.todo)
  OBVIOUS
<1>3. /\ q.pc = "call" /\ q.op = "sync"
      /\ UNCHANGED <<remote, placement, registered>>
      /\ \/ Update(r, Finished(q))
         \/ /\ q.reply.kind = "ok"
            /\ Update(r, [q EXCEPT !.pc = "flush sync", !.copy[s] = Reconciled(@, q.reply.seen),
                                   !.reply = NoReply])
  BY <1>1, <1>2 DEF SyncResume
<1>4. CASE Update(r, Finished(q))
  BY <1>1, <1>3, <1>4, SerialEnd DEF Serial
<1>5. CASE /\ q.reply.kind = "ok"
           /\ Update(r, [q EXCEPT !.pc = "flush sync", !.copy[s] = Reconciled(@, q.reply.seen),
                                  !.reply = NoReply])
  <2>1. PICK row : row = Reconciled(q.copy[s], q.reply.seen)
    OBVIOUS
  <2>2. PICK h : h = [q EXCEPT !.pc = "flush sync", !.copy[s] = row, !.reply = NoReply]
    OBVIOUS
  <2>3. Update(r, h)
    BY <1>5, <2>1, <2>2
  <2>4. Shape(q, ops) /\ Alone(q, placement, registered, remote)
    BY <1>1, OneHandler DEF Serial
  <2>5. s \in Sites /\ q.copy \in [Sites -> Row] /\ q.copy[s] \in Row
    BY <1>2, <1>3, <2>4, RestOfOrder DEF Shape
  <2>6. /\ h.pc = "flush sync" /\ h.base = q.base /\ h.held = q.held
        /\ h.copy = [q.copy EXCEPT ![s] = row]
    BY <2>2, <2>4 DEF Shape, Fields
  <2>7. Settled(row, s, remote)
    <3>1. Settled(q.copy[s], s, remote)
      BY <2>4, <2>5 DEF Alone
    <3>2. q.copy[s].id # NoUser /\ q.copy[s].id \notin q.reply.seen
          => remote[s][q.copy[s].id] = "gone"
      BY <1>2, <1>3, <1>5, <2>4 DEF Alone
    <3>3. \/ row = q.copy[s]
          \/ /\ q.copy[s].id # NoUser /\ row.id = q.copy[s].id
             /\ row.status = IF q.copy[s].id \in q.reply.seen THEN "active" ELSE "missing"
      BY <2>1, <2>5 DEF Reconciled, Row
    <3> QED
      BY <3>1, <3>2, <3>3 DEF Settled
  <2>8. \A x \in Sites : Settled(h.copy[x], x, remote)
    BY <2>4, <2>5, <2>6, <2>7 DEF Alone
  <2>9. Alone(h, placement, registered, remote)
    BY <2>4, <2>6, <2>8 DEF Alone
  <2> QED
    BY <1>3, <2>3, <2>9, SerialStep DEF Serial
<1> QED
  BY <1>3, <1>4, <1>5

\* Where nobody wrote meanwhile, the merged row is the session's own.
LEMMA MergedIsOwn ==
    ASSUME NEW h, NEW s, NEW m, h.base[s] = placement[s], Settled(h.copy[s], s, m)
    PROVE  Settled(Merged(h, s), s, m)
<1>1. Merged(h, s).id = h.copy[s].id /\ Merged(h, s).status = h.copy[s].status
  BY DEF Merged
<1> QED
  BY <1>1 DEF Settled

LEMMA SerialCommit ==
    ASSUME IInv, Serial, OneAtATime, NEW r \in Requests, Commit(r)
    PROVE  Serial'
<1>1. PICK q : q = req[r]
  OBVIOUS
<1>2. UNCHANGED <<remote, registered>>
  BY DEF Commit
<1>3. \/ Raise(r, Unlocked(q), "request") /\ UNCHANGED placement
      \/ /\ placement' = [s \in Sites |-> IF s \in q.held THEN Merged(q, s) ELSE placement[s]]
         /\ Update(r, Finished(q))
  BY <1>1 DEF Commit
<1>4. CASE Raise(r, Unlocked(q), "request") /\ UNCHANGED placement
  BY <1>1, <1>2, <1>4, SerialRaises
<1>5. CASE /\ placement' = [s \in Sites |-> IF s \in q.held THEN Merged(q, s) ELSE placement[s]]
           /\ Update(r, Finished(q))
  <2>1. Alone(q, placement, registered, remote)
    BY <1>1 DEF Serial
  <2>2. ASSUME NEW s \in Sites PROVE Settled(placement'[s], s, remote)
    <3>1. CASE s \in q.held
      <4>1. placement'[s] = Merged(q, s)
        BY <1>5, <3>1
      <4>2. q.base[s] = placement[s] /\ Settled(q.copy[s], s, remote)
        BY <2>1, <3>1 DEF Alone
      <4>3. Settled(Merged(q, s), s, remote)
        BY <4>2, MergedIsOwn
      <4> QED
        BY <4>1, <4>3
    <3>2. CASE s \notin q.held
      BY <1>5, <3>2 DEF Serial
    <3> QED
      BY <3>1, <3>2
  <2> QED
    BY <1>1, <1>2, <1>5, <2>2, SerialEnd
<1> QED
  BY <1>3, <1>4, <1>5

LEMMA SerialSyncCommit ==
    ASSUME IInv, Serial, OneAtATime, NEW r \in Requests, SyncCommit(r)
    PROVE  Serial'
<1>1. PICK q : q = req[r]
  OBVIOUS
<1>2. PICK s : s = Head(q.todo)
  OBVIOUS
<1>3. UNCHANGED <<remote, registered>>
  BY DEF SyncCommit
<1>4. \/ Update(r, Finished(q)) /\ UNCHANGED placement
      \/ /\ s \in registered
         /\ placement' = IF q.base[s] = NoRow THEN placement
                         ELSE [placement EXCEPT ![s] = Merged(q, s)]
         /\ Update(r, Finished(q))
  BY <1>1, <1>2 DEF SyncCommit
<1>5. CASE Update(r, Finished(q)) /\ UNCHANGED placement
  BY <1>1, <1>3, <1>5, SerialEnd DEF Serial
<1>6. CASE /\ s \in registered
           /\ placement' = IF q.base[s] = NoRow THEN placement
                           ELSE [placement EXCEPT ![s] = Merged(q, s)]
           /\ Update(r, Finished(q))
  <2>1. Alone(q, placement, registered, remote)
    BY <1>1 DEF Serial
  <2>2. s \in Sites /\ placement \in [Sites -> {row \in Row : row.status # "pending"}]
    BY <1>6 DEF IInv, WellFormed
  <2>3. q.base[s] # NoRow => Settled(Merged(q, s), s, remote)
    <3>1. Settled(q.copy[s], s, remote)
      BY <2>1, <2>2 DEF Alone
    <3>2. q.base[s] # NoRow => q.base[s] = placement[s]
      BY <1>6, <2>1 DEF Alone
    <3> QED
      BY <3>1, <3>2, MergedIsOwn
  <2>4. \A x \in Sites : placement'[x] = placement[x]
                         \/ (x = s /\ q.base[s] # NoRow /\ placement'[x] = Merged(q, s))
    BY <1>6, <2>2
  <2>5. \A x \in Sites : Settled(placement'[x], x, remote)
    BY <2>3, <2>4 DEF Serial
  <2> QED
    BY <1>1, <1>3, <1>6, <2>5, SerialEnd
<1> QED
  BY <1>4, <1>5, <1>6

\* What is said of a session stays so while the nodes go on and other rows change.
LEMMA AloneStays ==
    ASSUME NEW h, NEW k, Shape(h, k), Session(h), NEW p1, NEW g1, NEW m1, Alone(h, p1, g1, m1),
           NEW p2, NEW g2, NEW m2, Ages(m1, m2), g2 \subseteq g1,
           \A s \in g2 \cup h.held : p2[s] = p1[s]
    PROVE  Alone(h, p2, g2, m2)
<1>1. \A s \in Sites : /\ h.base[s].id # NoUser => h.base[s].id \in UserIds
                       /\ h.copy[s].id # NoUser => h.copy[s].id \in UserIds
  BY DEF Shape, Row
<1>2. \A s \in Sites : h.base[s].id # NoUser => m2[s][h.base[s].id] # "none"
  BY <1>1 DEF Alone, Ages
<1>3. \A s \in Sites : Settled(h.copy[s], s, m2)
  <2>1. \A s \in Sites : /\ h.copy[s] \in Row /\ Settled(h.copy[s], s, m1)
                         /\ h.copy[s].status \in {"active", "revoked", "missing"}
                            => h.copy[s].id # NoUser
    BY DEF Alone, Shape, Session
  <2> QED
    BY <2>1, SettledStays
<1>4. ASSUME h.pc = "call", h.op = "sync", h.reply.kind = "ok",
             h.copy[Head(h.todo)].id # NoUser, h.copy[Head(h.todo)].id \notin h.reply.seen
      PROVE  m2[Head(h.todo)][h.copy[Head(h.todo)].id] = "gone"
  <2>1. PICK s : s = Head(h.todo)
    OBVIOUS
  <2>2. s \in Sites
    BY <1>4, <2>1, RestOfOrder DEF Shape
  <2>3. m1[s][h.copy[s].id] = "gone" /\ h.copy[s].id \in UserIds
    BY <1>1, <1>4, <2>1, <2>2 DEF Alone
  <2> QED
    BY <2>1, <2>2, <2>3 DEF Ages
<1> QED
  BY <1>2, <1>3, <1>4 DEF Alone

\* The nodes go on; who hears of it awaits no list.
LEMMA SerialAges ==
    ASSUME IInv, Serial, Ages(remote, remote'), UNCHANGED <<placement, registered>>,
           \A r \in Requests :
             \/ req'[r] = req[r]
             \/ /\ req'[r].op # "sync" /\ req'[r].base = req[r].base
                /\ req'[r].copy = req[r].copy /\ req'[r].held = req[r].held
    PROVE  Serial'
<1>1. ASSUME NEW s \in Sites PROVE Settled(placement[s], s, remote')
  <2>1. /\ placement[s] \in Row /\ Settled(placement[s], s, remote)
        /\ placement[s].status \in {"active", "revoked", "missing"} => placement[s].id # NoUser
    BY DEF IInv, WellFormed, PlacementsAreGrounded, Serial
  <2> QED
    BY <2>1, SettledStays
<1>2. ASSUME NEW r \in Requests PROVE Alone(req'[r], placement, registered, remote')
  <2>1. /\ Shape(req[r], ops) /\ Session(req[r])
        /\ Alone(req[r], placement, registered, remote)
    BY OneHandler DEF Serial
  <2>2. Alone(req[r], placement, registered, remote')
    BY <2>1, AloneStays
  <2> QED
    BY <2>2 DEF Alone
<1> QED
  BY <1>1, <1>2 DEF Serial

\* A command of a provisioning or deprovisioning is answered to no sync.
LEMMA SerialAnswer ==
    ASSUME IInv, Serial, NEW c \in network, NEW reply, Answer(c, reply),
           Ages(remote, remote'), UNCHANGED <<placement, registered>>
    PROVE  Serial'
<1>1. ASSUME NEW r \in Requests
      PROVE  \/ req'[r] = req[r]
             \/ /\ req'[r].op # "sync" /\ req'[r].base = req[r].base
                /\ req'[r].copy = req[r].copy /\ req'[r].held = req[r].held
  <2>1. PICK q : q = req[r]
    OBVIOUS
  <2>2. req'[r] = IF Waits(r, c) THEN [q EXCEPT !.reply = reply] ELSE q
    BY <2>1 DEF Answer
  <2>3. CASE ~Waits(r, c)
    BY <2>1, <2>2, <2>3
  <2>4. CASE Waits(r, c)
    <3>1. DOMAIN q = Fields
      BY <2>1, OneHandler DEF Shape
    <3>2. PICK h : h = [q EXCEPT !.reply = reply]
      OBVIOUS
    <3>3. h.op = q.op /\ h.base = q.base /\ h.copy = q.copy /\ h.held = q.held
      BY <3>1, <3>2 DEF Fields
    <3>4. q.op = c.op /\ c.op \in Mutations
      BY <2>1, <2>4 DEF Waits, IInv, WellFormed, Commands
    <3>5. q.op # "sync"
      BY <3>4 DEF Mutations
    <3> QED
      BY <2>1, <2>2, <2>4, <3>2, <3>3, <3>5
  <2> QED
    BY <2>3, <2>4
<1> QED
  BY <1>1, SerialAges

LEMMA SerialExecutes ==
    ASSUME IInv, Serial, NodeExecutes
    PROVE  Serial'
<1>1. UNCHANGED <<placement, registered>>
  BY DEF NodeExecutes
<1>2. PICK c \in network :
        \/ remote[c.site][c.n] = "none" /\ SetUser(c.site, c.n, "on") /\ \E reply : Answer(c, reply)
        \/ /\ c.id \in Present(c.site)
           /\ SetUser(c.site, c.id, "off") \/ SetUser(c.site, c.id, "gone")
           /\ \E reply : Answer(c, reply)
        \/ UNCHANGED remote /\ \E reply : Answer(c, reply)
  BY DEF NodeExecutes
<1>3. PICK reply : Answer(c, reply)
  BY <1>2
<1>4. c.site \in Sites /\ c.n \in UserIds
  BY DEF IInv, WellFormed, Commands, UserIds
<1>5. Ages(remote, remote')
  <2>1. ASSUME remote[c.site][c.n] = "none", SetUser(c.site, c.n, "on")
        PROVE  Ages(remote, remote')
    BY <1>4, <2>1, SetUserAges
  <2>2. ASSUME c.id \in Present(c.site),
               SetUser(c.site, c.id, "off") \/ SetUser(c.site, c.id, "gone")
        PROVE  Ages(remote, remote')
    <3>1. c.id \in UserIds /\ remote[c.site][c.id] \in {"on", "off", "back"}
      BY <2>2 DEF Present
    <3> QED
      BY <1>4, <2>2, <3>1, SetUserAges
  <2>3. CASE UNCHANGED remote
    BY <2>3, AgesNot
  <2> QED
    BY <1>2, <2>1, <2>2, <2>3
<1> QED
  BY <1>1, <1>3, <1>5, SerialAnswer

LEMMA SerialUsers ==
    ASSUME IInv, Serial, DeletedOnNode \/ EnabledOnNode
    PROVE  Serial'
<1>1. PICK s \in Sites, u \in UserIds :
        \/ remote[s][u] \in {"on", "off", "back"} /\ SetUser(s, u, "gone")
        \/ remote[s][u] = "off" /\ SetUser(s, u, "back")
  BY DEF DeletedOnNode, EnabledOnNode, Present
<1>2. Ages(remote, remote')
  BY <1>1, SetUserAges
<1>3. UNCHANGED <<req, placement, registered>>
  BY DEF DeletedOnNode, EnabledOnNode
<1> QED
  BY <1>2, <1>3, SerialAges

\* With its node, the row that a session loaded may go: its commit will not reach it.
LEMMA SerialNodeDeleted ==
    ASSUME IInv, Serial, NodeDeleted
    PROVE  Serial'
<1>1. PICK s \in Deletable \cap registered :
         /\ \A r \in Requests : s \notin req[r].held
         /\ registered' = registered \ {s}
         /\ placement' = [placement EXCEPT ![s] = NoRow]
  BY DEF NodeDeleted
<1>2. UNCHANGED <<remote, req>>
  BY DEF NodeDeleted
<1>3. s \in Sites /\ placement \in [Sites -> {row \in Row : row.status # "pending"}]
      /\ registered \subseteq Sites
  BY DEF IInv, WellFormed
<1>4. placement'[s] = NoRow /\ \A x \in Sites : x # s => placement'[x] = placement[x]
  BY <1>1, <1>3
<1>5. \A x \in Sites : Settled(placement'[x], x, remote)
  BY <1>4, EmptySettled DEF Serial
<1>6. ASSUME NEW r \in Requests PROVE Alone(req[r], placement', registered', remote)
  <2>1. /\ Shape(req[r], ops) /\ Session(req[r])
        /\ Alone(req[r], placement, registered, remote)
    BY OneHandler DEF Serial
  <2>2. \A x \in registered' \cup req[r].held : placement'[x] = placement[x]
    BY <1>1, <1>3, <1>4, <2>1 DEF Shape
  <2> QED
    BY <1>1, <2>1, <2>2, AgesNot, AloneStays
<1> QED
  BY <1>2, <1>5, <1>6 DEF Serial

LEMMA SerialRestart ==
    ASSUME IInv, Serial, Restart
    PROVE  Serial'
<1>1. /\ \A r \in Requests : req'[r] = Closed
      /\ UNCHANGED <<remote, placement, registered>>
  BY DEF Restart
<1>2. registered \subseteq Sites
  BY DEF IInv, WellFormed
<1>3. Alone(Closed, placement, registered, remote)
  BY <1>2, ClosedIs, FreshAlone
<1> QED
  BY <1>1, <1>3 DEF Serial

LEMMA SerialInit == Init => Serial
<1> SUFFICES ASSUME Init PROVE Serial
  OBVIOUS
<1>1. /\ placement = NoRows /\ registered \subseteq Sites
      /\ \A r \in Requests : req[r] = Closed
  BY DEF Init
<1>2. Alone(Closed, placement, registered, remote)
  BY <1>1, ClosedIs, FreshAlone
<1> QED
  BY <1>1, <1>2, EmptyRow, EmptySettled DEF Serial

LEMMA SerialPreserved ==
    ASSUME OneAtATime
    PROVE  IInv /\ Serial /\ [Next]_vars => Serial'
<1> SUFFICES ASSUME IInv, Serial, [Next]_vars PROVE Serial'
  OBVIOUS
<1>1. ASSUME NEW r \in Requests, Begin(r) PROVE Serial'
  BY <1>1, SerialBegins
<1>2. ASSUME NEW r \in Requests, Handler(r) PROVE Serial'
  <2>1. CASE Rollback(r)
    BY <2>1, SerialEnd DEF Rollback, Serial
  <2> QED
    BY <1>2, <2>1, SerialPasses, SerialNextTarget, SerialResume, SerialFlush, SerialCommit,
       SerialSyncResume, SerialSyncCommit DEF Handler
<1>3. ASSUME NEW r \in Requests, TimesOut(r) PROVE Serial'
  BY <1>3, SerialPasses
<1>4. ASSUME NEW r \in Requests, NEW s \in Sites, NodeLists(r, s) PROVE Serial'
  BY <1>4, SerialLists
<1>5. CASE NodeRefuses
  BY <1>5, AgesNot, SerialAnswer DEF NodeRefuses
<1>6. CASE Environment
  BY <1>5, <1>6, SerialExecutes, SerialUsers, SerialNodeDeleted, SerialRestart
     DEF Environment
<1>7. CASE UNCHANGED vars
  BY <1>7 DEF vars, Serial
<1> QED
  BY <1>1, <1>2, <1>3, <1>4, <1>6, <1>7 DEF Next

\* While no two requests overlap, every committed status is right about its node.
LEMMA Serialised ==
    ASSUME OneAtATime
    PROVE  Spec => [](IInv /\ Serial)
<1>1. Init => IInv /\ Serial
  BY InitEstablishes, SerialInit
<1>2. IInv /\ Serial /\ [Next]_vars => IInv' /\ Serial'
  BY StepPreserves, SerialPreserved
<1> QED
  BY <1>1, <1>2, PTL DEF Spec

\* While no two requests overlap, the user of a placement that is revoked was revoked on its
\* node, or is gone from it: PlacementStatus.revoked, "profile revoked on the node".
THEOREM RevocationsHold ==
    ASSUME OneAtATime
    PROVE  Spec => []RevokedWasTurnedOff
<1>1. IInv /\ Serial => RevokedWasTurnedOff
  BY DEF Serial, Settled, RevokedWasTurnedOff, WasRevoked, Revoked
<1> QED
  BY <1>1, Serialised, PTL

\* While no two requests overlap, the user of a placement that is missing is not on its
\* node: PlacementStatus.missing, "tracked here but absent on the node".
THEOREM MissingIsGone ==
    ASSUME OneAtATime
    PROVE  Spec => []MissingMeansGone
<1>1. IInv /\ Serial => MissingMeansGone
  BY DEF Serial, Settled, MissingMeansGone, Present
<1> QED
  BY <1>1, Serialised, PTL

-----------------------------------------------------------------------------
(* Every target recorded.                                                  *)

\* One handler at a time, over nodes that can be provisioned and stay.
Working == OneAtATime /\ (\A s \in Sites : Kind[s] = "shim") /\ Deletable = {}

\* A session has an outcome for target s.
Recorded(h, s) ==
    /\ h.copy[s].status \in {"active", "failed"}
    /\ \E e \in h.log : e.op = "provision" /\ e.site = s

\* Only what was asked, or an answer, makes the handler fail; the rows of the sites it has come
\* to are the committed ones p; those it has an outcome for are written, or were so already.
Steady(h, p, t) ==
    /\ h.pc \in Aborting => h.fate \in {"request", "answer"}
    /\ h.doomed = FALSE
    /\ h.asked \subseteq Sites
    /\ h.pc \in {"idle", "done"} => h.log = {}
    /\ h.pc \in {"logical", "next", "call", "flush", "close"} /\ h.op \in Mutations =>
         /\ ToSet(h.todo) \subseteq h.asked
         /\ h.op # "provision" => h.base = p
         /\ \A s \in h.asked \ Unsent(h) :
              /\ h.base[s] = p[s]
              /\ h.op = "provision" /\ ~(h.pc = "call" /\ s = Head(h.todo)) =>
                   /\ Recorded(h, s)
                   /\ s \in h.held \/ h.copy[s] = p[s] \/ (h.pc = "flush" /\ s = Head(h.todo))
    /\ h.pc = "done" /\ h.op = "provision" /\ h.fate \notin {"request", "answer"} =>
         \A s \in h.asked : /\ p[s].status \in {"active", "failed"}
                            /\ \E e \in t : e.op = "provision" /\ e.site = s

Whole ==
    /\ registered = Sites
    /\ \A r \in Requests : Steady(req[r], placement, audit)

LEMMA InOrder ==
    ASSUME NEW t, Order(t), t # <<>>, NEW s \in ToSet(t)
    PROVE  s = Head(t) \/ s \in ToSet(Tail(t))
<1>1. t \in Seq(Sites) /\ Head(t) = t[1]
  BY DEF Order
<1>2. PICK i \in DOMAIN t : s = t[i]
  BY DEF ToSet
<1>3. i \in 1..Len(t) /\ Len(t) \in Nat
  BY <1>1
<1>4. CASE i = 1
  BY <1>1, <1>2, <1>4
<1>5. CASE i # 1
  <2>1. i - 1 \in DOMAIN Tail(t) /\ Tail(t)[i - 1] = t[i]
    BY <1>1, <1>3, <1>5
  <2> QED
    BY <1>2, <2>1 DEF ToSet
<1> QED
  BY <1>4, <1>5

LEMMA WholeStep ==
    ASSUME IInv, Whole, OneAtATime, NEW r \in Requests, NEW h, Update(r, h),
           UNCHANGED registered, Steady(h, placement', audit')
    PROVE  Whole'
<1>1. \A q \in Requests : req'[q] = h
  BY DEF Update, IInv, WellFormed, OneAtATime
<1> QED
  BY <1>1 DEF Whole

\* A handler that moves without touching rows and entries.
LEMMA SteadyMoves ==
    ASSUME NEW q, NEW p \in [Sites -> Row], NEW t, Steady(q, p, t),
           NEW h, h.op = q.op, h.asked = q.asked, h.doomed = q.doomed, h.base = q.base,
           h.copy = q.copy, h.held = q.held, h.log = q.log, h.fate = q.fate,
           \/ h.pc = q.pc /\ h.todo = q.todo
           \/ /\ q.pc \in {"logical", "next", "close"} /\ h.pc \in {"next", "call"}
              /\ q.op \in Mutations /\ ToSet(h.todo) \subseteq ToSet(q.todo)
              /\ q.op = "provision" => h.pc = "next" /\ Unsent(h) = Unsent(q)
    PROVE  Steady(h, p, t)
<1>1. CASE h.pc = q.pc /\ h.todo = q.todo
  <2>1. Unsent(h) = Unsent(q)
    BY <1>1 DEF Unsent
  <2> QED
    BY <1>1, <2>1 DEF Steady, Recorded
<1>2. CASE /\ q.pc \in {"logical", "next", "close"} /\ h.pc \in {"next", "call"}
           /\ q.op \in Mutations /\ ToSet(h.todo) \subseteq ToSet(q.todo)
           /\ q.op = "provision" => h.pc = "next" /\ Unsent(h) = Unsent(q)
  <2>1. /\ h.pc \notin Aborting /\ h.doomed = FALSE /\ h.asked \subseteq Sites
        /\ ToSet(h.todo) \subseteq h.asked /\ h.op # "provision" => h.base = p
    BY <1>2 DEF Steady, Aborting
  <2>2. CASE q.op = "provision"
    BY <1>2, <2>1, <2>2 DEF Steady, Recorded
  <2>3. CASE q.op # "provision"
    BY <1>2, <2>1, <2>3 DEF Steady
  <2> QED
    BY <2>2, <2>3
<1> QED
  BY <1>1, <1>2

LEMMA ClosedSteady == ASSUME NEW p, NEW t PROVE Steady(Closed, p, t)
<1>1. Closed.asked = {}
  BY DEF Closed
<1> QED
  BY <1>1, ClosedIs DEF Steady, Aborting

LEMMA FinishedIs ==
    ASSUME NEW q
    PROVE  /\ Finished(q).pc = "done" /\ Finished(q).op = q.op /\ Finished(q).asked = q.asked
           /\ Finished(q).log = {} /\ Finished(q).doomed = FALSE /\ Finished(q).fate = q.fate
BY ClosedIs DEF Finished, Fields

\* The request, or an answer, ends the handler.
LEMMA WholeRaises ==
    ASSUME IInv, Whole, OneAtATime, NEW r \in Requests, NEW why \in {"request", "answer"},
           \/ Raise(r, Unlocked(req[r]), why)
           \/ RaiseOutOfCall(r, req[r], why)
           \/ RaiseOutOfCall(r, Unlocked(req[r]), why),
           UNCHANGED <<placement, audit, registered>>
    PROVE  Whole'
<1>1. PICK q : q = req[r]
  OBVIOUS
<1>2. DOMAIN q = Fields /\ Steady(q, placement, audit)
  BY <1>1, OneHandler DEF Shape, Whole
<1>3. PICK h : /\ \/ h = [Unlocked(q) EXCEPT !.pc = "rollback", !.fate = why]
                  \/ h = [q EXCEPT !.pc = "abort", !.fate = why, !.reply = NoReply]
                  \/ h = [Unlocked(q) EXCEPT !.pc = "abort", !.fate = why, !.reply = NoReply]
               /\ Update(r, h)
  BY <1>1 DEF Raise, RaiseOutOfCall
<1>4. /\ h.pc \in Aborting /\ h.fate = why /\ h.doomed = q.doomed /\ h.asked = q.asked
  BY <1>2, <1>3 DEF Fields, Aborting, Unlocked
<1>5. Steady(h, placement, audit)
  BY <1>2, <1>4 DEF Steady, Aborting
<1> QED
  BY <1>3, <1>5, WholeStep

\* Handlers hear something, or nothing.
LEMMA WholeHears ==
    ASSUME IInv, Whole, UNCHANGED <<placement, audit, registered>>,
           \A r \in Requests :
             \/ req'[r] = req[r]
             \/ \E reply : req'[r] = [req[r] EXCEPT !.reply = reply]
    PROVE  Whole'
<1>1. ASSUME NEW r \in Requests PROVE Steady(req'[r], placement, audit)
  <2>1. Steady(req[r], placement, audit) /\ DOMAIN req[r] = Fields
    BY OneHandler DEF Whole, Shape
  <2>2. placement \in [Sites -> Row]
    BY DEF IInv, WellFormed
  <2>3. ASSUME NEW reply, req'[r] = [req[r] EXCEPT !.reply = reply]
        PROVE  Steady(req'[r], placement, audit)
    <3>1. PICK h : h = [req[r] EXCEPT !.reply = reply]
      OBVIOUS
    <3>2. /\ h.pc = req[r].pc /\ h.todo = req[r].todo /\ h.op = req[r].op
          /\ h.asked = req[r].asked /\ h.doomed = req[r].doomed /\ h.base = req[r].base
          /\ h.copy = req[r].copy /\ h.held = req[r].held /\ h.log = req[r].log
          /\ h.fate = req[r].fate
          /\ h.fate = req[r].fate
      BY <2>1, <3>1 DEF Fields
    <3> QED
      BY <2>1, <2>2, <2>3, <3>1, <3>2, SteadyMoves
  <2> QED
    BY <2>1, <2>3
<1> QED
  BY <1>1 DEF Whole

LEMMA OrderIn == ASSUME NEW t, Order(t) PROVE ToSet(t) \subseteq Sites
<1>1. t \in Seq(Sites)
  BY DEF Order
<1> QED
  BY <1>1 DEF ToSet

LEMMA WholeBegins ==
    ASSUME IInv, Whole, OneAtATime, NEW r \in Requests, Begin(r)
    PROVE  Whole'
<1>1. CASE BeginProvision(r)
  <2>1. PICK t \in SetToAllKPermutations(Sites) \ {<<>>} :
          Update(r, [Closed EXCEPT !.pc = "logical", !.op = "provision", !.n = ops + 1,
                                   !.todo = t, !.asked = ToSet(t)])
    BY <1>1 DEF BeginProvision
  <2>2. PICK h : h = [Closed EXCEPT !.pc = "logical", !.op = "provision", !.n = ops + 1,
                                    !.todo = t, !.asked = ToSet(t)]
    OBVIOUS
  <2>3. /\ h.pc = "logical" /\ h.op = "provision" /\ h.todo = t /\ h.asked = ToSet(t)
        /\ h.doomed = FALSE
    BY <2>2, ClosedIs DEF Fields
  <2>4. PICK S \in SUBSET Sites : t \in SetToSeqs(S)
    BY DEF SetToAllKPermutations
  <2>5. ToSet(t) \subseteq Sites
    BY <2>4, SomeOrder, OrderIn
  <2>6. Unsent(h) = h.asked
    BY <2>3 DEF Unsent
  <2>7. UNCHANGED <<placement, audit, registered>>
    BY <1>1 DEF BeginProvision
  <2>8. Steady(h, placement, audit)
    BY <2>3, <2>5, <2>6 DEF Steady, Aborting
  <2> QED
    BY <2>1, <2>2, <2>7, <2>8, WholeStep
<1>2. CASE BeginDeprovision(r)
  <2>1. PICK op \in {"revoke", "delete"},
             t \in SetToSeqs({s \in Sites : placement[s] # NoRow}) :
          Update(r, [Closed EXCEPT !.pc = "next", !.op = op, !.n = ops + 1,
                                   !.todo = t, !.asked = ToSet(t),
                                   !.base = placement, !.copy = placement])
    BY <1>2 DEF BeginDeprovision
  <2>2. PICK h : h = [Closed EXCEPT !.pc = "next", !.op = op, !.n = ops + 1,
                                    !.todo = t, !.asked = ToSet(t),
                                    !.base = placement, !.copy = placement]
    OBVIOUS
  <2>3. /\ h.pc = "next" /\ h.op = op /\ h.todo = t /\ h.asked = ToSet(t)
        /\ h.doomed = FALSE /\ h.base = placement
    BY <2>2, ClosedIs DEF Fields
  <2>5. ToSet(t) \subseteq Sites
    BY SomeOrder, OrderIn
  <2>6. Unsent(h) = h.asked
    BY <2>3 DEF Unsent
  <2>7. UNCHANGED <<placement, audit, registered>>
    BY <1>2 DEF BeginDeprovision
  <2>8. Steady(h, placement, audit)
    BY <2>3, <2>5, <2>6 DEF Steady, Aborting
  <2> QED
    BY <2>1, <2>2, <2>7, <2>8, WholeStep
<1>3. ASSUME NEW s \in Sites, BeginSync(r, s) PROVE Whole'
  <2>1. PICK h : h = [Closed EXCEPT !.pc = "call", !.op = "sync", !.todo = <<s>>, !.asked = {s},
                                    !.base[s] = placement[s], !.copy[s] = placement[s]]
    OBVIOUS
  <2>2. h.pc = "call" /\ h.op = "sync" /\ h.asked = {s} /\ h.doomed = FALSE
    BY <2>1, ClosedIs DEF Fields
  <2>3. Update(r, h) /\ UNCHANGED <<placement, audit, registered>>
    BY <1>3, <2>1 DEF BeginSync
  <2>4. Steady(h, placement, audit)
    BY <2>2 DEF Steady, Mutations, Aborting
  <2> QED
    BY <2>3, <2>4, WholeStep
<1> QED
  BY <1>1, <1>2, <1>3 DEF Begin

LEMMA WholePasses ==
    ASSUME IInv, Whole, OneAtATime, NEW r \in Requests,
           GetOrCreateLogical(r) \/ NextPlacement(r) \/ Closes(r)
    PROVE  Whole'
<1>1. PICK q : q = req[r]
  OBVIOUS
<1>2. Shape(q, ops) /\ Steady(q, placement, audit) /\ DOMAIN q = Fields
      /\ placement \in [Sites -> Row]
  BY <1>1, OneHandler DEF Whole, Shape, IInv, WellFormed
<1>3. CASE GetOrCreateLogical(r)
  <2>1. PICK h : h = [q EXCEPT !.pc = "next", !.made = ~identity]
    OBVIOUS
  <2>2. /\ h.pc = "next" /\ h.todo = q.todo /\ h.op = q.op /\ h.asked = q.asked
        /\ h.doomed = q.doomed /\ h.base = q.base /\ h.copy = q.copy /\ h.held = q.held
        /\ h.log = q.log /\ h.fate = q.fate
    BY <1>2, <2>1 DEF Fields
  <2>3. q.pc = "logical" /\ Update(r, h) /\ UNCHANGED <<placement, audit, registered>>
    BY <1>1, <1>3, <2>1 DEF GetOrCreateLogical
  <2>4. Unsent(h) = Unsent(q) /\ q.op \in Mutations
    BY <1>2, <2>2, <2>3 DEF Unsent, Shape
  <2>5. Steady(h, placement, audit)
    BY <1>2, <2>2, <2>3, <2>4, SteadyMoves
  <2> QED
    BY <2>3, <2>5, WholeStep
<1>4. CASE NextPlacement(r)
  <2>1. /\ q.pc = "next" /\ q.op \in {"revoke", "delete"} /\ q.todo # <<>>
        /\ UNCHANGED <<placement, audit, registered>>
        /\ \/ Update(r, [q EXCEPT !.todo = Tail(@)])
           \/ Update(r, [q EXCEPT !.pc = "call", !.reply = NoReply])
    BY <1>1, <1>4 DEF NextPlacement, Send
  <2>2. q.op \in Mutations /\ ToSet(Tail(q.todo)) \subseteq ToSet(q.todo)
    BY <1>2, <2>1, RestOfOrder DEF Shape
  <2>3. CASE Update(r, [q EXCEPT !.todo = Tail(@)])
    <3>1. PICK h : h = [q EXCEPT !.todo = Tail(@)]
      OBVIOUS
    <3>2. /\ h.pc = "next" /\ h.todo = Tail(q.todo) /\ h.op = q.op /\ h.asked = q.asked
          /\ h.doomed = q.doomed /\ h.base = q.base /\ h.copy = q.copy /\ h.held = q.held
          /\ h.log = q.log /\ h.fate = q.fate
      BY <1>2, <2>1, <3>1 DEF Fields
    <3>3. Steady(h, placement, audit)
      BY <1>2, <2>1, <2>2, <3>2, SteadyMoves
    <3> QED
      BY <2>1, <2>3, <3>1, <3>3, WholeStep
  <2>4. CASE Update(r, [q EXCEPT !.pc = "call", !.reply = NoReply])
    <3>1. PICK h : h = [q EXCEPT !.pc = "call", !.reply = NoReply]
      OBVIOUS
    <3>2. /\ h.pc = "call" /\ h.todo = q.todo /\ h.op = q.op /\ h.asked = q.asked
          /\ h.doomed = q.doomed /\ h.base = q.base /\ h.copy = q.copy /\ h.held = q.held
          /\ h.log = q.log /\ h.fate = q.fate
      BY <1>2, <2>1, <3>1 DEF Fields
    <3>3. Steady(h, placement, audit)
      BY <1>2, <2>1, <2>2, <3>2, SteadyMoves
    <3> QED
      BY <2>1, <2>4, <3>1, <3>3, WholeStep
  <2> QED
    BY <2>1, <2>3, <2>4
<1>5. CASE Closes(r)
  <2>1. PICK h : h = [q EXCEPT !.pc = "next", !.todo = Tail(@)]
    OBVIOUS
  <2>2. /\ h.pc = "next" /\ h.todo = Tail(q.todo) /\ h.op = q.op /\ h.asked = q.asked
        /\ h.doomed = q.doomed /\ h.base = q.base /\ h.copy = q.copy /\ h.held = q.held
        /\ h.log = q.log /\ h.fate = q.fate
    BY <1>2, <2>1 DEF Fields
  <2>3. q.pc = "close" /\ Update(r, h) /\ UNCHANGED <<placement, audit, registered>>
    BY <1>1, <1>5, <2>1 DEF Closes
  <2>4. /\ Unsent(h) = Unsent(q) /\ q.op \in Mutations
        /\ ToSet(Tail(q.todo)) \subseteq ToSet(q.todo)
    BY <1>2, <2>2, <2>3, RestOfOrder DEF Unsent, Shape
  <2>5. Steady(h, placement, audit)
    BY <1>2, <2>2, <2>3, <2>4, SteadyMoves
  <2> QED
    BY <2>3, <2>5, WholeStep
<1> QED
  BY <1>3, <1>4, <1>5

\* Every target is registered and can be provisioned: its command is sent, if it can be put
\* into a URL.
LEMMA WholeNextTarget ==
    ASSUME IInv, Whole, Working, NEW r \in Requests, NextTarget(r)
    PROVE  Whole'
<1>1. PICK q : q = req[r]
  OBVIOUS
<1>2. PICK s : s = Head(q.todo)
  OBVIOUS
<1>3. PICK new : new = IF placement[s] = NoRow THEN [id |-> NoUser, status |-> "pending"]
                       ELSE placement[s]
  OBVIOUS
<1>5. /\ q.pc = "next" /\ q.op = "provision" /\ q.todo # <<>>
      /\ UNCHANGED <<placement, audit, registered>>
  BY <1>1 DEF NextTarget
<1>6. Shape(q, ops) /\ Steady(q, placement, audit)
  BY <1>1, OneHandler DEF Whole
<1>7. /\ Order(q.todo) /\ s \in Sites /\ s \in ToSet(q.todo)
      /\ ToSet(Tail(q.todo)) \subseteq ToSet(q.todo)
  BY <1>2, <1>5, <1>6, RestOfOrder DEF Shape
<1>8. Kind[s] = "shim" /\ s \in registered
  BY <1>7 DEF Working, Whole
<1>4. PICK l : l = [q EXCEPT !.base[s] = placement[s], !.copy[s] = new]
  OBVIOUS
<1>9. \/ Update(r, [l EXCEPT !.pc = "rollback", !.fate = "request"])
      \/ \E long : Update(r, [[l EXCEPT !.long = long] EXCEPT !.pc = "call", !.reply = NoReply])
  BY <1>1, <1>2, <1>3, <1>4, <1>8 DEF NextTarget, Raise, Send
<1>e. CASE Update(r, [l EXCEPT !.pc = "rollback", !.fate = "request"])
  <2>1. PICK h : h = [l EXCEPT !.pc = "rollback", !.fate = "request"]
    OBVIOUS
  <2>2. /\ h.pc = "rollback" /\ h.fate = "request" /\ h.doomed = q.doomed /\ h.asked = q.asked
    BY <1>4, <1>6, <2>1 DEF Shape, Fields
  <2>3. Steady(h, placement, audit)
    BY <1>6, <2>2 DEF Steady, Aborting
  <2> QED
    BY <1>5, <1>e, <2>1, <2>3, WholeStep DEF Working
<1> SUFFICES ASSUME NEW long,
                    Update(r, [[l EXCEPT !.long = long] EXCEPT !.pc = "call", !.reply = NoReply])
             PROVE  Whole'
  BY <1>9, <1>e
<1>g. PICK h : h = [[l EXCEPT !.long = long] EXCEPT !.pc = "call", !.reply = NoReply]
  OBVIOUS
<1>10. /\ h.pc = "call" /\ h.op = "provision" /\ h.todo = q.todo /\ h.asked = q.asked
       /\ h.doomed = q.doomed /\ h.held = q.held /\ h.log = q.log
       /\ h.base = [q.base EXCEPT ![s] = placement[s]] /\ h.copy = [q.copy EXCEPT ![s] = new]
  BY <1>4, <1>g, <1>5, <1>6 DEF Shape, Fields
<1>11. /\ h.base[s] = placement[s]
       /\ \A x \in Sites : x # s => h.base[x] = q.base[x] /\ h.copy[x] = q.copy[x]
  BY <1>6, <1>7, <1>10 DEF Shape
<1>12. \A x \in h.asked \ Unsent(h) : x = s \/ x \in q.asked \ Unsent(q)
  BY <1>2, <1>5, <1>7, <1>10, InOrder DEF Unsent
<1>13. /\ ToSet(q.todo) \subseteq q.asked /\ q.asked \subseteq Sites /\ q.doomed = FALSE
       /\ \A x \in q.asked \ Unsent(q) :
            /\ q.base[x] = placement[x] /\ Recorded(q, x)
            /\ x \in q.held \/ q.copy[x] = placement[x]
  BY <1>5, <1>6 DEF Steady, Mutations
<1>14. ASSUME NEW x \in h.asked \ Unsent(h)
       PROVE  /\ h.base[x] = placement[x]
              /\ x # s => /\ Recorded(h, x)
                          /\ x \in h.held \/ h.copy[x] = placement[x]
  <2>1. CASE x = s
    BY <1>11, <2>1
  <2>2. CASE x # s
    BY <1>10, <1>11, <1>12, <1>13, <2>2 DEF Recorded
  <2> QED
    BY <2>1, <2>2
<1>15. Steady(h, placement, audit)
  BY <1>2, <1>10, <1>13, <1>14 DEF Steady, Aborting
<1> QED
  BY <1>5, <1>g, <1>15, WholeStep DEF Working

\* Success or failure, an answer that can be read leaves an outcome.
LEMMA WholeResume ==
    ASSUME IInv, Whole, OneAtATime, NEW r \in Requests, Resume(r)
    PROVE  Whole'
<1>1. PICK q : q = req[r]
  OBVIOUS
<1>2. PICK o : o = Answered(q)
  OBVIOUS
<1>3. PICK h : h = [o EXCEPT !.pc = "flush", !.reply = NoReply]
  OBVIOUS
<1>4. PICK s : s = Head(q.todo)
  OBVIOUS
<1>5. Shape(q, ops) /\ Steady(q, placement, audit)
  BY <1>1, OneHandler DEF Whole
<1>e. CASE RaiseOutOfCall(r, q, "answer")
  <2>1. UNCHANGED <<placement, audit, registered>>
    BY DEF Resume
  <2> QED
    BY <1>1, <1>e, <2>1, WholeRaises
<1> SUFFICES ASSUME Continue(r) PROVE Whole'
  BY <1>1, <1>e DEF Resume
<1>6. /\ q.pc = "call" /\ q.op # "sync" /\ Update(r, h)
      /\ UNCHANGED <<placement, audit, registered>>
  BY <1>1, <1>2, <1>3 DEF Resume, Continue
<1>7. q.op \in Mutations
  BY <1>5, <1>6 DEF Shape
<1>8. /\ DOMAIN o = Fields /\ o.op = q.op /\ o.todo = q.todo
      /\ o.base = q.base /\ o.held = q.held /\ o.asked = q.asked /\ o.doomed = q.doomed
      /\ \A x \in Sites : x # s => o.copy[x] = q.copy[x]
      /\ \E e \in Entries : o.log = q.log \cup {e} /\ Settles(q, s, o.copy[s], e)
  BY <1>2, <1>4, <1>5, <1>6, <1>7, OutcomeSettles
<1>9. PICK e \in Entries : o.log = q.log \cup {e} /\ Settles(q, s, o.copy[s], e)
  BY <1>8
<1>10. /\ h.pc = "flush" /\ h.op = q.op /\ h.todo = q.todo /\ h.base = q.base
       /\ h.held = q.held /\ h.asked = q.asked /\ h.doomed = q.doomed
       /\ h.copy = o.copy /\ h.log = q.log \cup {e}
  BY <1>3, <1>8, <1>9 DEF Fields
<1>11. Unsent(h) = Unsent(q)
  BY <1>6, <1>10 DEF Unsent
<1>12. q.op = "provision" => Recorded(h, s)
  BY <1>9, <1>10 DEF Recorded, Settles
<1>13. /\ ToSet(q.todo) \subseteq q.asked /\ q.asked \subseteq Sites /\ q.doomed = FALSE
       /\ q.op # "provision" => q.base = placement
       /\ \A x \in q.asked \ Unsent(q) :
            /\ q.base[x] = placement[x]
            /\ q.op = "provision" /\ x # s =>
                 /\ Recorded(q, x)
                 /\ x \in q.held \/ q.copy[x] = placement[x]
  BY <1>4, <1>5, <1>6, <1>7 DEF Steady
<1>14. ASSUME NEW x \in h.asked \ Unsent(h), h.op = "provision"
       PROVE  /\ Recorded(h, x)
              /\ x \in h.held \/ h.copy[x] = placement[x] \/ x = s
  <2>1. CASE x = s
    BY <1>10, <1>12, <1>14, <2>1
  <2>2. CASE x # s
    BY <1>8, <1>10, <1>11, <1>13, <1>14, <2>2 DEF Recorded
  <2> QED
    BY <2>1, <2>2
<1>15. Steady(h, placement, audit)
  BY <1>4, <1>10, <1>11, <1>13, <1>14 DEF Steady, Aborting
<1> QED
  BY <1>6, <1>15, WholeStep

\* No flush is refused, but for what was asked: the row is as it was loaded, and its node is
\* there.
LEMMA WholeFlush ==
    ASSUME IInv, Whole, OneAtATime, NEW r \in Requests, Flush(r)
    PROVE  Whole'
<1>1. PICK q : q = req[r]
  OBVIOUS
<1>2. PICK s : s = Head(q.todo)
  OBVIOUS
<1>3. q.pc = "flush" /\ UNCHANGED <<placement, audit, registered>>
  BY <1>1 DEF Flush
<1>4. Shape(q, ops) /\ Steady(q, placement, audit)
  BY <1>1, OneHandler DEF Whole
<1>5. /\ q.op \in Mutations /\ s \in Sites /\ s \in ToSet(q.todo) /\ s \notin ToSet(Tail(q.todo))
  BY <1>2, <1>3, <1>4, RestOfOrder DEF Shape
<1>6. /\ ToSet(q.todo) \subseteq q.asked /\ q.asked \subseteq Sites /\ q.doomed = FALSE
      /\ q.op # "provision" => q.base = placement
      /\ \A x \in q.asked \ Unsent(q) :
           /\ q.base[x] = placement[x]
           /\ q.op = "provision" =>
                /\ Recorded(q, x)
                /\ x \in q.held \/ q.copy[x] = placement[x] \/ x = s
  BY <1>2, <1>3, <1>4, <1>5 DEF Steady
<1>7. q.base[s] = placement[s] /\ s \in registered
  BY <1>3, <1>5, <1>6 DEF Unsent, Whole
<1>e. CASE RaiseOutOfCall(r, Unlocked(q), "request")
  BY <1>1, <1>3, <1>e, WholeRaises
<1> SUFFICES ASSUME ~RaiseOutOfCall(r, Unlocked(q), "request") PROVE Whole'
  BY <1>e
<1>8. PICK written \in {TRUE, q.copy[s] # q.base[s]} :
        Update(r, [q EXCEPT !.pc = "close", !.long = FALSE,
                            !.held = IF written THEN @ \cup {s} ELSE @])
  BY <1>1, <1>2, <1>6, <1>7 DEF Flush
<1>9. PICK h : h = [q EXCEPT !.pc = "close", !.long = FALSE,
                             !.held = IF written THEN @ \cup {s} ELSE @]
  OBVIOUS
<1>10. /\ h.pc = "close" /\ h.op = q.op /\ h.todo = q.todo /\ h.base = q.base
       /\ h.copy = q.copy /\ h.asked = q.asked /\ h.doomed = q.doomed /\ h.log = q.log
       /\ h.held = IF written THEN q.held \cup {s} ELSE q.held
  BY <1>4, <1>9 DEF Shape, Fields
<1>11. Unsent(h) = Unsent(q)
  BY <1>3, <1>10 DEF Unsent
<1>12. s \in h.held \/ h.copy[s] = placement[s]
  BY <1>7, <1>8, <1>10
<1>13. ASSUME NEW x \in h.asked \ Unsent(h), h.op = "provision"
       PROVE  Recorded(h, x) /\ (x \in h.held \/ h.copy[x] = placement[x])
  BY <1>6, <1>10, <1>11, <1>12, <1>13 DEF Recorded
<1>14. Steady(h, placement, audit)
  BY <1>6, <1>10, <1>11, <1>13 DEF Steady, Aborting
<1> QED
  BY <1>3, <1>8, <1>9, <1>14, WholeStep

\* The commit publishes the outcome of every target.
LEMMA WholeCommit ==
    ASSUME IInv, Whole, OneAtATime, NEW r \in Requests, Commit(r)
    PROVE  Whole'
<1>1. PICK q : q = req[r]
  OBVIOUS
<1>2. q.pc = "next" /\ q.todo = <<>> /\ UNCHANGED registered
  BY <1>1 DEF Commit
<1>3. Shape(q, ops) /\ Steady(q, placement, audit)
  BY <1>1, OneHandler DEF Whole
<1>4. q.op \in Mutations /\ q.doomed = FALSE /\ q.asked \subseteq Sites
  BY <1>2, <1>3 DEF Shape, Steady
<1>5. /\ placement' = [s \in Sites |-> IF s \in q.held THEN Merged(q, s) ELSE placement[s]]
      /\ audit' = audit \cup q.log
      /\ Update(r, Finished(q))
  BY <1>1, <1>4 DEF Commit
<1>6. Unsent(q) = {}
  BY <1>2 DEF Unsent, ToSet
<1>7. ASSUME NEW s \in q.asked, q.op = "provision"
      PROVE  /\ placement'[s].status \in {"active", "failed"}
             /\ \E e \in audit' : e.op = "provision" /\ e.site = s
  <2>1. /\ q.base[s] = placement[s] /\ Recorded(q, s)
        /\ s \in q.held \/ q.copy[s] = placement[s]
    BY <1>2, <1>3, <1>4, <1>6, <1>7 DEF Steady
  <2>2. s \in Sites
    BY <1>4
  <2>3. placement'[s].status = q.copy[s].status
    <3>1. CASE s \in q.held
      <4>1. Merged(q, s).status = q.copy[s].status
        BY <2>1 DEF Merged
      <4> QED
        BY <1>5, <2>2, <3>1, <4>1
    <3>2. CASE s \notin q.held
      BY <1>5, <2>1, <2>2, <3>2
    <3> QED
      BY <3>1, <3>2
  <2> QED
    BY <1>5, <2>1, <2>3 DEF Recorded
<1>8. Steady(Finished(q), placement', audit')
  BY <1>4, <1>7, FinishedIs DEF Steady, Aborting
<1> QED
  BY <1>2, <1>5, <1>8, WholeStep

\* A sync ends, or goes on to write the rows of its site.
LEMMA WholeSync ==
    ASSUME IInv, Whole, OneAtATime, NEW r \in Requests, SyncResume(r) \/ SyncCommit(r)
    PROVE  Whole'
<1>1. PICK q : q = req[r]
  OBVIOUS
<1>2. PICK s : s = Head(q.todo)
  OBVIOUS
<1>3. Shape(q, ops) /\ Steady(q, placement, audit)
  BY <1>1, OneHandler DEF Whole
<1>4. /\ q.pc \in {"call", "flush sync"} /\ q.op = "sync" /\ q.asked \subseteq Sites
      /\ q.doomed = FALSE
  BY <1>1, <1>3 DEF SyncResume, SyncCommit, Shape, Steady
<1>5. s \in registered
  BY <1>2, <1>3, <1>4, RestOfOrder DEF Shape, Whole
<1>6. UNCHANGED registered
  BY DEF SyncResume, SyncCommit
<1>7. \/ Update(r, Finished(q))
      \/ Update(r, [q EXCEPT !.pc = "flush sync", !.copy[s] = Reconciled(@, q.reply.seen),
                             !.reply = NoReply])
  BY <1>1, <1>2, <1>5 DEF SyncResume, SyncCommit
<1>8. CASE Update(r, Finished(q))
  <2>1. Steady(Finished(q), placement', audit')
    BY <1>4, FinishedIs DEF Steady, Aborting
  <2> QED
    BY <1>6, <1>8, <2>1, WholeStep
<1>9. CASE Update(r, [q EXCEPT !.pc = "flush sync", !.copy[s] = Reconciled(@, q.reply.seen),
                               !.reply = NoReply])
  <2>1. PICK h : h = [q EXCEPT !.pc = "flush sync", !.copy[s] = Reconciled(@, q.reply.seen),
                               !.reply = NoReply]
    OBVIOUS
  <2>2. h.pc = "flush sync" /\ h.asked = q.asked /\ h.doomed = q.doomed
    BY <1>3, <2>1 DEF Shape, Fields
  <2>3. Steady(h, placement', audit')
    BY <1>4, <2>2 DEF Steady, Aborting
  <2> QED
    BY <1>6, <1>9, <2>1, <2>3, WholeStep
<1> QED
  BY <1>7, <1>8, <1>9

LEMMA WholeEnvironment ==
    ASSUME IInv, Whole, Working, Environment
    PROVE  Whole'
<1>1. ASSUME NEW c, NEW reply, Answer(c, reply), UNCHANGED <<placement, audit, registered>>
      PROVE  Whole'
  <2>1. \A r \in Requests : \/ req'[r] = req[r]
                            \/ req'[r] = [req[r] EXCEPT !.reply = reply]
    BY <1>1 DEF Answer
  <2> QED
    BY <1>1, <2>1, WholeHears
<1>2. CASE NodeExecutes
  <2>1. \E c, reply : Answer(c, reply)
    BY <1>2 DEF NodeExecutes
  <2> QED
    BY <1>1, <1>2, <2>1 DEF NodeExecutes
<1>3. CASE NodeRefuses
  BY <1>1, <1>3 DEF NodeRefuses
<1>4. CASE DeletedOnNode \/ EnabledOnNode
  BY <1>4 DEF DeletedOnNode, EnabledOnNode, Whole
<1>5. CASE NodeDeleted
  BY <1>5 DEF NodeDeleted, Working
<1>6. CASE Restart
  <2>1. (\A r \in Requests : req'[r] = Closed) /\ UNCHANGED <<placement, audit, registered>>
    BY <1>6 DEF Restart
  <2> QED
    BY <2>1, ClosedSteady DEF Whole
<1> QED
  BY <1>2, <1>3, <1>4, <1>5, <1>6 DEF Environment

LEMMA WholeInit == ASSUME Working PROVE Init => Whole
<1>1. Init => registered = Sites /\ \A r \in Requests : req[r] = Closed
  BY DEF Init, Working
<1> QED
  BY <1>1, ClosedSteady DEF Whole

LEMMA WholePreserved ==
    ASSUME Working
    PROVE  IInv /\ Whole /\ [Next]_vars => Whole'
<1> SUFFICES ASSUME IInv, Whole, [Next]_vars PROVE Whole'
  OBVIOUS
<1>0. OneAtATime
  BY DEF Working
<1>1. ASSUME NEW r \in Requests, Begin(r) PROVE Whole'
  BY <1>0, <1>1, WholeBegins
<1>2. ASSUME NEW r \in Requests, Handler(r) PROVE Whole'
  <2>1. CASE Unwinds(r)
    <3>1. PICK h : h = [req[r] EXCEPT !.pc = "rollback"]
      OBVIOUS
    <3>2. DOMAIN req[r] = Fields /\ Steady(req[r], placement, audit) /\ req[r].pc = "abort"
      BY <2>1, OneHandler DEF Shape, Whole, Unwinds
    <3>3. /\ h.pc = "rollback" /\ h.fate = req[r].fate /\ h.doomed = req[r].doomed
          /\ h.asked = req[r].asked
      BY <3>1, <3>2 DEF Fields
    <3>4. Steady(h, placement, audit)
      BY <3>2, <3>3 DEF Steady, Aborting
    <3> QED
      BY <1>0, <2>1, <3>1, <3>4, WholeStep DEF Unwinds
  <2>2. CASE Rollback(r)
    <3>1. Steady(req[r], placement, audit) /\ req[r].pc = "rollback"
      BY <2>2 DEF Whole, Rollback
    <3>2. Steady(Finished(req[r]), placement, audit)
      BY <3>1, FinishedIs DEF Steady, Aborting
    <3> QED
      BY <1>0, <2>2, <3>2, WholeStep DEF Rollback
  <2> QED
    BY <1>0, <1>2, <2>1, <2>2, WholePasses, WholeNextTarget, WholeResume, WholeFlush, WholeCommit,
       WholeSync DEF Handler
<1>3. ASSUME NEW r \in Requests, TimesOut(r) \/ \E s \in Sites : NodeLists(r, s)
      PROVE  Whole'
  <2>1. /\ \E reply : Update(r, [req[r] EXCEPT !.reply = reply])
        /\ UNCHANGED <<placement, audit, registered>>
    BY <1>3 DEF TimesOut, NodeLists
  <2>2. \A q \in Requests : \/ req'[q] = req[q]
                            \/ \E reply : req'[q] = [req[q] EXCEPT !.reply = reply]
    BY <2>1 DEF Update, IInv, WellFormed
  <2> QED
    BY <2>1, <2>2, WholeHears
<1>4. CASE Environment
  BY <1>4, WholeEnvironment
<1>5. CASE UNCHANGED vars
  BY <1>5 DEF vars, Whole
<1> QED
  BY <1>1, <1>2, <1>3, <1>4, <1>5 DEF Next

\* provision(): "A failure on one site does not abort the others; that site's placement is
\* marked failed with the error."  While no two requests overlap, and every node is a
\* shim that stays registered, each target of a request that is over has its placement and
\* its entry, whatever fails, is lost or comes late, and whatever crashes: unless what was
\* asked cannot be sent or stored, or an answer cannot be read.
THEOREM TargetsRecorded ==
    ASSUME Working
    PROVE  Spec => []EveryTargetRecorded
<1>1. Init => IInv /\ Whole
  BY InitEstablishes, WholeInit
<1>2. IInv /\ Whole /\ [Next]_vars => IInv' /\ Whole'
  BY StepPreserves, WholePreserved
<1>3. IInv /\ Whole => EveryTargetRecorded
  BY DEF Whole, Steady, EveryTargetRecorded
<1> QED
  BY <1>1, <1>2, <1>3, PTL DEF Spec

-----------------------------------------------------------------------------
(* Every creation audited.                                                 *)

\* Entries l account for user u of site s, or for any that an attempt may leave there.
Traces(l, s, u) ==
    \E e \in l : e.op = "provision" /\ e.site = s /\ (e.id = u \/ e.result = "failure")

\* A session will account for the user of request n on site s: it waits for the answer, has
\* logged it, or is on its way to an error.
Owes(h, s, n) ==
    /\ h.n = n /\ h.op = "provision"
    /\ \/ Traces(h.log, s, n)
       \/ h.pc = "call" /\ Head(h.todo) = s
       \/ h.pc \in Aborting

Accounted(s, n) ==
    Traces(audit, s, n) \/ n \in errors \/ \E r \in Requests : Owes(req[r], s, n)

Traced ==
    /\ \A s \in Sites, u \in UserIds : remote[s][u] # "none" => Accounted(s, u)
    /\ \A d \in network : d.op = "provision" => Accounted(d.site, d.n)
    /\ \A r \in Requests : AtRest(r) => req[r].n = 0

LEMMA ClosedOwes ==
    ASSUME NEW h, h.n = 0, NEW s, NEW n \in UserIds
    PROVE  ~Owes(h, s, n)
BY DEF Owes, UserIds

LEMMA FinishedIsOver ==
    ASSUME NEW h
    PROVE  Finished(h).n = 0 /\ Finished(h).pc = "done"
BY ClosedIs DEF Finished, Fields

\* What is owed by the others stays owed, what is written stays written.
LEMMA TracedStep ==
    ASSUME IInv, Traced, NEW r \in Requests, NEW h, Update(r, h),
           UNCHANGED remote, audit \subseteq audit', errors \subseteq errors',
           \A s \in Sites, n \in UserIds : Owes(req[r], s, n) =>
             Traces(audit', s, n) \/ n \in errors' \/ Owes(h, s, n),
           \A d \in network' : d \in network \/ d.op # "provision" \/ Owes(h, d.site, d.n),
           h.pc \in {"idle", "done"} => h.n = 0
    PROVE  Traced'
<1>1. req'[r] = h /\ \A q \in Requests \ {r} : req'[q] = req[q]
  BY DEF Update, IInv, WellFormed
<1>2. ASSUME NEW s \in Sites, NEW n \in UserIds, Accounted(s, n)
      PROVE  Accounted(s, n)'
  <2>1. Traces(audit, s, n) => Traces(audit', s, n)
    BY DEF Traces
  <2>2. CASE \E q \in Requests : Owes(req[q], s, n)
    <3>1. PICK q \in Requests : Owes(req[q], s, n)
      BY <2>2
    <3>2. CASE q = r
      BY <1>1, <3>1, <3>2 DEF Accounted
    <3>3. CASE q # r
      <4>1. Owes(req'[q], s, n)
        BY <1>1, <3>1, <3>3
      <4> QED
        BY <4>1 DEF Accounted
    <3> QED
      BY <3>2, <3>3
  <2> QED
    BY <1>2, <2>1, <2>2 DEF Accounted
<1>3. \A d \in network : d.site \in Sites /\ d.n \in UserIds
  BY DEF IInv, WellFormed, Commands, UserIds
<1>4. ASSUME NEW d \in network', d.op = "provision" PROVE Accounted(d.site, d.n)'
  <2>1. CASE d \in network
    BY <1>2, <1>3, <1>4, <2>1 DEF Traced
  <2>2. CASE Owes(h, d.site, d.n)
    BY <1>1, <2>2 DEF Accounted
  <2> QED
    BY <1>4, <2>1, <2>2
<1>5. \A q \in Requests : AtRest(q)' => req'[q].n = 0
  BY <1>1 DEF Traced, AtRest
<1> QED
  BY <1>2, <1>4, <1>5 DEF Traced

\* A handler that keeps its number and its log, and is not in a call, or remains in it.
LEMMA TracedMoves ==
    ASSUME IInv, Traced, NEW r \in Requests, NEW h, Update(r, h),
           UNCHANGED <<remote, audit, errors>>,
           h.log = req[r].log, h.n = req[r].n, h.op = req[r].op,
           \/ h.pc = req[r].pc /\ h.todo = req[r].todo
           \/ h.pc \in Aborting
           \/ /\ req[r].pc \in Running \cup {"close"} \/ req[r].op # "provision"
              /\ h.pc \notin {"idle", "done"},
           \A d \in network' : d \in network \/ d.op # "provision" \/ Owes(h, d.site, d.n)
    PROVE  Traced'
<1>1. \A s \in Sites, n \in UserIds : Owes(req[r], s, n) => Owes(h, s, n)
  BY DEF Owes, Running, Aborting
<1>2. h.pc \in {"idle", "done"} => h.n = 0
  BY DEF Traced, AtRest, Aborting
<1> QED
  BY <1>1, <1>2, TracedStep

\* A request that ends, and whose number is not lost.
LEMMA TracedEnds ==
    ASSUME IInv, Traced, NEW r \in Requests, Update(r, Finished(req[r])),
           UNCHANGED <<remote, network>>, audit \subseteq audit', errors \subseteq errors',
           \A s \in Sites, n \in UserIds : Owes(req[r], s, n) =>
             Traces(audit', s, n) \/ n \in errors'
    PROVE  Traced'
BY FinishedIsOver, TracedStep

LEMMA TracedBegins ==
    ASSUME IInv, Traced, NEW r \in Requests, Begin(r)
    PROVE  Traced'
<1>1. UNCHANGED <<remote, audit, network, errors>> /\ AtRest(r)
  BY DEF Begin, BeginProvision, BeginDeprovision, BeginSync
<1>2. req[r].n = 0
  BY <1>1 DEF Traced
<1>3. \E h : Update(r, h) /\ h.pc \notin {"idle", "done"}
  <2>1. CASE BeginProvision(r)
    <3>1. PICK t :
            Update(r, [Closed EXCEPT !.pc = "logical", !.op = "provision", !.n = ops + 1,
                                     !.todo = t, !.asked = ToSet(t)])
      BY <2>1 DEF BeginProvision
    <3>2. PICK h : h = [Closed EXCEPT !.pc = "logical", !.op = "provision", !.n = ops + 1,
                                      !.todo = t, !.asked = ToSet(t)]
      OBVIOUS
    <3>3. h.pc = "logical"
      BY <3>2, ClosedIs DEF Fields
    <3> QED
      BY <3>1, <3>2, <3>3
  <2>2. CASE BeginDeprovision(r)
    <3>1. PICK op, t :
            Update(r, [Closed EXCEPT !.pc = "next", !.op = op, !.n = ops + 1,
                                     !.todo = t, !.asked = ToSet(t),
                                     !.base = placement, !.copy = placement])
      BY <2>2 DEF BeginDeprovision
    <3>2. PICK h : h = [Closed EXCEPT !.pc = "next", !.op = op, !.n = ops + 1,
                                      !.todo = t, !.asked = ToSet(t),
                                      !.base = placement, !.copy = placement]
      OBVIOUS
    <3>3. h.pc = "next"
      BY <3>2, ClosedIs DEF Fields
    <3> QED
      BY <3>1, <3>2, <3>3
  <2>3. ASSUME NEW s \in Sites, BeginSync(r, s)
        PROVE  \E h : Update(r, h) /\ h.pc \notin {"idle", "done"}
    <3>1. PICK h : h = [Closed EXCEPT !.pc = "call", !.op = "sync", !.todo = <<s>>,
                                      !.asked = {s},
                                      !.base[s] = placement[s], !.copy[s] = placement[s]]
      OBVIOUS
    <3>2. h.pc = "call"
      BY <3>1, ClosedIs DEF Fields
    <3>3. Update(r, h)
      BY <2>3, <3>1 DEF BeginSync
    <3> QED
      BY <3>2, <3>3
  <2> QED
    BY <2>1, <2>2, <2>3 DEF Begin
<1> QED
  BY <1>1, <1>2, <1>3, ClosedOwes, TracedStep

LEMMA TracedRaises ==
    ASSUME IInv, Traced, NEW r \in Requests, NEW why,
           \/ Raise(r, Unlocked(req[r]), why)
           \/ RaiseOutOfCall(r, req[r], why)
           \/ RaiseOutOfCall(r, Unlocked(req[r]), why),
           UNCHANGED <<remote, audit, network, errors>>
    PROVE  Traced'
<1>1. PICK q : q = req[r]
  OBVIOUS
<1>2. DOMAIN q = Fields
  BY <1>1, OneHandler DEF Shape
<1>3. PICK h : /\ \/ h = [Unlocked(q) EXCEPT !.pc = "rollback", !.fate = why]
                  \/ h = [q EXCEPT !.pc = "abort", !.fate = why, !.reply = NoReply]
                  \/ h = [Unlocked(q) EXCEPT !.pc = "abort", !.fate = why, !.reply = NoReply]
               /\ Update(r, h)
  BY <1>1 DEF Raise, RaiseOutOfCall
<1>4. h.pc \in Aborting /\ h.log = q.log /\ h.n = q.n /\ h.op = q.op
  BY <1>2, <1>3 DEF Fields, Aborting, Unlocked
<1> QED
  BY <1>1, <1>3, <1>4, TracedMoves

LEMMA TracedPasses ==
    ASSUME IInv, Traced, NEW r \in Requests,
           \/ GetOrCreateLogical(r) \/ NextPlacement(r) \/ Closes(r) \/ Unwinds(r)
           \/ TimesOut(r) \/ \E s \in Sites : NodeLists(r, s)
    PROVE  Traced'
<1>1. PICK q : q = req[r]
  OBVIOUS
<1>2. DOMAIN q = Fields
  BY <1>1, OneHandler DEF Shape
<1>3. UNCHANGED <<remote, audit, errors>>
  BY DEF GetOrCreateLogical, NextPlacement, Closes, Unwinds, TimesOut, NodeLists
<1>4. CASE NextPlacement(r)
  <2>1. /\ q.pc = "next" /\ q.op \in {"revoke", "delete"}
        /\ \/ Update(r, [q EXCEPT !.todo = Tail(@)]) /\ UNCHANGED network
           \/ \E id : /\ Update(r, [q EXCEPT !.pc = "call", !.reply = NoReply])
                      /\ network' = network \cup {[n |-> q.n, site |-> Head(q.todo), op |-> q.op,
                                                   id |-> id]}
    BY <1>1, <1>4 DEF NextPlacement, Send
  <2>2. \A d \in network' : d \in network \/ d.op # "provision"
    BY <2>1
  <2>3. PICK h : /\ \/ h = [q EXCEPT !.todo = Tail(@)]
                    \/ h = [q EXCEPT !.pc = "call", !.reply = NoReply]
                 /\ Update(r, h)
    BY <2>1
  <2>4. h.pc \in {"next", "call"} /\ h.log = q.log /\ h.n = q.n /\ h.op = q.op
    BY <1>2, <2>1, <2>3 DEF Fields
  <2> QED
    BY <1>1, <1>3, <2>1, <2>2, <2>3, <2>4, TracedMoves
<1>5. CASE GetOrCreateLogical(r) \/ Closes(r)
  <2>1. UNCHANGED network /\ q.pc \in Running \cup {"close"}
    BY <1>1, <1>5 DEF GetOrCreateLogical, Closes, Running
  <2>2. PICK h : /\ \/ h = [q EXCEPT !.pc = "next", !.made = ~identity]
                    \/ h = [q EXCEPT !.pc = "next", !.todo = Tail(@)]
                 /\ Update(r, h)
    BY <1>1, <1>5 DEF GetOrCreateLogical, Closes
  <2>3. h.pc = "next" /\ h.log = q.log /\ h.n = q.n /\ h.op = q.op
    BY <1>2, <2>2 DEF Fields
  <2> QED
    BY <1>1, <1>3, <2>1, <2>2, <2>3, TracedMoves
<1>6. CASE Unwinds(r)
  <2>1. PICK h : h = [q EXCEPT !.pc = "rollback"]
    OBVIOUS
  <2>2. h.pc \in Aborting /\ h.log = q.log /\ h.n = q.n /\ h.op = q.op
    BY <1>2, <2>1 DEF Fields, Aborting
  <2> QED
    BY <1>1, <1>3, <1>6, <2>1, <2>2, TracedMoves DEF Unwinds
<1>7. CASE TimesOut(r) \/ \E s \in Sites : NodeLists(r, s)
  <2>1. PICK reply : Update(r, [q EXCEPT !.reply = reply]) /\ UNCHANGED network
    BY <1>1, <1>7 DEF TimesOut, NodeLists
  <2>2. PICK h : h = [q EXCEPT !.reply = reply]
    OBVIOUS
  <2>3. h.pc = q.pc /\ h.todo = q.todo /\ h.log = q.log /\ h.n = q.n /\ h.op = q.op
    BY <1>2, <2>2 DEF Fields
  <2> QED
    BY <1>1, <1>3, <2>1, <2>2, <2>3, TracedMoves
<1> QED
  BY <1>4, <1>5, <1>6, <1>7

\* Who sends a command waits for it.
LEMMA TracedNextTarget ==
    ASSUME IInv, Traced, NEW r \in Requests, NextTarget(r)
    PROVE  Traced'
<1>1. PICK q : q = req[r]
  OBVIOUS
<1>2. PICK s : s = Head(q.todo)
  OBVIOUS
<1>n. PICK new : new = IF placement[s] = NoRow THEN [id |-> NoUser, status |-> "pending"]
                       ELSE placement[s]
  OBVIOUS
<1>3. PICK l : l = [q EXCEPT !.base[s] = placement[s], !.copy[s] = new]
  OBVIOUS
<1>4. /\ q.pc = "next" /\ q.op = "provision" /\ UNCHANGED <<remote, audit, errors>>
      /\ DOMAIN q = Fields
  BY <1>1, OneHandler DEF NextTarget, Shape
<1>5. DOMAIN l = Fields /\ l.op = "provision" /\ l.n = q.n /\ l.todo = q.todo /\ l.log = q.log
  BY <1>3, <1>4 DEF Fields
<1>6. \/ /\ Update(r, [l EXCEPT !.copy[s].status = "failed", !.doomed = TRUE, !.todo = Tail(@)])
         /\ UNCHANGED network
      \/ \E why : Raise(r, l, why) /\ UNCHANGED network
      \/ \E org \in OrgIds \ {"nourl"} : Send(r, [l EXCEPT !.long = (org = "long")], NoUser)
  BY <1>1, <1>2, <1>n, <1>3 DEF NextTarget
<1>7. CASE /\ Update(r, [l EXCEPT !.copy[s].status = "failed", !.doomed = TRUE, !.todo = Tail(@)])
           /\ UNCHANGED network
  <2>1. PICK h : h = [l EXCEPT !.copy[s].status = "failed", !.doomed = TRUE, !.todo = Tail(@)]
    OBVIOUS
  <2>2. h.pc = "next" /\ h.log = q.log /\ h.n = q.n /\ h.op = q.op
    <3>1. l.pc = "next"
      BY <1>3, <1>4 DEF Fields
    <3> QED
      BY <1>4, <1>5, <2>1, <3>1 DEF Fields
  <2> QED
    BY <1>1, <1>4, <1>7, <2>1, <2>2, TracedMoves DEF Running
<1>8. ASSUME NEW why, Raise(r, l, why), UNCHANGED network PROVE Traced'
  <2>1. PICK h : h = [l EXCEPT !.pc = "rollback", !.fate = why]
    OBVIOUS
  <2>2. h.pc \in Aborting /\ h.log = q.log /\ h.n = q.n /\ h.op = q.op
    BY <1>4, <1>5, <2>1 DEF Fields, Aborting
  <2>3. Update(r, h)
    BY <1>8, <2>1 DEF Raise
  <2> QED
    BY <1>1, <1>4, <1>8, <2>2, <2>3, TracedMoves
<1>9. ASSUME NEW long, Send(r, [l EXCEPT !.long = long], NoUser) PROVE Traced'
  <2>1. PICK k : k = [l EXCEPT !.long = long]
    OBVIOUS
  <2>2. DOMAIN k = Fields /\ k.op = "provision" /\ k.n = q.n /\ k.todo = q.todo /\ k.log = q.log
    BY <1>5, <2>1 DEF Fields
  <2>3. PICK h : h = [k EXCEPT !.pc = "call", !.reply = NoReply]
    OBVIOUS
  <2>4. /\ h.pc = "call" /\ h.op = "provision" /\ h.n = q.n /\ h.todo = q.todo /\ h.log = q.log
    BY <2>2, <2>3 DEF Fields
  <2>5. PICK d : d = [n |-> q.n, site |-> s, op |-> "provision", id |-> NoUser]
    OBVIOUS
  <2>6. Update(r, h) /\ network' = network \cup {d}
    BY <1>2, <1>9, <2>1, <2>2, <2>3, <2>5 DEF Send
  <2>7. d.site = s /\ d.n = q.n
    BY <2>5
  <2>8. Owes(h, d.site, d.n)
    BY <1>2, <2>4, <2>7 DEF Owes
  <2> QED
    BY <1>1, <1>4, <2>4, <2>6, <2>8, TracedMoves DEF Running
<1> QED
  BY <1>6, <1>7, <1>8, <1>9

\* An answer that can be read, or is missed, is in the session's log before the next await.
LEMMA TracedResume ==
    ASSUME IInv, Traced, NEW r \in Requests, Resume(r)
    PROVE  Traced'
<1>1. PICK q : q = req[r]
  OBVIOUS
<1>2. PICK o : o = Answered(q)
  OBVIOUS
<1>3. PICK h : h = [o EXCEPT !.pc = "flush", !.reply = NoReply]
  OBVIOUS
<1>4. PICK s : s = Head(q.todo)
  OBVIOUS
<1>5. Shape(q, ops) /\ Session(q)
  BY <1>1, OneHandler
<1>6. /\ q.pc = "call" /\ q.op # "sync" /\ q.reply.kind # "none"
      /\ UNCHANGED <<remote, audit, network, errors>>
  BY <1>1 DEF Resume
<1>e. CASE RaiseOutOfCall(r, q, "answer")
  BY <1>1, <1>6, <1>e, TracedRaises
<1> SUFFICES ASSUME Continue(r) PROVE Traced'
  BY <1>1, <1>e DEF Resume
<1>7. q.op \in Mutations
  BY <1>5, <1>6 DEF Shape
<1>8. /\ DOMAIN o = Fields /\ o.op = q.op /\ o.n = q.n
      /\ \E e \in Entries : o.log = q.log \cup {e} /\ Settles(q, s, o.copy[s], e)
  BY <1>2, <1>4, <1>5, <1>6, <1>7, OutcomeSettles
<1>9. PICK e \in Entries : o.log = q.log \cup {e} /\ Settles(q, s, o.copy[s], e)
  BY <1>8
<1>10. h.log = q.log \cup {e} /\ h.op = q.op /\ h.n = q.n /\ h.pc = "flush"
  BY <1>3, <1>8, <1>9 DEF Fields
<1>11. q.op = "provision" => /\ e.op = "provision" /\ e.site = s
                             /\ q.reply.kind = "ok" => e.id = q.n
                             /\ q.reply.kind # "ok" => e.result = "failure"
  BY <1>5, <1>6, <1>9 DEF Settles, Created, Entry, Session
<1>12. ASSUME NEW x \in Sites, NEW u \in UserIds, Owes(q, x, u)
       PROVE  Owes(h, x, u)
  <2>1. CASE Traces(q.log, x, u)
    BY <1>10, <1>12, <2>1 DEF Owes, Traces
  <2>2. CASE s = x
    BY <1>10, <1>11, <1>12, <2>2 DEF Owes, Traces
  <2> QED
    BY <1>4, <1>6, <1>12, <2>1, <2>2 DEF Owes, Aborting
<1>13. Update(r, h)
  BY <1>1, <1>2, <1>3 DEF Continue
<1> QED
  BY <1>1, <1>6, <1>10, <1>12, <1>13, TracedStep

LEMMA TracedFlush ==
    ASSUME IInv, Traced, NEW r \in Requests, Flush(r)
    PROVE  Traced'
<1>1. PICK q : q = req[r]
  OBVIOUS
<1>2. DOMAIN q = Fields
  BY <1>1, OneHandler DEF Shape
<1>3. q.pc = "flush" /\ UNCHANGED <<remote, audit, network, errors>>
  BY <1>1 DEF Flush
<1>4. \/ \E why : RaiseOutOfCall(r, Unlocked(q), why)
      \/ \E held : Update(r, [q EXCEPT !.pc = "close", !.long = FALSE, !.held = held])
  BY <1>1 DEF Flush
<1>5. CASE \E why : RaiseOutOfCall(r, Unlocked(q), why)
  BY <1>1, <1>3, <1>5, TracedRaises
<1>6. ASSUME NEW held, Update(r, [q EXCEPT !.pc = "close", !.long = FALSE, !.held = held])
      PROVE  Traced'
  <2>1. PICK h : h = [q EXCEPT !.pc = "close", !.long = FALSE, !.held = held]
    OBVIOUS
  <2>2. h.pc = "close" /\ h.log = q.log /\ h.n = q.n /\ h.op = q.op
    BY <1>2, <2>1 DEF Fields
  <2> QED
    BY <1>1, <1>3, <1>6, <2>1, <2>2, TracedMoves DEF Running
<1> QED
  BY <1>4, <1>5, <1>6

\* The commit puts into the audit log what the session owes; the rollback names the request.
LEMMA TracedCommit ==
    ASSUME IInv, Traced, NEW r \in Requests, Commit(r) \/ Rollback(r)
    PROVE  Traced'
<1>1. PICK q : q = req[r]
  OBVIOUS
<1>2. CASE Commit(r)
  <2>1. q.pc = "next" /\ UNCHANGED <<remote, network, errors>>
    BY <1>1, <1>2 DEF Commit
  <2>2. \/ Raise(r, Unlocked(q), "request") /\ UNCHANGED audit
        \/ audit' = audit \cup q.log /\ Update(r, Finished(q))
    BY <1>1, <1>2 DEF Commit
  <2>3. CASE Raise(r, Unlocked(q), "request") /\ UNCHANGED audit
    BY <1>1, <2>1, <2>3, TracedRaises
  <2>4. CASE audit' = audit \cup q.log /\ Update(r, Finished(q))
    <3>1. \A s \in Sites, n \in UserIds : Owes(q, s, n) => Traces(audit', s, n)
      BY <2>1, <2>4 DEF Owes, Aborting, Traces
    <3> QED
      BY <1>1, <2>1, <2>4, <3>1, TracedEnds
  <2> QED
    BY <2>2, <2>3, <2>4
<1>3. CASE Rollback(r)
  <2>1. /\ Update(r, Finished(q)) /\ errors' = errors \cup {q.n}
        /\ UNCHANGED <<remote, network, audit>>
    BY <1>1, <1>3 DEF Rollback
  <2>2. \A s \in Sites, n \in UserIds : Owes(q, s, n) => n \in errors'
    BY <2>1 DEF Owes
  <2> QED
    BY <1>1, <2>1, <2>2, TracedEnds
<1> QED
  BY <1>2, <1>3

\* A sync creates nobody.
LEMMA TracedSync ==
    ASSUME IInv, Traced, NEW r \in Requests, SyncResume(r) \/ SyncCommit(r)
    PROVE  Traced'
<1>1. PICK q : q = req[r]
  OBVIOUS
<1>2. DOMAIN q = Fields /\ q.op = "sync"
  BY <1>1, OneHandler DEF SyncResume, SyncCommit, Shape
<1>3. UNCHANGED <<remote, network, audit, errors>>
  BY DEF SyncResume, SyncCommit
<1>4. \A s, n : ~Owes(q, s, n)
  BY <1>2 DEF Owes
<1>5. \/ Update(r, Finished(q))
      \/ \E copy : Update(r, [q EXCEPT !.pc = "flush sync", !.copy = copy, !.reply = NoReply])
  <2>1. PICK s, row : /\ s = Head(q.todo) /\ row = Reconciled(q.copy[s], q.reply.seen)
    OBVIOUS
  <2>2. \/ Update(r, Finished(q))
        \/ Update(r, [q EXCEPT !.pc = "flush sync", !.copy[s] = row, !.reply = NoReply])
    BY <1>1, <2>1 DEF SyncResume, SyncCommit
  <2>3. PICK copy : copy = [q.copy EXCEPT ![s] = row]
    OBVIOUS
  <2>4. [q EXCEPT !.pc = "flush sync", !.copy[s] = row, !.reply = NoReply]
        = [q EXCEPT !.pc = "flush sync", !.copy = copy, !.reply = NoReply]
    BY <1>2, <2>3 DEF Fields
  <2> QED
    BY <2>2, <2>4
<1>6. CASE Update(r, Finished(q))
  BY <1>1, <1>3, <1>4, <1>6, TracedEnds
<1>7. ASSUME NEW copy, Update(r, [q EXCEPT !.pc = "flush sync", !.copy = copy, !.reply = NoReply])
      PROVE  Traced'
  <2>1. PICK h : h = [q EXCEPT !.pc = "flush sync", !.copy = copy, !.reply = NoReply]
    OBVIOUS
  <2>2. h.pc = "flush sync"
    BY <1>2, <2>1 DEF Fields
  <2> QED
    BY <1>1, <1>3, <1>4, <1>7, <2>1, <2>2, TracedStep
<1> QED
  BY <1>5, <1>6, <1>7

\* The nodes go on, and who waits may hear of it: nobody owes less.
LEMMA TracedHears ==
    ASSUME IInv, Traced, UNCHANGED <<audit, errors>>, network' \subseteq network,
           \A s \in Sites, u \in UserIds : remote'[s][u] # "none" =>
             \/ remote[s][u] # "none"
             \/ \E c \in network : c.op = "provision" /\ c.site = s /\ c.n = u,
           \A r \in Requests :
             \/ req'[r] = req[r]
             \/ \E reply : req'[r] = [req[r] EXCEPT !.reply = reply]
    PROVE  Traced'
<1>1. ASSUME NEW r \in Requests
      PROVE  /\ req'[r].n = req[r].n /\ req'[r].op = req[r].op /\ req'[r].log = req[r].log
             /\ req'[r].pc = req[r].pc /\ req'[r].todo = req[r].todo
  <2>1. DOMAIN req[r] = Fields
    BY OneHandler DEF Shape
  <2>2. ASSUME NEW reply, NEW h, h = [req[r] EXCEPT !.reply = reply]
        PROVE  /\ h.n = req[r].n /\ h.op = req[r].op /\ h.log = req[r].log
               /\ h.pc = req[r].pc /\ h.todo = req[r].todo
    BY <2>1, <2>2 DEF Fields
  <2>3. ASSUME NEW reply, req'[r] = [req[r] EXCEPT !.reply = reply]
        PROVE  /\ req'[r].n = req[r].n /\ req'[r].op = req[r].op /\ req'[r].log = req[r].log
               /\ req'[r].pc = req[r].pc /\ req'[r].todo = req[r].todo
    <3>1. PICK h : h = [req[r] EXCEPT !.reply = reply]
      OBVIOUS
    <3> QED
      BY <2>2, <2>3, <3>1
  <2>4. CASE req'[r] = req[r]
    BY <2>4
  <2>5. \/ req'[r] = req[r]
        \/ \E reply : req'[r] = [req[r] EXCEPT !.reply = reply]
    OBVIOUS
  <2> QED
    BY <2>3, <2>4, <2>5
<1>2. ASSUME NEW s, NEW n, Accounted(s, n) PROVE Accounted(s, n)'
  BY <1>1, <1>2 DEF Accounted, Owes
<1>3. \A s \in Sites, u \in UserIds : remote'[s][u] # "none" => Accounted(s, u)'
  BY <1>2 DEF Traced
<1>4. \A d \in network' : d.op = "provision" => Accounted(d.site, d.n)'
  BY <1>2 DEF Traced
<1>5. \A r \in Requests : AtRest(r)' => req'[r].n = 0
  BY <1>1 DEF Traced, AtRest
<1> QED
  BY <1>3, <1>4, <1>5 DEF Traced

\* The users of the nodes after one of them has changed.
LEMMA SetUserIs ==
    ASSUME IInv, NEW s \in Sites, NEW u \in UserIds, NEW state, SetUser(s, u, state)
    PROVE  \A x \in Sites, v \in UserIds :
             remote'[x][v] = IF x = s /\ v = u THEN state ELSE remote[x][v]
BY DEF SetUser, IInv, WellFormed

LEMMA AnswerIs ==
    ASSUME NEW c, NEW reply, Answer(c, reply)
    PROVE  \A r \in Requests :
             \/ req'[r] = req[r]
             \/ req'[r] = [req[r] EXCEPT !.reply = reply]
BY DEF Answer

LEMMA TracedEnvironment ==
    ASSUME IInv, Traced, Environment
    PROVE  Traced'
<1>1. CASE NodeExecutes
  <2>1. PICK c \in network :
          /\ \/ c.op = "provision" /\ SetUser(c.site, c.n, "on")
             \/ c.id \in Present(c.site) /\ \E state : SetUser(c.site, c.id, state)
             \/ UNCHANGED remote
          /\ \E reply : Answer(c, reply)
          /\ network' = network \ {c}
    BY <1>1 DEF NodeExecutes
  <2>2. c.site \in Sites /\ c.n \in UserIds
    BY DEF IInv, WellFormed, Commands, UserIds
  <2>3. \A s \in Sites, u \in UserIds : remote'[s][u] # "none" =>
          \/ remote[s][u] # "none"
          \/ c.op = "provision" /\ c.site = s /\ c.n = u
    <3>1. CASE c.op = "provision" /\ SetUser(c.site, c.n, "on")
      BY <2>2, <3>1, SetUserIs
    <3>2. ASSUME NEW state, c.id \in Present(c.site), SetUser(c.site, c.id, state)
          PROVE  \A s \in Sites, u \in UserIds : remote'[s][u] # "none" => remote[s][u] # "none"
      BY <2>2, <3>2, SetUserIs DEF Present
    <3> QED
      BY <2>1, <3>1, <3>2
  <2>4. UNCHANGED <<audit, errors>>
    BY <1>1 DEF NodeExecutes
  <2> QED
    BY <2>1, <2>3, <2>4, AnswerIs, TracedHears
<1>2. CASE NodeRefuses
  <2>1. PICK c, reply : Answer(c, reply) /\ network' = network \ {c}
    BY <1>2 DEF NodeRefuses
  <2> QED
    BY <1>2, <2>1, AnswerIs, TracedHears DEF NodeRefuses
<1>3. CASE DeletedOnNode \/ EnabledOnNode
  <2>1. PICK s \in Sites, u \in UserIds, state \in {"back", "gone"} :
          remote[s][u] # "none" /\ SetUser(s, u, state)
    BY <1>3 DEF DeletedOnNode, EnabledOnNode, Present
  <2>2. \A x \in Sites, v \in UserIds : remote'[x][v] # "none" => remote[x][v] # "none"
    BY <2>1, SetUserIs
  <2> QED
    BY <1>3, <2>2, TracedHears DEF DeletedOnNode, EnabledOnNode
<1>4. CASE NodeDeleted
  BY <1>4, TracedHears DEF NodeDeleted
<1>5. CASE Restart
  <2>1. /\ \A r \in Requests : req'[r] = Closed
        /\ errors' = errors \cup {req[r].n : r \in Requests}
        /\ UNCHANGED <<remote, network, audit>>
    BY <1>5 DEF Restart
  <2>2. ASSUME NEW s, NEW n, Accounted(s, n) PROVE Accounted(s, n)'
    BY <2>1, <2>2 DEF Accounted, Owes
  <2>3. Closed.n = 0
    BY ClosedIs
  <2> QED
    BY <2>1, <2>2, <2>3 DEF Traced
<1> QED
  BY <1>1, <1>2, <1>3, <1>4, <1>5 DEF Environment

LEMMA TracedInit == Init => Traced
BY ClosedIs DEF Init, Traced

LEMMA TracedPreserved == IInv /\ Traced /\ [Next]_vars => Traced'
<1> SUFFICES ASSUME IInv, Traced, [Next]_vars PROVE Traced'
  OBVIOUS
<1>1. ASSUME NEW r \in Requests, Begin(r) PROVE Traced'
  BY <1>1, TracedBegins
<1>2. ASSUME NEW r \in Requests, Handler(r) PROVE Traced'
  BY <1>2, TracedPasses, TracedNextTarget, TracedResume, TracedFlush, TracedCommit, TracedSync
     DEF Handler
<1>3. ASSUME NEW r \in Requests, TimesOut(r) \/ \E s \in Sites : NodeLists(r, s)
      PROVE  Traced'
  BY <1>3, TracedPasses
<1>4. CASE Environment
  BY <1>4, TracedEnvironment
<1>5. CASE UNCHANGED vars
  BY <1>5 DEF vars, Traced, Accounted, AtRest
<1> QED
  BY <1>1, <1>2, <1>3, <1>4, <1>5 DEF Next

\* models/audit.py: "Every mutating action ... is recorded as a row".  When nothing is under
\* way, every user on a node is accounted for by an entry, or by a request that ended in an
\* error or with the process: whatever overlaps, is refused, lost, unreadable or late, and
\* whatever node is deleted meanwhile.
THEOREM CreationsAudited == Spec => []EveryCreationAudited
<1>1. Init => IInv /\ Traced
  BY InitEstablishes, TracedInit
<1>2. IInv /\ Traced /\ [Next]_vars => IInv' /\ Traced'
  BY StepPreserves, TracedPreserved
<1>3. IInv /\ Traced => EveryCreationAudited
  <2> SUFFICES ASSUME IInv, Traced, Quiet, NEW s \in Sites, NEW u \in UserIds,
                      remote[s][u] # "none"
               PROVE  Traces(audit, s, u) \/ u \in errors
    BY DEF EveryCreationAudited, Traces
  <2>1. \A r \in Requests : ~Owes(req[r], s, u)
    BY ClosedOwes DEF Quiet, Traced
  <2> QED
    BY <2>1 DEF Traced, Accounted
<1> QED
  BY <1>1, <1>2, <1>3, PTL DEF Spec

-----------------------------------------------------------------------------
(* A request asks a node once.                                             *)

\* A command to create a user finds none that its request has created there before.
AskedOnce == \A d \in network : d.op = "provision" => remote[d.site][d.n] = "none"

Fresh ==
    /\ \A d \in network : d.op = "provision" => d.id = NoUser /\ remote[d.site][d.n] = "none"
    /\ \A r \in Requests, s \in Sites :
         req[r].op = "provision" /\ s \in Unsent(req[r]) => remote[s][req[r].n] = "none"
    /\ \A s \in Sites, u \in UserIds : remote[s][u] # "none" => u <= ops

\* The step of handler h from q leaves nothing to ask that was not there before.
Shrinks(q, h) ==
    \/ Unsent(h) = {}
    \/ h.op # "provision"
    \/ h.op = q.op /\ h.n = q.n /\ Unsent(h) \subseteq Unsent(q)

LEMMA FinishedShrinks == ASSUME NEW q PROVE Shrinks(q, Finished(q))
BY FinishedIsOver DEF Shrinks, Unsent

LEMMA RaisesShrink ==
    ASSUME IInv, NEW r \in Requests, NEW why,
           \/ Raise(r, Unlocked(req[r]), why)
           \/ RaiseOutOfCall(r, req[r], why)
           \/ RaiseOutOfCall(r, Unlocked(req[r]), why)
    PROVE  \E h : Update(r, h) /\ Shrinks(req[r], h)
<1>1. PICK q : q = req[r]
  OBVIOUS
<1>2. DOMAIN q = Fields
  BY <1>1, OneHandler DEF Shape
<1>3. PICK h : /\ \/ h = [Unlocked(q) EXCEPT !.pc = "rollback", !.fate = why]
                  \/ h = [q EXCEPT !.pc = "abort", !.fate = why, !.reply = NoReply]
                  \/ h = [Unlocked(q) EXCEPT !.pc = "abort", !.fate = why, !.reply = NoReply]
               /\ Update(r, h)
  BY <1>1 DEF Raise, RaiseOutOfCall
<1>4. h.pc \in Aborting
  BY <1>2, <1>3 DEF Fields, Aborting, Unlocked
<1>5. Unsent(h) = {}
  BY <1>4 DEF Unsent, Aborting
<1> QED
  BY <1>1, <1>3, <1>5 DEF Shrinks

LEMMA HandlerShrinks ==
    ASSUME IInv, NEW r \in Requests,
           \/ GetOrCreateLogical(r) \/ NextPlacement(r) \/ Resume(r) \/ Flush(r) \/ Closes(r)
           \/ Commit(r) \/ Unwinds(r) \/ Rollback(r) \/ SyncResume(r) \/ SyncCommit(r)
           \/ TimesOut(r) \/ \E s \in Sites : NodeLists(r, s)
    PROVE  \E h : Update(r, h) /\ Shrinks(req[r], h)
<1>1. PICK q : q = req[r]
  OBVIOUS
<1>2. Shape(q, ops) /\ DOMAIN q = Fields
  BY <1>1, OneHandler DEF Shape
<1>3. CASE GetOrCreateLogical(r)
  <2>1. PICK h : h = [q EXCEPT !.pc = "next", !.made = ~identity]
    OBVIOUS
  <2>2. /\ h.pc = "next" /\ h.op = q.op /\ h.n = q.n /\ h.todo = q.todo /\ q.pc = "logical"
        /\ Update(r, h)
    BY <1>1, <1>2, <1>3, <2>1 DEF Fields, GetOrCreateLogical
  <2> QED
    BY <1>1, <2>2 DEF Shrinks, Unsent
<1>4. CASE NextPlacement(r)
  <2>1. /\ q.op \in {"revoke", "delete"}
        /\ \/ Update(r, [q EXCEPT !.todo = Tail(@)])
           \/ Update(r, [q EXCEPT !.pc = "call", !.reply = NoReply])
    BY <1>1, <1>4 DEF NextPlacement, Send
  <2>2. PICK h : /\ \/ h = [q EXCEPT !.todo = Tail(@)]
                    \/ h = [q EXCEPT !.pc = "call", !.reply = NoReply]
                 /\ Update(r, h)
    BY <2>1
  <2>3. h.op # "provision"
    BY <1>2, <2>1, <2>2 DEF Fields
  <2> QED
    BY <1>1, <2>2, <2>3 DEF Shrinks
<1>5. CASE Resume(r)
  <2>1. CASE RaiseOutOfCall(r, q, "answer")
    BY <1>1, <2>1, RaisesShrink
  <2>2. CASE Continue(r)
    <3>1. PICK o, s : o = Answered(q) /\ s = Head(q.todo)
      OBVIOUS
    <3>2. PICK h : h = [o EXCEPT !.pc = "flush", !.reply = NoReply]
      OBVIOUS
    <3>3. q.pc = "call" /\ q.op \in Mutations
      BY <1>1, <1>2, <1>5 DEF Resume, Shape
    <3>4. DOMAIN o = Fields /\ o.op = q.op /\ o.n = q.n /\ o.todo = q.todo
      BY <1>2, <3>1, <3>3, OutcomeSettles
    <3>5. h.pc = "flush" /\ h.op = q.op /\ h.n = q.n /\ h.todo = q.todo
      BY <3>2, <3>4 DEF Fields
    <3>6. Update(r, h)
      BY <1>1, <2>2, <3>1, <3>2 DEF Continue
    <3> QED
      BY <1>1, <3>3, <3>5, <3>6 DEF Shrinks, Unsent
  <2> QED
    BY <1>1, <1>5, <2>1, <2>2 DEF Resume
<1>6. CASE Flush(r)
  <2>1. CASE \E why : RaiseOutOfCall(r, Unlocked(q), why)
    BY <1>1, <2>1, RaisesShrink
  <2>2. ASSUME NEW held, Update(r, [q EXCEPT !.pc = "close", !.long = FALSE, !.held = held])
        PROVE  \E h : Update(r, h) /\ Shrinks(q, h)
    <3>1. PICK h : h = [q EXCEPT !.pc = "close", !.long = FALSE, !.held = held]
      OBVIOUS
    <3>2. h.pc = "close" /\ h.op = q.op /\ h.n = q.n /\ h.todo = q.todo /\ q.pc = "flush"
      BY <1>1, <1>2, <1>6, <3>1 DEF Fields, Flush
    <3> QED
      BY <2>2, <3>1, <3>2 DEF Shrinks, Unsent
  <2>3. \/ \E why : RaiseOutOfCall(r, Unlocked(q), why)
        \/ \E held : Update(r, [q EXCEPT !.pc = "close", !.long = FALSE, !.held = held])
    BY <1>1, <1>6 DEF Flush
  <2> QED
    BY <1>1, <2>1, <2>2, <2>3
<1>7. CASE Closes(r)
  <2>1. PICK h : h = [q EXCEPT !.pc = "next", !.todo = Tail(@)]
    OBVIOUS
  <2>2. /\ h.pc = "next" /\ h.op = q.op /\ h.n = q.n /\ h.todo = Tail(q.todo) /\ q.pc = "close"
        /\ Update(r, h)
    BY <1>1, <1>2, <1>7, <2>1 DEF Fields, Closes
  <2> QED
    BY <1>1, <2>2 DEF Shrinks, Unsent
<1>8. CASE Commit(r) \/ Rollback(r)
  BY <1>8, RaisesShrink, FinishedShrinks DEF Commit, Rollback
<1>9. CASE Unwinds(r)
  <2>1. PICK h : h = [q EXCEPT !.pc = "rollback"]
    OBVIOUS
  <2>2. Unsent(h) = {} /\ Update(r, h)
    BY <1>1, <1>2, <1>9, <2>1 DEF Fields, Unsent, Unwinds
  <2> QED
    BY <2>2 DEF Shrinks
<1>10. CASE SyncResume(r) \/ SyncCommit(r)
  <2>1. PICK s, row : s = Head(q.todo) /\ row = Reconciled(q.copy[s], q.reply.seen)
    OBVIOUS
  <2>2. PICK h : h = [q EXCEPT !.pc = "flush sync", !.copy[s] = row, !.reply = NoReply]
    OBVIOUS
  <2>3. q.op = "sync" /\ (Update(r, Finished(q)) \/ Update(r, h))
    BY <1>1, <1>2, <1>10, <2>1, <2>2 DEF SyncResume, SyncCommit, Shape
  <2>4. h.op = "sync"
    BY <1>2, <2>2, <2>3 DEF Fields
  <2> QED
    BY <1>1, <2>3, <2>4, FinishedShrinks DEF Shrinks
<1>11. CASE TimesOut(r) \/ \E s \in Sites : NodeLists(r, s)
  <2>1. PICK reply : Update(r, [q EXCEPT !.reply = reply])
    BY <1>1, <1>11 DEF TimesOut, NodeLists
  <2>2. PICK h : h = [q EXCEPT !.reply = reply]
    OBVIOUS
  <2>3. h.pc = q.pc /\ h.op = q.op /\ h.n = q.n /\ h.todo = q.todo
    BY <1>2, <2>2 DEF Fields
  <2> QED
    BY <1>1, <2>1, <2>2, <2>3 DEF Shrinks, Unsent
<1> QED
  BY <1>1, <1>3, <1>4, <1>5, <1>6, <1>7, <1>8, <1>9, <1>10, <1>11

LEMMA FreshStep ==
    ASSUME IInv, Fresh, NEW r \in Requests, NEW h, Update(r, h), UNCHANGED remote,
           ops' \in Nat, ops <= ops',
           \A d \in network' : \/ d \in network \/ d.op # "provision"
                               \/ d.id = NoUser /\ remote[d.site][d.n] = "none",
           \/ Shrinks(req[r], h)
           \/ \A s \in Sites : remote[s][h.n] = "none"
    PROVE  Fresh'
<1>1. req'[r] = h /\ \A q \in Requests \ {r} : req'[q] = req[q]
  BY DEF Update, IInv, WellFormed
<1>2. ASSUME NEW q \in Requests, NEW s \in Sites,
             req'[q].op = "provision", s \in Unsent(req'[q])
      PROVE  remote[s][req'[q].n] = "none"
  <2>1. CASE q = r
    BY <1>1, <1>2, <2>1 DEF Fresh, Shrinks
  <2>2. CASE q # r
    BY <1>1, <1>2, <2>2 DEF Fresh
  <2> QED
    BY <2>1, <2>2
<1>3. \A s \in Sites, u \in UserIds : remote[s][u] # "none" => u <= ops'
  BY OneHandler, BoundsAssumption DEF Fresh, UserIds
<1>4. \A d \in network' : d.op = "provision" => d.id = NoUser /\ remote[d.site][d.n] = "none"
  BY DEF Fresh
<1>5. \A q \in Requests, s \in Sites :
        req'[q].op = "provision" /\ s \in Unsent(req[q])' => remote[s][req'[q].n] = "none"
  BY <1>2 DEF Unsent
<1> QED
  BY <1>3, <1>4, <1>5 DEF Fresh

LEMMA FreshBegins ==
    ASSUME IInv, Fresh, NEW r \in Requests, Begin(r)
    PROVE  Fresh'
<1>1. UNCHANGED <<remote, network>> /\ ops \in Nat /\ ops \in 0..MaxOps /\ MaxOps \in Nat
  BY OneHandler DEF Begin, BeginProvision, BeginDeprovision, BeginSync
<1>2. CASE BeginProvision(r)
  <2>1. PICK t :
          Update(r, [Closed EXCEPT !.pc = "logical", !.op = "provision", !.n = ops + 1,
                                   !.todo = t, !.asked = ToSet(t)])
    BY <1>2 DEF BeginProvision
  <2>2. PICK h : h = [Closed EXCEPT !.pc = "logical", !.op = "provision", !.n = ops + 1,
                                    !.todo = t, !.asked = ToSet(t)]
    OBVIOUS
  <2>3. h.n = ops + 1
    BY <2>2, ClosedIs DEF Fields
  <2>4. ops + 1 \in UserIds /\ ops' = ops + 1
    BY <1>1, <1>2 DEF BeginProvision, UserIds
  <2>5. \A s \in Sites : remote[s][h.n] = "none"
    BY <1>1, <2>3, <2>4 DEF Fresh
  <2>6. Update(r, h) /\ ops' \in Nat /\ ops <= ops'
    BY <1>1, <2>1, <2>2, <2>4
  <2> QED
    BY <1>1, <2>5, <2>6, FreshStep
<1>3. CASE BeginDeprovision(r)
  <2>1. PICK op, t :
          /\ op # "provision"
          /\ Update(r, [Closed EXCEPT !.pc = "next", !.op = op, !.n = ops + 1,
                                      !.todo = t, !.asked = ToSet(t),
                                      !.base = placement, !.copy = placement])
    BY <1>3 DEF BeginDeprovision
  <2>2. PICK h : h = [Closed EXCEPT !.pc = "next", !.op = op, !.n = ops + 1,
                                    !.todo = t, !.asked = ToSet(t),
                                    !.base = placement, !.copy = placement]
    OBVIOUS
  <2>3. Shrinks(req[r], h)
    BY <2>1, <2>2, ClosedIs DEF Fields, Shrinks
  <2>4. ops' = ops + 1
    BY <1>3 DEF BeginDeprovision
  <2> QED
    BY <1>1, <2>1, <2>2, <2>3, <2>4, FreshStep
<1>4. ASSUME NEW s \in Sites, BeginSync(r, s) PROVE Fresh'
  <2>1. PICK h : h = [Closed EXCEPT !.pc = "call", !.op = "sync", !.todo = <<s>>,
                                    !.asked = {s},
                                    !.base[s] = placement[s], !.copy[s] = placement[s]]
    OBVIOUS
  <2>2. h.op = "sync"
    BY <2>1, ClosedIs DEF Fields
  <2>3. Update(r, h) /\ ops' = ops
    BY <1>4, <2>1 DEF BeginSync
  <2> QED
    BY <1>1, <2>2, <2>3, FreshStep DEF Shrinks
<1> QED
  BY <1>2, <1>3, <1>4 DEF Begin

LEMMA FreshNextTarget ==
    ASSUME IInv, Fresh, NEW r \in Requests, NextTarget(r)
    PROVE  Fresh'
<1>1. PICK q : q = req[r]
  OBVIOUS
<1>2. PICK s : s = Head(q.todo)
  OBVIOUS
<1>3. PICK new : new = IF placement[s] = NoRow THEN [id |-> NoUser, status |-> "pending"]
                       ELSE placement[s]
  OBVIOUS
<1>4. PICK l : l = [q EXCEPT !.base[s] = placement[s], !.copy[s] = new]
  OBVIOUS
<1>5. /\ q.pc = "next" /\ q.op = "provision" /\ q.todo # <<>> /\ UNCHANGED <<remote, ops>>
      /\ DOMAIN q = Fields /\ ops \in Nat /\ Order(q.todo)
  BY <1>1, OneHandler DEF NextTarget, Shape
<1>6. /\ DOMAIN l = Fields /\ l.op = "provision" /\ l.n = q.n /\ l.todo = q.todo /\ l.pc = "next"
  BY <1>4, <1>5 DEF Fields
<1>7. s \in Sites /\ s \in ToSet(q.todo) /\ ToSet(Tail(q.todo)) \subseteq ToSet(q.todo)
  BY <1>2, <1>5, RestOfOrder
<1>8. \/ /\ Update(r, [l EXCEPT !.copy[s].status = "failed", !.doomed = TRUE, !.todo = Tail(@)])
         /\ UNCHANGED network
      \/ \E why : Raise(r, l, why) /\ UNCHANGED network
      \/ \E org \in OrgIds \ {"nourl"} : Send(r, [l EXCEPT !.long = (org = "long")], NoUser)
  BY <1>1, <1>2, <1>3, <1>4 DEF NextTarget
<1>9. CASE /\ Update(r, [l EXCEPT !.copy[s].status = "failed", !.doomed = TRUE, !.todo = Tail(@)])
           /\ UNCHANGED network
  <2>1. PICK h : h = [l EXCEPT !.copy[s].status = "failed", !.doomed = TRUE, !.todo = Tail(@)]
    OBVIOUS
  <2>2. h.pc = "next" /\ h.n = q.n /\ h.op = q.op /\ h.todo = Tail(q.todo)
    BY <1>5, <1>6, <2>1 DEF Fields
  <2>3. Shrinks(q, h)
    BY <1>5, <1>7, <2>2 DEF Shrinks, Unsent
  <2> QED
    BY <1>1, <1>5, <1>9, <2>1, <2>3, FreshStep
<1>10. ASSUME NEW why, Raise(r, l, why), UNCHANGED network PROVE Fresh'
  <2>1. PICK h : h = [l EXCEPT !.pc = "rollback", !.fate = why]
    OBVIOUS
  <2>2. Unsent(h) = {}
    BY <1>6, <2>1 DEF Fields, Unsent
  <2>3. Update(r, h)
    BY <1>10, <2>1 DEF Raise
  <2> QED
    BY <1>5, <1>10, <2>2, <2>3, FreshStep DEF Shrinks
<1>11. ASSUME NEW long, Send(r, [l EXCEPT !.long = long], NoUser) PROVE Fresh'
  <2>1. PICK k : k = [l EXCEPT !.long = long]
    OBVIOUS
  <2>2. DOMAIN k = Fields /\ k.op = "provision" /\ k.n = q.n /\ k.todo = q.todo
    BY <1>6, <2>1 DEF Fields
  <2>3. PICK h : h = [k EXCEPT !.pc = "call", !.reply = NoReply]
    OBVIOUS
  <2>4. h.pc = "call" /\ h.op = q.op /\ h.n = q.n /\ h.todo = q.todo
    BY <1>5, <2>2, <2>3 DEF Fields
  <2>5. PICK d : d = [n |-> q.n, site |-> s, op |-> "provision", id |-> NoUser]
    OBVIOUS
  <2>6. Update(r, h) /\ network' = network \cup {d}
    BY <1>2, <1>11, <2>1, <2>2, <2>3, <2>5 DEF Send
  <2>7. s \in Unsent(q)
    BY <1>5, <1>7 DEF Unsent
  <2>8. d.id = NoUser /\ remote[d.site][d.n] = "none"
    BY <1>1, <1>5, <1>7, <2>5, <2>7 DEF Fresh
  <2>9. Shrinks(q, h)
    BY <1>5, <1>7, <2>4 DEF Shrinks, Unsent
  <2> QED
    BY <1>1, <1>5, <2>6, <2>8, <2>9, FreshStep
<1> QED
  BY <1>8, <1>9, <1>10, <1>11

LEMMA FreshHandler ==
    ASSUME IInv, Fresh, NEW r \in Requests,
           \/ GetOrCreateLogical(r) \/ NextPlacement(r) \/ Resume(r) \/ Flush(r) \/ Closes(r)
           \/ Commit(r) \/ Unwinds(r) \/ Rollback(r) \/ SyncResume(r) \/ SyncCommit(r)
           \/ TimesOut(r) \/ \E s \in Sites : NodeLists(r, s)
    PROVE  Fresh'
<1>1. PICK h : Update(r, h) /\ Shrinks(req[r], h)
  BY HandlerShrinks
<1>2. UNCHANGED <<remote, ops>> /\ ops \in Nat
  BY OneHandler DEF GetOrCreateLogical, NextPlacement, Resume, Flush, Closes, Commit, Unwinds,
                    Rollback, SyncResume, SyncCommit, TimesOut, NodeLists
<1>3. \A d \in network' : d \in network \/ d.op # "provision"
  <2>1. CASE NextPlacement(r)
    <3>1. PICK q : q = req[r]
      OBVIOUS
    <3>2. /\ q.op \in {"revoke", "delete"}
          /\ \/ UNCHANGED network
             \/ \E id : Send(r, q, id)
      BY <2>1, <3>1 DEF NextPlacement
    <3>3. ASSUME NEW id, Send(r, q, id)
          PROVE  \A d \in network' : d \in network \/ d.op # "provision"
      <4>1. PICK d : d = [n |-> q.n, site |-> Head(q.todo), op |-> q.op, id |-> id]
        OBVIOUS
      <4>2. d.op # "provision"
        BY <3>2, <4>1
      <4>3. network' = network \cup {d}
        BY <3>3, <4>1 DEF Send
      <4> QED
        BY <4>2, <4>3
    <3> QED
      BY <3>2, <3>3
  <2>2. CASE ~NextPlacement(r)
    <3>1. UNCHANGED network
      BY <2>2 DEF GetOrCreateLogical, Resume, Flush, Closes, Commit, Unwinds, Rollback,
                  SyncResume, SyncCommit, TimesOut, NodeLists
    <3> QED
      BY <3>1
  <2> QED
    BY <2>1, <2>2
<1> QED
  BY <1>1, <1>2, <1>3, FreshStep

\* The nodes go on: the users that are there were, or are those a command created that is no
\* longer under way.
LEMMA FreshHears ==
    ASSUME IInv, Fresh, UNCHANGED ops, network' \subseteq network,
           \A s \in Sites, u \in UserIds : remote'[s][u] # "none" =>
             \/ remote[s][u] # "none"
             \/ \E c \in network \ network' :
                  c.op = "provision" /\ c.site = s /\ c.n = u /\ c.id = NoUser,
           \A r \in Requests :
             \/ req'[r] = req[r]
             \/ \E reply : req'[r] = [req[r] EXCEPT !.reply = reply]
    PROVE  Fresh'
<1>1. ASSUME NEW r \in Requests
      PROVE  /\ req'[r].n = req[r].n /\ req'[r].op = req[r].op
             /\ Unsent(req[r])' = Unsent(req[r])
  <2>1. DOMAIN req[r] = Fields
    BY OneHandler DEF Shape
  <2>2. CASE req'[r] = req[r]
    BY <2>2 DEF Unsent
  <2>3. ASSUME NEW reply, req'[r] = [req[r] EXCEPT !.reply = reply]
        PROVE  /\ req'[r].n = req[r].n /\ req'[r].op = req[r].op
               /\ Unsent(req[r])' = Unsent(req[r])
    <3>1. PICK h : h = [req[r] EXCEPT !.reply = reply]
      OBVIOUS
    <3>2. /\ h.n = req[r].n /\ h.op = req[r].op /\ h.pc = req[r].pc /\ h.todo = req[r].todo
      BY <2>1, <3>1 DEF Fields
    <3> QED
      BY <2>3, <3>1, <3>2 DEF Unsent
  <2>4. \/ req'[r] = req[r]
        \/ \E reply : req'[r] = [req[r] EXCEPT !.reply = reply]
    OBVIOUS
  <2> QED
    BY <2>2, <2>3, <2>4
<1>2. network \subseteq Commands /\ (\A c \in network : c.n <= ops)
      /\ remote \in [Sites -> [UserIds -> {"none", "on", "off", "back", "gone"}]]
  BY DEF IInv, WellFormed
<1>3. ASSUME NEW d \in network', d.op = "provision"
      PROVE  d.id = NoUser /\ remote'[d.site][d.n] = "none"
  <2>1. d \in network /\ d.id = NoUser /\ remote[d.site][d.n] = "none"
    BY <1>3 DEF Fresh
  <2>2. d.site \in Sites /\ d.n \in UserIds
    BY <1>2, <2>1 DEF Commands, UserIds
  <2>3. \A c \in network \ network' :
          c.op = "provision" /\ c.id = NoUser => c.site # d.site \/ c.n # d.n
    BY <1>2, <1>3, <2>1 DEF Commands
  <2> QED
    BY <2>1, <2>2, <2>3
<1>4. ASSUME NEW r \in Requests, NEW s \in Sites,
             req[r].op = "provision", s \in Unsent(req[r])
      PROVE  remote'[s][req[r].n] = "none"
  <2>1. remote[s][req[r].n] = "none"
    BY <1>4 DEF Fresh
  <2>2. req[r].n \in UserIds
    <3>1. PICK q : q = req[r]
      OBVIOUS
    <3>2. Shape(q, ops) /\ MaxOps \in Nat /\ ops \in 0..MaxOps
      BY <3>1, OneHandler
    <3>3. q.op = "provision" /\ q.pc \in {"logical", "next", "call", "flush", "close"}
      BY <1>4, <3>1 DEF Unsent
    <3>4. q.n # 0 /\ q.n \in 0..ops
      BY <3>2, <3>3 DEF Shape
    <3> QED
      BY <3>1, <3>2, <3>4 DEF UserIds
  <2>3. \A c \in network : c.n = req[r].n => c.site # s
    BY <1>4, OneHandler DEF Sent
  <2> QED
    BY <2>1, <2>2, <2>3
<1>5. \A s \in Sites, u \in UserIds : remote'[s][u] # "none" => u <= ops'
  BY <1>2 DEF Fresh
<1> QED
  BY <1>1, <1>3, <1>4, <1>5 DEF Fresh

LEMMA FreshEnvironment ==
    ASSUME IInv, Fresh, Environment
    PROVE  Fresh'
<1>1. CASE NodeExecutes
  <2>1. PICK c \in network :
          /\ \/ c.op = "provision" /\ SetUser(c.site, c.n, "on")
             \/ c.id \in Present(c.site) /\ \E state : SetUser(c.site, c.id, state)
             \/ UNCHANGED remote
          /\ \E reply : Answer(c, reply)
          /\ network' = network \ {c}
    BY <1>1 DEF NodeExecutes
  <2>2. c.site \in Sites /\ c.n \in UserIds /\ (c.op = "provision" => c.id = NoUser)
    BY DEF IInv, WellFormed, Commands, UserIds, Fresh
  <2>3. \A s \in Sites, u \in UserIds : remote'[s][u] # "none" =>
          \/ remote[s][u] # "none"
          \/ c.op = "provision" /\ c.site = s /\ c.n = u /\ c.id = NoUser
    <3>1. CASE c.op = "provision" /\ SetUser(c.site, c.n, "on")
      BY <2>2, <3>1, SetUserIs
    <3>2. ASSUME NEW state, c.id \in Present(c.site), SetUser(c.site, c.id, state)
          PROVE  \A s \in Sites, u \in UserIds : remote'[s][u] # "none" => remote[s][u] # "none"
      BY <2>2, <3>2, SetUserIs DEF Present
    <3> QED
      BY <2>1, <3>1, <3>2
  <2>4. UNCHANGED ops /\ c \in network \ network'
    BY <1>1, <2>1 DEF NodeExecutes
  <2> QED
    BY <2>1, <2>3, <2>4, AnswerIs, FreshHears
<1>2. CASE NodeRefuses
  <2>1. PICK c, reply : Answer(c, reply) /\ network' = network \ {c}
    BY <1>2 DEF NodeRefuses
  <2> QED
    BY <1>2, <2>1, AnswerIs, FreshHears DEF NodeRefuses
<1>3. CASE DeletedOnNode \/ EnabledOnNode
  <2>1. PICK s \in Sites, u \in UserIds, state \in {"back", "gone"} :
          remote[s][u] # "none" /\ SetUser(s, u, state)
    BY <1>3 DEF DeletedOnNode, EnabledOnNode, Present
  <2>2. \A x \in Sites, v \in UserIds : remote'[x][v] # "none" => remote[x][v] # "none"
    BY <2>1, SetUserIs
  <2> QED
    BY <1>3, <2>2, FreshHears DEF DeletedOnNode, EnabledOnNode
<1>4. CASE NodeDeleted
  BY <1>4, FreshHears DEF NodeDeleted
<1>5. CASE Restart
  <2>1. (\A r \in Requests : req'[r] = Closed) /\ UNCHANGED <<remote, network, ops>>
    BY <1>5 DEF Restart
  <2> QED
    BY <2>1, ClosedIs DEF Fresh
<1> QED
  BY <1>1, <1>2, <1>3, <1>4, <1>5 DEF Environment

LEMMA FreshInit == Init => Fresh
BY ClosedIs DEF Init, Fresh

LEMMA FreshPreserved == IInv /\ Fresh /\ [Next]_vars => Fresh'
<1> SUFFICES ASSUME IInv, Fresh, [Next]_vars PROVE Fresh'
  OBVIOUS
<1>1. ASSUME NEW r \in Requests, Begin(r) PROVE Fresh'
  BY <1>1, FreshBegins
<1>2. ASSUME NEW r \in Requests, Handler(r) PROVE Fresh'
  BY <1>2, FreshHandler, FreshNextTarget DEF Handler
<1>3. ASSUME NEW r \in Requests, TimesOut(r) \/ \E s \in Sites : NodeLists(r, s)
      PROVE  Fresh'
  BY <1>3, FreshHandler
<1>4. CASE Environment
  BY <1>4, FreshEnvironment
<1>5. CASE UNCHANGED vars
  BY <1>5 DEF vars, Fresh, Unsent
<1> QED
  BY <1>1, <1>2, <1>3, <1>4, <1>5 DEF Next

\* provision() calls a node once for each request, and never repeats a call: no request leaves
\* two users on one node, however late a command that seemed lost is carried out.  It is why
\* the number of the request names the user it creates.
THEOREM CommandsAreNew == Spec => []AskedOnce
<1>1. Init => IInv /\ Fresh
  BY InitEstablishes, FreshInit
<1>2. IInv /\ Fresh /\ [Next]_vars => IInv' /\ Fresh'
  BY StepPreserves, FreshPreserved
<1>3. IInv /\ Fresh => AskedOnce
  BY DEF Fresh, AskedOnce
<1> QED
  BY <1>1, <1>2, <1>3, PTL DEF Spec

-----------------------------------------------------------------------------
(* The wedge.                                                              *)

\* The others that end only through the event loop: a rollback runs on a worker thread.
Looping(r) == {q \in Others(r) : req[q].pc # "rollback"}

Holds(r, s) == \E q \in Looping(r) : s \in req[q].held

\* r's code waits, with the event-loop thread, for another request that needs it: for the
\* username that it inserts, or for a row that it is to write.
Wedges(r) ==
    /\ loop = r
    /\ LET h == req[r]
           s == Head(h.todo)
       IN  \/ h.pc = "logical" /\ ~identity /\ \E q \in Looping(r) : req[q].made
           \/ h.pc = "flush" /\ ~Unwritable(h) /\ h.copy[s] # h.base[s] /\ Holds(r, s)
           \/ h.pc = "flush sync" /\ h.base[s] # NoRow /\ Holds(r, s)

Wedged == \E r \in Requests : Wedges(r)

\* No step but the restart of the control plane leads out of a wedge.
WedgeIsFinal == [][Wedged => Wedged' \/ Restart]_vars

\* Who waits does not move, and whom it waits for needs the loop.
LEMMA WedgeHolds ==
    ASSUME IInv, NEW r \in Requests, Wedges(r), [Next]_vars, ~Restart
    PROVE  Wedges(r)'
<1>1. PICK h : h = req[r]
  OBVIOUS
<1>2. PICK s : s = Head(h.todo)
  OBVIOUS
<1>3. /\ loop = r /\ h.pc \in {"logical", "flush", "flush sync"} /\ loop # Nobody
      /\ \/ h.pc = "logical" /\ ~identity /\ \E q \in Looping(r) : req[q].made
         \/ h.pc = "flush" /\ ~Unwritable(h) /\ h.copy[s] # h.base[s] /\ Holds(r, s)
         \/ h.pc = "flush sync" /\ h.base[s] # NoRow /\ Holds(r, s)
  BY <1>1, <1>2, RequestsAssumption DEF Wedges
<1>a. Holds(r, s) => Locked(r, s)
  BY DEF Holds, Looping, Locked
<1>4. Locked(r, s) => s \in registered
  <2>1. \A q \in Requests : req[q].held \subseteq registered
    BY OneHandler DEF Rooted
  <2> QED
    BY <2>1 DEF Locked, Others
<1>5. ASSUME NEW p \in Requests, Begin(p) PROVE FALSE
  BY <1>3, <1>5 DEF Begin, BeginProvision, BeginDeprovision, BeginSync
<1>6. ASSUME NEW p \in Requests, Handler(p) PROVE Rollback(p)
  <2>1. CASE GetOrCreateLogical(p)
    BY <1>1, <1>3, <2>1 DEF GetOrCreateLogical, Looping
  <2>2. CASE Flush(p)
    BY <1>1, <1>2, <1>3, <1>a, <2>2 DEF Flush
  <2>3. CASE SyncCommit(p)
    BY <1>1, <1>2, <1>3, <1>a, <1>4, <2>3 DEF SyncCommit
  <2>4. CASE NextTarget(p) \/ NextPlacement(p) \/ Commit(p)
    BY <1>1, <1>3, <2>4 DEF NextTarget, NextPlacement, Commit
  <2>5. CASE Resume(p) \/ Closes(p) \/ Unwinds(p) \/ SyncResume(p)
    BY <1>3, <2>5 DEF Resume, Closes, Unwinds, SyncResume
  <2> QED
    BY <1>6, <2>1, <2>2, <2>3, <2>4, <2>5 DEF Handler
<1>7. UNCHANGED <<identity, loop>>
  BY <1>5, <1>6
     DEF Next, Rollback, TimesOut, NodeLists, Environment, NodeExecutes, NodeRefuses,
         DeletedOnNode, EnabledOnNode, NodeDeleted, vars
<1>8. ASSUME NEW p \in Requests, req[p].pc # "rollback"
      PROVE  /\ req'[p].held = req[p].held /\ req'[p].made = req[p].made
             /\ req'[p].pc = req[p].pc
             /\ p = r => req'[p] = req[p]
  <2>1. PICK q : q = req[p]
    OBVIOUS
  <2>2. DOMAIN q = Fields
    BY <2>1, OneHandler DEF Shape
  <2>3. \E reply : req'[p] = q \/ (req'[p] = [q EXCEPT !.reply = reply] /\ q.pc = "call")
    <3>1. ASSUME NEW x \in Requests, NEW reply, req[x].pc = "call",
                 Update(x, [req[x] EXCEPT !.reply = reply])
          PROVE  req'[p] = q \/ (req'[p] = [q EXCEPT !.reply = reply] /\ q.pc = "call")
      BY <2>1, <3>1 DEF Update, IInv, WellFormed
    <3>2. ASSUME NEW c, NEW reply, Answer(c, reply)
          PROVE  req'[p] = q \/ (req'[p] = [q EXCEPT !.reply = reply] /\ q.pc = "call")
      BY <2>1, <3>2 DEF Answer, Waits
    <3>3. ASSUME NEW x \in Requests, TimesOut(x) \/ \E y \in Sites : NodeLists(x, y)
          PROVE  \E reply : req'[p] = q \/ (req'[p] = [q EXCEPT !.reply = reply] /\ q.pc = "call")
      <4>1. PICK reply : req[x].pc = "call" /\ Update(x, [req[x] EXCEPT !.reply = reply])
        BY <3>3 DEF TimesOut, NodeLists
      <4> QED
        BY <3>1, <4>1
    <3>4. ASSUME Environment
          PROVE  \E reply : req'[p] = q \/ (req'[p] = [q EXCEPT !.reply = reply] /\ q.pc = "call")
      <4>1. UNCHANGED req \/ \E c, reply : Answer(c, reply)
        BY <3>4 DEF Environment, NodeExecutes, NodeRefuses, DeletedOnNode, EnabledOnNode,
                    NodeDeleted
      <4> QED
        BY <2>1, <3>2, <4>1
    <3>5. CASE UNCHANGED vars
      BY <2>1, <3>5 DEF vars
    <3>6. ASSUME NEW x \in Requests, Rollback(x) PROVE req'[p] = q
      BY <1>8, <2>1, <3>6 DEF Rollback, Update, IInv, WellFormed
    <3> QED
      BY <1>5, <1>6, <3>3, <3>4, <3>5, <3>6 DEF Next
  <2>4. PICK reply : req'[p] = q \/ (req'[p] = [q EXCEPT !.reply = reply] /\ q.pc = "call")
    BY <2>3
  <2>5. PICK x : x = [q EXCEPT !.reply = reply]
    OBVIOUS
  <2>6. x.held = q.held /\ x.made = q.made /\ x.pc = q.pc
    BY <2>2, <2>5 DEF Fields
  <2>7. p = r => q.pc # "call"
    BY <1>1, <1>3, <2>1
  <2> QED
    BY <2>1, <2>4, <2>5, <2>6, <2>7
<1>9. /\ \A x : Holds(r, x) => Holds(r, x)'
      /\ (\E q \in Looping(r) : req[q].made) => (\E q \in Looping(r) : req[q].made)'
  BY <1>8 DEF Holds, Looping, Others
<1>10. req'[r] = h
  BY <1>1, <1>3, <1>8
<1> QED
  BY <1>2, <1>3, <1>7, <1>9, <1>10 DEF Wedges, Unwritable

\* What SyncGoesOn is about, for any sites and requests: a handler that waits for a row, or
\* for the username, of a request that has yet to come back from a node, or to close its
\* adapter, keeps the event loop from ever letting it come back; no answer, no timeout and no
\* deletion of the node ends that.  One that is rolling back already will end.
THEOREM WedgeStays == Spec => WedgeIsFinal
<1>1. IInv /\ [Next]_vars => [Wedged => Wedged' \/ Restart]_vars
  <2> SUFFICES ASSUME IInv, [Next]_vars, Wedged, ~Restart PROVE Wedged'
    OBVIOUS
  <2>1. PICK r \in Requests : Wedges(r)
    BY DEF Wedged
  <2>2. Wedges(r)'
    BY <2>1, WedgeHolds
  <2> QED
    BY <2>2 DEF Wedged
<1> QED
  BY <1>1, Invariance, PTL DEF Spec, WedgeIsFinal
=============================================================================
