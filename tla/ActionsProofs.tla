---------------------------- MODULE ActionsProofs ----------------------------
(***************************************************************************)
(* The mutating routes, for any nodes, requests and crashes.               *)
(*                                                                         *)
(*   Typed             Spec => []TypeOK                                    *)
(*   Accounting        Spec => []CarriedIsAccounted                        *)
(*   AllOrNothing      Spec => []BulkIsWhole                               *)
(*   Implementation    Spec => ImplementsTrail, the refinement             *)
(*                                                                         *)
(* IInv speaks of one request at a time: where its handler is, what its    *)
(* session holds, what it recorded, heard and sent.  A step of a request   *)
(* changes nothing of another (OthersKept), so each action is looked at    *)
(* for its own request only (StepOfOne).                                   *)
(***************************************************************************)
EXTENDS Actions, TLAPS

-----------------------------------------------------------------------------
(* The inductive invariant.                                                *)

Ids == Mutations \cup {Seed}

Handlers ==
    [pc : {"idle", "call", "close", "mail", "answer", "done"}, at : Items,
     log : SUBSET Entries, results : SUBSET Entries,
     reply : {"none", "ok", "garbled", "failed"},
     fate : {"open", "reported", "declined", "error", "not found", "crashed"}]

AllJobs ==
    [mode : {"single", "email"}, op : SingleOps, node : Nodes, targets : [1..1 -> Ids \cup {BadId}]]
    \cup [mode : {"bulk"}, op : SingleOps, node : Nodes, targets : [Items -> Ids \cup {BadId}]]

Calls == [m : Mutations, op : SingleOps \cup {"email_profile"}, node : Nodes, target : Ids]

Tables == [orgs : SUBSET Ids, users : SUBSET [id : Ids, org : Ids, on : BOOLEAN]]

\* Every user is in an organisation that its node has.
Grounded(st) == \A u \in st.users : u.org \in st.orgs

WellFormed ==
    /\ node \in [Nodes -> Tables] /\ \A n \in Nodes : Grounded(node[n])
    /\ network \subseteq Calls
    /\ job \in [Requests -> AllJobs \cup {NoJob}]
    /\ handler \in [Requests -> Handlers]
    /\ trail \subseteq Entries /\ told \subseteq trail
    /\ carried \subseteq Mutations /\ redirected \subseteq Mutations
    /\ restarts \in 0..MaxRestarts

TrailOf(r) == {e \in trail : e.m[1] = r}

CallsOf(r) == {c \in network : c.m[1] = r}

SentOf(r) == {m \in carried : m[1] = r} \cup {c.m : c \in CallsOf(r)}

\* Where a handler is, it works on item `at` of its job.
Positioned(r) ==
    /\ handler[r].pc = "idle" => handler[r] = Idle
    /\ handler[r].pc \in {"call", "close", "mail"} => job[r] # NoJob
    /\ handler[r].pc = "call" => handler[r].at \in DOMAIN job[r].targets
    /\ handler[r].pc = "close" => handler[r].at = 1
    /\ handler[r].pc = "mail" => handler[r].at = 2
    /\ handler[r].pc \in {"call", "close"} => job[r].targets[handler[r].at] # BadId
    /\ handler[r].pc \in {"close", "mail"} => job[r].mode = "email"

\* No two entries record one mutation.
Distinct(entries) == \A e, f \in entries : e.m = f.m => e = f

Accepted == carried \cup redirected

\* A success was carried out or redirected.
Truthful(entries) == \A e \in entries : e.result = "success" => e.m \in Accepted

\* h holds one entry of each item of r before h.at and of no other, and its response
\* will report just these.
Holds(r, h) ==
    /\ h.results = h.log
    /\ \A e \in h.log : e.m[1] = r /\ e.m[2] < h.at
    /\ \A i \in Items : i < h.at => \E e \in h.log : e.m = <<r, i>>
    /\ Distinct(h.log) /\ Truthful(h.log)

Session(r) ==
    /\ handler[r].pc = "call" => Holds(r, handler[r])
    /\ handler[r].pc # "call" => handler[r].log = {}
    /\ handler[r].pc \in {"close", "mail"} => handler[r].results = {}

\* What a handler reports is in the log; nothing of r is before its handler ends.
Recorded(r) ==
    /\ Distinct(TrailOf(r)) /\ Truthful(TrailOf(r))
    /\ handler[r].pc \notin {"answer", "done"} => TrailOf(r) = {}
    /\ handler[r].pc \in {"answer", "done"} => handler[r].results \subseteq TrailOf(r)

\* What a waiting handler hears of its call.
Heard(r) ==
    handler[r].pc \in {"call", "mail"} /\ handler[r].reply = "ok" =>
        <<r, handler[r].at>> \in Accepted

Accounted(m) ==
    LET r == m[1]
    IN  \/ handler[r].fate = "crashed"
        \/ /\ handler[r].fate = "error"
           /\ \/ handler[r].reply = "garbled"
              \/ \E i \in DOMAIN job[r].targets : job[r].targets[i] = BadId
        \/ job[r].mode = "email" /\ m[2] = 1
        \/ \E e \in trail : e.m = m

\* The handler sends its mutations in turn, and accounts for each when it ends.
Sends(r) ==
    /\ handler[r].pc = "idle" => SentOf(r) = {}
    /\ handler[r].pc \in {"call", "close", "mail"} => \A m \in SentOf(r) : m[2] <= handler[r].at
    /\ handler[r].pc \in {"answer", "done"} => \A m \in SentOf(r) : Accounted(m)
    /\ \A c \in CallsOf(r) :
         c.op = IF job[r].mode = "email" /\ c.m[2] = 2 THEN "email_profile" ELSE job[r].op

Whole(r) ==
    job[r].mode = "bulk" => {e.m[2] : e \in TrailOf(r)} \in {{}, DOMAIN job[r].targets}

About(r) ==
    Positioned(r) /\ Session(r) /\ Recorded(r) /\ Heard(r) /\ Sends(r) /\ Whole(r)

IInv == WellFormed /\ \A r \in Requests : About(r)

-----------------------------------------------------------------------------
\* A step of request r: nothing of the other requests changes.
StepOf(r) ==
    /\ \A q \in Requests \ {r} : handler'[q] = handler[q] /\ job'[q] = job[q]
    /\ trail \subseteq trail' /\ \A e \in trail' \ trail : e.m[1] = r
    /\ carried \subseteq carried' /\ redirected \subseteq redirected'
    /\ \A m \in carried' \ carried : m[1] = r \/ m \in {c.m : c \in network}
    /\ \A c \in network' \ network : c.m[1] = r

\* What IInv says of a request stays true while nothing of it changes.
LEMMA Untouched ==
    ASSUME NEW q \in Requests, About(q), handler'[q] = handler[q], job'[q] = job[q],
           TrailOf(q)' = TrailOf(q), CallsOf(q)' \subseteq CallsOf(q),
           SentOf(q)' \subseteq SentOf(q),
           trail \subseteq trail', carried \subseteq carried', redirected \subseteq redirected'
    PROVE  About(q)'
<1>1. Positioned(q)'
  BY DEF About, Positioned
<1>2. Session(q)'
  BY DEF About, Session, Holds, Distinct, Truthful, Accepted
<1>3. Recorded(q)'
  BY DEF About, Recorded, Distinct, Truthful, Accepted
<1>4. Heard(q)'
  BY DEF About, Heard, Accepted
<1>5. ASSUME NEW m \in SentOf(q) PROVE Accounted(m) => Accounted(m)'
  <2>1. m[1] = q
    BY DEF SentOf, CallsOf
  <2> QED
    BY <2>1 DEF Accounted
<1>6. Sends(q)'
  BY <1>5 DEF About, Sends
<1>7. Whole(q)'
  BY DEF About, Whole
<1> QED
  BY <1>1, <1>2, <1>3, <1>4, <1>6, <1>7 DEF About

LEMMA OthersKept ==
    ASSUME IInv, NEW r \in Requests, StepOf(r), NEW q \in Requests, q # r
    PROVE  About(q)'
<1>1. handler'[q] = handler[q] /\ job'[q] = job[q] /\ About(q)
  BY DEF StepOf, IInv
<1>2. TrailOf(q)' = TrailOf(q) /\ CallsOf(q)' \subseteq CallsOf(q)
  BY DEF StepOf, TrailOf, CallsOf
<1>3. SentOf(q)' \subseteq SentOf(q)
  BY <1>2 DEF StepOf, SentOf, CallsOf
<1>4. trail \subseteq trail' /\ carried \subseteq carried' /\ redirected \subseteq redirected'
  BY DEF StepOf
<1> QED
  BY <1>1, <1>2, <1>3, <1>4, Untouched

\* It is enough to look at the request that makes the step.
LEMMA StepOfOne ==
    ASSUME IInv, NEW r \in Requests, StepOf(r), WellFormed', About(r)'
    PROVE  IInv'
BY OthersKept DEF IInv

-----------------------------------------------------------------------------
(* What the model's operators return.                                      *)

LEMMA NodeTargets ==
    ASSUME WellFormed, NEW n \in Nodes, NEW op \in SingleOps
    PROVE  Targets(n, op) \subseteq Ids \cup {BadId}
<1>1. node[n] \in Tables
  BY DEF WellFormed
<1>2. CASE op \in {"create_user", "delete_org"}
  BY <1>1, <1>2 DEF Targets, Tables
<1>3. CASE op \in UserOps
  BY <1>1, <1>3 DEF Targets, Tables, UserOps
<1>4. CASE op \in {"create_org", "server_action"}
  BY <1>4 DEF Targets, UserOps, Ids
<1> QED
  BY <1>2, <1>3, <1>4 DEF SingleOps

LEMMA JobsTyped ==
    ASSUME WellFormed, NEW n \in Nodes, NEW j \in Jobs(n)
    PROVE  j \in AllJobs /\ j # NoJob /\ j.node = n
<1> DEFINE Single(op) == [mode : {"single"}, op : {op}, node : {n},
                          targets : [1..1 -> Targets(n, op)]]
           Bulk(op) == [mode : {"bulk"}, op : {op}, node : {n},
                        targets : {f \in [Items -> Targets(n, op)] :
                                     op = "create_user" => f[1] = f[2]}]
           Email == [mode : {"email"}, op : {"issue_profile"}, node : {n},
                     targets : [1..1 -> Targets(n, "issue_profile")]]
<1>1. BulkOps \subseteq SingleOps /\ "issue_profile" \in SingleOps
  BY DEF BulkOps, SingleOps, UserOps
<1>2. ASSUME NEW op \in SingleOps, j \in Single(op) PROVE j \in AllJobs /\ j # NoJob /\ j.node = n
  BY <1>2, NodeTargets DEF AllJobs, NoJob
<1>3. ASSUME NEW op \in BulkOps, j \in Bulk(op) PROVE j \in AllJobs /\ j # NoJob /\ j.node = n
  <2>1. j \in [mode : {"bulk"}, op : {op}, node : {n}, targets : [Items -> Targets(n, op)]]
    BY <1>3
  <2> QED
    BY <1>1, <2>1, NodeTargets DEF AllJobs, NoJob
<1>4. ASSUME j \in Email PROVE j \in AllJobs /\ j # NoJob /\ j.node = n
  BY <1>1, <1>4, NodeTargets DEF AllJobs, NoJob
<1>5. \/ \E op \in SingleOps : j \in Single(op)
      \/ \E op \in BulkOps : j \in Bulk(op)
      \/ j \in Email
  BY DEF Jobs
<1> HIDE DEF Single, Bulk, Email
<1> QED
  BY <1>2, <1>3, <1>4, <1>5, Zenon

LEMMA JobShape ==
    ASSUME NEW j \in AllJobs
    PROVE  /\ j # NoJob /\ j.op \in SingleOps /\ j.node \in Nodes
           /\ j.mode \in {"single", "email", "bulk"}
           /\ DOMAIN j.targets = IF j.mode = "bulk" THEN Items ELSE 1..1
           /\ DOMAIN j.targets \subseteq Items
           /\ \A i \in DOMAIN j.targets : j.targets[i] \in Ids \cup {BadId}
<1>1. CASE j \in [mode : {"single", "email"}, op : SingleOps, node : Nodes,
                  targets : [1..1 -> Ids \cup {BadId}]]
  BY <1>1 DEF NoJob, Items
<1>2. CASE j \in [mode : {"bulk"}, op : SingleOps, node : Nodes,
                  targets : [Items -> Ids \cup {BadId}]]
  BY <1>2 DEF NoJob, Items
<1> QED
  BY <1>1, <1>2 DEF AllJobs

\* Whatever call a node carries out, its users stay in organisations it has.
LEMMA ExecutedTyped ==
    ASSUME NEW st \in Tables, Grounded(st), NEW c \in Calls, NEW new \in Executed(st, c)
    PROVE  new \in Tables /\ Grounded(new)
<1>0. c.op \in SingleOps \cup {"email_profile"} /\ c.m \in Ids /\ c.target \in Ids
  BY DEF Calls, Ids
<1> DEFINE Good(s) == s \in Tables /\ Grounded(s)
<1>1. ASSUME NEW u, NEW on \in BOOLEAN PROVE Good(ChangeUser(st, u, on))
  BY <1>1 DEF ChangeUser, Tables, Grounded
<1>2. CASE c.op = "create_org"
  BY <1>0, <1>2 DEF Executed, CreateOrg, Tables, Grounded
<1>3. CASE c.op = "delete_org"
  <2>1. new \in DeleteOrg(st, c)
    BY <1>3 DEF Executed
  <2>2. PICK o : new = [st EXCEPT !.orgs = @ \ {o}, !.users = {a \in @ : a.org # o}]
    BY <2>1 DEF DeleteOrg
  <2>3. new.orgs = st.orgs \ {o} /\ new.users = {a \in st.users : a.org # o}
    BY <2>2 DEF Tables
  <2> QED
    BY <2>2, <2>3 DEF Tables, Grounded
<1>4. CASE c.op = "create_user"
  <2>1. new \in CreateUser(st, c)
    BY <1>4 DEF Executed
  <2>2. PICK o \in st.orgs :
          new = [st EXCEPT !.users = @ \cup {[id |-> c.m, org |-> o, on |-> TRUE]}]
    BY <2>1 DEF CreateUser
  <2>3. /\ new.orgs = st.orgs
        /\ new.users = st.users \cup {[id |-> c.m, org |-> o, on |-> TRUE]}
    BY <2>2 DEF Tables
  <2>4. [id |-> c.m, org |-> o, on |-> TRUE] \in [id : Ids, org : Ids, on : BOOLEAN]
    BY <1>0 DEF Tables
  <2>5. new \in Tables
    BY <2>2, <2>3, <2>4 DEF Tables
  <2> QED
    BY <2>3, <2>5 DEF Grounded
<1>5. CASE c.op \in {"disable_user", "enable_user"}
  BY <1>1, <1>5 DEF Executed, SetDisabled
<1>6. CASE c.op = "revoke_profile"
  BY <1>1, <1>6 DEF Executed, Revoke
<1>7. CASE c.op = "delete_user"
  BY <1>0, <1>7 DEF Executed, DeleteUser, Tables, Grounded
<1>8. CASE c.op = "set_user_policy"
  BY <1>1, <1>8 DEF Executed, PatchUser
<1>9. CASE c.op \in {"issue_profile", "server_action", "email_profile"}
  BY <1>9 DEF Executed, Profile, ServerState
<1> QED
  BY <1>0, <1>2, <1>3, <1>4, <1>5, <1>6, <1>7, <1>8, <1>9 DEF SingleOps, UserOps

-----------------------------------------------------------------------------
(* The steps of a handler.                                                 *)

\* An idle handler has done nothing yet.
LEMMA IdleHandler ==
    Idle \in Handlers /\ \A r \in Requests : Holds(r, Idle)
BY DEF Idle, Handlers, Items, Holds, Distinct, Truthful, Entries

\* The call of the node for item h.at, if the handler is done with those before it.
LEMMA CallKeeps ==
    ASSUME WellFormed, NEW r \in Requests, NEW j \in AllJobs, NEW h \in Handlers,
           h.at \in DOMAIN j.targets, Holds(r, h),
           TrailOf(r) = {}, \A m \in SentOf(r) : m[2] < h.at,
           \A c \in CallsOf(r) : c.op = j.op,
           job' = [job EXCEPT ![r] = j], Call(r, j, h),
           UNCHANGED <<node, trail, carried, redirected, told, restarts>>
    PROVE  WellFormed' /\ StepOf(r) /\ About(r)'
<1>1. j.targets[h.at] \in Ids \cup {BadId} /\ j # NoJob /\ h.at \in Items
  BY JobShape DEF Handlers
<1>2. job \in [Requests -> AllJobs \cup {NoJob}] /\ handler \in [Requests -> Handlers]
  BY DEF WellFormed
<1>3. job'[r] = j /\ \A q \in Requests \ {r} : job'[q] = job[q]
  BY <1>2
<1>4. TrailOf(r)' = {} /\ trail' = trail /\ carried' = carried /\ redirected' = redirected
  BY DEF TrailOf
<1>5. j.mode = "email" => h.at = 1 /\ \A c \in CallsOf(r) : c.m[2] # 2
  <2>1. j.mode = "email" => h.at = 1
    BY JobShape
  <2>2. \A c \in CallsOf(r) : c.m[2] < h.at
    BY DEF SentOf
  <2> QED
    BY <2>1, <2>2
<1>6. Whole(r)'
  BY <1>4 DEF Whole
<1>7. CASE j.targets[h.at] = BadId
  <2>1. handler' = [handler EXCEPT ![r] = Raised(h)] /\ network' = network
    BY <1>7 DEF Call, Set
  <2>2. Raised(h) \in Handlers
    BY DEF Raised, Handlers, Entries
  <2>3. handler'[r] = Raised(h) /\ \A q \in Requests \ {r} : handler'[q] = handler[q]
    BY <1>2, <2>1
  <2>4. /\ Raised(h).pc = "answer" /\ Raised(h).log = {} /\ Raised(h).results = {}
        /\ Raised(h).fate = "error"
    BY DEF Raised, Handlers
  <2>5. WellFormed'
    BY <2>1, <2>2 DEF WellFormed
  <2>6. StepOf(r)
    BY <1>3, <1>4, <2>1, <2>3 DEF StepOf
  <2>7. Positioned(r)' /\ Session(r)' /\ Recorded(r)' /\ Heard(r)'
    BY <1>4, <2>3, <2>4 DEF Positioned, Session, Recorded, Heard, Distinct, Truthful, Accepted
  <2>8. SentOf(r)' = SentOf(r) /\ CallsOf(r)' = CallsOf(r)
    BY <1>4, <2>1 DEF SentOf, CallsOf
  <2>9. \A m \in SentOf(r) : m[1] = r /\ Accounted(m)'
    BY <1>3, <1>7, <2>3, <2>4 DEF SentOf, CallsOf, Accounted
  <2>10. Sends(r)'
    BY <1>3, <1>5, <2>3, <2>4, <2>8, <2>9 DEF Sends
  <2> QED
    BY <1>6, <2>5, <2>6, <2>7, <2>10 DEF About
<1>8. CASE j.targets[h.at] # BadId
  <2> DEFINE new == [h EXCEPT !.pc = "call", !.reply = "none"]
             c == [m |-> <<r, h.at>>, op |-> j.op, node |-> j.node, target |-> j.targets[h.at]]
  <2>1. handler' = [handler EXCEPT ![r] = new] /\ network' = network \cup {c}
    BY <1>8 DEF Call, Set
  <2>2. /\ new \in Handlers /\ new.pc = "call" /\ new.reply = "none" /\ new.at = h.at
        /\ new.log = h.log /\ new.results = h.results /\ new.fate = h.fate
    BY DEF Handlers
  <2>3. c \in Calls /\ c.m = <<r, h.at>> /\ c.op = j.op
    BY <1>1, <1>8 DEF Calls, Mutations, AllJobs
  <2> HIDE DEF new, c
  <2>4. handler'[r] = new /\ \A q \in Requests \ {r} : handler'[q] = handler[q]
    BY <1>2, <2>1
  <2>5. WellFormed'
    BY <2>1, <2>2, <2>3 DEF WellFormed
  <2>6. StepOf(r)
    BY <1>3, <1>4, <2>1, <2>3, <2>4 DEF StepOf
  <2>7. Positioned(r)' /\ Recorded(r)' /\ Heard(r)'
    BY <1>1, <1>3, <1>4, <1>8, <2>2, <2>4 DEF Positioned, Recorded, Heard, Distinct, Truthful,
                                          Accepted
  <2>8. Session(r)'
    BY <1>4, <2>2, <2>4 DEF Session, Holds, Distinct, Truthful, Accepted
  <2>9. SentOf(r)' = SentOf(r) \cup {c.m} /\ CallsOf(r)' = CallsOf(r) \cup {c}
    <3>1. CallsOf(r)' = CallsOf(r) \cup {c}
      BY <2>1, <2>3 DEF CallsOf
    <3> QED
      BY <1>4, <3>1 DEF SentOf
  <2>10. \A m \in SentOf(r)' : m[2] <= h.at
    <3>1. \A m \in SentOf(r) : m \in Mutations
      BY DEF SentOf, CallsOf, WellFormed, Calls
    <3> QED
      BY <1>1, <2>3, <2>9, <3>1 DEF Items, Mutations
  <2>11. \A d \in CallsOf(r)' : d.op = j.op /\ (j.mode = "email" => d.m[2] # 2)
    BY <1>5, <2>3, <2>9
  <2>12. Sends(r)'
    BY <1>3, <2>2, <2>4, <2>10, <2>11 DEF Sends
  <2> QED
    BY <1>6, <2>5, <2>6, <2>7, <2>8, <2>12 DEF About
<1> QED
  BY <1>7, <1>8

\* A handler ends: it commits `new`, and accounts for all it has sent.
LEMMA EndKeeps ==
    ASSUME IInv, NEW r \in Requests, NEW h \in Handlers, NEW new \in SUBSET Entries,
           handler[r].pc \notin {"answer", "done"},
           h.pc = "answer", h.log = {}, h.results \subseteq new,
           \A e \in new : e.m[1] = r, Distinct(new), Truthful(new),
           job[r].mode = "bulk" => {e.m[2] : e \in new} \in {{}, DOMAIN job[r].targets},
           Set(r, h), trail' = trail \cup new,
           UNCHANGED <<node, network, job, carried, redirected, told, restarts>>,
           \A m \in SentOf(r) : Accounted(m)'
    PROVE  WellFormed' /\ StepOf(r) /\ About(r)'
<1>1. WellFormed /\ About(r)
  BY DEF IInv
<1>2. /\ handler' = [handler EXCEPT ![r] = h] /\ handler'[r] = h
      /\ \A q \in Requests \ {r} : handler'[q] = handler[q]
  BY <1>1 DEF Set, WellFormed
<1>3. WellFormed'
  BY <1>1, <1>2 DEF WellFormed
<1>4. StepOf(r)
  BY <1>2 DEF StepOf
<1>5. TrailOf(r)' = new
  BY <1>1 DEF About, Recorded, TrailOf
<1>6. Positioned(r)' /\ Session(r)' /\ Heard(r)'
  BY <1>2 DEF Positioned, Session, Heard
<1>7. Recorded(r)'
  BY <1>2, <1>5 DEF Recorded, Truthful, Distinct, Accepted
<1>8. CallsOf(r)' = CallsOf(r) /\ SentOf(r)' = SentOf(r)
  BY DEF CallsOf, SentOf
<1>9. Sends(r)'
  BY <1>1, <1>2, <1>8 DEF About, Sends
<1>10. Whole(r)'
  BY <1>5 DEF Whole
<1> QED
  BY <1>3, <1>4, <1>6, <1>7, <1>9, <1>10 DEF About

LEMMA BeginKeeps ==
    ASSUME IInv, NEW r \in Requests, Begin(r)
    PROVE  WellFormed' /\ StepOf(r) /\ About(r)'
<1>1. WellFormed /\ About(r)
  BY DEF IInv
<1>2. PICK n \in Nodes : \E j \in Jobs(n) : job' = [job EXCEPT ![r] = j] /\ Call(r, j, Idle)
  BY DEF Begin
<1> PICK j \in Jobs(n) : job' = [job EXCEPT ![r] = j] /\ Call(r, j, Idle)
  BY <1>2
<1>3. j \in AllJobs /\ 1 \in DOMAIN j.targets
  BY <1>1, JobsTyped, JobShape DEF Items
<1>4. handler[r].pc = "idle" /\ UNCHANGED <<node, trail, carried, redirected, told, restarts>>
  BY DEF Begin
<1>5. TrailOf(r) = {} /\ SentOf(r) = {} /\ CallsOf(r) = {}
  BY <1>1, <1>4 DEF About, Recorded, Sends, SentOf
<1>6. Idle.at = 1
  BY DEF Idle
<1> QED
  BY <1>1, <1>3, <1>4, <1>5, <1>6, IdleHandler, CallKeeps

LEMMA BeginInVainKeeps ==
    ASSUME IInv, NEW r \in Requests, BeginInVain(r)
    PROVE  WellFormed' /\ StepOf(r) /\ About(r)'
<1>1. PICK fate \in {"not found", "error"} :
        Set(r, [Idle EXCEPT !.pc = "answer", !.fate = fate])
  BY DEF BeginInVain
<1> DEFINE h == [Idle EXCEPT !.pc = "answer", !.fate = fate]
<1>2. h \in Handlers /\ h.pc = "answer" /\ h.log = {} /\ h.results = {}
  <2>1. Idle.log = {} /\ Idle.results = {}
    BY DEF Idle
  <2> QED
    BY <2>1, IdleHandler DEF Handlers
<1>3. /\ handler[r].pc = "idle"
      /\ UNCHANGED <<node, network, job, trail, carried, redirected, told, restarts>>
  BY DEF BeginInVain
<1>4. SentOf(r) = {}
  BY <1>3 DEF IInv, About, Sends
<1> HIDE DEF h
<1> QED
  BY <1>1, <1>2, <1>3, <1>4, EndKeeps DEF h, Distinct, Truthful, Accepted

\* What a handler knows that waits for the answer of its node.
LEMMA AtItem ==
    ASSUME IInv, NEW r \in Requests, Waiting(r)
    PROVE  /\ job[r] \in AllJobs /\ handler[r] \in Handlers /\ handler[r].pc = "call"
           /\ handler[r].at \in DOMAIN job[r].targets /\ handler[r].at \in Items
           /\ Holds(r, handler[r]) /\ TrailOf(r) = {}
           /\ \A m \in SentOf(r) : m[1] = r /\ m \in Mutations /\ m[2] <= handler[r].at
<1>1. WellFormed /\ About(r) /\ handler[r].pc = "call"
  BY DEF IInv, Waiting
<1>2. job[r] \in AllJobs /\ handler[r] \in Handlers
  BY <1>1 DEF WellFormed, About, Positioned
<1>3. handler[r].at \in DOMAIN job[r].targets /\ handler[r].at \in Items
  BY <1>1, <1>2 DEF About, Positioned, Handlers
<1>4. Holds(r, handler[r]) /\ TrailOf(r) = {}
  BY <1>1 DEF About, Session, Recorded
<1>5. \A m \in SentOf(r) : m[1] = r /\ m \in Mutations /\ m[2] <= handler[r].at
  BY <1>1 DEF About, Sends, SentOf, CallsOf, WellFormed, Calls
<1> QED
  BY <1>1, <1>2, <1>3, <1>4, <1>5

\* The entry of the item a handler waits for is true.
LEMMA OutcomeTrue ==
    ASSUME IInv, NEW r \in Requests, handler[r].pc \in {"call", "mail"}, handler[r].reply # "none"
    PROVE  /\ Outcome(r) \in Entries /\ Outcome(r).m = <<r, handler[r].at>>
           /\ Truthful({Outcome(r)})
<1>1. WellFormed /\ About(r) /\ handler[r] \in Handlers
  BY DEF IInv, WellFormed
<1>2. handler[r].at \in Items /\ handler[r].reply \in {"ok", "garbled", "failed"}
  BY <1>1 DEF Handlers
<1>3. Outcome(r).m = <<r, handler[r].at>> /\ Outcome(r) \in Entries
  BY <1>2 DEF Outcome, Entry, Entries, Mutations
<1>4. Outcome(r).result = "success" => handler[r].reply = "ok"
  BY <1>2 DEF Outcome, Entry
<1> QED
  BY <1>1, <1>3, <1>4 DEF About, Heard, Truthful

LEMMA UnreadableKeeps ==
    ASSUME IInv, NEW r \in Requests, ResumeUnreadable(r)
    PROVE  WellFormed' /\ StepOf(r) /\ About(r)'
<1> DEFINE h == Raised(handler[r])
<1>1. Waiting(r) /\ handler[r].reply = "garbled" /\ Set(r, h)
  BY DEF ResumeUnreadable, Unreadable
<1>2. UNCHANGED <<node, network, job, trail, carried, redirected, told, restarts>>
  BY DEF ResumeUnreadable
<1>3. h \in Handlers /\ h.pc = "answer" /\ h.log = {} /\ h.results = {} /\ h.fate = "error"
  BY <1>1, AtItem, ZenonT(40) DEF Raised, Handlers, Entries
<1>4. h.reply = "garbled"
  BY <1>1, AtItem DEF Raised, Handlers
<1>5. handler'[r] = h
  BY <1>1 DEF Set, IInv, WellFormed
<1>6. \A m \in SentOf(r) : Accounted(m)'
  BY <1>1, <1>2, <1>3, <1>4, <1>5, AtItem DEF Accounted
<1> HIDE DEF h
<1> QED
  BY <1>1, <1>2, <1>3, <1>6, EndKeeps DEF Distinct, Truthful, Accepted, Waiting

LEMMA SingleKeeps ==
    ASSUME IInv, NEW r \in Requests, ResumeSingle(r)
    PROVE  WellFormed' /\ StepOf(r) /\ About(r)'
<1> DEFINE h == Reports(handler[r], {Outcome(r)})
<1>1. Waiting(r) /\ Set(r, h) /\ trail' = trail \cup {Outcome(r)} /\ job[r].mode = "single"
  BY DEF ResumeSingle, Commit
<1>2. UNCHANGED <<node, network, job, carried, redirected, told, restarts>>
  BY DEF ResumeSingle
<1>3. Outcome(r) \in Entries /\ Outcome(r).m = <<r, handler[r].at>> /\ Truthful({Outcome(r)})
  BY <1>1, OutcomeTrue DEF Waiting
<1>4. h \in Handlers /\ h.pc = "answer" /\ h.log = {} /\ h.results = {Outcome(r)}
  BY <1>1, <1>3, AtItem, ZenonT(40) DEF Reports, Handlers
<1>5. handler[r].at = 1
  BY <1>1, AtItem, JobShape
<1>6. \A m \in SentOf(r) : m = Outcome(r).m
  BY <1>1, <1>3, <1>5, AtItem DEF Mutations, Items
<1>7. \A m \in SentOf(r) : Accounted(m)'
  BY <1>1, <1>6 DEF Accounted
<1> HIDE DEF h
<1> QED
  BY <1>1, <1>2, <1>3, <1>4, <1>7, EndKeeps DEF Distinct, Waiting

LEMMA TargetsLen ==
    ASSUME NEW j \in AllJobs
    PROVE  Len(j.targets) = IF j.mode = "bulk" THEN 2 ELSE 1
<1> DEFINE S == Ids \cup {BadId}
<1>1. ASSUME NEW n \in Nat, j.targets \in [1..n -> S] PROVE Len(j.targets) = n
  BY <1>1
<1>2. CASE j.mode = "bulk"
  BY <1>1, <1>2 DEF AllJobs, Items
<1>3. CASE j.mode # "bulk"
  BY <1>1, <1>3 DEF AllJobs
<1> QED
  BY <1>2, <1>3

\* The handler's session once it has flushed the entry of the item it is at.
LEMMA RoundHolds ==
    ASSUME IInv, NEW r \in Requests, Waiting(r),
           NEW h \in Handlers, h.log = handler[r].log \cup {Outcome(r)},
           h.results = handler[r].results \cup {Outcome(r)}
    PROVE  /\ h.log \subseteq Entries /\ h.results = h.log /\ Distinct(h.log) /\ Truthful(h.log)
           /\ \A e \in h.log : e.m[1] = r /\ e.m[2] \in Items /\ e.m[2] <= handler[r].at
           /\ \A i \in Items : i <= handler[r].at => \E e \in h.log : e.m = <<r, i>>
<1>0. handler[r].at \in Items /\ handler[r] \in Handlers /\ Holds(r, handler[r])
  BY AtItem
<1>1. Outcome(r) \in Entries /\ Outcome(r).m = <<r, handler[r].at>> /\ Truthful({Outcome(r)})
  BY OutcomeTrue DEF Waiting
<1>2. h.log \subseteq Entries /\ h.results = h.log
  BY <1>0 DEF Holds, Handlers
<1>3. Truthful(h.log)
  BY <1>0, <1>1 DEF Holds, Truthful
<1>4. \A e \in handler[r].log : e.m[1] = r /\ e.m[2] \in Items /\ e.m[2] < handler[r].at
  BY <1>0 DEF Holds, Handlers, Entries, Mutations
<1>5. \A e \in handler[r].log : e.m # Outcome(r).m
  BY <1>0, <1>1, <1>4 DEF Items
<1>6. Distinct(h.log)
  BY <1>0, <1>5 DEF Holds, Distinct
<1>7. \A e \in h.log : e.m[1] = r /\ e.m[2] \in Items /\ e.m[2] <= handler[r].at
  BY <1>0, <1>1, <1>4 DEF Items
<1>8. ASSUME NEW i \in Items, i <= handler[r].at PROVE \E e \in h.log : e.m = <<r, i>>
  <2>1. CASE i = handler[r].at
    BY <1>1, <2>1
  <2>2. CASE i < handler[r].at
    BY <1>0, <2>2 DEF Holds
  <2> QED
    BY <1>0, <1>8, <2>1, <2>2 DEF Items
<1> QED
  BY <1>2, <1>3, <1>6, <1>7, <1>8

LEMMA BulkKeeps ==
    ASSUME IInv, NEW r \in Requests, ResumeBulk(r)
    PROVE  WellFormed' /\ StepOf(r) /\ About(r)'
<1> DEFINE h == [handler[r] EXCEPT !.log = @ \cup {Outcome(r)}, !.results = @ \cup {Outcome(r)}]
           next == [h EXCEPT !.at = @ + 1]
           last == Reports(h, h.results)
<1>0. WellFormed /\ About(r) /\ Waiting(r) /\ job[r].mode = "bulk"
  BY DEF IInv, ResumeBulk
<1>1. UNCHANGED <<node, job, carried, redirected, told, restarts>>
  BY DEF ResumeBulk
<1>2. \/ h.at < Len(job[r].targets) /\ Call(r, job[r], next) /\ trail' = trail
      \/ h.at = Len(job[r].targets) /\ Commit(h.log) /\ Set(r, last) /\ network' = network
  BY DEF ResumeBulk, BulkRound
<1>3. Outcome(r) \in Entries
  BY <1>0, OutcomeTrue DEF Waiting
<1>4. /\ h \in Handlers /\ h.at = handler[r].at /\ h.log = handler[r].log \cup {Outcome(r)}
      /\ h.results = handler[r].results \cup {Outcome(r)}
  BY <1>0, <1>3, AtItem, ZenonT(40) DEF Handlers
<1>5. /\ job[r] \in AllJobs /\ handler[r].at \in Items /\ TrailOf(r) = {}
      /\ DOMAIN job[r].targets = Items /\ Len(job[r].targets) = 2
  BY <1>0, AtItem, JobShape, TargetsLen
<1>6. \A m \in SentOf(r) : m \in Mutations /\ m[1] = r /\ m[2] <= handler[r].at
  BY <1>0, AtItem
<1> HIDE DEF h
<1>7. /\ h.log \subseteq Entries /\ h.results = h.log /\ Distinct(h.log) /\ Truthful(h.log)
      /\ \A e \in h.log : e.m[1] = r /\ e.m[2] \in Items /\ e.m[2] <= handler[r].at
      /\ \A i \in Items : i <= handler[r].at => \E e \in h.log : e.m = <<r, i>>
  BY <1>0, <1>4, RoundHolds
<1>8. CASE h.at < Len(job[r].targets) /\ Call(r, job[r], next) /\ trail' = trail
  <2>1. handler[r].at + 1 \in DOMAIN job[r].targets
    BY <1>4, <1>5, <1>8 DEF Items
  <2>2. /\ next \in Handlers /\ next.at = handler[r].at + 1 /\ next.log = h.log
        /\ next.results = h.results
    BY <1>4, <1>5, <2>1 DEF Handlers
  <2> HIDE DEF next
  <2>3. Holds(r, next)
    BY <1>5, <1>7, <2>2 DEF Holds, Items
  <2>4. \A m \in SentOf(r) : m[2] < next.at
    BY <1>5, <1>6, <2>2 DEF Mutations, Items
  <2>5. \A c \in CallsOf(r) : c.op = job[r].op
    BY <1>0 DEF About, Sends
  <2>6. job' = [job EXCEPT ![r] = job[r]]
    BY <1>0, <1>1 DEF WellFormed
  <2>7. next.at \in DOMAIN job[r].targets
    BY <2>1, <2>2
  <2> QED
    BY <1>0, <1>1, <1>5, <1>8, <2>2, <2>3, <2>4, <2>5, <2>6, <2>7, CallKeeps
<1>9. CASE h.at = Len(job[r].targets) /\ Commit(h.log) /\ Set(r, last) /\ network' = network
  <2>1. last \in Handlers /\ last.pc = "answer" /\ last.log = {} /\ last.results = h.results
    BY <1>4 DEF Reports, Handlers
  <2> HIDE DEF last
  <2>2. \A i \in Items : \E e \in h.log : e.m = <<r, i>>
    BY <1>4, <1>5, <1>9, <1>7 DEF Items
  <2>3. {e.m[2] : e \in h.log} = DOMAIN job[r].targets
    <3>1. \A i \in Items : \E e \in h.log : e.m[2] = i
      BY <2>2
    <3> QED
      BY <1>5, <1>7, <3>1
  <2>4. trail' = trail \cup h.log
    BY <1>9 DEF Commit
  <2>5. \A m \in SentOf(r) : Accounted(m)'
    <3>1. \A m \in SentOf(r) : m = <<r, m[2]>> /\ m[2] \in Items
      BY <1>6 DEF Mutations
    <3> QED
      BY <2>2, <2>4, <3>1 DEF Accounted
  <2> QED
    BY <1>0, <1>1, <1>9, <1>7, <2>1, <2>3, <2>4, <2>5, EndKeeps DEF Waiting
<1> QED
  BY <1>2, <1>8, <1>9

LEMMA EmailKeeps ==
    ASSUME IInv, NEW r \in Requests, ResumeEmail(r)
    PROVE  WellFormed' /\ StepOf(r) /\ About(r)'
<1>0. WellFormed /\ About(r) /\ Waiting(r) /\ job[r].mode = "email"
  BY DEF IInv, ResumeEmail
<1>1. UNCHANGED <<node, network, job, trail, carried, redirected, told, restarts>>
  BY DEF ResumeEmail
<1>2. handler[r] \in Handlers /\ handler[r].at = 1 /\ TrailOf(r) = {}
  BY <1>0, AtItem, JobShape
<1>3. handler[r].log = {} /\ handler[r].results = {}
  <2>1. \A e \in handler[r].log : e.m[2] \in Items /\ e.m[2] < 1
    BY <1>0, <1>2, AtItem DEF Holds, Handlers, Entries, Mutations
  <2> QED
    BY <1>0, <2>1, AtItem DEF Holds, Items
<1>4. \A m \in SentOf(r) : m[1] = r /\ m[2] = 1
  BY <1>0, <1>2, AtItem DEF Mutations, Items
<1>5. CASE Set(r, [handler[r] EXCEPT !.pc = "answer", !.fate = "declined"])
  <2> DEFINE h == [handler[r] EXCEPT !.pc = "answer", !.fate = "declined"]
  <2>1. h \in Handlers /\ h.pc = "answer" /\ h.log = {} /\ h.results = {}
    BY <1>2, <1>3 DEF Handlers
  <2>2. \A m \in SentOf(r) : Accounted(m)'
    BY <1>0, <1>1, <1>4 DEF Accounted
  <2> HIDE DEF h
  <2> QED
    BY <1>0, <1>1, <1>5, <2>1, <2>2, EndKeeps DEF h, Distinct, Truthful, Accepted, Waiting
<1>6. CASE Set(r, [handler[r] EXCEPT !.pc = "close"])
  <2> DEFINE h == [handler[r] EXCEPT !.pc = "close"]
  <2>1. /\ h \in Handlers /\ h.pc = "close" /\ h.log = {} /\ h.results = {} /\ h.at = 1
    BY <1>2, <1>3 DEF Handlers
  <2>2. /\ handler' = [handler EXCEPT ![r] = h] /\ handler'[r] = h
        /\ \A q \in Requests \ {r} : handler'[q] = handler[q]
    BY <1>0, <1>6 DEF Set, WellFormed
  <2> HIDE DEF h
  <2>3. WellFormed'
    BY <1>0, <1>1, <2>1, <2>2 DEF WellFormed
  <2>4. StepOf(r)
    BY <1>1, <2>2 DEF StepOf
  <2>5. Positioned(r)' /\ Session(r)' /\ Heard(r)'
    <3>1. job[r] # NoJob /\ job[r].targets[1] # BadId
      BY <1>0, <1>2 DEF About, Positioned, Waiting
    <3> QED
      BY <1>0, <1>1, <2>1, <2>2, <3>1 DEF Positioned, Session, Heard
  <2>6. TrailOf(r)' = TrailOf(r) /\ CallsOf(r)' = CallsOf(r) /\ SentOf(r)' = SentOf(r)
    BY <1>1 DEF TrailOf, CallsOf, SentOf
  <2>7. Recorded(r)' /\ Whole(r)'
    BY <1>2, <2>1, <2>2, <2>6 DEF Recorded, Whole, Distinct, Truthful, Accepted
  <2>8. Sends(r)'
    BY <1>0, <1>1, <1>4, <2>1, <2>2, <2>6 DEF Sends, About
  <2> QED
    BY <2>3, <2>4, <2>5, <2>7, <2>8 DEF About
<1> QED
  BY <1>5, <1>6 DEF ResumeEmail

LEMMA DeliverKeeps ==
    ASSUME IInv, NEW r \in Requests, Deliver(r)
    PROVE  WellFormed' /\ StepOf(r) /\ About(r)'
<1>0. /\ WellFormed /\ About(r) /\ handler[r].pc = "close" /\ handler[r] \in Handlers
      /\ handler[r].at = 1 /\ handler[r].log = {} /\ handler[r].results = {}
      /\ job[r].mode = "email" /\ job[r] \in AllJobs /\ TrailOf(r) = {}
  BY DEF IInv, WellFormed, Deliver, About, Positioned, Session, Recorded
<1>1. UNCHANGED <<node, job, trail, carried, redirected, told, restarts>>
  BY DEF Deliver
<1>2. \A m \in SentOf(r) : m[1] = r /\ m[2] = 1
  <2>1. \A m \in SentOf(r) : m \in Mutations /\ m[1] = r
    BY <1>0 DEF SentOf, CallsOf, WellFormed, Calls
  <2>2. \A m \in SentOf(r) : m[2] <= 1
    BY <1>0 DEF About, Sends
  <2> QED
    BY <2>1, <2>2 DEF Mutations, Items
<1>3. CASE Set(r, [handler[r] EXCEPT !.pc = "answer", !.fate = "declined"]) /\ network' = network
  <2> DEFINE h == [handler[r] EXCEPT !.pc = "answer", !.fate = "declined"]
  <2>1. h \in Handlers /\ h.pc = "answer" /\ h.log = {} /\ h.results = {}
    BY <1>0 DEF Handlers
  <2>2. \A m \in SentOf(r) : Accounted(m)'
    BY <1>0, <1>1, <1>2 DEF Accounted
  <2> HIDE DEF h
  <2> QED
    BY <1>0, <1>1, <1>3, <2>1, <2>2, EndKeeps DEF h, Distinct, Truthful, Accepted
<1>4. CASE /\ Set(r, [handler[r] EXCEPT !.pc = "mail", !.at = 2, !.reply = "none"])
           /\ network' = network \cup {[m |-> <<r, 2>>, op |-> "email_profile",
                                       node |-> job[r].node, target |-> job[r].targets[1]]}
  <2> DEFINE h == [handler[r] EXCEPT !.pc = "mail", !.at = 2, !.reply = "none"]
             c == [m |-> <<r, 2>>, op |-> "email_profile",
                   node |-> job[r].node, target |-> job[r].targets[1]]
  <2>1. /\ h \in Handlers /\ h.pc = "mail" /\ h.log = {} /\ h.results = {} /\ h.at = 2
        /\ h.reply = "none"
    <3>1. 2 \in Items
      BY DEF Items
    <3> QED
      BY <1>0, <3>1 DEF Handlers
  <2>2. job[r].targets[1] \in Ids
    BY <1>0, JobShape DEF About, Positioned
  <2>3. c \in Calls /\ c.m = <<r, 2>> /\ c.op = "email_profile"
    BY <1>0, <2>2, JobShape DEF Calls, Mutations, Items
  <2>4. /\ handler' = [handler EXCEPT ![r] = h] /\ handler'[r] = h
        /\ \A q \in Requests \ {r} : handler'[q] = handler[q]
    BY <1>0, <1>4 DEF Set, WellFormed
  <2>5. network' = network \cup {c}
    BY <1>4
  <2> HIDE DEF h, c
  <2>6. WellFormed'
    BY <1>0, <1>1, <2>1, <2>3, <2>4, <2>5 DEF WellFormed
  <2>7. StepOf(r)
    BY <1>1, <2>3, <2>4, <2>5 DEF StepOf
  <2>8. Positioned(r)' /\ Session(r)' /\ Heard(r)'
    BY <1>0, <1>1, <2>1, <2>4, JobShape DEF Positioned, Session, Heard
  <2>9. /\ TrailOf(r)' = TrailOf(r) /\ CallsOf(r)' = CallsOf(r) \cup {c}
        /\ SentOf(r)' = SentOf(r) \cup {c.m}
    <3>1. TrailOf(r)' = TrailOf(r) /\ CallsOf(r)' = CallsOf(r) \cup {c}
      BY <1>1, <2>3, <2>5 DEF TrailOf, CallsOf
    <3> QED
      BY <1>1, <3>1 DEF SentOf
  <2>10. Recorded(r)' /\ Whole(r)'
    BY <1>0, <1>1, <2>1, <2>4, <2>9 DEF Recorded, Whole, Distinct, Truthful, Accepted
  <2>11. Sends(r)'
    BY <1>0, <1>1, <1>2, <2>1, <2>3, <2>4, <2>9 DEF Sends, About
  <2> QED
    BY <2>6, <2>7, <2>8, <2>10, <2>11 DEF About
<1> QED
  BY <1>3, <1>4 DEF Deliver

LEMMA MailKeeps ==
    ASSUME IInv, NEW r \in Requests, MailEnds(r)
    PROVE  WellFormed' /\ StepOf(r) /\ About(r)'
<1> DEFINE h == Reports(handler[r], {Outcome(r)})
<1>0. /\ WellFormed /\ About(r) /\ handler[r].pc = "mail" /\ handler[r] \in Handlers
      /\ handler[r].reply # "none" /\ handler[r].at = 2 /\ job[r].mode = "email"
  BY DEF IInv, WellFormed, MailEnds, About, Positioned
<1>1. /\ UNCHANGED <<node, network, job, carried, redirected, told, restarts>>
      /\ Set(r, h) /\ trail' = trail \cup {Outcome(r)}
  BY DEF MailEnds, Commit
<1>2. Outcome(r) \in Entries /\ Outcome(r).m = <<r, 2>> /\ Truthful({Outcome(r)})
  BY <1>0, OutcomeTrue
<1>3. h \in Handlers /\ h.pc = "answer" /\ h.log = {} /\ h.results = {Outcome(r)}
  BY <1>0, <1>2 DEF Reports, Handlers
<1>4. \A m \in SentOf(r) : m = <<r, m[2]>> /\ m[1] = r /\ m[2] \in Items
  BY <1>0 DEF SentOf, CallsOf, WellFormed, Calls, Mutations
<1>5. \A m \in SentOf(r) : m[2] = 1 \/ m = <<r, 2>>
  BY <1>4 DEF Items
<1>6. \A m \in SentOf(r) : Accounted(m)'
  BY <1>0, <1>1, <1>2, <1>4, <1>5 DEF Accounted
<1> HIDE DEF h
<1> QED
  BY <1>0, <1>1, <1>2, <1>3, <1>6, EndKeeps DEF Distinct

LEMMA AnswersKeeps ==
    ASSUME IInv, NEW r \in Requests, Answers(r)
    PROVE  WellFormed' /\ StepOf(r) /\ About(r)'
<1> DEFINE h == [handler[r] EXCEPT !.pc = "done"]
<1>0. WellFormed /\ About(r) /\ handler[r].pc = "answer" /\ handler[r] \in Handlers
  BY DEF IInv, WellFormed, Answers
<1>1. /\ UNCHANGED <<node, network, job, trail, carried, redirected, restarts>>
      /\ handler' = [handler EXCEPT ![r] = h] /\ told' = told \cup handler[r].results
  BY DEF Answers, Set
<1>2. /\ h \in Handlers /\ h.pc = "done" /\ h.log = handler[r].log
      /\ h.results = handler[r].results /\ h.fate = handler[r].fate
      /\ h.reply = handler[r].reply
  BY <1>0 DEF Handlers
<1> HIDE DEF h
<1>3. handler'[r] = h /\ \A q \in Requests \ {r} : handler'[q] = handler[q]
  BY <1>0, <1>1 DEF WellFormed
<1>4. TrailOf(r)' = TrailOf(r) /\ CallsOf(r)' = CallsOf(r) /\ SentOf(r)' = SentOf(r)
  BY <1>1 DEF TrailOf, CallsOf, SentOf
<1>5. WellFormed'
  BY <1>0, <1>1, <1>2 DEF WellFormed, About, Recorded, TrailOf
<1>6. StepOf(r)
  BY <1>1, <1>3 DEF StepOf
<1>7. Positioned(r)' /\ Session(r)' /\ Heard(r)'
  BY <1>0, <1>2, <1>3 DEF Positioned, Session, Heard, About
<1>8. Recorded(r)' /\ Whole(r)'
  BY <1>0, <1>1, <1>2, <1>3, <1>4 DEF About, Recorded, Whole, Distinct, Truthful, Accepted
<1>9. \A m \in SentOf(r) : m[1] = r /\ Accounted(m)'
  <2>1. \A m \in SentOf(r) : m[1] = r /\ Accounted(m)
    BY <1>0 DEF About, Sends, SentOf, CallsOf
  <2> QED
    BY <1>1, <1>2, <1>3, <2>1 DEF Accounted
<1>10. Sends(r)'
  BY <1>0, <1>1, <1>2, <1>3, <1>4, <1>9 DEF About, Sends
<1> QED
  BY <1>5, <1>6, <1>7, <1>8, <1>10 DEF About

\* A handler that waits hears `reply`: ok only of what was carried out or redirected.
LEMMA HearingKeeps ==
    ASSUME IInv, NEW r \in Requests, NEW reply \in {"ok", "garbled", "failed"},
           handler[r].pc \in {"call", "mail"}, Set(r, [handler[r] EXCEPT !.reply = reply]),
           reply = "ok" => <<r, handler[r].at>> \in Accepted',
           carried \subseteq carried', redirected \subseteq redirected',
           network' \subseteq network,
           \A m \in carried' \ carried : m \in {c.m : c \in network},
           UNCHANGED <<job, trail>>
    PROVE  StepOf(r) /\ About(r)' /\ handler' \in [Requests -> Handlers]
<1> DEFINE h == [handler[r] EXCEPT !.reply = reply]
<1>0. WellFormed /\ About(r) /\ handler[r] \in Handlers
  BY DEF IInv, WellFormed
<1>1. /\ h \in Handlers /\ h.pc = handler[r].pc /\ h.log = handler[r].log /\ h.at = handler[r].at
      /\ h.results = handler[r].results /\ h.reply = reply
  BY <1>0 DEF Handlers
<1>2. handler' = [handler EXCEPT ![r] = h]
  BY DEF Set
<1> HIDE DEF h
<1>3. /\ handler' \in [Requests -> Handlers] /\ handler'[r] = h
      /\ \A q \in Requests \ {r} : handler'[q] = handler[q]
  BY <1>0, <1>1, <1>2 DEF WellFormed
<1>4. TrailOf(r)' = TrailOf(r) /\ CallsOf(r)' \subseteq CallsOf(r)
  BY DEF TrailOf, CallsOf
<1>5. SentOf(r)' \subseteq SentOf(r)
  BY <1>4 DEF SentOf, CallsOf
<1>6. StepOf(r)
  BY <1>3 DEF StepOf
<1>7. Positioned(r)' /\ Heard(r)'
  BY <1>0, <1>1, <1>3 DEF Positioned, Heard, About
<1>8. Session(r)'
  BY <1>0, <1>1, <1>3 DEF Session, Holds, About, Distinct, Truthful, Accepted
<1>9. Recorded(r)' /\ Whole(r)'
  BY <1>0, <1>1, <1>3, <1>4 DEF About, Recorded, Whole, Distinct, Truthful, Accepted
<1>10. Sends(r)'
  BY <1>0, <1>1, <1>3, <1>4, <1>5 DEF About, Sends
<1> QED
  BY <1>3, <1>6, <1>7, <1>8, <1>9, <1>10 DEF About

LEMMA TimesOutKeeps ==
    ASSUME IInv, NEW r \in Requests, TimesOut(r)
    PROVE  WellFormed' /\ StepOf(r) /\ About(r)'
<1>1. StepOf(r) /\ About(r)' /\ handler' \in [Requests -> Handlers]
  BY HearingKeeps DEF TimesOut
<1> QED
  BY <1>1 DEF TimesOut, IInv, WellFormed

-----------------------------------------------------------------------------
(* The steps of the nodes and the mail provider, and the crash.            *)

\* Whether or not its handler still waits for it, an answer keeps what IInv says.
LEMMA AnswerKeeps ==
    ASSUME IInv, NEW c \in network, NEW reply \in {"ok", "garbled", "failed"},
           Answer(c, reply), reply = "ok" => c.m \in Accepted',
           network' = network \ {c}, carried' = carried \/ carried' = carried \cup {c.m},
           redirected' = redirected \/ redirected' = redirected \cup {c.m},
           UNCHANGED <<job, trail, told, restarts>>,
           node' \in [Nodes -> Tables] /\ \A n \in Nodes : Grounded(node'[n])
    PROVE  IInv'
<1> DEFINE r == c.m[1]
           waits == handler[r].pc \in {"call", "mail"} /\ handler[r].at = c.m[2]
                    /\ handler[r].reply = "none"
<1>0. WellFormed /\ c \in Calls /\ r \in Requests /\ c.m \in Mutations /\ c.m = <<r, c.m[2]>>
  BY DEF IInv, WellFormed, Calls, Mutations
<1>1. About(r) /\ handler[r] \in Handlers /\ c \in CallsOf(r)
  BY <1>0 DEF IInv, WellFormed, CallsOf
<1>3. StepOf(r) /\ About(r)' /\ handler' \in [Requests -> Handlers]
  <2>1. CASE waits
    <3>1. Set(r, [handler[r] EXCEPT !.reply = reply])
      BY <2>1 DEF Answer
    <3>2. reply = "ok" => <<r, handler[r].at>> \in Accepted'
      BY <1>0, <2>1
    <3>4. /\ carried \subseteq carried' /\ redirected \subseteq redirected'
          /\ network' \subseteq network
          /\ \A m \in carried' \ carried : m \in {d.m : d \in network}
      OBVIOUS
    <3> QED
      BY <1>0, <2>1, <3>1, <3>2, <3>4, HearingKeeps
  <2>2. CASE ~waits
    <3>1. handler' = handler
      BY <1>0, <2>2 DEF Answer, Set, WellFormed
    <3>2. StepOf(r)
      BY <3>1 DEF StepOf
    <3>3. TrailOf(r)' = TrailOf(r) /\ CallsOf(r)' \subseteq CallsOf(r)
      BY DEF TrailOf, CallsOf
    <3>4. SentOf(r)' \subseteq SentOf(r)
      BY <1>1, <3>3 DEF SentOf, CallsOf
    <3>5. About(r)'
      BY <1>0, <1>1, <3>1, <3>3, <3>4, Untouched
    <3> QED
      BY <1>0, <3>1, <3>2, <3>5 DEF WellFormed
  <2> QED
    BY <2>1, <2>2
<1>4. WellFormed'
  BY <1>0, <1>3 DEF WellFormed
<1> QED
  BY <1>0, <1>3, <1>4, StepOfOne

LEMMA CarriesOutKeeps ==
    ASSUME IInv, CarriesOut
    PROVE  IInv'
<1>0. WellFormed
  BY DEF IInv
<1>1. PICK c \in network, reply \in {"ok", "garbled", "failed"} :
        /\ \E st \in Executed(node[c.node], c) : node' = [node EXCEPT ![c.node] = st]
        /\ network' = network \ {c}
        /\ carried' = carried \cup {c.m}
        /\ Answer(c, reply)
        /\ UNCHANGED <<job, trail, redirected, told, restarts>>
  BY DEF CarriesOut
<1>2. PICK st \in Executed(node[c.node], c) : node' = [node EXCEPT ![c.node] = st]
  BY <1>1
<1>3. c \in Calls /\ c.node \in Nodes /\ node[c.node] \in Tables /\ Grounded(node[c.node])
  BY <1>0 DEF WellFormed, Calls
<1>4. st \in Tables /\ Grounded(st)
  BY <1>3, ExecutedTyped
<1>5. node' \in [Nodes -> Tables] /\ \A n \in Nodes : Grounded(node'[n])
  BY <1>0, <1>2, <1>4 DEF WellFormed
<1> QED
  BY <1>1, <1>5, AnswerKeeps DEF Accepted

LEMMA RefusesKeeps ==
    ASSUME IInv, Refuses
    PROVE  IInv'
<1>1. PICK c \in network, reply \in {"garbled", "failed"} :
        /\ network' = network \ {c}
        /\ Answer(c, reply)
        /\ UNCHANGED <<node, job, trail, carried, redirected, told, restarts>>
  BY DEF Refuses
<1>2. node' \in [Nodes -> Tables] /\ \A n \in Nodes : Grounded(node'[n])
  BY <1>1 DEF IInv, WellFormed
<1> QED
  BY <1>1, <1>2, AnswerKeeps

LEMMA RedirectsKeeps ==
    ASSUME IInv, Redirects
    PROVE  IInv'
<1>1. PICK c \in network :
        /\ network' = network \ {c}
        /\ redirected' = redirected \cup {c.m}
        /\ Answer(c, IF c.op \in ParsedOps THEN "garbled" ELSE "ok")
        /\ UNCHANGED <<node, job, trail, carried, told, restarts>>
  BY DEF Redirects
<1>2. PICK reply \in {"garbled", "ok"} : Answer(c, reply)
  BY <1>1
<1>3. node' \in [Nodes -> Tables] /\ \A n \in Nodes : Grounded(node'[n])
  BY <1>1 DEF IInv, WellFormed
<1>4. c.m \in Accepted'
  BY <1>1 DEF Accepted
<1> QED
  BY <1>1, <1>2, <1>3, <1>4, AnswerKeeps

LEMMA RestartKeeps ==
    ASSUME IInv, Restart
    PROVE  IInv'
<1> DEFINE dead == [Idle EXCEPT !.pc = "done", !.fate = "crashed"]
<1>0. WellFormed /\ UNCHANGED <<node, network, job, trail, carried, redirected, told>>
  BY DEF IInv, Restart
<1>1. /\ dead \in Handlers /\ dead.pc = "done" /\ dead.fate = "crashed"
      /\ dead.log = {} /\ dead.results = {}
  <2>1. Idle.log = {} /\ Idle.results = {}
    BY DEF Idle
  <2> QED
    BY <2>1, IdleHandler DEF Handlers
<1> HIDE DEF dead
<1>2. \A r \in Requests : handler'[r] = IF handler[r].pc \in {"idle", "done"} THEN handler[r]
                                        ELSE dead
  BY DEF Restart, dead
<1>3. handler' \in [Requests -> Handlers]
  BY <1>0, <1>1 DEF Restart, WellFormed, dead
<1>4. WellFormed'
  BY <1>0, <1>3, RestartsAssumption DEF WellFormed, Restart
<1>5. ASSUME NEW r \in Requests PROVE About(r)'
  <2>0. About(r) /\ TrailOf(r)' = TrailOf(r) /\ CallsOf(r)' = CallsOf(r) /\ SentOf(r)' = SentOf(r)
    BY <1>0 DEF IInv, TrailOf, CallsOf, SentOf
  <2>1. \A m \in SentOf(r) : m[1] = r
    BY DEF SentOf, CallsOf
  <2>2. CASE handler[r].pc \in {"idle", "done"}
    <3>1. handler'[r] = handler[r]
      BY <1>2, <2>2
    <3> QED
      BY <1>0, <2>0, <3>1, Untouched
  <2>3. CASE handler[r].pc \notin {"idle", "done"}
    <3>1. handler'[r] = dead
      BY <1>2, <2>3
    <3>2. \A m \in SentOf(r) : Accounted(m)'
      BY <1>1, <2>1, <3>1 DEF Accounted
    <3>3. Positioned(r)' /\ Session(r)' /\ Heard(r)'
      BY <1>1, <3>1 DEF Positioned, Session, Heard
    <3>4. Recorded(r)' /\ Whole(r)'
      BY <1>0, <1>1, <2>0, <3>1 DEF About, Recorded, Whole, Distinct, Truthful, Accepted
    <3>5. Sends(r)'
      BY <1>0, <1>1, <2>0, <3>1, <3>2 DEF About, Sends
    <3> QED
      BY <3>3, <3>4, <3>5 DEF About
  <2> QED
    BY <2>2, <2>3
<1> QED
  BY <1>4, <1>5 DEF IInv

-----------------------------------------------------------------------------
LEMMA InitEstablishes == Init => IInv
<1> SUFFICES ASSUME Init PROVE IInv
  OBVIOUS
<1>1. WellFormed
  <2>1. Seed \in Ids /\ Idle \in Handlers
    BY IdleHandler DEF Ids
  <2>2. [orgs |-> {Seed}, users |-> {[id |-> Seed, org |-> Seed, on |-> TRUE]}] \in Tables
    BY <2>1 DEF Tables
  <2> QED
    BY <2>1, <2>2, RestartsAssumption DEF Init, WellFormed, Grounded
<1>2. ASSUME NEW r \in Requests PROVE About(r)
  <2>1. /\ handler[r] = Idle /\ job[r] = NoJob
        /\ TrailOf(r) = {} /\ CallsOf(r) = {} /\ SentOf(r) = {}
    BY DEF Init, TrailOf, CallsOf, SentOf
  <2>2. Positioned(r) /\ Session(r) /\ Heard(r)
    BY <2>1 DEF Positioned, Session, Heard, Idle
  <2>3. Recorded(r) /\ Sends(r) /\ Whole(r)
    BY <2>1 DEF Recorded, Sends, Whole, Distinct, Truthful, Accepted, Idle, NoJob
  <2> QED
    BY <2>2, <2>3 DEF About
<1> QED
  BY <1>1, <1>2 DEF IInv

LEMMA StepPreserves ==
    ASSUME IInv, [Next]_vars
    PROVE  IInv'
<1>1. ASSUME NEW r \in Requests, Begin(r) PROVE IInv'
  BY <1>1, BeginKeeps, StepOfOne
<1>2. ASSUME NEW r \in Requests, BeginInVain(r) PROVE IInv'
  BY <1>2, BeginInVainKeeps, StepOfOne
<1>3. ASSUME NEW r \in Requests, ResumeUnreadable(r) PROVE IInv'
  BY <1>3, UnreadableKeeps, StepOfOne
<1>4. ASSUME NEW r \in Requests, ResumeSingle(r) PROVE IInv'
  BY <1>4, SingleKeeps, StepOfOne
<1>5. ASSUME NEW r \in Requests, ResumeBulk(r) PROVE IInv'
  BY <1>5, BulkKeeps, StepOfOne
<1>6. ASSUME NEW r \in Requests, ResumeEmail(r) PROVE IInv'
  BY <1>6, EmailKeeps, StepOfOne
<1>7. ASSUME NEW r \in Requests, Deliver(r) PROVE IInv'
  BY <1>7, DeliverKeeps, StepOfOne
<1>8. ASSUME NEW r \in Requests, MailEnds(r) PROVE IInv'
  BY <1>8, MailKeeps, StepOfOne
<1>9. ASSUME NEW r \in Requests, Answers(r) PROVE IInv'
  BY <1>9, AnswersKeeps, StepOfOne
<1>10. ASSUME NEW r \in Requests, TimesOut(r) PROVE IInv'
  BY <1>10, TimesOutKeeps, StepOfOne
<1>11. CASE UNCHANGED vars
  <2>1. WellFormed'
    BY <1>11 DEF vars, IInv, WellFormed
  <2>2. ASSUME NEW r \in Requests PROVE About(r)'
    BY <1>11, Untouched DEF vars, IInv, TrailOf, CallsOf, SentOf
  <2> QED
    BY <2>1, <2>2 DEF IInv
<1> QED
  BY <1>1, <1>2, <1>3, <1>4, <1>5, <1>6, <1>7, <1>8, <1>9, <1>10, <1>11,
     CarriesOutKeeps, RefusesKeeps, RedirectsKeeps, RestartKeeps DEF Next, Handler

LEMMA Invariance == Spec => []IInv
<1>1. Init => IInv
  BY InitEstablishes
<1>2. IInv /\ [Next]_vars => IInv'
  BY StepPreserves
<1> QED
  BY <1>1, <1>2, PTL DEF Spec

-----------------------------------------------------------------------------
\* Nodes, calls, sessions and entries have their types, and only the handler of a
\* bulk request holds uncommitted entries while it waits.
THEOREM Typed == Spec => []TypeOK
<1>1. ASSUME IInv PROVE TypeOK
  <2>1. WellFormed
    BY <1>1 DEF IInv
  <2>2. ASSUME NEW n \in Nodes, NEW u \in node[n].users
        PROVE  u.id \in Mutations \cup {Seed} /\ u.org \in node[n].orgs
    BY <2>1 DEF WellFormed, Tables, Ids, Grounded
  <2>3. \A c \in network : c.m \in Mutations /\ c.node \in Nodes
    BY <2>1 DEF WellFormed, Calls
  <2>4. /\ trail \subseteq Entries /\ told \subseteq Entries
        /\ carried \subseteq Mutations /\ redirected \subseteq Mutations
    BY <2>1 DEF WellFormed
  <2>5. ASSUME NEW r \in Requests
        PROVE  /\ handler[r].results \subseteq Entries
               /\ handler[r].log \subseteq handler[r].results
               /\ handler[r].log # {} => handler[r].pc = "call" /\ job[r].mode = "bulk"
    <3>0. handler[r] \in Handlers /\ Positioned(r) /\ Session(r)
      BY <1>1, <2>1 DEF IInv, About, WellFormed
    <3>1. handler[r].log # {} => handler[r].pc = "call" /\ Holds(r, handler[r])
      BY <3>0 DEF Session
    <3>2. ASSUME handler[r].pc = "call", Holds(r, handler[r]), handler[r].log # {},
                 job[r].mode # "bulk"
          PROVE  FALSE
      <4>1. job[r] \in AllJobs /\ handler[r].at = 1
        BY <2>1, <3>0, <3>2, JobShape DEF WellFormed, Positioned
      <4>2. PICK e \in handler[r].log : e.m[2] \in Items /\ e.m[2] < 1
        BY <3>0, <3>2, <4>1 DEF Holds, Handlers, Entries, Mutations
      <4> QED
        BY <4>2 DEF Items
    <3> QED
      BY <3>0, <3>1, <3>2 DEF Handlers, Holds
  <2> QED
    BY <2>1, <2>2, <2>3, <2>4, <2>5 DEF TypeOK, WellFormed
<1> QED
  BY <1>1, Invariance, PTL

\* Whatever a node carried out for a request that is over has its entry, but for the
\* cases the property names.
THEOREM Accounting == Spec => []CarriedIsAccounted
<1>1. ASSUME IInv PROVE CarriedIsAccounted
  <2> SUFFICES ASSUME NEW m \in carried, handler[m[1]].pc = "done" PROVE Accounted(m)
    BY DEF CarriedIsAccounted, Accounted
  <2>1. m[1] \in Requests /\ m \in SentOf(m[1])
    BY <1>1 DEF IInv, WellFormed, Mutations, SentOf
  <2> QED
    BY <1>1, <2>1 DEF IInv, About, Sends
<1> QED
  BY <1>1, Invariance, PTL

\* The log has the entries of all items of a bulk request, or of none.
THEOREM AllOrNothing == Spec => []BulkIsWhole
<1>1. ASSUME IInv PROVE BulkIsWhole
  BY <1>1 DEF IInv, About, Whole, TrailOf, BulkIsWhole
<1> QED
  BY <1>1, Invariance, PTL

-----------------------------------------------------------------------------
(* The handlers implement MutationTrail: each of their steps records, or   *)
(* tells, or changes nothing that it promises.                             *)

\* A handler that commits takes a Record step.
LEMMA CommitRecords ==
    ASSUME NEW r \in Requests, NEW new \in SUBSET Entries, TrailOf(r) = {},
           \A e \in new : e.m[1] = r, Distinct(new), Truthful(new),
           trail' = trail \cup new, UNCHANGED <<carried, redirected, told>>
    PROVE  Trail!Record(r)
<1>1. new \subseteq Trail!EntriesOf(r)
  BY DEF Entries, Mutations, Trail!EntriesOf, Trail!Results
<1>2. ASSUME NEW e \in new, NEW f \in trail \cup (new \ {e}) PROVE f.m # e.m
  BY DEF TrailOf, Distinct
<1> QED
  BY <1>1, <1>2 DEF Trail!Record, Truthful, Accepted

LEMMA StepImplements ==
    ASSUME IInv, [Next]_vars
    PROVE  [Trail!Next]_(Trail!vars)
<1>0. WellFormed
  BY DEF IInv
<1>1. ASSUME NEW r \in Requests, ResumeSingle(r) \/ MailEnds(r) PROVE Trail!Record(r)
  <2>1. /\ handler[r].pc \in {"call", "mail"} /\ handler[r].reply # "none"
        /\ trail' = trail \cup {Outcome(r)} /\ UNCHANGED <<carried, redirected, told>>
    BY <1>1 DEF ResumeSingle, MailEnds, Waiting, Commit
  <2>2. TrailOf(r) = {}
    BY <2>1 DEF IInv, About, Recorded
  <2>3. Outcome(r) \in Entries /\ Outcome(r).m[1] = r /\ Truthful({Outcome(r)})
    BY <2>1, OutcomeTrue
  <2> QED
    BY <2>1, <2>2, <2>3, CommitRecords DEF Distinct
<1>2. ASSUME NEW r \in Requests, ResumeBulk(r) PROVE Trail!Record(r) \/ UNCHANGED Trail!vars
  <2> DEFINE h == [handler[r] EXCEPT !.log = @ \cup {Outcome(r)}, !.results = @ \cup {Outcome(r)}]
  <2>1. /\ Waiting(r) /\ UNCHANGED <<carried, redirected, told>>
        /\ trail' = trail \/ trail' = trail \cup h.log
    BY <1>2 DEF ResumeBulk, BulkRound, Commit
  <2>2. Outcome(r) \in Entries /\ handler[r] \in Handlers /\ TrailOf(r) = {}
    BY <2>1, AtItem, OutcomeTrue DEF Waiting
  <2>3. /\ h \in Handlers /\ h.log = handler[r].log \cup {Outcome(r)}
        /\ h.results = handler[r].results \cup {Outcome(r)}
    BY <2>2 DEF Handlers
  <2> HIDE DEF h
  <2>4. h.log \subseteq Entries /\ Distinct(h.log) /\ Truthful(h.log) /\ \A e \in h.log : e.m[1] = r
    BY <2>1, <2>3, RoundHolds
  <2>5. CASE trail' = trail \cup h.log
    BY <2>1, <2>2, <2>4, <2>5, CommitRecords
  <2> QED
    BY <2>1, <2>5 DEF Trail!vars
<1>3. ASSUME NEW r \in Requests, Answers(r) PROVE Trail!Tell(r)
  <2>1. handler[r].results \subseteq TrailOf(r)
    BY <1>3 DEF Answers, IInv, About, Recorded
  <2>2. handler[r].results \subseteq Trail!EntriesOf(r) \cap trail
    BY <1>0, <2>1 DEF TrailOf, WellFormed, Entries, Mutations, Trail!EntriesOf, Trail!Results
  <2> QED
    BY <1>3, <2>2 DEF Answers, Trail!Tell
<1>4. CASE CarriesOut \/ Redirects
  <2>1. PICK c \in network : /\ (carried \cup redirected)' = (carried \cup redirected) \cup {c.m}
                             /\ UNCHANGED <<trail, told>>
    BY <1>4 DEF CarriesOut, Redirects
  <2>2. c.m \in Requests \X Items
    BY <1>0, <2>1 DEF WellFormed, Calls, Mutations
  <2> QED
    BY <2>1, <2>2 DEF Trail!Next, Trail!Accept
<1>5. ASSUME NEW r \in Requests,
             Begin(r) \/ BeginInVain(r) \/ ResumeUnreadable(r) \/ ResumeEmail(r) \/ Deliver(r)
               \/ TimesOut(r)
      PROVE  UNCHANGED Trail!vars
  BY <1>5 DEF Begin, BeginInVain, ResumeUnreadable, ResumeEmail, Deliver, TimesOut, Trail!vars
<1>6. CASE Refuses \/ Restart \/ UNCHANGED vars
  BY <1>6 DEF Refuses, Restart, vars, Trail!vars
<1> QED
  BY <1>1, <1>2, <1>3, <1>4, <1>5, <1>6 DEF Next, Handler, Trail!Next

\* What a response reports was recorded first, once and with that result, and a success
\* only of what was carried out or redirected: the mutating routes implement MutationTrail.
THEOREM Implementation == Spec => ImplementsTrail
<1>1. Init => Trail!Init
  BY DEF Init, Trail!Init
<1>2. IInv /\ [Next]_vars => [Trail!Next]_(Trail!vars)
  BY StepImplements
<1> QED
  BY <1>1, <1>2, Invariance, PTL DEF Spec, ImplementsTrail, Trail!Spec
=============================================================================
