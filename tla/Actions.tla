------------------------------ MODULE Actions ------------------------------
(***************************************************************************)
(* The mutating routes of the API (app/api/routes/actions.py) with the     *)
(* shim adapter they call (app/adapters/shim.py), e-mail delivery          *)
(* (app/services/delivery.py) and the shims of the nodes                   *)
(* (pritunl-shim/prod/shim_app.py).                                        *)
(*                                                                         *)
(* The handlers are coroutines of one event loop.  Between two awaits a    *)
(* handler runs alone; an action is such a stretch.  Its awaits are the    *)
(* calls of the node (pc "call"), `adapter.close()` and the call of the    *)
(* mail provider ("mail").  For the last close of a handler and its        *)
(* response, which follows at once, pc is "answer".  A single mutation has *)
(* one item; a bulk request has several, sent one after the other, and one *)
(* commit at its end; an e-mailed profile has two, its issue on the node   *)
(* and its delivery.                                                       *)
(*                                                                         *)
(* A call may be refused, redirected (which the adapter takes for a        *)
(* success and does not follow), time out, be carried out after its        *)
(* time-out, or be carried out with the answer lost or unreadable.         *)
(*                                                                         *)
(* Abstracted: names, parameters and texts; what a profile contains; of a  *)
(* user policy, all but `disabled`; whether a server is started or         *)
(* stopped.  How append() chains the entries is the subject of AuditLog.   *)
(***************************************************************************)
EXTENDS Naturals, Sequences

CONSTANTS
    Nodes,          \* node ids a request may name
    Kind,           \* node -> "shim"; "stub": an adapter that implements no
                    \* mutation (mongo, ssh); "nocreds": a shim registered
                    \* without token or secret; "absent": no such node
    Requests,       \* the requests
    MaxRestarts     \* bound on the crashes of the control plane

ASSUME KindAssumption == Kind \in [Nodes -> {"shim", "stub", "nocreds", "absent"}]
ASSUME RestartsAssumption == MaxRestarts \in Nat

VARIABLES
    node,       \* node -> the tables behind its shim
    network,    \* the calls that may yet be carried out
    job,        \* request -> what it asks for
    handler,    \* request -> the state of its handler and session
    trail,      \* the committed audit entries
    carried,    \* history: the mutations that were carried out
    redirected, \* history: the mutations that were answered with a redirect instead
    told,       \* history: the results that responses reported
    restarts    \* crashes so far

vars == <<node, network, job, handler, trail, carried, redirected, told, restarts>>

\* A mutation <<r, i>> is item i of request r.
Items == 1..2

\* The organisation and the user a node starts with, and its server.  Ids of
\* organisations and users on a node are Seed or the mutation that created them.
Seed == <<>>

\* An id that makes no URL: httpx raises InvalidURL, which is no HTTPError.  (An id too
\* long for an entry's target_id differs only in that the node is still asked.)
BadId == <<"bad">>

UserOps == {"disable_user", "enable_user", "delete_user", "revoke_profile",
            "issue_profile", "set_user_policy"}

SingleOps == {"create_user", "create_org", "delete_org", "server_action"} \cup UserOps

BulkOps == {"create_user", "disable_user", "enable_user", "revoke_profile", "delete_user"}

\* Mutations whose adapter method reads the body of the answer.
ParsedOps == {"create_user", "disable_user", "enable_user", "set_user_policy",
              "create_org", "server_action"}

Entry(m, result) == [m |-> m, result |-> result]

\* What a request may ask of node n: ids that are on the node, or none.  A bulk
\* creation names one organisation for all its users.
Targets(n, op) ==
    CASE op \in {"create_user", "delete_org"} -> node[n].orgs \cup {BadId}
      [] op \in UserOps -> {u.id : u \in node[n].users} \cup {BadId}
      [] op \in {"create_org", "server_action"} -> {Seed}

Jobs(n) ==
    (UNION {[mode : {"single"}, op : {op}, node : {n}, targets : [1..1 -> Targets(n, op)]]
            : op \in SingleOps})
    \cup (UNION {[mode : {"bulk"}, op : {op}, node : {n},
                  targets : {f \in [Items -> Targets(n, op)] :
                               op = "create_user" => f[1] = f[2]}] : op \in BulkOps})
    \cup [mode : {"email"}, op : {"issue_profile"}, node : {n},
          targets : [1..1 -> Targets(n, "issue_profile")]]

NoJob == [mode |-> "none", op |-> "none", node |-> "none", targets |-> <<>>]

\* A handler before its request: `at` is the item it is at, `log` what it has
\* flushed, `results` what the response will report, `fate` its status.
Idle == [pc |-> "idle", at |-> 1, log |-> {}, results |-> {}, reply |-> "none",
         fate |-> "open"]

-----------------------------------------------------------------------------
Init ==
    /\ node = [n \in Nodes |-> [orgs |-> {Seed},
                                users |-> {[id |-> Seed, org |-> Seed, on |-> TRUE]}]]
    /\ network = {}
    /\ job = [r \in Requests |-> NoJob]
    /\ handler = [r \in Requests |-> Idle]
    /\ trail = {} /\ carried = {} /\ redirected = {} /\ told = {}
    /\ restarts = 0

Set(r, h) == handler' = [handler EXCEPT ![r] = h]

\* Mutant: the rows that were flushed stay in the session.
RaisedKeepsLog(h) == [h EXCEPT !.pc = "answer", !.results = {}, !.fate = "error"]

\* No entry, no outcome: what was flushed is rolled back.
Raised(h) == [h EXCEPT !.pc = "answer", !.log = {}, !.results = {}, !.fate = "error"]

\* The response will report what the handler found.
Reports(h, results) == [h EXCEPT !.pc = "answer", !.log = {}, !.results = results,
                                 !.fate = "reported"]

\* The handler calls the node for its item h.at.
Call(r, j, h) ==
    LET target == j.targets[h.at]
    IN  \/ /\ target = BadId
           /\ Set(r, Raised(h))
           /\ UNCHANGED network
        \/ /\ target # BadId
           /\ Set(r, [h EXCEPT !.pc = "call", !.reply = "none"])
           /\ network' = network \cup {[m |-> <<r, h.at>>, op |-> j.op,
                                        node |-> j.node, target |-> target]}

\* A request arrives for a node that is not registered (404), whose adapter cannot
\* be built (500) or implements no mutation (NotImplementedError, which no route
\* here catches: 500).  Whatever it asks, no node is called.
BeginInVain(r) ==
    /\ handler[r].pc = "idle"
    /\ \E n \in Nodes :
         /\ Kind[n] # "shim"
         /\ Set(r, [Idle EXCEPT !.pc = "answer",
                               !.fate = IF Kind[n] = "absent" THEN "not found" ELSE "error"])
    /\ UNCHANGED <<node, network, job, trail, carried, redirected, told, restarts>>

\* A request arrives: _node, build_adapter_for_node, and the first call.
Begin(r) ==
    /\ handler[r].pc = "idle"
    /\ \E n \in Nodes : \E j \in Jobs(n) :
         /\ Kind[n] = "shim"
         /\ job' = [job EXCEPT ![r] = j]
         /\ Call(r, j, Idle)
    /\ UNCHANGED <<node, trail, carried, redirected, told, restarts>>

-----------------------------------------------------------------------------
(* The await of the node's answer is over: AdapterError is a failure, an   *)
(* answer that cannot be read ends the handler.                            *)

Waiting(r) == handler[r].pc = "call" /\ handler[r].reply # "none"

Unreadable(r) == handler[r].reply = "garbled"

Outcome(r) ==
    Entry(<<r, handler[r].at>>, IF handler[r].reply = "ok" THEN "success" ELSE "failure")

Commit(entries) == trail' = trail \cup entries

ResumeUnreadable(r) ==
    /\ Waiting(r) /\ Unreadable(r)
    /\ Set(r, Raised(handler[r]))
    /\ UNCHANGED <<node, network, job, trail, carried, redirected, told, restarts>>

\* Mutant: the failure is answered without an entry.
ResumeSingleUnrecorded(r) ==
    /\ Waiting(r) /\ ~Unreadable(r) /\ job[r].mode = "single"
    /\ Commit({e \in {Outcome(r)} : e.result = "success"})
    /\ Set(r, Reports(handler[r], {Outcome(r)}))
    /\ UNCHANGED <<node, network, job, carried, redirected, told, restarts>>

\* _perform: append and commit, for a success and for a failure.
ResumeSingle(r) ==
    /\ Waiting(r) /\ ~Unreadable(r) /\ job[r].mode = "single"
    /\ Commit({Outcome(r)})
    /\ Set(r, Reports(handler[r], {Outcome(r)}))
    /\ UNCHANGED <<node, network, job, carried, redirected, told, restarts>>

\* One round of a bulk route's loop: append `logged`, and on to the next item, or
\* commit.
BulkRound(r, logged) ==
    LET h == [handler[r] EXCEPT !.log = @ \cup logged, !.results = @ \cup {Outcome(r)}]
    IN  \/ /\ h.at < Len(job[r].targets)
           /\ Call(r, job[r], [h EXCEPT !.at = @ + 1])
           /\ UNCHANGED trail
        \/ /\ h.at = Len(job[r].targets)
           /\ Commit(h.log)
           /\ Set(r, Reports(h, h.results))
           /\ UNCHANGED network

\* Mutant: the except clause does not append.
ResumeBulkUnrecorded(r) ==
    /\ Waiting(r) /\ ~Unreadable(r) /\ job[r].mode = "bulk"
    /\ BulkRound(r, {e \in {Outcome(r)} : e.result = "success"})
    /\ UNCHANGED <<node, job, carried, redirected, told, restarts>>

\* Mutant: every item is committed on its own.
ResumeBulkEach(r) ==
    /\ Waiting(r) /\ ~Unreadable(r) /\ job[r].mode = "bulk"
    /\ Commit({Outcome(r)})
    /\ LET h == handler[r]
       IN  \/ /\ h.at < Len(job[r].targets)
              /\ Call(r, job[r], [h EXCEPT !.at = @ + 1, !.results = @ \cup {Outcome(r)}])
           \/ /\ h.at = Len(job[r].targets)
              /\ Set(r, Reports(h, h.results \cup {Outcome(r)}))
              /\ UNCHANGED network
    /\ UNCHANGED <<node, job, carried, redirected, told, restarts>>

ResumeBulk(r) ==
    /\ Waiting(r) /\ ~Unreadable(r) /\ job[r].mode = "bulk"
    /\ BulkRound(r, {Outcome(r)})
    /\ UNCHANGED <<node, job, carried, redirected, told, restarts>>

\* email_profile: a refused issue is answered 502 and leaves no entry.
ResumeEmail(r) ==
    /\ Waiting(r) /\ ~Unreadable(r) /\ job[r].mode = "email"
    /\ \/ /\ handler[r].reply = "failed"
          /\ Set(r, [handler[r] EXCEPT !.pc = "answer", !.fate = "declined"])
       \/ /\ handler[r].reply # "failed"
          /\ Set(r, [handler[r] EXCEPT !.pc = "close"])
    /\ UNCHANGED <<node, network, job, trail, carried, redirected, told, restarts>>

\* The adapter is closed: send_profile_email.  Without FLEET_RESEND_API_KEY the
\* answer is 501, with no entry; otherwise the provider is called.
Deliver(r) ==
    /\ handler[r].pc = "close"
    /\ \/ /\ Set(r, [handler[r] EXCEPT !.pc = "answer", !.fate = "declined"])
          /\ UNCHANGED network
       \/ /\ Set(r, [handler[r] EXCEPT !.pc = "mail", !.at = 2, !.reply = "none"])
          /\ network' = network \cup {[m |-> <<r, 2>>, op |-> "email_profile",
                                       node |-> job[r].node, target |-> job[r].targets[1]]}
    /\ UNCHANGED <<node, job, trail, carried, redirected, told, restarts>>

\* Whatever the delivery raises is a failure; a body that is no JSON raises nothing.
MailEnds(r) ==
    /\ handler[r].pc = "mail" /\ handler[r].reply # "none"
    /\ Commit({Outcome(r)})
    /\ Set(r, Reports(handler[r], {Outcome(r)}))
    /\ UNCHANGED <<node, network, job, carried, redirected, told, restarts>>

\* The adapter is closed and the response leaves.  A 2xx, or the 502 of a failed
\* mutation, reports results; a 404, 500, 501 or the 502 of a refused issue (fate
\* "declined") reports none.
Answers(r) ==
    /\ handler[r].pc = "answer"
    /\ told' = told \cup handler[r].results
    /\ Set(r, [handler[r] EXCEPT !.pc = "done"])
    /\ UNCHANGED <<node, network, job, trail, carried, redirected, restarts>>

-----------------------------------------------------------------------------
(* The shim of a node, one endpoint each.  st is its tables, c the call.   *)

Users(st, u) == {a \in st.users : a.id = u}

ChangeUser(st, u, on) ==
    [st EXCEPT !.users = {IF a.id = u THEN [a EXCEPT !.on = on] ELSE a : a \in @}]

CreateOrg(st, c) == {[st EXCEPT !.orgs = @ \cup {c.m}]}

DeleteOrg(st, c) ==
    {[st EXCEPT !.orgs = @ \ {o}, !.users = {a \in @ : a.org # o}]
     : o \in st.orgs \cap {c.target}}

CreateUser(st, c) ==
    {[st EXCEPT !.users = @ \cup {[id |-> c.m, org |-> o, on |-> TRUE]}]
     : o \in st.orgs \cap {c.target}}

SetDisabled(st, c) ==
    {ChangeUser(st, a.id, c.op = "enable_user") : a \in Users(st, c.target)}

Revoke(st, c) == {ChangeUser(st, a.id, FALSE) : a \in Users(st, c.target)}

DeleteUser(st, c) == {[st EXCEPT !.users = @ \ {a}] : a \in Users(st, c.target)}

\* The policy may set `disabled` either way, or leave it.
PatchUser(st, c) ==
    {ChangeUser(st, a.id, on) : a \in Users(st, c.target), on \in BOOLEAN}
    \cup {st : a \in Users(st, c.target)}

Profile(st, c) == {st : a \in Users(st, c.target)}

\* start, stop or restart.  One that raises answers 502: a refusal.
ServerState(st) == {st}

\* The states the node may be in after it carried out c; none if it refuses.
Executed(st, c) ==
    CASE c.op = "create_org" -> CreateOrg(st, c)
      [] c.op = "delete_org" -> DeleteOrg(st, c)
      [] c.op = "create_user" -> CreateUser(st, c)
      [] c.op \in {"disable_user", "enable_user"} -> SetDisabled(st, c)
      [] c.op = "revoke_profile" -> Revoke(st, c)
      [] c.op = "delete_user" -> DeleteUser(st, c)
      [] c.op = "set_user_policy" -> PatchUser(st, c)
      [] c.op = "issue_profile" -> Profile(st, c)
      [] c.op = "server_action" -> ServerState(st)
      [] c.op = "email_profile" -> {st}

\* The handler that waits for c, if it still does, gets `reply`.
Answer(c, reply) ==
    LET r == c.m[1]
        h == handler[r]
        waits == h.pc \in {"call", "mail"} /\ h.at = c.m[2] /\ h.reply = "none"
    IN  Set(r, IF waits THEN [h EXCEPT !.reply = reply] ELSE h)

\* The node, or the mail provider, does what it was asked for.  The connection may
\* break before the answer arrives, and what arrives may be unreadable: no user,
\* organisation or server, or a gateway's error whose body is JSON but no object.
CarriesOut ==
    \E c \in network, reply \in {"ok", "garbled", "failed"} :
      /\ \E st \in Executed(node[c.node], c) : node' = [node EXCEPT ![c.node] = st]
      /\ network' = network \ {c}
      /\ carried' = carried \cup {c.m}
      /\ Answer(c, reply)
      /\ UNCHANGED <<job, trail, redirected, told, restarts>>

\* It refuses (a 4xx or 5xx), or the call never gets there.
Refuses ==
    \E c \in network, reply \in {"garbled", "failed"} :
      /\ network' = network \ {c}
      /\ Answer(c, reply)
      /\ UNCHANGED <<node, job, trail, carried, redirected, told, restarts>>

\* A 3xx instead of an execution: below 400 is no failure to the adapter, nor to the
\* delivery, and no redirect is followed.  Its body is no user, organisation or server.
Redirects ==
    \E c \in network :
      /\ network' = network \ {c}
      /\ redirected' = redirected \cup {c.m}
      /\ Answer(c, IF c.op \in ParsedOps THEN "garbled" ELSE "ok")
      /\ UNCHANGED <<node, job, trail, carried, told, restarts>>

\* httpx gives up; the call is still under way.
TimesOut(r) ==
    /\ handler[r].pc \in {"call", "mail"} /\ handler[r].reply = "none"
    /\ Set(r, [handler[r] EXCEPT !.reply = "failed"])
    /\ UNCHANGED <<node, network, job, trail, carried, redirected, told, restarts>>

\* The control plane's process ends: every request under way goes without answer.
Restart ==
    /\ restarts < MaxRestarts
    /\ restarts' = restarts + 1
    /\ handler' = [r \in Requests |->
                     IF handler[r].pc \in {"idle", "done"} THEN handler[r]
                     ELSE [Idle EXCEPT !.pc = "done", !.fate = "crashed"]]
    /\ UNCHANGED <<node, network, job, trail, carried, redirected, told>>

-----------------------------------------------------------------------------
Handler(r) ==
    \/ ResumeUnreadable(r) \/ ResumeSingle(r) \/ ResumeBulk(r) \/ ResumeEmail(r)
    \/ Deliver(r) \/ MailEnds(r) \/ Answers(r)

Next ==
    \/ \E r \in Requests : Begin(r) \/ BeginInVain(r) \/ Handler(r) \/ TimesOut(r)
    \/ CarriesOut \/ Refuses \/ Redirects \/ Restart

Spec == Init /\ [][Next]_vars

-----------------------------------------------------------------------------
(* Properties.                                                             *)

Mutations == Requests \X Items

Entries == [m : Mutations, result : {"success", "failure"}]

\* Types; and a session holds uncommitted entries only while its handler is in the
\* loop of a bulk request.
TypeOK ==
    /\ \A n \in Nodes : \A u \in node[n].users :
         u.id \in Mutations \cup {Seed} /\ u.org \in node[n].orgs
    /\ \A c \in network : c.m \in Mutations /\ c.node \in Nodes
    /\ trail \subseteq Entries /\ told \subseteq Entries
    /\ carried \subseteq Mutations /\ redirected \subseteq Mutations
    /\ \A r \in Requests :
         /\ handler[r].results \subseteq Entries
         /\ handler[r].log \subseteq handler[r].results
         /\ handler[r].log # {} => handler[r].pc = "call" /\ job[r].mode = "bulk"
    /\ restarts \in 0..MaxRestarts

\* The audit trail that MutationTrail promises is the committed one.
Trail == INSTANCE MutationTrail WITH
            Requests <- Requests, Items <- Items,
            accepted <- carried \cup redirected, trail <- trail, told <- told

\* actions.py: "Every mutation is recorded to the hash-chained audit log ... on both
\* success and failure - before the response is returned."  What a response reports
\* is in the log with the same result, once, and a success was carried out or, where
\* the adapter reads no body, redirected.
ImplementsTrail == Trail!Spec

\* What a node carried out for a request that is over has its entry, a success or a
\* failure, even if it was carried out after the time-out.  Left out are only: what
\* a crash cut off; a request answered 500 for a malformed id among its items or an
\* answer its adapter could not read; the issue of a profile that is e-mailed,
\* whose entry is that of the delivery.
CarriedIsAccounted ==
    \A m \in carried :
      LET r == m[1]
      IN  \/ handler[r].pc # "done"
          \/ handler[r].fate = "crashed"
          \/ /\ handler[r].fate = "error"
             /\ \/ handler[r].reply = "garbled"
                \/ \E i \in DOMAIN job[r].targets : job[r].targets[i] = BadId
          \/ job[r].mode = "email" /\ m[2] = 1
          \/ \E e \in trail : e.m = m

\* The entries of a bulk request appear together: whoever reads the log, at any time
\* and after any crash, finds an entry for each of its items or for none.
BulkIsWhole ==
    \A r \in Requests : job[r].mode = "bulk" =>
      LET recorded == {e.m[2] : e \in {f \in trail : f.m[1] = r}}
      IN  recorded \in {{}, DOMAIN job[r].targets}
=============================================================================
