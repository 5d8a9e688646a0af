---------------------------- MODULE Provisioning ----------------------------
(***************************************************************************)
(* Cross-site provisioning and drift reconciliation of one logical user    *)
(* (app/services/provisioning.py, app/services/sync.py), over the nodes'   *)
(* shims (pritunl-shim/prod/shim_app.py) and PostgreSQL.                   *)
(*                                                                         *)
(* The handlers are coroutines of one event-loop thread.  `loop` names the *)
(* request whose code is running; it runs alone until its next await, and  *)
(* database calls are synchronous, so a handler that has to wait for a row *)
(* lock keeps the thread.  At an await (pc "call", "close" or "abort") the *)
(* loop is free and any other handler may run.  An exception closes the    *)
(* adapter on the loop and then rolls the session back on a worker thread  *)
(* (pc "rollback"), which ends also while the loop is blocked.             *)
(*                                                                         *)
(* A session buffers the changes to the rows it loaded.  A flush (each     *)
(* audit append is one) writes the changed columns and locks their rows;   *)
(* the commit at the end of the handler publishes all of it at once.       *)
(* base[s] is a row as the session loaded it, copy[s] as it has it now: a  *)
(* column is written only if the two differ.                               *)
(*                                                                         *)
(* Abstracted: the text of last_error, the e-mail address, the timestamps, *)
(* and org_id but for whether a URL and the column take it.  The deletion  *)
(* of a node is one step: what its locks do to the event loop is shown in  *)
(* Fleet.  The targets of a request are distinct.                          *)
(***************************************************************************)
EXTENDS SequencesExt

CONSTANTS
    Sites,          \* node ids a request may name
    Kind,           \* site -> "shim"; "stub": an adapter that implements no
                    \* mutation (mongo, ssh); "nocreds": a shim registered
                    \* without token or secret; "absent": no such node
    Requests,       \* slots for requests served at the same time
    Deletable,      \* nodes an administrator may delete meanwhile
    Redirecting,    \* nodes that may answer a command with a redirect
    OrgIds,         \* what a target's org_id is: one that "fits"; one too "long"
                    \* for its column; "nourl": one no URL can hold
    MaxOps,         \* bound on the provision and deprovision requests
    MaxRestarts     \* bound on the crashes of the control plane

ASSUME KindAssumption == Kind \in [Sites -> {"shim", "stub", "nocreds", "absent"}]
ASSUME SitesAssumption == IsFiniteSet(Sites)
ASSUME DeletableAssumption == Deletable \subseteq Sites
ASSUME RedirectingAssumption == Redirecting \subseteq Sites
ASSUME OrgIdsAssumption == OrgIds \subseteq {"fits", "long", "nourl"}
ASSUME BoundsAssumption == MaxOps \in Nat /\ MaxRestarts \in Nat

VARIABLES
    remote,     \* site -> user id -> its state on the node: "none"; "on", as it was
                \* created; "off", revoked; "back", enabled again after that; "gone"
    network,    \* the commands sent to a node that may yet carry them out
    identity,   \* whether the LogicalUser row is committed
    placement,  \* site -> the committed UserPlacement row
    audit,      \* the committed audit entries
    loop,       \* the request whose code runs on the event loop, or Nobody
    req,        \* request -> what its handler and its session hold
    ops,        \* provision and deprovision requests so far
    restarts,   \* crashes so far
    registered, \* the sites in the nodes table
    errors      \* the requests that ended in an exception or with the process

vars == <<remote, network, identity, placement, audit, loop, req, ops,
          restarts, registered, errors>>

\* A node gives each user it creates a new id, here the number of the request that asked for
\* it, which asks a node once; 0 stands for no id.
UserIds == 1..MaxOps
NoUser == 0
Nobody == "nobody"

ASSUME RequestsAssumption == Nobody \notin Requests

NoRow == [id |-> NoUser, status |-> "none"]

NoReply == [kind |-> "none", id |-> NoUser, seen |-> {}]

Ok(id, seen) == [kind |-> "ok", id |-> id, seen |-> seen]

Failed == [kind |-> "error", id |-> NoUser, seen |-> {}]

\* An answer the adapter cannot read: no JSON, or not what it should hold.
Garbled == [kind |-> "garbled", id |-> NoUser, seen |-> {}]

NoRows == [s \in Sites |-> NoRow]

\* A handler before its request, and after it: the session is closed.
Closed == [pc |-> "idle", op |-> "none", n |-> 0, asked |-> {}, todo |-> <<>>,
           made |-> FALSE, doomed |-> FALSE, long |-> FALSE, base |-> NoRows,
           copy |-> NoRows, held |-> {}, log |-> {}, reply |-> NoReply, fate |-> "none"]

Entry(op, s, id, result) == [op |-> op, site |-> s, id |-> id, result |-> result]

Mutations == {"provision", "revoke", "delete"}

Present(s) == {u \in UserIds : remote[s][u] \in {"on", "off", "back"}}

-----------------------------------------------------------------------------
Init ==
    /\ remote = [s \in Sites |-> [u \in UserIds |-> "none"]]
    /\ network = {}
    /\ identity = FALSE
    /\ placement = NoRows
    /\ audit = {}
    /\ loop = Nobody
    /\ req = [r \in Requests |-> Closed]
    /\ ops = 0
    /\ restarts = 0
    /\ registered = {s \in Sites : Kind[s] # "absent"}
    /\ errors = {}

Update(r, h) == req' = [req EXCEPT ![r] = h]

AtRest(r) == req[r].pc \in {"idle", "done"}

Others(r) == Requests \ {r}

-----------------------------------------------------------------------------
(* The requests arrive.                                                    *)

\* POST /provision.
BeginProvision(r) ==
    /\ loop = Nobody /\ AtRest(r) /\ ops < MaxOps
    /\ \E targets \in SetToAllKPermutations(Sites) \ {<<>>} :
         Update(r, [Closed EXCEPT !.pc = "logical", !.op = "provision", !.n = ops + 1,
                                  !.todo = targets, !.asked = ToSet(targets)])
    /\ loop' = r
    /\ ops' = ops + 1
    /\ UNCHANGED <<remote, network, identity, placement, audit, restarts, registered, errors>>

\* _get_or_create_logical: the INSERT waits while another transaction holds the
\* same username, and the event loop waits with it.
GetOrCreateLogical(r) ==
    /\ loop = r /\ req[r].pc = "logical"
    /\ ~identity => \A q \in Others(r) : ~req[q].made
    /\ Update(r, [req[r] EXCEPT !.pc = "next", !.made = ~identity])
    /\ UNCHANGED <<remote, network, identity, placement, audit, loop, ops, restarts,
                   registered, errors>>

\* POST /identities/{id}/deprovision: every placement is loaded with the user.
BeginDeprovision(r) ==
    /\ loop = Nobody /\ AtRest(r) /\ ops < MaxOps /\ identity
    /\ \E op \in {"revoke", "delete"},
          order \in SetToSeqs({s \in Sites : placement[s] # NoRow}) :
         Update(r, [Closed EXCEPT !.pc = "next", !.op = op, !.n = ops + 1,
                                  !.todo = order, !.asked = ToSet(order),
                                  !.base = placement, !.copy = placement])
    /\ loop' = r
    /\ ops' = ops + 1
    /\ UNCHANGED <<remote, network, identity, placement, audit, restarts, registered, errors>>

\* sync_node, on demand or from the sync loop.  A node whose adapter cannot be
\* built or cannot list users only raises: nothing is read or written.
BeginSync(r, s) ==
    /\ loop = Nobody /\ AtRest(r)
    /\ Kind[s] = "shim" /\ s \in registered
    /\ Update(r, [Closed EXCEPT !.pc = "call", !.op = "sync", !.todo = <<s>>, !.asked = {s},
                                !.base[s] = placement[s], !.copy[s] = placement[s]])
    /\ UNCHANGED <<remote, network, identity, placement, audit, loop, ops, restarts,
                   registered, errors>>

-----------------------------------------------------------------------------
(* The handler, from one await to the next.                                *)

\* An exception leaves the handler, for the reason why: get_session rolls the session back.
\* Its locks are held until then.
Raise(r, h, why) ==
    /\ Update(r, [h EXCEPT !.pc = "rollback", !.fate = why])
    /\ loop' = Nobody

\* ... out of a call to a node: `finally: await adapter.close()` comes first.
RaiseOutOfCall(r, h, why) ==
    /\ Update(r, [h EXCEPT !.pc = "abort", !.fate = why, !.reply = NoReply])
    /\ loop' = Nobody

\* A failed flush has rolled the database's transaction back at once.
Unlocked(h) == [h EXCEPT !.held = {}, !.made = FALSE]

Send(r, h, id) ==
    /\ Update(r, [h EXCEPT !.pc = "call", !.reply = NoReply])
    /\ network' = network \cup {[n |-> h.n, site |-> Head(h.todo), op |-> h.op, id |-> id]}
    /\ loop' = Nobody

\* provision(), next target: look up or add the placement, build the adapter and call the
\* node.  A target that is no node leaves a row that will not flush.  A missing token, a
\* method the adapter has not got and an org_id that makes no URL raise no AdapterError.
NextTarget(r) ==
    /\ loop = r /\ req[r].pc = "next" /\ req[r].op = "provision" /\ req[r].todo # <<>>
    /\ LET s == Head(req[r].todo)
           row == placement[s]
           loaded == [req[r] EXCEPT !.base[s] = row,
                                    !.copy[s] = IF row = NoRow
                                                THEN [id |-> NoUser, status |-> "pending"]
                                                ELSE row]
       IN  \/ /\ s \notin registered
              /\ Update(r, [loaded EXCEPT !.copy[s].status = "failed", !.doomed = TRUE,
                                          !.todo = Tail(@)])
              /\ UNCHANGED <<network, loop>>
           \/ /\ s \in registered /\ Kind[s] \in {"stub", "nocreds"}
              /\ Raise(r, loaded, "site")
              /\ UNCHANGED network
           \/ /\ s \in registered /\ Kind[s] = "shim" /\ "nourl" \in OrgIds
              /\ Raise(r, loaded, "request")
              /\ UNCHANGED network
           \/ /\ s \in registered /\ Kind[s] = "shim"
              /\ \E org \in OrgIds \ {"nourl"} :
                   Send(r, [loaded EXCEPT !.long = (org = "long")], NoUser)
    /\ UNCHANGED <<remote, identity, placement, audit, ops, restarts, registered, errors>>

\* deprovision(), next placement: one without a remote user, or whose node is gone, is
\* skipped.
NextPlacement(r) ==
    /\ loop = r /\ req[r].pc = "next" /\ req[r].op \in {"revoke", "delete"}
    /\ req[r].todo # <<>>
    /\ LET s == Head(req[r].todo)
           row == req[r].copy[s]
       IN  \/ /\ row.id = NoUser \/ s \notin registered
              /\ Update(r, [req[r] EXCEPT !.todo = Tail(@)])
              /\ UNCHANGED <<network, loop>>
           \/ /\ row.id # NoUser /\ s \in registered
              /\ Send(r, req[r], row.id)
    /\ UNCHANGED <<remote, identity, placement, audit, ops, restarts, registered, errors>>

\* What the handler makes of the node's answer.
Outcome(h) ==
    LET s == Head(h.todo)
        ok == h.reply.kind = "ok"
    IN  CASE h.op = "provision" /\ ok ->
               [h EXCEPT !.copy[s] = [id |-> h.reply.id, status |-> "active"],
                         !.log = @ \cup {Entry(h.op, s, h.reply.id, "success")}]
          [] h.op = "provision" /\ ~ok ->
               [h EXCEPT !.copy[s].status = "failed",
                         !.log = @ \cup {Entry(h.op, s, NoUser, "failure")}]
          [] h.op \in {"revoke", "delete"} /\ ok ->
               [h EXCEPT !.copy[s].status = "revoked",
                         !.log = @ \cup {Entry(h.op, s, h.copy[s].id, "success")}]
          [] h.op \in {"revoke", "delete"} /\ ~ok ->
               [h EXCEPT !.log = @ \cup {Entry(h.op, s, h.copy[s].id, "failure")}]

\* Mutant: a failed revocation is recorded as one that worked.
AnsweredRevokedAnyway(h) ==
    LET s == Head(h.todo)
    IN  IF h.op = "provision" THEN Outcome(h)
        ELSE [h EXCEPT !.copy[s].status = "revoked",
                       !.log = @ \cup {Entry(h.op, s, h.copy[s].id, "success")}]

\* Mutant: a failed creation leaves the placement as it was added.
AnsweredLeavesPending(h) ==
    IF h.op = "provision" /\ h.reply.kind # "ok"
    THEN [h EXCEPT !.log = @ \cup {Entry(h.op, Head(h.todo), NoUser, "failure")}]
    ELSE Outcome(h)

\* Mutant: a failed creation is not audited.
AnsweredUnaudited(h) ==
    IF h.op = "provision" /\ h.reply.kind # "ok"
    THEN [h EXCEPT !.copy[Head(h.todo)].status = "failed"]
    ELSE Outcome(h)

Answered(h) == Outcome(h)

\* The await returns or raises AdapterError: the row and the audit entry follow.
Continue(r) ==
    /\ Update(r, [Answered(req[r]) EXCEPT !.pc = "flush", !.reply = NoReply])
    /\ loop' = r

\* Mutant: AdapterError is not caught.
ResumeUncaught(r) ==
    /\ loop = Nobody /\ req[r].pc = "call" /\ req[r].op # "sync"
    /\ \/ req[r].reply.kind = "ok" /\ Continue(r)
       \/ req[r].reply.kind = "error" /\ RaiseOutOfCall(r, req[r], "site")
       \/ req[r].reply.kind = "garbled" /\ RaiseOutOfCall(r, req[r], "answer")
    /\ UNCHANGED <<remote, network, identity, placement, audit, ops, restarts, registered, errors>>

\* The call ends.  What an unreadable answer raises is no AdapterError.
Resume(r) ==
    /\ loop = Nobody /\ req[r].pc = "call" /\ req[r].op # "sync"
    /\ \/ req[r].reply.kind \in {"ok", "error"} /\ Continue(r)
       \/ req[r].reply.kind = "garbled" /\ RaiseOutOfCall(r, req[r], "answer")
    /\ UNCHANGED <<remote, network, identity, placement, audit, ops, restarts, registered, errors>>

Locked(r, s) == \E q \in Others(r) : s \in req[q].held

\* A row the session is to write that no statement can carry: one for a node that does not
\* exist, or with an org_id too long for it, which is written with the row or a success.
Unwritable(h) ==
    \/ h.doomed
    \/ h.long /\ LET s == Head(h.todo) IN h.base[s] = NoRow \/ h.copy[s].status = "active"

\* audit append's flush.  It waits, with the event loop, for a row another
\* transaction has written; a row that cannot be inserted, or that went with its
\* node, ends the handler.  A status that did not change may still come with another last_error.
Flush(r) ==
    /\ loop = r /\ req[r].pc = "flush"
    /\ LET h == req[r]
           s == Head(h.todo)
           changed == h.copy[s] # h.base[s]
           refused == \/ h.base[s] = NoRow /\ placement[s] # NoRow
                      \/ s \notin registered
       IN  \/ /\ Unwritable(h)
              /\ RaiseOutOfCall(r, Unlocked(h), "request")
           \/ /\ ~Unwritable(h)
              /\ \E written \in {TRUE, changed} :
                   /\ written => ~Locked(r, s)
                   /\ \/ /\ written /\ refused
                         /\ RaiseOutOfCall(r, Unlocked(h), "row")
                      \/ /\ ~(written /\ refused)
                         /\ Update(r, [h EXCEPT !.pc = "close", !.long = FALSE,
                                                !.held = IF written THEN @ \cup {s} ELSE @])
                         /\ loop' = Nobody
    /\ UNCHANGED <<remote, network, identity, placement, audit, ops, restarts, registered, errors>>

\* `await adapter.close()` returns: on to the next site.
Closes(r) ==
    /\ loop = Nobody /\ req[r].pc = "close"
    /\ Update(r, [req[r] EXCEPT !.pc = "next", !.todo = Tail(@)])
    /\ loop' = r
    /\ UNCHANGED <<remote, network, identity, placement, audit, ops, restarts, registered, errors>>

Finished(h) == [Closed EXCEPT !.pc = "done", !.op = h.op, !.asked = h.asked, !.fate = h.fate]

\* Mutant: the session writes the whole row.
MergedWhole(h, s) == h.copy[s]

\* The columns the session changed, over the row as it is now.
Merged(h, s) ==
    [id |-> IF h.copy[s].id # h.base[s].id THEN h.copy[s].id ELSE placement[s].id,
     status |-> IF h.copy[s].status # h.base[s].status
                THEN h.copy[s].status ELSE placement[s].status]

\* session.commit() after the last site, which flushes first.
Commit(r) ==
    /\ loop = r /\ req[r].pc = "next" /\ req[r].todo = <<>>
    /\ LET h == req[r]
       IN  \/ /\ h.doomed
              /\ Raise(r, Unlocked(h), "request")
              /\ UNCHANGED <<identity, placement, audit>>
           \/ /\ ~h.doomed
              /\ identity' = (identity \/ h.made)
              /\ placement' = [s \in Sites |-> IF s \in h.held THEN Merged(h, s)
                                               ELSE placement[s]]
              /\ audit' = audit \cup h.log
              /\ Update(r, Finished(h))
              /\ loop' = Nobody
    /\ UNCHANGED <<remote, network, ops, restarts, registered, errors>>

\* The adapter is closed under an exception.
Unwinds(r) ==
    /\ loop = Nobody /\ req[r].pc = "abort"
    /\ Update(r, [req[r] EXCEPT !.pc = "rollback"])
    /\ UNCHANGED <<remote, network, identity, placement, audit, loop, ops, restarts,
                   registered, errors>>

\* Mutant: the except clause keeps the placements.
RollbackKeepsRows(r) ==
    /\ req[r].pc = "rollback"
    /\ placement' = [s \in Sites |-> IF s \in req[r].held THEN Merged(req[r], s)
                                     ELSE placement[s]]
    /\ Update(r, Finished(req[r]))
    /\ errors' = errors \cup {req[r].n}
    /\ UNCHANGED <<remote, network, identity, audit, loop, ops, restarts, registered>>

\* get_session's except clause, on a worker thread.
Rollback(r) ==
    /\ req[r].pc = "rollback"
    /\ Update(r, Finished(req[r]))
    /\ errors' = errors \cup {req[r].n}
    /\ UNCHANGED <<remote, network, identity, placement, audit, loop, ops, restarts, registered>>

\* Mutant: a placement without a remote user counts as drift.
ReconciledAll(row, seen) ==
    [row EXCEPT !.status = IF row.id \in seen THEN "active" ELSE "missing"]

\* Mutant: only the users that are present are written back.
ReconciledPresent(row, seen) ==
    IF row.id \in seen THEN [row EXCEPT !.status = "active"] ELSE row

\* sync_node after list_users: fold the list into the rows loaded before it.
Reconciled(row, seen) ==
    IF row.id = NoUser THEN row
    ELSE [row EXCEPT !.status = IF row.id \in seen THEN "active" ELSE "missing"]

\* Mutant: an unreachable node counts as one without users.
SyncResumeUnreachable(r) ==
    /\ loop = Nobody /\ req[r].pc = "call" /\ req[r].op = "sync"
    /\ req[r].reply.kind # "none"
    /\ Update(r, [req[r] EXCEPT !.pc = "flush sync",
                                !.copy[Head(req[r].todo)] = Reconciled(@, req[r].reply.seen),
                                !.reply = NoReply])
    /\ loop' = r
    /\ UNCHANGED <<remote, network, identity, placement, audit, ops, restarts, registered, errors>>

\* The await returns or raises; an answer that cannot be read ends the sync as a failure does.
SyncResume(r) ==
    /\ loop = Nobody /\ req[r].pc = "call" /\ req[r].op = "sync"
    /\ LET s == Head(req[r].todo)
       IN  \/ /\ req[r].reply.kind = "error"
              /\ Update(r, Finished(req[r]))
              /\ UNCHANGED loop
           \/ /\ req[r].reply.kind = "ok"
              /\ Update(r, [req[r] EXCEPT !.pc = "flush sync",
                                          !.copy[s] = Reconciled(@, req[r].reply.seen),
                                          !.reply = NoReply])
              /\ loop' = r
    /\ UNCHANGED <<remote, network, identity, placement, audit, ops, restarts, registered, errors>>

\* sync_node's commit.  last_synced_at changes in every row, so every row is
\* written, and waits for its lock; so is that of the node, if there still is one.
SyncCommit(r) ==
    /\ loop = r /\ req[r].pc = "flush sync"
    /\ LET h == req[r]
           s == Head(h.todo)
       IN  \/ /\ s \notin registered
              /\ Update(r, Finished(h))
              /\ UNCHANGED placement
           \/ /\ s \in registered
              /\ h.base[s] # NoRow => ~Locked(r, s)
              /\ placement' = IF h.base[s] = NoRow THEN placement
                              ELSE [placement EXCEPT ![s] = Merged(h, s)]
              /\ Update(r, Finished(h))
    /\ loop' = Nobody
    /\ UNCHANGED <<remote, network, identity, audit, ops, restarts, registered, errors>>

-----------------------------------------------------------------------------
(* The network and the nodes.                                              *)

\* The handler that waits for c, if it still does.
Waits(r, c) ==
    /\ req[r].pc = "call" /\ req[r].op = c.op /\ req[r].n = c.n
    /\ Head(req[r].todo) = c.site /\ req[r].reply = NoReply

Answer(c, reply) ==
    req' = [r \in Requests |-> IF Waits(r, c) THEN [req[r] EXCEPT !.reply = reply] ELSE req[r]]

SetUser(s, u, state) == remote' = [remote EXCEPT ![s][u] = state]

\* The node carries out a command; its answer reaches the handler, cannot be read there, or
\* is lost.
NodeExecutes ==
    \E c \in network, arrives \in {"whole", "garbled", "lost"} :
      LET s == c.site
          Tell(reply) == Answer(c, CASE arrives = "whole" -> reply
                                     [] arrives = "garbled" -> Garbled
                                     [] arrives = "lost" -> Failed)
      IN  /\ \/ /\ c.op = "provision" /\ remote[s][c.n] = "none"
                /\ SetUser(s, c.n, "on")
                /\ Tell(Ok(c.n, {}))
             \/ /\ c.op = "revoke" /\ c.id \in Present(s)
                /\ SetUser(s, c.id, "off")
                /\ Tell(Ok(NoUser, {}))
             \/ /\ c.op = "delete" /\ c.id \in Present(s)
                /\ SetUser(s, c.id, "gone")
                /\ Tell(Ok(NoUser, {}))
             \/ /\ c.op \in {"revoke", "delete"} /\ c.id \notin Present(s)
                /\ Tell(Failed)
                /\ UNCHANGED remote
          /\ network' = network \ {c}
    /\ UNCHANGED <<identity, placement, audit, loop, ops, restarts, registered, errors>>

\* A command does not get to the node, or is refused, in words or not; or it is answered
\* with a redirect, which is not followed: to _mutate every status below 400 is a success,
\* and only the answer to a provision is read.
NodeRefuses ==
    \E c \in network :
      /\ network' = network \ {c}
      /\ \/ \E reply \in {Failed, Garbled} : Answer(c, reply)
         \/ c.site \in Redirecting /\ c.op # "provision" /\ Answer(c, Ok(NoUser, {}))
      /\ UNCHANGED <<remote, identity, placement, audit, loop, ops, restarts, registered, errors>>


\* The client gives up; the command is still under way.
TimesOut(r) ==
    /\ req[r].pc = "call" /\ req[r].reply = NoReply
    /\ Update(r, [req[r] EXCEPT !.reply = Failed])
    /\ UNCHANGED <<remote, network, identity, placement, audit, loop, ops, restarts,
                   registered, errors>>

\* The node answers list_users.
NodeLists(r, s) ==
    /\ req[r].pc = "call" /\ req[r].op = "sync" /\ req[r].todo = <<s>>
    /\ req[r].reply = NoReply
    /\ Update(r, [req[r] EXCEPT !.reply = Ok(NoUser, Present(s))])
    /\ UNCHANGED <<remote, network, identity, placement, audit, loop, ops, restarts,
                   registered, errors>>

\* An administrator deletes a user in the node's own console.
DeletedOnNode ==
    /\ \E s \in Sites : \E u \in Present(s) : SetUser(s, u, "gone")
    /\ UNCHANGED <<network, identity, placement, audit, loop, req, ops, restarts, registered,
                   errors>>

\* A revoked user is enabled again, in the console or by Fleet itself (the disable action with
\* disabled=false, a bulk enable, a policy).  Disabling one that is not revoked is left out:
\* "on" and "back" say no more than that it was not revoked since.
EnabledOnNode ==
    /\ \E s \in Sites, u \in UserIds : remote[s][u] = "off" /\ SetUser(s, u, "back")
    /\ UNCHANGED <<network, identity, placement, audit, loop, req, ops, restarts, registered,
                   errors>>

\* Mutant: the placements of a deleted node stay.
DeletesRowOnly ==
    /\ \E s \in Deletable \cap registered :
         /\ \A r \in Requests : s \notin req[r].held
         /\ registered' = registered \ {s}
    /\ UNCHANGED <<remote, network, identity, placement, audit, loop, req, ops, restarts, errors>>

\* DELETE /nodes/{id}: waits for the transactions that have written its placements, and
\* deletes them by cascade.  The users stay on the node.
NodeDeleted ==
    /\ \E s \in Deletable \cap registered :
         /\ \A r \in Requests : s \notin req[r].held
         /\ registered' = registered \ {s}
         /\ placement' = [placement EXCEPT ![s] = NoRow]
    /\ UNCHANGED <<remote, network, identity, audit, loop, req, ops, restarts, errors>>

\* The control plane's process ends and starts again: every session is gone.
Restart ==
    /\ restarts < MaxRestarts
    /\ restarts' = restarts + 1
    /\ req' = [r \in Requests |-> Closed]
    /\ loop' = Nobody
    /\ errors' = errors \cup {req[r].n : r \in Requests}
    /\ UNCHANGED <<remote, network, identity, placement, audit, ops, registered>>

-----------------------------------------------------------------------------
\* The steps of one request's handler.
Handler(r) ==
    \/ GetOrCreateLogical(r) \/ NextTarget(r) \/ NextPlacement(r)
    \/ Resume(r) \/ Flush(r) \/ Closes(r) \/ Commit(r) \/ Unwinds(r) \/ Rollback(r)
    \/ SyncResume(r) \/ SyncCommit(r)

Begin(r) == BeginProvision(r) \/ BeginDeprovision(r) \/ \E s \in Sites : BeginSync(r, s)

Environment ==
    NodeExecutes \/ NodeRefuses \/ DeletedOnNode \/ EnabledOnNode \/ NodeDeleted \/ Restart

Next ==
    \/ \E r \in Requests : Begin(r) \/ Handler(r) \/ TimesOut(r)
    \/ \E r \in Requests, s \in Sites : NodeLists(r, s)
    \/ Environment

Spec == Init /\ [][Next]_vars

\* The event loop runs what is ready, and httpx ends every call by its timeout.
LoopFairness == \A r \in Requests : WF_vars(Handler(r)) /\ WF_vars(TimesOut(r))

\* run_sync_loop comes back to every site, and a node that is up answers in the
\* end.
SyncFairness ==
    \A r \in Requests, s \in Sites : SF_vars(BeginSync(r, s)) /\ SF_vars(NodeLists(r, s))

FairSpec == Spec /\ LoopFairness /\ SyncFairness

-----------------------------------------------------------------------------
(* Properties.                                                             *)

Statuses == {"none", "pending", "active", "failed", "revoked", "missing"}

Row == [id : UserIds \cup {NoUser}, status : Statuses]

\* Types; and a committed row is never "pending": the handler settles a placement
\* before it ends.
TypeOK ==
    /\ remote \in [Sites -> [UserIds -> {"none", "on", "off", "back", "gone"}]]
    /\ \A c \in network : c.n \in 1..MaxOps /\ c.site \in Sites /\ c.op \in Mutations
                          /\ c.id \in UserIds \cup {NoUser}
    /\ identity \in BOOLEAN
    /\ placement \in [Sites -> {row \in Row : row.status # "pending"}]
    /\ \A e \in audit : e.op \in Mutations /\ e.site \in Sites
    /\ loop \in Requests \cup {Nobody}
    /\ \A r \in Requests : /\ req[r].base \in [Sites -> Row]
                           /\ req[r].copy \in [Sites -> Row]
                           /\ req[r].held \subseteq Sites
                           /\ loop = r <=> req[r].pc \in {"logical", "next", "flush", "flush sync"}
    /\ ops \in 0..MaxOps /\ restarts \in 0..MaxRestarts
    /\ registered \subseteq Sites /\ errors \subseteq 0..MaxOps

Created(s, u) == Entry("provision", s, u, "success")

\* A placement names a remote user exactly where an audited creation produced one:
\* row and entry are committed in one transaction, whatever aborts in between, and
\* a later transaction never erases the id; only its node's deletion does.
PlacementMatchesAudit ==
    /\ \A s \in Sites : placement[s].id # NoUser => Created(s, placement[s].id) \in audit
    /\ \A e \in audit : e.op = "provision" /\ e.result = "success" /\ e.site \in registered
                          => placement[e.site].id # NoUser

Revoked(s, u) == remote[s][u] \in {"off", "back", "gone"}

\* An entry that reports success reports what the node did: lost answers, late
\* commands and crashes never put a success into the log that did not happen, unless
\* the node redirects commands.
AuditTellsTruth ==
    \A e \in audit : e.result = "success" =>
        CASE e.op = "provision" -> remote[e.site][e.id] # "none"
          [] e.op = "revoke" -> Revoked(e.site, e.id) \/ e.site \in Redirecting
          [] e.op = "delete" -> remote[e.site][e.id] = "gone" \/ e.site \in Redirecting

\* A placement exists only under a committed identity and on a registered node, also
\* if that is deleted under a request that awaits it; and one that is said to exist,
\* to be revoked or to have drifted has a remote user.
PlacementsAreGrounded ==
    \A s \in Sites :
        /\ placement[s] # NoRow => identity /\ s \in registered
        /\ placement[s].status \in {"active", "revoked", "missing"} => placement[s].id # NoUser

\* PlacementStatus.missing: "tracked here but absent on the node (drift)".
MissingMeansGone ==
    \A s \in Sites : placement[s].status = "missing" => placement[s].id \notin Present(s)

\* PlacementStatus.revoked: "profile revoked on the node".  A user of a revoked placement
\* was revoked since it was created, and is on only if it was enabled again after that.
RevokedWasTurnedOff ==
    \A s \in Sites : placement[s].status = "revoked" =>
        Revoked(s, placement[s].id) \/ s \in Redirecting

\* provision(): "recording a UserPlacement per site and an audit entry per action.
\* A failure on one site does not abort the others; that site's placement is
\* marked failed with the error."  Of a request that is over, every target has its
\* placement and its audit entry, unless a target was not fit to be sent or stored or a
\* node's answer could not be read.
EveryTargetRecorded ==
    \A r \in Requests :
        /\ req[r].pc = "done" /\ req[r].op = "provision"
        /\ req[r].fate \notin {"request", "answer"}
        => \A s \in req[r].asked :
               /\ placement[s].status \in {"active", "failed"}
               /\ \E e \in audit : e.op = "provision" /\ e.site = s

Quiet == network = {} /\ \A r \in Requests : AtRest(r)

\* models/audit.py: "Every mutating action ... is recorded as a row".  When nothing is under
\* way, every user on a node has the entry of its creation, or, if its answer was lost, that
\* of an attempt that seemed to fail, or its request is known to have ended in an error.
EveryCreationAudited ==
    Quiet => \A s \in Sites, u \in UserIds : remote[s][u] # "none" =>
        \/ \E e \in audit : e.op = "provision" /\ e.site = s
                            /\ (e.id = u \/ e.result = "failure")
        \/ u \in errors

\* A disagreement the README describes.  deprovision(): "Revoke (or hard-delete) a logical
\* user across every site it exists on."  After one that succeeded everywhere, every user
\* this identity was given has been revoked.
DeprovisionIsComplete ==
    \A r \in Requests :
        /\ req[r].pc = "done" /\ req[r].op \in {"revoke", "delete"}
        /\ \A s \in req[r].asked : placement[s].status = "revoked"
        => \A e \in audit : e.op = "provision" /\ e.result = "success"
                            => remote[e.site][e.id] # "on"

\* A disagreement the README describes: a revoked placement is active again only with
\* another remote user.
RevocationStays ==
    [][\A s \in Sites : placement[s].status = "revoked" /\ placement'[s].status = "active"
                        => placement'[s].id # placement[s].id]_vars


\* A tracked user that is gone from its node is reported as missing at some time.
DriftIsNoticed ==
    \A s \in Sites, u \in UserIds :
        placement[s].id = u /\ remote[s][u] = "gone"
        ~> placement[s].id # u \/ placement[s].status = "missing"

=============================================================================
