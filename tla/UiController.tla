---------------------------- MODULE UiController ----------------------------
(***************************************************************************)
(* TauriController (src/src/tauriController.ts): what the user wants, the   *)
(* queue of lifecycle operations, and the loop that reconciles the backend  *)
(* with the latest wish.  An operation runs to its next await in one step;  *)
(* while it awaits a command, the user changes his mind and events of the   *)
(* backend arrive.  Events keep their order; a command's result comes after *)
(* the events emitted before it and may fall behind later ones.            *)
(*                                                                         *)
(* The backend is ApplicationController as its commands and statuses show   *)
(* it (the module Controller has its steps): a session, an intent it        *)
(* reconnects to by itself, and a status with a growing revision.  Routing  *)
(* is the number of its last change.  Every source has one server.          *)
(*                                                                         *)
(* An operation leaves the queue in the step that ends it: the code lowers  *)
(* queuedOperations one microtask later, when only other continuations of   *)
(* promises can run.  Resets, refreshes in the background and commits of     *)
(* imports are left out.                                                    *)
(***************************************************************************)
EXTENDS Naturals, Sequences

CONSTANTS
    Nodes,      \* confirmed servers
    MaxAsks,    \* bounds what the user asks for
    MaxDrifts   \* bounds what the backend does by itself

Modes == {"proxy", "tun"}
Nothing == [mode |-> "none", node |-> "none", routing |-> 0]    \* no session, no intent
Running(b) == b.session # Nothing
NoRuntime == [rev |-> 0, phase |-> "unknown"]
NoCall == [cmd |-> "none"]
NoReply == [there |-> FALSE]

VARIABLES
    backend,    \* its revision, phase, session, intent and stored servers
    events,     \* statuses emitted and not yet received
    ui,         \* fields of TauriController and of its snapshot
    queue,      \* operations enqueued; the first may be running
    step,       \* what the first awaits, or "idle"
    call,       \* the command it invoked
    reply,      \* the command's result, on its way back
    off,        \* history: the user's last word was that nothing shall run
    refused,    \* history: a session ran when the start was served that made the intent
    settled,    \* history: the last change was reconciled, the wish still that
                \* which the user expressed
    asks, drifts

asked == <<off, asks, drifts>>
operation == <<queue, step, call, reply>>
vars == <<backend, events, ui, operation, settled, refused, asked>>

\* RuntimeStatus
Status(b) ==
    [rev |-> b.rev, phase |-> b.phase, mode |-> b.session.mode, node |-> b.session.node,
     id |-> b.id, requested |-> b.intent # Nothing]

\* A backend that has just started, or that a reloaded window finds connected.
Init ==
    /\ \E session \in {Nothing} \cup [mode : Modes, node : Nodes, routing : {0}] :
        backend = [rev |-> 1, session |-> session, id |-> 0, intent |-> session, stored |-> Nodes,
                   phase |-> IF session = Nothing THEN "disconnected" ELSE "ready"]
    /\ events = <<>>
    /\ \E mode \in Modes, node \in Nodes :
        ui = [boot |-> "status", wants |-> FALSE, acted |-> FALSE, mode |-> mode, selected |-> node,
              servers |-> {}, routing |-> 0, applied |-> 0, runtime |-> NoRuntime]
    /\ queue = <<>> /\ step = "idle" /\ call = NoCall /\ reply = NoReply
    /\ off = (backend.session = Nothing) /\ settled = FALSE /\ refused = FALSE
    /\ asks = 0 /\ drifts = 0

-----------------------------------------------------------------------------
(* Statuses *)

\* acceptRuntime and RuntimeRevisionGate.
Accept(u, status) ==
    IF status.rev <= u.runtime.rev THEN u
    ELSE [u EXCEPT !.runtime = status, !.wants = IF queue = <<>> THEN status.requested ELSE @]

HasSession(u) == u.runtime.phase \notin {"unknown", "disconnected", "failed"}

Receive ==
    /\ events # <<>>
    /\ ui' = Accept(ui, Head(events)) /\ events' = Tail(events)
    /\ UNCHANGED <<backend, operation, settled, refused, asked>>

\* initialize: first the status, then the library.
Boot ==
    \/ /\ ui.boot = "status"
       /\ ui' = [Accept(ui, Status(backend)) EXCEPT !.boot = "nodes"]
       /\ UNCHANGED <<backend, events, operation, settled, refused, asked>>
    \/ /\ ui.boot = "nodes"
       /\ LET runtime == ui.runtime
              selected == IF runtime.node \in backend.stored THEN runtime.node
                          ELSE IF ui.selected \in backend.stored THEN ui.selected
                          ELSE CHOOSE n \in backend.stored : TRUE
          IN ui' = [ui EXCEPT !.boot = "done", !.servers = backend.stored, !.selected = selected,
                              !.wants = IF ui.acted THEN @ ELSE runtime.requested,
                              !.mode = IF ~ui.acted /\ HasSession(ui) THEN runtime.mode ELSE @]
       /\ UNCHANGED <<backend, events, operation, settled, refused, asked>>

-----------------------------------------------------------------------------
(* What an operation does between two awaits, in the state u of the UI *)

Await(u, s, c) ==
    /\ ui' = u /\ step' = s /\ call' = c /\ reply' = NoReply
    /\ UNCHANGED <<queue, settled>>

Stop(u, s) == Await(u, s, [cmd |-> "stop"])

\* enqueue: the next operation may start.
Done(u) ==
    /\ ui' = u /\ queue' = Tail(queue) /\ step' = "idle" /\ call' = NoCall /\ reply' = NoReply
    /\ settled' = IF Head(queue).op \in {"recover", "refresh", "remove"} THEN settled
                   ELSE u.wants # off

Rejected(u) ==
    /\ ui' = [u EXCEPT !.wants = IF Head(queue).op = "retry" THEN FALSE ELSE @]
    /\ queue' = Tail(queue) /\ step' = "idle" /\ call' = NoCall /\ reply' = NoReply
    /\ settled' = FALSE

\* The catch of reconcileConnection.
Caught(u) ==
    LET kept == u.runtime.requested \/ (u.runtime.mode = "tun" /\ HasSession(u))
        v == [u EXCEPT !.wants = @ /\ kept]
    IN IF ~u.wants /\ HasSession(u) THEN Stop(v, "cancelled") ELSE Rejected(v)

Matches(u) ==
    /\ u.runtime.node = u.selected /\ u.runtime.mode = u.mode /\ u.routing = u.applied
    /\ u.runtime.phase \in {"ready", "degraded"}

\* reconcileConnection, from the top of its loop.
Reconcile(u) ==
    IF ~u.wants THEN IF HasSession(u) THEN Stop(u, "stop.last") ELSE Done(u)
    ELSE IF u.runtime.phase \in {"recovery", "blocked"} \/ u.selected \notin u.servers THEN Caught(u)
    ELSE IF ~HasSession(u)
         THEN Await(u, "start", [cmd |-> "start", mode |-> u.mode, node |-> u.selected,
                                 routing |-> u.routing])
    ELSE IF Matches(u) THEN Done(u)
    ELSE IF u.mode = "tun" /\ u.runtime.mode = "tun" /\ u.routing = u.applied
         THEN Await(u, "switch", [cmd |-> "switch", id |-> u.runtime.id, node |-> u.selected])
    ELSE Stop(u, "stop")

Library(u, s, cmd) == Await(u, s, [cmd |-> cmd, node |-> Head(queue).node])

\* Does the operation's source hold the server that runs?
Affected(u) == HasSession(u) /\ u.runtime.node = Head(queue).node

\* The operation at the head of the queue starts.
Begin ==
    /\ queue # <<>> /\ step = "idle" /\ ui.boot = "done"
    /\ CASE Head(queue).op = "reconcile" -> Reconcile(ui)
         [] Head(queue).op = "disconnect" ->
                IF HasSession(ui) \/ ui.runtime.requested THEN Stop(ui, "stop.only") ELSE Done(ui)
         [] Head(queue).op = "retry" ->
                IF HasSession(ui) THEN Stop(ui, "stop.retry") ELSE Reconcile(ui)
         [] Head(queue).op = "recover" -> Await(ui, "recover", [cmd |-> "recover"])
         [] Head(queue).op = "refresh" ->
                IF Head(queue).node \notin ui.servers THEN Rejected(ui)
                ELSE IF Affected(ui) THEN Stop(ui, "stop.refresh")
                ELSE Library(ui, "refresh", "refresh")
         [] Head(queue).op = "remove" ->
                IF Affected(ui) THEN Stop([ui EXCEPT !.wants = FALSE, !.acted = TRUE], "stop.remove")
                ELSE Library(ui, "remove", "remove")
    /\ UNCHANGED <<backend, events, refused, asked>>

\* stopRuntime succeeded only if the status says so.
Stopped(u) == reply.ok /\ u.runtime.phase = "disconnected"

\* Slip: the rules of after the start are taken for those it was given.
AfterStartAssumesRules(u) ==
    IF ~reply.ok THEN Caught(u)
    ELSE LET v == [u EXCEPT !.applied = u.routing]
         IN IF v.runtime.node = call.node /\ v.runtime.mode = call.mode /\ v.runtime.phase = "ready"
            THEN Reconcile(v) ELSE Caught(v)

\* startSelectedRuntime and the check of its result; the loop reads the wish anew.
AfterStart(u) ==
    IF ~reply.ok THEN Caught(u)
    ELSE LET v == [u EXCEPT !.applied = call.routing]
         IN IF v.runtime.node = call.node /\ v.runtime.mode = call.mode /\ v.runtime.phase = "ready"
            THEN Reconcile(v) ELSE Caught(v)

\* A failed candidate leaves the session; only a newer selection is tried.
AfterSwitch(u) ==
    IF \/ reply.ok /\ u.runtime.id = call.id /\ u.runtime.node = call.node /\ u.runtime.phase = "ready"
       \/ u.wants /\ u.selected # call.node
    THEN Reconcile(u) ELSE Caught(u)

\* refreshSource: a session that was stopped for it is brought back.
AfterRefresh(u) ==
    IF reply.ok
    THEN IF step = "refresh.active" THEN Reconcile(u) ELSE Done(u)
    ELSE IF step = "refresh.active" /\ u.wants THEN Reconcile(u) ELSE Rejected(u)

\* removeSource and reloadSources.
AfterRemove(u) ==
    IF ~reply.ok THEN Rejected(u)
    ELSE LET left == u.servers \ {call.node}
         IN Done([u EXCEPT !.servers = left,
                           !.selected = IF @ \in left \/ left = {} THEN @ ELSE CHOOSE n \in left : TRUE])

Resume ==
    /\ reply.there /\ \A i \in DOMAIN events : events[i].rev > reply.status.rev
    /\ LET u == IF reply.ok /\ step \notin {"refresh", "refresh.active", "remove"}
                THEN Accept(ui, reply.status) ELSE ui
       IN CASE step = "stop" -> IF Stopped(u) THEN Reconcile(u) ELSE Caught(u)
            [] step = "stop.last" -> IF Stopped(u) THEN Done(u) ELSE Caught(u)
            [] step = "stop.only" -> IF Stopped(u) THEN Done(u) ELSE Rejected(u)
            [] step = "stop.retry" -> IF Stopped(u) THEN Reconcile(u) ELSE Rejected(u)
            [] step = "cancelled" -> Rejected(u)
            [] step = "start" -> AfterStart(u)
            [] step = "switch" -> AfterSwitch(u)
            [] step = "recover" -> IF reply.ok THEN Done(u) ELSE Rejected(u)
            [] step = "stop.refresh" ->
                   IF Stopped(u) THEN Library(u, "refresh.active", "refresh")
                   ELSE Rejected([u EXCEPT !.wants = FALSE])
            [] step = "stop.remove" ->
                   IF Stopped(u) THEN Library(u, "remove", "remove") ELSE Rejected(u)
            [] step \in {"refresh", "refresh.active"} -> AfterRefresh(u)
            [] step = "remove" -> AfterRemove(u)
    /\ UNCHANGED <<backend, events, refused, asked>>

-----------------------------------------------------------------------------
(* The user *)

Enqueue(op) == queue' = Append(queue, op)
Operation(name) == [op |-> name, node |-> "none"]

\* setMode, selectServer and applyRouting reconcile only if there is something to.
Change(u) ==
    /\ ui' = u /\ settled' = FALSE /\ UNCHANGED off
    /\ IF ui.wants \/ HasSession(ui) \/ queue # <<>>
       THEN Enqueue(Operation("reconcile")) ELSE UNCHANGED queue

Ask(wants, name) ==
    /\ ui' = [ui EXCEPT !.wants = wants, !.acted = TRUE]
    /\ off' = (name = "disconnect") /\ settled' = FALSE
    /\ Enqueue(Operation(name))

User ==
    /\ asks < MaxAsks /\ asks' = asks + 1
    /\ \/ \E mode \in Modes \ {ui.mode} : Change([ui EXCEPT !.mode = mode, !.acted = TRUE])
       \/ \E node \in ui.servers \ {ui.selected} :
              Change([ui EXCEPT !.selected = node, !.acted = TRUE])
       \/ Change([ui EXCEPT !.routing = @ + 1])
       \/ Ask(TRUE, "reconcile")
       \/ Ask(FALSE, "disconnect")
       \/ IF ui.runtime.phase = "recovery" THEN Ask(FALSE, "recover") ELSE Ask(TRUE, "retry")
       \/ \E node \in ui.servers, name \in {"refresh", "remove"} :
              /\ Enqueue([op |-> name, node |-> node])
              /\ UNCHANGED <<ui, off, settled>>
    /\ UNCHANGED <<backend, events, step, call, reply, refused, drifts>>

-----------------------------------------------------------------------------
(* The backend *)

\* update_status: a new revision, and an event.
Turn(b) ==
    /\ backend' = [b EXCEPT !.rev = backend.rev + 1]
    /\ events' = Append(events, Status(backend'))
Same == UNCHANGED <<backend, events>>

Answer(ok) == reply' = [there |-> TRUE, ok |-> ok, status |-> Status(backend')]

Wanted == [mode |-> call.mode, node |-> call.node, routing |-> call.routing]
Up(b, s) == [b EXCEPT !.session = s, !.phase = "ready", !.id = b.rev]
Down(b, phase) == [b EXCEPT !.session = Nothing, !.phase = phase]

\* How a session is found wanting: only System Proxy can be taken over.
Worse(b) == {"degraded"} \cup (IF b.session.mode = "proxy" THEN {"blocked"} ELSE {})

\* start_system_proxy and start_tun: the intent first, then the attempt.
ServeStart ==
    \/ /\ backend.phase \in {"recovery", "blocked"} \/ call.node \notin backend.stored
       /\ Same /\ Answer(FALSE) /\ UNCHANGED refused
    \/ /\ backend.phase \notin {"recovery", "blocked"} /\ Running(backend)
       /\ call.node \in backend.stored
       /\ LET b == [backend EXCEPT !.intent = Wanted]
          IN IF backend.session = Wanted
             THEN \/ Turn([b EXCEPT !.phase = "ready"]) /\ Answer(TRUE)
                  \/ \E phase \in Worse(b) : Turn([b EXCEPT !.phase = phase]) /\ Answer(FALSE)
             ELSE Turn(b) /\ Answer(FALSE)
       /\ refused' = (backend.session # Wanted)
    \/ /\ backend.phase \in {"disconnected", "failed"} /\ call.node \in backend.stored
       /\ Turn([backend EXCEPT !.intent = Wanted, !.phase = "connecting"])
       /\ refused' = FALSE /\ UNCHANGED reply
    \/ /\ backend.phase = "connecting"
       /\ \/ Turn(Up(backend, Wanted)) /\ Answer(TRUE)
          \/ Turn(Down(backend, "failed")) /\ Answer(FALSE)
          \/ Turn(Down(backend, "recovery")) /\ Answer(FALSE)
       /\ UNCHANGED refused

\* stop: the intent is gone whether or not the session can be torn down.
ServeStop ==
    LET b == [backend EXCEPT !.intent = Nothing]
    IN \/ Running(backend) /\ Turn(Down(b, "disconnected")) /\ Answer(TRUE)
       \/ Running(backend) /\ Turn([b EXCEPT !.phase = "recovery"]) /\ Answer(FALSE)
       \/ Running(backend) /\ Turn(Down(b, "failed")) /\ Answer(FALSE)
       \/ /\ ~Running(backend)
          /\ Turn(IF backend.phase = "recovery" THEN b ELSE Down(b, "disconnected"))
          /\ Answer(TRUE)

\* switch_tun_server: the session gets the new server or keeps the old; the
\* intent of TUN names none.
ServeSwitch ==
    LET matches == Running(backend) /\ backend.session.mode = "tun" /\ backend.id = call.id
                   /\ backend.phase # "recovery"
    IN \/ matches /\ Turn([backend EXCEPT !.session.node = call.node, !.phase = "ready"])
          /\ Answer(TRUE)
       \/ matches /\ Turn([backend EXCEPT !.phase = "degraded"]) /\ Answer(FALSE)
       \/ Same /\ Answer(FALSE)

\* retry_session_recovery.
ServeRecover ==
    IF backend.phase # "recovery" THEN Same /\ Answer(TRUE)
    ELSE \/ Turn(Down(backend, "disconnected")) /\ Answer(TRUE)
         \/ Turn(backend) /\ Answer(FALSE)

\* refresh_source and remove_source do not touch a server that runs.
ServeLibrary ==
    \/ Same /\ Answer(FALSE)
    \/ /\ backend.session.node # call.node
       /\ backend' = [backend EXCEPT !.stored = IF call.cmd = "remove" THEN @ \ {call.node} ELSE @]
       /\ UNCHANGED events /\ Answer(TRUE)

Serve ==
    /\ ~reply.there
    /\ \/ call.cmd = "start" /\ ServeStart
       \/ call.cmd = "stop" /\ ServeStop /\ refused' = FALSE
       \/ call.cmd = "switch" /\ ServeSwitch /\ UNCHANGED refused
       \/ call.cmd = "recover" /\ ServeRecover /\ UNCHANGED refused
       \/ call.cmd \in {"refresh", "remove"} /\ ServeLibrary /\ UNCHANGED refused
    /\ UNCHANGED <<ui, queue, step, call, settled, asked>>

\* The monitor finds the session worse, better, in conflict or dead, and
\* reconnects System Proxy by itself while the intent stands.
Drift ==
    /\ drifts < MaxDrifts /\ drifts' = drifts + 1
    /\ \/ backend.phase = "ready" /\ Turn([backend EXCEPT !.phase = "degraded"])
       \/ backend.phase = "degraded" /\ Turn([backend EXCEPT !.phase = "ready"])
       \/ /\ backend.phase \in {"ready", "degraded"} /\ backend.session.mode = "proxy"
          /\ Turn([backend EXCEPT !.phase = "blocked"])
       \/ backend.phase \in {"ready", "degraded"} /\ Turn(Down(backend, "failed"))
       \/ /\ backend.phase \in {"failed", "disconnected"}
          /\ backend.intent.mode = "proxy" /\ backend.intent.node \in backend.stored
          /\ Turn(Up(backend, backend.intent))
    /\ UNCHANGED <<ui, operation, settled, off, refused, asks>>

Next == Receive \/ Boot \/ Begin \/ Resume \/ User \/ Serve \/ Drift

Spec == Init /\ [][Next]_vars

-----------------------------------------------------------------------------
(* Properties *)

TypeOK ==
    /\ backend.rev \in Nat /\ backend.stored \subseteq Nodes
    /\ backend.phase \in {"disconnected", "connecting", "ready", "degraded", "blocked", "failed",
                          "recovery"}
    /\ ui.boot \in {"status", "nodes", "done"} /\ ui.wants \in BOOLEAN /\ ui.mode \in Modes
    /\ ui.servers \subseteq Nodes /\ ui.selected \in Nodes /\ ui.applied <= ui.routing
    /\ reply.there => call # NoCall
    /\ (step = "idle") = (call = NoCall)

Quiet == ui.boot = "done" /\ queue = <<>> /\ events = <<>>

\* Once events and results are all in, in whatever order, the user sees the
\* status the backend has (acceptRuntime).
ShownIsCurrent == Quiet => ui.runtime = Status(backend)

\* What runs, runs the server, the mode and the rules the user chose last.
ChoiceRuns ==
    Running(backend) /\ backend.phase # "recovery" =>
        /\ backend.session.node = ui.selected /\ backend.session.mode = ui.mode
        /\ backend.session.routing = ui.routing

\* When the last change was reconciled without an error and all is quiet, then
\* nothing runs, nor will by itself, if the user's last word was to disconnect;
\* and otherwise his last choice runs, even if he chose while a start, a switch
\* or a stop was awaited (reconcileConnection).  After a start that was refused,
\* because the backend had reconnected unseen, this may fail: what was refused is
\* the intent, to which the backend reconnects next.
IntentHonoured ==
    Quiet /\ settled =>
        /\ off => backend.session = Nothing /\ backend.intent = Nothing
        /\ ~refused => ChoiceRuns
=============================================================================
