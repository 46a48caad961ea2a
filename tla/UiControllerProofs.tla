------------------------- MODULE UiControllerProofs --------------------------
(***************************************************************************)
(* Proofs about UiController: its type invariant, ShownIsCurrent and        *)
(* IntentHonoured, for any number of servers, wishes and changes of the     *)
(* backend.  The idea is that of the revisions: what is not yet received is *)
(* a run of consecutive revisions up to the backend's, so whoever has heard *)
(* the answer of a command has heard of all that the command changed; and   *)
(* such a status is true of the intent and the session, though not of the   *)
(* phase, for as long as no other command is served.                        *)
(***************************************************************************)
EXTENDS UiController, SequenceTheorems, TLAPS

(* Types *)

Phases == {"disconnected", "connecting", "ready", "degraded", "blocked", "failed", "recovery"}
Requests == [mode : Modes, node : Nodes, routing : Nat] \cup {Nothing}
Backends == [rev : Nat, phase : Phases, session : Requests, id : Nat, intent : Requests,
             stored : SUBSET Nodes]
Statuses == [rev : Nat, phase : Phases, mode : Modes \cup {"none"}, node : Nodes \cup {"none"},
             id : Nat, requested : BOOLEAN]
Fields == [boot : {"status", "nodes", "done"}, wants : BOOLEAN, acted : BOOLEAN, mode : Modes,
           selected : Nodes, servers : SUBSET Nodes, routing : Nat, applied : Nat,
           runtime : Statuses \cup {NoRuntime}]
Operations == [op : {"reconcile", "disconnect", "retry", "recover", "refresh", "remove"},
               node : Nodes \cup {"none"}]

Types ==
    /\ backend \in Backends /\ events \in Seq(Statuses) /\ ui \in Fields /\ queue \in Seq(Operations)
    /\ off \in BOOLEAN /\ settled \in BOOLEAN /\ refused \in BOOLEAN
    /\ call.cmd \in {"start", "switch"} => call.node \in Nodes
    /\ call.cmd = "start" => call.mode \in Modes /\ call.routing \in Nat

-----------------------------------------------------------------------------
(* The invariant *)

\* Without a session, while none is started; and System Proxy's intent is that of
\* its session unless a start was refused.
Sessions ==
    /\ backend.phase \in {"disconnected", "failed", "connecting"} => backend.session = Nothing
    /\ backend.phase = "connecting" =>
           /\ call.cmd = "start" /\ ~reply.there /\ backend.intent = Wanted
           /\ call.node \in backend.stored
    /\ backend.intent.mode = "proxy" /\ ~refused => backend.session \in {Nothing, backend.intent}

Reconciling == {"stop", "stop.last", "cancelled", "start", "switch"}
Stopping == {"stop", "stop.last", "cancelled", "stop.only", "stop.retry", "stop.refresh",
             "stop.remove"}

\* Which command is awaited at a step, and by which operations.
Awaits(s, c, op) ==
    /\ c # NoCall
    /\ s \in Stopping <=> c.cmd = "stop"
    /\ s = "start" <=> c.cmd = "start"
    /\ s = "switch" <=> c.cmd = "switch"
    /\ s = "recover" <=> c.cmd = "recover"
    /\ s = "remove" <=> c.cmd = "remove"
    /\ s \in {"refresh", "refresh.active"} <=> c.cmd = "refresh"
    /\ s \in Stopping \cup {"start", "switch", "recover", "remove", "refresh", "refresh.active"}
    /\ s \in Reconciling => op \in {"reconcile", "retry", "refresh"}
    /\ s = "stop.only" => op = "disconnect"
    /\ s = "stop.retry" => op = "retry"
    /\ s = "recover" => op = "recover"
    /\ s \in {"stop.refresh", "refresh", "refresh.active"} => op = "refresh"
    /\ s \in {"stop.remove", "remove"} => op = "remove"

Paired ==
    /\ step = "idle" => call = NoCall /\ reply = NoReply
    /\ step # "idle" => queue # <<>> /\ ui.boot = "done" /\ Awaits(step, call, queue[1].op)
    /\ settled => ui.boot = "done"

\* Before the library is there nothing was commanded; from then on the selected
\* server is listed while one is.
Plain(s) ==
    s.phase \notin {"connecting", "recovery"} /\
    (s.phase \in {"disconnected", "failed"} \/ s.mode \in Modes)

Listed ==
    /\ ui.boot # "done" =>
           /\ backend.stored = Nodes /\ Plain(Status(backend))
           /\ ui.runtime.rev > 0 => Plain(ui.runtime)
           /\ \A i \in 1..Len(events) : Plain(events[i])
    /\ ui.boot = "done" => ui.selected \in ui.servers \/ ui.servers = {}

\* The statuses under way are the revisions that were not received, in their order.
Revisions ==
    /\ \A i \in 1..Len(events) : events[i].rev + Len(events) = backend.rev + i
    /\ events # <<>> => events[Len(events)] = Status(backend)
    /\ backend.rev > 0 /\ ui.runtime.rev <= backend.rev
    /\ ui.runtime.rev = backend.rev => ui.runtime = Status(backend)
    /\ ui.boot # "status" => ui.runtime.rev > 0 /\ ui.runtime.rev + Len(events) >= backend.rev

Late == reply.there => reply.status.rev \in Nat /\ reply.status.rev <= backend.rev

\* Is s no older than the last command?
Fresh(s) == call = NoCall \/ (reply.there /\ s.rev >= reply.status.rev)

\* What s says of intent and session still holds.
Faithful(s) ==
    /\ s.requested = (backend.intent # Nothing)
    /\ backend.intent = Nothing /\ s.phase \in {"disconnected", "failed"} =>
           backend.session = Nothing
    /\ ~refused /\ s.mode # "none" =>
           /\ Running(backend) /\ backend.phase # "recovery" =>
                  backend.session.mode = s.mode /\ backend.session.node = s.node
           /\ backend.intent.mode = "proxy" =>
                  backend.intent.mode = s.mode /\ backend.intent.node = s.node

Truth ==
    /\ ui.runtime.rev > 0 /\ Fresh(ui.runtime) => Faithful(ui.runtime)
    /\ \A i \in 1..Len(events) : Fresh(events[i]) => Faithful(events[i])

\* The rules a session has, or would get, are those of a start between the last
\* that succeeded and the latest wish.
Between(u, r) == u.applied <= r /\ r <= u.routing
Rules(u) ==
    /\ u.applied <= u.routing
    /\ Running(backend) => Between(u, backend.session.routing)
    /\ backend.intent # Nothing => Between(u, backend.intent.routing)

Starts ==
    /\ call.cmd = "start" => Between(ui, call.routing)
    /\ reply.there /\ call.cmd = "start" /\ reply.ok =>
           backend.intent = Wanted /\ backend.session \in {Nothing, Wanted}

Waiting(ops) == \E i \in 1..Len(queue) : queue[i].op \in ops
Changes == {"reconcile", "disconnect", "retry"}

\* Who wants a connection after he wanted none has asked for it.
Overruled(wants, s) ==
    \A i \in 1..Len(queue) :
        wants /\ (queue[i].op = "disconnect" \/ (i = 1 /\ s = "stop.last")) =>
            \E j \in 1..Len(queue) : j > i /\ queue[j].op \in {"reconcile", "retry"}

Pending ==
    /\ Overruled(ui.wants, step)
    /\ ui.boot # "done" /\ Waiting({"disconnect"}) => ui.acted

\* After a disconnect nothing is wanted, and nothing comes back.
OffHeld ==
    /\ off => ~ui.wants
    /\ off /\ ~Waiting({"disconnect"}) => backend.intent = Nothing /\ step # "start"
    /\ settled /\ off /\ ~Waiting({"disconnect"}) => backend.session = Nothing
    /\ reply.there /\ call.cmd = "stop" => backend.intent = Nothing

\* A server is removed only while it does not run.
Removed ==
    reply.there /\ reply.ok /\ call.cmd = "remove" =>
        call.node \notin backend.stored /\ (Running(backend) => backend.session.node # call.node)

\* What runs and what the backend would reconnect to is what u wants.
Chosen(u) ==
    /\ u.routing = u.applied
    /\ ~refused =>
         /\ Running(backend) /\ backend.phase # "recovery" =>
                backend.session.mode = u.mode /\ backend.session.node = u.selected
         /\ backend.intent.mode = "proxy" /\ backend.intent.node \in backend.stored =>
                backend.intent.mode = u.mode /\ backend.intent.node = u.selected

Reconciled == settled /\ ~off /\ ~Waiting(Changes)

Matched ==
    Reconciled =>
        /\ Chosen(ui)
        /\ step = "start" => call.mode = ui.mode /\ call.node = ui.selected
                             /\ call.routing = ui.routing
        /\ step = "switch" => call.node = ui.selected

Inv ==
    /\ Types /\ Sessions /\ Paired /\ Listed /\ Revisions /\ Late /\ Truth /\ Rules(ui) /\ Starts
    /\ Pending /\ OffHeld /\ Removed /\ Matched

-----------------------------------------------------------------------------
(* Statuses and sequences *)

LEMMA Constants ==
    /\ Nothing.mode = "none" /\ Nothing.routing = 0 /\ Nothing.node = "none"
    /\ NoRuntime.rev = 0 /\ NoRuntime.phase = "unknown" /\ NoCall.cmd = "none"
    /\ NoReply.there = FALSE /\ "none" \notin Modes /\ Nothing \in Requests
    /\ \A r \in Requests : r # Nothing =>
           r.mode \in Modes /\ r.node \in Nodes /\ r.routing \in Nat
    /\ \A r \in Requests : r.mode \in Modes \cup {"none"} /\ r.node \in Nodes \cup {"none"}
  BY DEF Nothing, NoRuntime, NoCall, NoReply, Modes, Requests

LEMMA StatusType ==
  ASSUME NEW b \in Backends
  PROVE  Status(b) \in Statuses
  BY Constants DEF Status, Backends, Statuses

LEMMA Appended ==
  ASSUME NEW S, NEW q \in Seq(S), NEW e \in S
  PROVE  /\ Append(q, e) \in Seq(S) /\ Append(q, e) # <<>>
         /\ Len(q) \in Nat /\ Len(Append(q, e)) = Len(q) + 1
         /\ \A i \in 1..Len(q) : Append(q, e)[i] = q[i]
         /\ Append(q, e)[Len(q) + 1] = e
  BY AppendProperties, LenProperties

LEMMA Taken ==
  ASSUME NEW S, NEW q \in Seq(S), q # <<>>
  PROVE  /\ Head(q) = q[1] /\ q[1] \in S /\ Tail(q) \in Seq(S)
         /\ Len(q) \in Nat /\ Len(q) > 0 /\ Len(Tail(q)) = Len(q) - 1
         /\ \A i \in 1..Len(Tail(q)) : Tail(q)[i] = q[i + 1]
         /\ (Tail(q) = <<>>) = (Len(q) = 1)
<1>1. Len(q) \in Nat /\ Len(q) > 0
  BY EmptySeq, LenProperties
<1>2. Tail(q) \in Seq(S) /\ Len(Tail(q)) = Len(q) - 1
      /\ \A i \in 1..Len(Tail(q)) : Tail(q)[i] = q[i + 1]
  BY HeadTailProperties
<1>3. Head(q) = q[1] /\ q[1] \in S
  BY <1>1, ElementOfSeq
<1>4. (Tail(q) = <<>>) = (Len(Tail(q)) = 0)
  BY <1>2, EmptySeq
<1> QED
  BY <1>1, <1>2, <1>3, <1>4

LEMMA Lengths ==
  ASSUME Types
  PROVE  /\ Len(events) \in Nat /\ (events = <<>>) = (Len(events) = 0)
         /\ Len(queue) \in Nat /\ (queue = <<>>) = (Len(queue) = 0)
         /\ DOMAIN events = 1..Len(events) /\ DOMAIN queue = 1..Len(queue)
         /\ \A i \in 1..Len(events) : events[i] \in Statuses
         /\ \A i \in 1..Len(queue) : queue[i] \in Operations
<1>1. events \in Seq(Statuses) /\ queue \in Seq(Operations)
  BY DEF Types
<1>2. Len(events) \in Nat /\ Len(queue) \in Nat
      /\ DOMAIN events = 1..Len(events) /\ DOMAIN queue = 1..Len(queue)
  BY <1>1, LenProperties
<1>3. (events = <<>>) = (Len(events) = 0) /\ (queue = <<>>) = (Len(queue) = 0)
  BY <1>1, EmptySeq
<1> QED
  BY <1>1, <1>2, <1>3, ElementOfSeq

\* What the backend says of itself is so.
LEMMA StatusFaithful ==
  ASSUME Types, Sessions
  PROVE  Faithful(Status(backend))
  BY Constants DEF Types, Sessions, Backends, Faithful, Status, Running

\* Whoever hears the backend's revision hears its status.
LEMMA AnswerTruth ==
  ASSUME Types', Revisions', Sessions', call' # NoCall,
         reply'.there => reply'.status.rev = backend'.rev
  PROVE  Truth'
<1>1. Faithful(Status(backend))'
  BY Constants DEF Types, Sessions, Backends, Faithful, Status, Running
<1>2. backend'.rev \in Nat /\ ui'.runtime.rev \in Nat /\ Len(events') \in Nat
      /\ \A i \in 1..Len(events') : events'[i].rev \in Nat
  <2>1. events' \in Seq(Statuses) /\ backend' \in Backends /\ ui' \in Fields
    BY DEF Types
  <2>2. Len(events') \in Nat /\ \A i \in 1..Len(events') : events'[i] \in Statuses
    BY <2>1, LenProperties, ElementOfSeq
  <2> QED
    BY <2>1, <2>2, Constants DEF Backends, Fields, Statuses
<1>3. ASSUME ui'.runtime.rev >= backend'.rev PROVE ui'.runtime = Status(backend')
  BY <1>2, <1>3 DEF Revisions
<1>4. ASSUME NEW i \in 1..Len(events'), events'[i].rev >= backend'.rev
      PROVE  events'[i] = Status(backend')
  <2>1. events'[i].rev + Len(events') = backend'.rev + i
    BY DEF Revisions
  <2>2. i = Len(events')
    BY <1>2, <1>4, <2>1
  <2>3. events' # <<>>
    BY <1>2, EmptySeq DEF Types
  <2> QED
    BY <2>2, <2>3 DEF Revisions
<1> QED
  BY <1>1, <1>3, <1>4 DEF Truth, Fresh, Faithful

\* update_status: the backend's new revision follows the last.
LEMMA TurnRevisions ==
  ASSUME Types, Revisions, backend' \in Backends, backend'.rev = backend.rev + 1,
         events' = Append(events, Status(backend')), UNCHANGED ui
  PROVE  events' \in Seq(Statuses) /\ Revisions'
<1>1. Status(backend') \in Statuses /\ Status(backend').rev = backend.rev + 1
  BY StatusType DEF Status
<1>2. /\ events' \in Seq(Statuses) /\ events' # <<>>
      /\ Len(events) \in Nat /\ Len(events') = Len(events) + 1
      /\ \A i \in 1..Len(events) : events'[i] = events[i]
      /\ events'[Len(events) + 1] = Status(backend')
  BY <1>1, Appended DEF Types
<1>3. backend.rev \in Nat /\ ui.runtime.rev \in Nat
  BY Constants DEF Types, Backends, Fields, Statuses
<1>4. \A i \in 1..Len(events) : events[i].rev \in Nat
  BY Lengths DEF Statuses
<1>5. ASSUME NEW i \in 1..Len(events')
      PROVE  events'[i].rev + Len(events') = backend'.rev + i
  <2>1. CASE i \in 1..Len(events)
    <3>1. events[i].rev + Len(events) = backend.rev + i
      BY <2>1 DEF Revisions
    <3>2. events'[i].rev = events[i].rev /\ events[i].rev \in Nat
      BY <1>2, <1>4, <2>1
    <3>3. Len(events') = Len(events) + 1 /\ Len(events) \in Nat /\ i \in Nat
      BY <1>2
    <3> DEFINE r == events[i].rev
               n == Len(events)
               l == backend.rev
    <3>4. r \in Nat /\ n \in Nat /\ l \in Nat /\ i \in Nat /\ r + n = l + i
      BY <1>3, <3>1, <3>2, <3>3
    <3> HIDE DEF r, n, l
    <3>5. r + (n + 1) = (l + 1) + i
      BY <3>4
    <3>6. events[i].rev + (Len(events) + 1) = (backend.rev + 1) + i
      BY <3>5, Zenon DEF r, n, l
    <3>7. events'[i].rev + Len(events') = events[i].rev + (Len(events) + 1)
      BY <3>2, <3>3, Zenon
    <3>8. backend'.rev + i = (backend.rev + 1) + i
      BY Zenon
    <3> QED
      BY <3>6, <3>7, <3>8, Zenon
  <2>2. CASE i = Len(events) + 1
    BY <1>1, <1>2, <1>3, <2>2
  <2> QED
    BY <1>2, <2>1, <2>2
<1> QED
  BY <1>1, <1>2, <1>3, <1>5 DEF Revisions

\* A backend that says nothing new.
LEMMA StayRevisions ==
  ASSUME Types, Revisions, Status(backend') = Status(backend), backend'.rev = backend.rev,
         UNCHANGED <<events, ui>>
  PROVE  Revisions'
  BY DEF Revisions

-----------------------------------------------------------------------------
(* Init *)

LEMMA InitInv == Init => Inv
<1> SUFFICES ASSUME Init PROVE Inv
  OBVIOUS
<1>1. PICK session \in {Nothing} \cup [mode : Modes, node : Nodes, routing : {0}] :
        backend = [rev |-> 1, session |-> session, id |-> 0, intent |-> session, stored |-> Nodes,
                   phase |-> IF session = Nothing THEN "disconnected" ELSE "ready"]
  BY DEF Init
<1>2. PICK mode \in Modes, node \in Nodes :
        ui = [boot |-> "status", wants |-> FALSE, acted |-> FALSE, mode |-> mode, selected |-> node,
              servers |-> {}, routing |-> 0, applied |-> 0, runtime |-> NoRuntime]
  BY DEF Init
<1>3. /\ events = <<>> /\ queue = <<>> /\ step = "idle" /\ call = NoCall /\ reply = NoReply
      /\ off = (backend.session = Nothing) /\ settled = FALSE /\ refused = FALSE
  BY DEF Init
<1>4. session \in Requests /\ session.routing = 0
      /\ (session # Nothing => session.mode \in Modes)
  BY Constants DEF Requests
<1>5. Types
  <2>1. events \in Seq(Statuses) /\ queue \in Seq(Operations)
    BY <1>3, EmptySeq
  <2>2. backend \in Backends
    BY <1>1, <1>4 DEF Backends, Phases
  <2>3. ui \in Fields
    BY <1>2 DEF Fields
  <2> QED
    BY <1>3, <2>1, <2>2, <2>3, Constants DEF Types
<1>6. Len(events) = 0 /\ Len(queue) = 0
  BY <1>3, EmptySeq
<1>7. Sessions /\ Paired /\ Late /\ Starts /\ Removed
  BY <1>1, <1>2, <1>3, <1>4, Constants DEF Sessions, Paired, Late, Starts, Removed
<1>8. Listed /\ Revisions /\ Truth /\ Rules(ui)
  BY <1>1, <1>2, <1>3, <1>4, <1>6, Constants DEF Listed, Plain, Status, Revisions, Truth, Rules,
     Between, Running
<1>9. Pending /\ Matched
  BY <1>2, <1>3, <1>6 DEF Pending, Overruled, Waiting, Matched, Reconciled
<1>10. OffHeld
  BY <1>1, <1>2, <1>3, Constants DEF OffHeld
<1> QED
  BY <1>5, <1>7, <1>8, <1>9, <1>10 DEF Inv

-----------------------------------------------------------------------------
(* What an operation does between two awaits *)

\* What is known of u when an operation goes on: it has heard of all that its
\* command changed.
Ready(u) ==
    /\ u \in Fields /\ u.boot = "done" /\ u.runtime = ui.runtime
    /\ u.selected \in u.servers \/ u.servers = {}
    /\ u.wants => ui.wants
    /\ backend.phase # "connecting"
    /\ Faithful(u.runtime) /\ \A i \in 1..Len(events) : Faithful(events[i])
    /\ Rules(u)
    /\ Reconciled => Chosen(u)

Still == UNCHANGED <<backend, events, refused, asked>>

\* Another operation behind the first.
Later(ops) == \E j \in 1..Len(queue) : j > 1 /\ queue[j].op \in ops

\* What does not depend on the operation.
LEMMA StillInv ==
  ASSUME Inv, ui.boot = "done", NEW u, Ready(u), Still, ui' = u
  PROVE  Revisions' /\ Listed' /\ (Rules(ui))' /\ ui' \in Fields
<1>1. ui'.runtime = ui.runtime /\ ui'.boot = "done" /\ UNCHANGED <<backend, events>>
  BY DEF Ready, Still
<1>2. Revisions'
  BY <1>1 DEF Inv, Revisions
<1>3. Listed'
  BY <1>1 DEF Ready, Listed
<1>4. (Rules(ui))' /\ ui' \in Fields
  BY <1>1 DEF Ready, Rules, Between, Running
<1> QED
  BY <1>2, <1>3, <1>4

LEMMA AwaitInv ==
  ASSUME Inv, queue # <<>>, ui.boot = "done", Still,
         NEW u, Ready(u), NEW s, NEW c, Await(u, s, c), Awaits(s, c, queue[1].op),
         c.cmd = "start" =>
             u.wants /\ c.mode = u.mode /\ c.node = u.selected /\ c.routing = u.routing,
         c.cmd = "switch" => c.node = u.selected,
         s = "stop.last" => ~u.wants
  PROVE  Inv'
<1>1. /\ ui' = u /\ step' = s /\ call' = c /\ reply' = NoReply
      /\ UNCHANGED <<queue, settled, backend, events, refused, off>>
  BY DEF Await, Still, asked
<1>2. Revisions' /\ Listed' /\ (Rules(ui))' /\ ui' \in Fields
  BY <1>1, StillInv
<1>3. Types'
  BY <1>1, <1>2 DEF Inv, Types, Ready, Fields
<1>4. Sessions'
  BY <1>1 DEF Inv, Sessions, Ready, Running
<1>5. Paired'
  BY <1>1 DEF Inv, Paired, Ready, Awaits, Stopping
<1>6. Late' /\ Truth' /\ Removed'
  BY <1>1, Constants DEF Late, Truth, Fresh, Removed, Awaits
<1>7. Starts'
  BY <1>1, Constants DEF Starts, Ready, Rules, Between, Fields
<1>8. Pending'
  BY <1>1 DEF Inv, Pending, Overruled, Waiting, Ready
<1>9. OffHeld'
  BY <1>1, Constants DEF Inv, OffHeld, Waiting, Ready, Awaits
<1>10. Matched'
  BY <1>1 DEF Inv, Matched, Reconciled, Waiting, Ready, Chosen, Running, Awaits
<1> QED
  BY <1>2, <1>3, <1>4, <1>5, <1>6, <1>7, <1>8, <1>9, <1>10 DEF Inv

\* The next operation is the first.
LEMMA TailFacts ==
  ASSUME Types, queue # <<>>, queue' = Tail(queue)
  PROVE  /\ queue' \in Seq(Operations) /\ Len(queue) \in Nat /\ Len(queue') = Len(queue) - 1
         /\ Head(queue) = queue[1] /\ Len(queue) > 0
         /\ \A i \in 1..Len(queue') : queue'[i] = queue[i + 1] /\ i + 1 \in 1..Len(queue)
         /\ \A ops : (Waiting(ops))' = Later(ops)
         /\ \A ops : Waiting(ops) = (Later(ops) \/ queue[1].op \in ops)
<1>1. /\ queue' \in Seq(Operations) /\ Len(queue) \in Nat /\ Len(queue') = Len(queue) - 1
      /\ Head(queue) = queue[1] /\ Len(queue) > 0
      /\ \A i \in 1..Len(queue') : queue'[i] = queue[i + 1]
  BY Taken DEF Types
<1>2. \A i \in 1..Len(queue') : i + 1 \in 1..Len(queue)
  BY <1>1
<1>3. ASSUME NEW ops PROVE (Waiting(ops))' = Later(ops)
  <2>1. ASSUME NEW j \in 1..Len(queue), j > 1
        PROVE  j - 1 \in 1..Len(queue') /\ queue'[j - 1] = queue[j]
    <3>1. j - 1 \in 1..Len(queue') /\ (j - 1) + 1 = j
      BY <1>1, <2>1
    <3> QED
      BY <1>1, <3>1
  <2>2. Later(ops) => (Waiting(ops))'
    BY <2>1 DEF Later, Waiting
  <2>3. ASSUME NEW i \in 1..Len(queue'), queue'[i].op \in ops PROVE Later(ops)
    <3>1. i + 1 \in 1..Len(queue) /\ queue[i + 1].op \in ops /\ i + 1 > 1
      BY <1>1, <1>2, <2>3
    <3> QED
      BY <3>1 DEF Later
  <2> QED
    BY <2>2, <2>3 DEF Later, Waiting
<1>4. ASSUME NEW ops PROVE Waiting(ops) = (Later(ops) \/ queue[1].op \in ops)
  <2>1. 1 \in 1..Len(queue) /\ \A i \in 1..Len(queue) : i = 1 \/ i > 1
    BY <1>1
  <2>2. Waiting(ops) => Later(ops) \/ queue[1].op \in ops
    BY <2>1 DEF Later, Waiting
  <2>3. Later(ops) \/ queue[1].op \in ops => Waiting(ops)
    BY <2>1 DEF Later, Waiting
  <2> QED
    BY <2>2, <2>3 DEF Later, Waiting
<1> QED
  BY <1>1, <1>2, <1>3, <1>4

\* What both ends of an operation have in common.
LEMMA EndInv ==
  ASSUME Inv, queue # <<>>, ui.boot = "done", Still, NEW u, Ready(u),
         ui' = u, queue' = Tail(queue), step' = "idle", call' = NoCall, reply' = NoReply
  PROVE  /\ Sessions' /\ Paired' /\ Revisions' /\ Listed' /\ Late' /\ Truth' /\ (Rules(ui))'
         /\ Starts' /\ Removed' /\ Pending'
         /\ backend' \in Backends /\ events' \in Seq(Statuses) /\ ui' \in Fields
         /\ queue' \in Seq(Operations) /\ off' = off /\ off \in BOOLEAN /\ refused' \in BOOLEAN
<1>0. UNCHANGED <<backend, events, refused, off>>
  BY DEF Still, asked
<1>1. Revisions' /\ Listed' /\ (Rules(ui))' /\ ui' \in Fields
  BY StillInv
<1>2. Types /\ queue' \in Seq(Operations)
  BY TailFacts DEF Inv
<1>3. backend' \in Backends /\ events' \in Seq(Statuses) /\ off \in BOOLEAN /\ refused' \in BOOLEAN
  BY <1>0, <1>2 DEF Types
<1>4. Sessions'
  BY <1>0 DEF Inv, Sessions, Ready, Running
<1>5. Paired' /\ Late' /\ Starts' /\ Removed'
  BY Constants DEF Paired, Late, Starts, Removed, Ready
<1>6. Truth'
  BY <1>0 DEF Truth, Ready, Faithful, Running
<1>7. Pending'
  <2>1. ASSUME NEW i \in 1..Len(queue'), u.wants, queue'[i].op = "disconnect"
        PROVE  \E j \in 1..Len(queue') : j > i /\ queue'[j].op \in {"reconcile", "retry"}
    <3>1. queue[i + 1].op = "disconnect" /\ i + 1 \in 1..Len(queue) /\ ui.wants
      BY <1>2, <2>1, TailFacts DEF Ready
    <3>2. PICK j \in 1..Len(queue) : j > i + 1 /\ queue[j].op \in {"reconcile", "retry"}
      BY <3>1 DEF Inv, Pending, Overruled
    <3>3. j - 1 \in 1..Len(queue') /\ (j - 1) + 1 = j /\ j - 1 > i
      BY <1>2, <3>2, TailFacts
    <3> QED
      BY <1>2, <3>2, <3>3, TailFacts
  <2> QED
    BY <2>1 DEF Pending, Overruled, Ready
<1> QED
  BY <1>0, <1>1, <1>2, <1>3, <1>4, <1>5, <1>6, <1>7

\* An operation that ends well, and what has to hold when it is a change.
LEMMA DoneInv ==
  ASSUME Inv, queue # <<>>, ui.boot = "done", Still, NEW u, Ready(u), Done(u),
         queue[1].op \in Changes /\ u.wants => Chosen(u) \/ Later({"reconcile", "retry"}),
         queue[1].op \in Changes /\ off /\ ~Later({"disconnect"}) =>
             backend.intent = Nothing /\ backend.session = Nothing
  PROVE  Inv'
<1>1. /\ ui' = u /\ queue' = Tail(queue) /\ step' = "idle" /\ call' = NoCall /\ reply' = NoReply
      /\ UNCHANGED <<backend, refused, off>>
  BY DEF Done, Still, asked
<1>2. /\ Sessions' /\ Paired' /\ Revisions' /\ Listed' /\ Late' /\ Truth' /\ (Rules(ui))'
      /\ Starts' /\ Removed' /\ Pending'
      /\ backend' \in Backends /\ events' \in Seq(Statuses) /\ ui' \in Fields
      /\ queue' \in Seq(Operations) /\ off' = off /\ off \in BOOLEAN /\ refused' \in BOOLEAN
  BY <1>1, EndInv
<1>3. /\ Head(queue) = queue[1] /\ \A ops : (Waiting(ops))' = Later(ops)
      /\ \A ops : Waiting(ops) = (Later(ops) \/ queue[1].op \in ops)
      /\ queue[1] \in Operations
  <2>1. Types
    BY DEF Inv
  <2>2. queue[1] \in Operations
    BY <2>1, Taken DEF Types
  <2> QED
    BY <1>1, <2>1, <2>2, TailFacts
<1>4. settled' = IF queue[1].op \in Changes THEN u.wants # off ELSE settled
  <2>1. (queue[1].op \in {"recover", "refresh", "remove"}) = (queue[1].op \notin Changes)
    BY <1>3 DEF Operations, Changes
  <2> QED
    BY <1>3, <2>1 DEF Done
<1>5. u.wants \in BOOLEAN /\ (u.wants => ~off)
  BY DEF Ready, Fields, Inv, OffHeld
<1>6. Types'
  BY <1>1, <1>2, <1>4, Constants DEF Types, Inv
<1>7. OffHeld'
  <2>1. ASSUME off, ~Later({"disconnect"}) PROVE backend.intent = Nothing
    <3>1. CASE queue[1].op \in Changes
      BY <2>1, <3>1
    <3>2. CASE queue[1].op \notin Changes
      <4>1. ~Waiting({"disconnect"})
        BY <1>3, <2>1, <3>2 DEF Changes
      <4> QED
        BY <2>1, <4>1 DEF Inv, OffHeld
    <3> QED
      BY <3>1, <3>2
  <2>2. ASSUME off, ~Later({"disconnect"}), settled' PROVE backend.session = Nothing
    <3>1. CASE queue[1].op \in Changes
      BY <2>2, <3>1
    <3>2. CASE queue[1].op \notin Changes
      <4>1. ~Waiting({"disconnect"}) /\ settled
        BY <1>3, <1>4, <2>2, <3>2 DEF Changes
      <4> QED
        BY <2>2, <4>1 DEF Inv, OffHeld
    <3> QED
      BY <3>1, <3>2
  <2> QED
    BY <1>1, <1>3, <1>5, <2>1, <2>2, Constants DEF OffHeld
<1>8. Matched'
  <2> SUFFICES ASSUME settled', ~off, ~Later(Changes) PROVE Chosen(u)
    BY <1>1, <1>3 DEF Matched, Reconciled, Chosen, Running
  <2>1. CASE queue[1].op \in Changes
    <3>1. ~Later({"reconcile", "retry"})
      BY DEF Later, Changes
    <3> QED
      BY <1>2, <1>4, <1>5, <2>1, <3>1
  <2>2. CASE queue[1].op \notin Changes
    <3>1. settled /\ ~Waiting(Changes)
      BY <1>3, <1>4, <2>2
    <3> QED
      BY <3>1 DEF Ready, Reconciled
  <2> QED
    BY <2>1, <2>2
<1> QED
  BY <1>2, <1>6, <1>7, <1>8 DEF Inv

LEMMA RejectedInv ==
  ASSUME Inv, queue # <<>>, ui.boot = "done", Still, NEW u, Ready(u), Rejected(u),
         queue[1].op = "disconnect" => backend.intent = Nothing
  PROVE  Inv'
<1> DEFINE v == [u EXCEPT !.wants = IF Head(queue).op = "retry" THEN FALSE ELSE @]
<1>1. /\ ui' = v /\ queue' = Tail(queue) /\ step' = "idle" /\ call' = NoCall /\ reply' = NoReply
      /\ settled' = FALSE /\ UNCHANGED <<backend, refused, off>>
  BY DEF Rejected, Still, asked
<1>2. Ready(v)
  BY DEF Ready, Fields, Rules, Between, Chosen
<1> HIDE DEF v
<1>3. /\ Sessions' /\ Paired' /\ Revisions' /\ Listed' /\ Late' /\ Truth' /\ (Rules(ui))'
      /\ Starts' /\ Removed' /\ Pending'
      /\ backend' \in Backends /\ events' \in Seq(Statuses) /\ ui' \in Fields
      /\ queue' \in Seq(Operations) /\ off' = off /\ off \in BOOLEAN /\ refused' \in BOOLEAN
  BY <1>1, <1>2, EndInv
<1>4. /\ \A ops : (Waiting(ops))' = Later(ops)
      /\ \A ops : Waiting(ops) = (Later(ops) \/ queue[1].op \in ops)
  BY <1>1, TailFacts DEF Inv
<1>5. OffHeld'
  <2>1. ASSUME off, ~Later({"disconnect"}) PROVE backend.intent = Nothing
    BY <1>4, <2>1 DEF Inv, OffHeld
  <2> QED
    BY <1>1, <1>2, <1>4, <2>1, Constants DEF OffHeld, Ready, Inv
<1>6. Types' /\ Matched'
  BY <1>1, <1>3, Constants DEF Types, Matched, Reconciled
<1> QED
  BY <1>3, <1>5, <1>6 DEF Inv

-----------------------------------------------------------------------------
(* The loop of reconcileConnection, and its catch *)

LEMMA CaughtInv ==
  ASSUME Inv, queue # <<>>, ui.boot = "done", Still, NEW u, Ready(u), Caught(u),
         queue[1].op \in {"reconcile", "retry", "refresh"}
  PROVE  Inv'
<1> DEFINE v == [u EXCEPT !.wants = @ /\ (u.runtime.requested \/
                                          (u.runtime.mode = "tun" /\ HasSession(u)))]
<1>1. Ready(v)
  <2>1. v \in Fields /\ u \in Fields /\ (v.wants => u.wants)
        /\ v = [u EXCEPT !.wants = v.wants]
    BY DEF Ready, Fields
  <2> HIDE DEF v
  <2> QED
    BY <2>1 DEF Ready, Fields, Rules, Between, Chosen
<1>2. (~u.wants /\ HasSession(u) /\ Stop(v, "cancelled")) \/ Rejected(v)
  BY DEF Caught
<1> HIDE DEF v
<1>3. CASE Stop(v, "cancelled")
  <2> DEFINE c == [cmd |-> "stop"]
  <2>1. c.cmd = "stop" /\ Awaits("cancelled", c, queue[1].op) /\ Await(v, "cancelled", c)
    BY <1>3, Constants DEF Awaits, Stopping, Reconciling, Stop
  <2> HIDE DEF c
  <2> QED
    BY <1>1, <2>1, AwaitInv
<1>4. CASE Rejected(v)
  BY <1>1, <1>4, RejectedInv
<1> QED
  BY <1>2, <1>3, <1>4

\* A status that was received is not the placeholder.
LEMMA Known ==
  ASSUME Inv, ui.boot # "status"
  PROVE  ui.runtime \in Statuses /\ ui.runtime.rev \in Nat
  BY Constants DEF Inv, Types, Fields, Revisions, Statuses

LEMMA NoSession ==
  ASSUME Inv, ui.boot = "done", NEW u, Ready(u), ~HasSession(u)
  PROVE  u.runtime.phase \in {"disconnected", "failed"}
<1>1. u.runtime \in Statuses /\ u.runtime.phase \in {"unknown", "disconnected", "failed"}
  BY Known DEF Ready, HasSession
<1> QED
  BY <1>1 DEF Statuses, Phases

LEMMA ReconcileInv ==
  ASSUME Inv, queue # <<>>, ui.boot = "done", Still, NEW u, Ready(u), Reconcile(u),
         queue[1].op \in {"reconcile", "retry", "refresh"}
  PROVE  Inv'
<1>1. u \in Fields /\ (u.wants => ui.wants)
  BY DEF Ready
<1>2. CASE ~u.wants /\ HasSession(u)
  <2> DEFINE c == [cmd |-> "stop"]
  <2>1. c.cmd = "stop" /\ Awaits("stop.last", c, queue[1].op) /\ Await(u, "stop.last", c)
    BY <1>2, Constants DEF Awaits, Stopping, Reconciling, Stop, Reconcile
  <2> HIDE DEF c
  <2> QED
    BY <1>2, <2>1, AwaitInv
<1>3. CASE ~u.wants /\ ~HasSession(u)
  <2>1. Done(u)
    BY <1>3 DEF Reconcile
  <2>2. ASSUME off, ~Later({"disconnect"})
        PROVE  backend.intent = Nothing /\ backend.session = Nothing
    <3>1. ~Waiting({"disconnect"})
      <4>1. Waiting({"disconnect"}) = (Later({"disconnect"}) \/ queue[1].op \in {"disconnect"})
        BY <2>1, TailFacts DEF Done, Inv
      <4> QED
        BY <2>2, <4>1
    <3>2. backend.intent = Nothing
      BY <2>2, <3>1 DEF Inv, OffHeld
    <3> QED
      BY <1>3, <3>2, NoSession DEF Ready, Faithful
  <2> QED
    BY <1>3, <2>1, <2>2, DoneInv
<1>4. CASE Caught(u)
  BY <1>4, CaughtInv
<1>5. CASE u.wants /\ Await(u, "start", [cmd |-> "start", mode |-> u.mode, node |-> u.selected,
                                         routing |-> u.routing])
  <2> DEFINE c == [cmd |-> "start", mode |-> u.mode, node |-> u.selected, routing |-> u.routing]
  <2>1. /\ c.cmd = "start" /\ c.mode = u.mode /\ c.node = u.selected /\ c.routing = u.routing
        /\ Awaits("start", c, queue[1].op) /\ Await(u, "start", c)
    BY <1>5, Constants DEF Awaits, Stopping, Reconciling
  <2> HIDE DEF c
  <2> QED
    BY <1>5, <2>1, AwaitInv
<1>6. CASE u.wants /\ Matches(u) /\ Done(u)
  <2>1. Chosen(u)
    <3>1. u.runtime.mode = u.mode /\ u.mode \in Modes /\ u.runtime.node = u.selected
          /\ u.routing = u.applied
      BY <1>1, <1>6 DEF Matches, Fields
    <3> QED
      BY <3>1, Constants DEF Chosen, Ready, Faithful
  <2>2. ~off
    BY <1>1, <1>6 DEF Inv, OffHeld
  <2> QED
    BY <1>6, <2>1, <2>2, DoneInv
<1>7. CASE Await(u, "switch", [cmd |-> "switch", id |-> u.runtime.id, node |-> u.selected])
  <2> DEFINE c == [cmd |-> "switch", id |-> u.runtime.id, node |-> u.selected]
  <2>1. /\ c.cmd = "switch" /\ c.node = u.selected
        /\ Awaits("switch", c, queue[1].op) /\ Await(u, "switch", c)
    BY <1>7, Constants DEF Awaits, Stopping, Reconciling
  <2> HIDE DEF c
  <2> QED
    BY <2>1, AwaitInv
<1>8. CASE Stop(u, "stop")
  <2> DEFINE c == [cmd |-> "stop"]
  <2>1. c.cmd = "stop" /\ Awaits("stop", c, queue[1].op) /\ Await(u, "stop", c)
    BY <1>8, Constants DEF Awaits, Stopping, Reconciling, Stop
  <2> HIDE DEF c
  <2> QED
    BY <2>1, AwaitInv
<1>9. u.wants => \/ Caught(u)
                 \/ Await(u, "start", [cmd |-> "start", mode |-> u.mode, node |-> u.selected,
                                       routing |-> u.routing])
                 \/ Matches(u) /\ Done(u)
                 \/ Await(u, "switch", [cmd |-> "switch", id |-> u.runtime.id,
                                        node |-> u.selected])
                 \/ Stop(u, "stop")
  BY DEF Reconcile
<1> QED
  BY <1>2, <1>3, <1>4, <1>5, <1>6, <1>7, <1>8, <1>9

LEMMA LibraryInv ==
  ASSUME Inv, queue # <<>>, ui.boot = "done", Still, NEW u, Ready(u), NEW s, NEW cmd,
         Library(u, s, cmd),
         \/ s \in {"refresh", "refresh.active"} /\ cmd = "refresh" /\ queue[1].op = "refresh"
         \/ s = "remove" /\ cmd = "remove" /\ queue[1].op = "remove"
  PROVE  Inv'
<1> DEFINE c == [cmd |-> cmd, node |-> Head(queue).node]
<1>1. c.cmd = cmd /\ Awaits(s, c, queue[1].op) /\ Await(u, s, c)
  BY Constants DEF Awaits, Stopping, Reconciling, Library
<1> HIDE DEF c
<1> QED
  BY <1>1, AwaitInv

LEMMA StopInv ==
  ASSUME Inv, queue # <<>>, ui.boot = "done", Still, NEW u, Ready(u), NEW s, Stop(u, s),
         \/ s = "stop.only" /\ queue[1].op = "disconnect"
         \/ s = "stop.retry" /\ queue[1].op = "retry"
         \/ s = "stop.refresh" /\ queue[1].op = "refresh"
         \/ s = "stop.remove" /\ queue[1].op = "remove"
  PROVE  Inv'
<1> DEFINE c == [cmd |-> "stop"]
<1>1. c.cmd = "stop" /\ Awaits(s, c, queue[1].op) /\ Await(u, s, c)
  BY Constants DEF Awaits, Stopping, Reconciling, Stop
<1> HIDE DEF c
<1> QED
  BY <1>1, AwaitInv

-----------------------------------------------------------------------------
(* Begin *)

LEMMA First ==
  ASSUME Inv, queue # <<>>
  PROVE  Head(queue) = queue[1] /\ queue[1] \in Operations
  BY Taken DEF Inv, Types

LEMMA IdleReady ==
  ASSUME Inv, ui.boot = "done", step = "idle"
  PROVE  Ready(ui)
<1>1. call = NoCall /\ call.cmd = "none"
  BY Constants DEF Inv, Paired
<1>2. ui \in Fields /\ ui.runtime.rev > 0
  BY DEF Inv, Types, Revisions
<1>3. Faithful(ui.runtime) /\ \A i \in 1..Len(events) : Faithful(events[i])
  BY <1>1, <1>2 DEF Inv, Truth, Fresh
<1>4. backend.phase # "connecting"
  BY <1>1 DEF Inv, Sessions
<1> QED
  BY <1>2, <1>3, <1>4 DEF Inv, Ready, Listed, Matched

\* An operation that asks for a connection waits behind one that is not to leave it.
LEMMA Asked ==
  ASSUME Inv, queue # <<>>, ui.wants, queue[1].op = "disconnect" \/ step = "stop.last"
  PROVE  Later({"reconcile", "retry"})
<1>1. 1 \in 1..Len(queue)
  BY Lengths DEF Inv
<1> QED
  BY <1>1 DEF Inv, Pending, Overruled, Later

LEMMA BeginInv == ASSUME Inv, Begin PROVE Inv'
<1>1. queue # <<>> /\ step = "idle" /\ ui.boot = "done" /\ Still
  BY DEF Begin, Still
<1>2. Ready(ui)
  BY <1>1, IdleReady
<1>3. Head(queue) = queue[1] /\ queue[1] \in Operations
  BY <1>1, First
<1> DEFINE op == queue[1].op
<1>4. CASE op = "reconcile"
  BY <1>1, <1>2, <1>3, <1>4, ReconcileInv DEF Begin
<1>5. CASE op = "disconnect"
  <2>1. CASE Stop(ui, "stop.only")
    BY <1>1, <1>2, <1>5, <2>1, StopInv
  <2>2. CASE Done(ui) /\ ~HasSession(ui) /\ ~ui.runtime.requested
    <3>1. backend.intent = Nothing /\ backend.session = Nothing
      BY <1>1, <1>2, <2>2, NoSession DEF Ready, Faithful
    <3>2. ui.wants => Later({"reconcile", "retry"})
      BY <1>1, <1>5, Asked
    <3> QED
      BY <1>1, <1>2, <2>2, <3>1, <3>2, DoneInv
  <2> QED
    BY <1>3, <1>5, <2>1, <2>2 DEF Begin
<1>6. CASE op = "retry"
  <2>1. Stop(ui, "stop.retry") \/ Reconcile(ui)
    BY <1>3, <1>6 DEF Begin
  <2> QED
    BY <1>1, <1>2, <1>6, <2>1, StopInv, ReconcileInv
<1>7. CASE op = "recover"
  <2> DEFINE c == [cmd |-> "recover"]
  <2>1. Await(ui, "recover", c)
    BY <1>3, <1>7 DEF Begin
  <2>2. c.cmd = "recover" /\ Awaits("recover", c, queue[1].op)
    BY <1>7, Constants DEF Awaits, Stopping, Reconciling
  <2> HIDE DEF c
  <2> QED
    BY <1>1, <1>2, <2>1, <2>2, AwaitInv
<1>8. CASE op = "refresh"
  <2>1. Rejected(ui) \/ Stop(ui, "stop.refresh") \/ Library(ui, "refresh", "refresh")
    BY <1>3, <1>8 DEF Begin
  <2>2. CASE Rejected(ui)
    BY <1>1, <1>2, <1>8, <2>2, RejectedInv
  <2>3. CASE Stop(ui, "stop.refresh")
    BY <1>1, <1>2, <1>8, <2>3, StopInv
  <2>4. CASE Library(ui, "refresh", "refresh")
    BY <1>1, <1>2, <1>8, <2>4, LibraryInv
  <2> QED
    BY <2>1, <2>2, <2>3, <2>4
<1>9. CASE op = "remove"
  <2> DEFINE v == [ui EXCEPT !.wants = FALSE, !.acted = TRUE]
  <2>1. Stop(v, "stop.remove") \/ Library(ui, "remove", "remove")
    BY <1>3, <1>9 DEF Begin
  <2>2. Ready(v)
    BY <1>2 DEF Ready, Fields, Rules, Between, Chosen
  <2> HIDE DEF v
  <2>3. CASE Stop(v, "stop.remove")
    BY <1>1, <1>9, <2>2, <2>3, StopInv
  <2>4. CASE Library(ui, "remove", "remove")
    BY <1>1, <1>2, <1>9, <2>4, LibraryInv
  <2> QED
    BY <2>1, <2>3, <2>4
<1> QED
  BY <1>3, <1>4, <1>5, <1>6, <1>7, <1>8, <1>9 DEF Operations

-----------------------------------------------------------------------------
(* Resume *)

\* Who takes up an answer has received all that was emitted before it.
LEMMA Answered ==
  ASSUME Inv, reply.there, \A i \in DOMAIN events : events[i].rev > reply.status.rev
  PROVE  /\ queue # <<>> /\ ui.boot = "done" /\ Awaits(step, call, queue[1].op)
         /\ Accept(ui, reply.status) = ui /\ Ready(ui)
<1>1. queue # <<>> /\ ui.boot = "done" /\ Awaits(step, call, queue[1].op)
  BY Constants DEF Inv, Paired
<1>2. /\ Len(events) \in Nat /\ (events = <<>>) = (Len(events) = 0)
      /\ DOMAIN events = 1..Len(events)
      /\ \A i \in 1..Len(events) : events[i].rev \in Nat
  BY Lengths DEF Inv, Statuses
<1>3. ui.runtime.rev \in Nat /\ ui.runtime.rev > 0 /\ backend.rev \in Nat
      /\ ui.runtime.rev + Len(events) >= backend.rev
  BY <1>1, Known DEF Inv, Types, Backends, Revisions
<1>4. reply.status.rev \in Nat /\ reply.status.rev <= backend.rev
  BY DEF Inv, Late
<1>5. ui.runtime.rev >= reply.status.rev
  <2>1. CASE Len(events) = 0
    BY <1>3, <1>4, <2>1
  <2>2. CASE Len(events) > 0
    <3>1. events[1].rev + Len(events) = backend.rev + 1 /\ events[1].rev > reply.status.rev
          /\ events[1].rev \in Nat
      BY <1>2, <2>2 DEF Inv, Revisions
    <3> DEFINE e == events[1].rev
               n == Len(events)
               b == backend.rev
               r == ui.runtime.rev
               s == reply.status.rev
    <3>2. /\ e \in Nat /\ n \in Nat /\ b \in Nat /\ r \in Nat /\ s \in Nat
          /\ e + n = b + 1 /\ e > s /\ r + n >= b
      BY <1>2, <1>3, <1>4, <3>1
    <3> HIDE DEF e, n, b, r, s
    <3>3. r >= s
      BY <3>2
    <3> QED
      BY <3>3 DEF r, s
  <2> QED
    BY <1>2, <2>1, <2>2
<1>6. Accept(ui, reply.status) = ui
  BY <1>4, <1>5 DEF Accept
<1>7. Faithful(ui.runtime)
  BY <1>3, <1>5 DEF Inv, Truth, Fresh
<1>8. ASSUME NEW i \in 1..Len(events) PROVE Faithful(events[i])
  <2>1. events[i].rev > reply.status.rev /\ events[i].rev \in Nat
    BY <1>2
  <2>2. events[i].rev >= reply.status.rev
    BY <1>4, <2>1
  <2> QED
    BY <2>2 DEF Inv, Truth, Fresh
<1>9. backend.phase # "connecting"
  BY DEF Inv, Sessions
<1> QED
  BY <1>1, <1>6, <1>7, <1>8, <1>9 DEF Inv, Types, Ready, Listed, Matched

LEMMA AfterStartInv ==
  ASSUME Inv, queue # <<>>, ui.boot = "done", Still, Ready(ui), AfterStart(ui),
         reply.there, call.cmd = "start", step = "start",
         queue[1].op \in {"reconcile", "retry", "refresh"}
  PROVE  Inv'
<1> DEFINE v == [ui EXCEPT !.applied = call.routing]
<1>1. CASE ~reply.ok
  BY <1>1, CaughtInv DEF AfterStart
<1>2. CASE reply.ok
  <2>1. call.routing \in Nat /\ ui \in Fields /\ Between(ui, call.routing)
        /\ backend.intent = Wanted /\ backend.session \in {Nothing, Wanted}
    BY <1>2 DEF Inv, Types, Starts
  <2>2. v \in Fields /\ v.applied = call.routing /\ v.routing = ui.routing /\ v.mode = ui.mode
        /\ v.selected = ui.selected
    BY <2>1 DEF Fields
  <2>3. Rules(v)
    BY <2>1, <2>2, Constants DEF Rules, Between, Running, Wanted, Fields
  <2>4. Reconciled => Chosen(v)
    BY <2>2 DEF Ready, Chosen, Inv, Matched
  <2>5. Ready(v)
    BY <2>1, <2>2, <2>3, <2>4 DEF Ready, Fields
  <2>6. Reconcile(v) \/ Caught(v)
    BY <1>2 DEF AfterStart
  <2> HIDE DEF v
  <2> QED
    BY <2>5, <2>6, ReconcileInv, CaughtInv
<1> QED
  BY <1>1, <1>2

LEMMA AfterRemoveInv ==
  ASSUME Inv, queue # <<>>, ui.boot = "done", Still, Ready(ui), AfterRemove(ui),
         reply.there, call.cmd = "remove", queue[1].op = "remove"
  PROVE  Inv'
<1> DEFINE left == ui.servers \ {call.node}
           v == [ui EXCEPT !.servers = left,
                           !.selected = IF @ \in left \/ left = {} THEN @
                                        ELSE CHOOSE n \in left : TRUE]
<1>1. CASE ~reply.ok
  BY <1>1, RejectedInv DEF AfterRemove
<1>2. CASE reply.ok
  <2>1. ui \in Fields /\ left \subseteq Nodes /\ v.selected \in Nodes
        /\ (v.selected \in left \/ left = {})
    BY DEF Ready, Fields
  <2>2. v \in Fields /\ v.servers = left /\ v.routing = ui.routing /\ v.applied = ui.applied
        /\ v.mode = ui.mode /\ v.wants = ui.wants /\ v.boot = ui.boot /\ v.runtime = ui.runtime
    BY <2>1 DEF Fields
  <2>3. v.selected # ui.selected => ui.selected = call.node
    BY DEF Ready, Fields
  <2>4. call.node \notin backend.stored /\ (Running(backend) => backend.session.node # call.node)
    BY <1>2 DEF Inv, Removed
  <2> HIDE DEF v, left
  <2>5. Reconciled => Chosen(v)
    BY <2>2, <2>3, <2>4 DEF Ready, Chosen
  <2>6. Ready(v)
    BY <2>1, <2>2, <2>5 DEF Ready, Rules, Between
  <2>7. Done(v)
    BY <1>2 DEF AfterRemove, v, left
  <2> QED
    BY <2>6, <2>7, DoneInv DEF Changes
<1> QED
  BY <1>1, <1>2

LEMMA ResumeInv == ASSUME Inv, Resume PROVE Inv'
<1>1. reply.there /\ (\A i \in DOMAIN events : events[i].rev > reply.status.rev) /\ Still
  BY DEF Resume, Still
<1>2. /\ queue # <<>> /\ ui.boot = "done" /\ Awaits(step, call, queue[1].op)
      /\ Accept(ui, reply.status) = ui /\ Ready(ui)
  BY <1>1, Answered
<1>3. CASE step = "stop"
  <2>1. Reconcile(ui) \/ Caught(ui)
    BY <1>2, <1>3 DEF Resume
  <2> QED
    BY <1>1, <1>2, <1>3, <2>1, ReconcileInv, CaughtInv DEF Awaits, Reconciling
<1>4. CASE step = "stop.last"
  <2>1. (Stopped(ui) /\ Done(ui)) \/ Caught(ui)
    BY <1>2, <1>4 DEF Resume
  <2>2. queue[1].op \in {"reconcile", "retry", "refresh"} /\ call.cmd = "stop"
    BY <1>2, <1>4 DEF Awaits, Reconciling, Stopping
  <2>3. CASE Stopped(ui) /\ Done(ui)
    <3>1. backend.intent = Nothing
      BY <1>1, <2>2 DEF Inv, OffHeld
    <3>2. backend.session = Nothing
      BY <1>2, <2>3, <3>1 DEF Stopped, Ready, Faithful
    <3>3. ui.wants => Later({"reconcile", "retry"})
      BY <1>2, <1>4, Asked
    <3> QED
      BY <1>1, <1>2, <2>3, <3>1, <3>2, <3>3, DoneInv
  <2> QED
    BY <1>1, <1>2, <2>1, <2>2, <2>3, CaughtInv
<1>5. CASE step = "stop.only"
  <2>1. (Stopped(ui) /\ Done(ui)) \/ Rejected(ui)
    BY <1>2, <1>5 DEF Resume
  <2>2. queue[1].op = "disconnect" /\ call.cmd = "stop"
    BY <1>2, <1>5 DEF Awaits, Stopping
  <2>3. backend.intent = Nothing
    BY <1>1, <2>2 DEF Inv, OffHeld
  <2>4. CASE Stopped(ui) /\ Done(ui)
    <3>1. backend.session = Nothing
      BY <1>2, <2>3, <2>4 DEF Stopped, Ready, Faithful
    <3>2. ui.wants => Later({"reconcile", "retry"})
      BY <1>2, <2>2, Asked
    <3> QED
      BY <1>1, <1>2, <2>3, <2>4, <3>1, <3>2, DoneInv
  <2> QED
    BY <1>1, <1>2, <2>1, <2>3, <2>4, RejectedInv
<1>6. CASE step = "stop.retry"
  <2>1. Reconcile(ui) \/ Rejected(ui)
    BY <1>2, <1>6 DEF Resume
  <2> QED
    BY <1>1, <1>2, <1>6, <2>1, ReconcileInv, RejectedInv DEF Awaits
<1>7. CASE step = "cancelled"
  <2>1. Rejected(ui)
    BY <1>2, <1>7 DEF Resume
  <2> QED
    BY <1>1, <1>2, <1>7, <2>1, RejectedInv DEF Awaits, Reconciling
<1>8. CASE step = "start"
  <2>1. AfterStart(ui)
    BY <1>2, <1>8 DEF Resume
  <2> QED
    BY <1>1, <1>2, <1>8, <2>1, AfterStartInv DEF Awaits, Reconciling
<1>9. CASE step = "switch"
  <2>1. Reconcile(ui) \/ Caught(ui)
    BY <1>2, <1>9 DEF Resume, AfterSwitch
  <2> QED
    BY <1>1, <1>2, <1>9, <2>1, ReconcileInv, CaughtInv DEF Awaits, Reconciling
<1>10. CASE step = "recover"
  <2>1. Done(ui) \/ Rejected(ui)
    BY <1>2, <1>10 DEF Resume
  <2> QED
    BY <1>1, <1>2, <1>10, <2>1, DoneInv, RejectedInv DEF Awaits, Changes
<1>11. CASE step = "stop.refresh"
  <2> DEFINE v == [ui EXCEPT !.wants = FALSE]
  <2>1. Library(ui, "refresh.active", "refresh") \/ Rejected(v)
    BY <1>2, <1>11 DEF Resume
  <2>2. Ready(v)
    BY <1>2 DEF Ready, Fields, Rules, Between, Chosen
  <2> HIDE DEF v
  <2> QED
    BY <1>1, <1>2, <1>11, <2>1, <2>2, LibraryInv, RejectedInv DEF Awaits
<1>12. CASE step = "stop.remove"
  <2>1. Library(ui, "remove", "remove") \/ Rejected(ui)
    BY <1>2, <1>12 DEF Resume
  <2> QED
    BY <1>1, <1>2, <1>12, <2>1, LibraryInv, RejectedInv DEF Awaits
<1>13. CASE step \in {"refresh", "refresh.active"}
  <2>1. Reconcile(ui) \/ Done(ui) \/ Rejected(ui)
    BY <1>2, <1>13 DEF Resume, AfterRefresh
  <2> QED
    BY <1>1, <1>2, <1>13, <2>1, ReconcileInv, DoneInv, RejectedInv DEF Awaits, Changes
<1>14. CASE step = "remove"
  <2>1. AfterRemove(ui)
    BY <1>2, <1>14 DEF Resume
  <2> QED
    BY <1>1, <1>2, <1>14, <2>1, AfterRemoveInv DEF Awaits
<1>15. step \in Stopping \cup {"start", "switch", "recover", "remove", "refresh", "refresh.active"}
  BY <1>2 DEF Awaits
<1> QED
  BY <1>3, <1>4, <1>5, <1>6, <1>7, <1>8, <1>9, <1>10, <1>11, <1>12, <1>13, <1>14, <1>15
     DEF Stopping

-----------------------------------------------------------------------------
(* Statuses that arrive *)

\* u and w agree but for the status and the wish.
Elsewhere(u, w) ==
    /\ w.boot = u.boot /\ w.acted = u.acted /\ w.mode = u.mode /\ w.selected = u.selected
    /\ w.servers = u.servers /\ w.routing = u.routing /\ w.applied = u.applied

LEMMA Accepted ==
  ASSUME NEW u \in Fields, NEW s \in Statuses, NEW w, w = Accept(u, s), queue \in Seq(Operations)
  PROVE  /\ w \in Fields /\ Elsewhere(u, w)
         /\ w.runtime \in {u.runtime, s} /\ w.runtime.rev \in Nat
         /\ w.runtime.rev >= s.rev /\ w.runtime.rev >= u.runtime.rev
         /\ w.runtime.rev > u.runtime.rev => w.runtime = s
         /\ w.wants # u.wants => queue = <<>> /\ w.wants = s.requested
<1>1. u.runtime.rev \in Nat /\ s.rev \in Nat
  BY Constants DEF Fields, Statuses
<1>2. CASE s.rev <= u.runtime.rev
  <2>1. w = u
    BY <1>2 DEF Accept
  <2> QED
    BY <1>1, <1>2, <2>1 DEF Elsewhere
<1>3. CASE ~(s.rev <= u.runtime.rev)
  <2>1. w = [u EXCEPT !.runtime = s, !.wants = IF queue = <<>> THEN s.requested ELSE @]
    BY <1>3 DEF Accept
  <2>2. w \in Fields /\ w.runtime = s
    BY <2>1 DEF Fields, Statuses
  <2>3. Elsewhere(u, w)
    BY <2>1 DEF Fields, Elsewhere
  <2>4. w.wants # u.wants => queue = <<>> /\ w.wants = s.requested
    BY <2>1 DEF Fields
  <2> QED
    BY <1>1, <1>3, <2>2, <2>3, <2>4
<1> QED
  BY <1>2, <1>3

LEMMA ReceiveInv == ASSUME Inv, Receive PROVE Inv'
<1>1. /\ events # <<>> /\ ui' = Accept(ui, Head(events)) /\ events' = Tail(events)
      /\ UNCHANGED <<backend, queue, step, call, reply, settled, refused, off>>
  BY DEF Receive, operation, asked
<1> DEFINE s == events[1]
           n == Len(events)
           b == backend.rev
           r == ui.runtime.rev
<1>2. /\ Head(events) = s /\ s \in Statuses /\ events' \in Seq(Statuses)
      /\ n \in Nat /\ n > 0 /\ Len(events') = n - 1 /\ (events' = <<>>) = (n = 1)
      /\ \A i \in 1..Len(events') : events'[i] = events[i + 1]
  BY <1>1, Taken DEF Inv, Types
<1>3. ui \in Fields /\ queue \in Seq(Operations) /\ b \in Nat /\ r \in Nat
      /\ \A i \in 1..n : events[i].rev \in Nat
  <2>1. /\ ui \in Fields /\ queue \in Seq(Operations)
        /\ backend \in Backends /\ events \in Seq(Statuses)
    BY DEF Inv, Types
  <2>2. b \in Nat
    BY <2>1 DEF Backends
  <2>3. ui.runtime.rev \in Nat
    BY <2>1, Constants DEF Fields, Statuses
  <2>4. \A i \in 1..n : events[i] \in Statuses
    BY <2>1
  <2>5. \A x \in Statuses : x.rev \in Nat
    BY DEF Statuses
  <2> QED BY <2>1, <2>2, <2>3, <2>4, <2>5
<1>4. /\ ui' \in Fields /\ Elsewhere(ui, ui')
      /\ ui'.runtime \in {ui.runtime, s} /\ ui'.runtime.rev \in Nat
      /\ ui'.runtime.rev >= s.rev /\ ui'.runtime.rev >= r
      /\ ui'.runtime.rev > r => ui'.runtime = s
      /\ ui'.wants # ui.wants => queue = <<>> /\ ui'.wants = s.requested
  BY <1>1, <1>2, <1>3, Accepted
<1>5. /\ ui'.boot = ui.boot /\ ui'.acted = ui.acted /\ ui'.mode = ui.mode
      /\ ui'.selected = ui.selected /\ ui'.servers = ui.servers /\ ui'.routing = ui.routing
      /\ ui'.applied = ui.applied
  BY <1>4 DEF Elsewhere
<1>6. \A i \in 1..Len(events') : i + 1 \in 1..n
  BY <1>2
<1>7. s.rev + n = b + 1 /\ s.rev \in Nat /\ 1 \in 1..n
  BY <1>2, <1>3 DEF Inv, Revisions
<1>8. Types'
  BY <1>1, <1>2, <1>4 DEF Inv, Types
<1>9. Revisions'
  <2>1. ASSUME NEW i \in 1..Len(events')
        PROVE  events'[i].rev + Len(events') = backend'.rev + i
    <3> DEFINE e == events[i + 1].rev
    <3>1. e + n = b + (i + 1) /\ e \in Nat /\ events'[i].rev = e /\ i \in Nat
      BY <1>2, <1>3, <1>6 DEF Inv, Revisions
    <3>2. Len(events') = n - 1 /\ backend'.rev = b
      BY <1>1, <1>2
    <3> HIDE DEF e, n, b
    <3>3. e + (n - 1) = b + i
      BY <1>2, <1>3, <3>1
    <3> QED
      BY <3>1, <3>2, <3>3
  <2>2. events' # <<>> => events'[Len(events')] = Status(backend')
    <3>1. ASSUME events' # <<>> PROVE Len(events') \in 1..Len(events') /\ (n - 1) + 1 = n
      BY <1>2, <3>1
    <3>2. ASSUME events' # <<>> PROVE events'[Len(events')] = events[n]
      BY <1>2, <3>1, <3>2
    <3> QED
      BY <1>1, <3>2 DEF Inv, Revisions, Status
  <2>3. s.rev <= b /\ (s.rev = b => n = 1)
    BY <1>2, <1>3, <1>7
  <2>4. b > 0 /\ r <= b /\ (r = b => ui.runtime = Status(backend))
        /\ (n = 1 => s = Status(backend))
    BY <1>1 DEF Inv, Revisions
  <2>5. ui'.runtime.rev <= b /\ (ui'.runtime.rev = b => ui'.runtime = Status(backend))
    BY <1>3, <1>4, <1>7, <2>3, <2>4
  <2>6. ui.boot # "status" => ui'.runtime.rev > 0 /\ ui'.runtime.rev + Len(events') >= b
    <3>1. ui.boot # "status" => r > 0
      BY DEF Inv, Revisions
    <3> DEFINE q == s.rev
               x == ui'.runtime.rev
    <3>2. q + n = b + 1 /\ q \in Nat /\ x \in Nat /\ x >= q /\ x >= r
      BY <1>4, <1>7
    <3> HIDE DEF q, x, n, b, r
    <3>3. x + (n - 1) >= b
      BY <1>2, <1>3, <3>2
    <3>4. ui.boot # "status" => x > 0
      BY <1>3, <3>1, <3>2
    <3> QED
      BY <1>2, <3>3, <3>4 DEF x
  <2>7. backend'.rev = b /\ Status(backend') = Status(backend)
    BY <1>1 DEF Status
  <2> QED
    BY <1>5, <2>1, <2>2, <2>4, <2>5, <2>6, <2>7 DEF Revisions
<1>10. Sessions' /\ Paired' /\ Late' /\ Removed'
  BY <1>1, <1>5 DEF Inv, Sessions, Paired, Late, Removed, Wanted, Running
<1>11. (Rules(ui))' /\ Starts'
  BY <1>1, <1>5 DEF Inv, Rules, Starts, Between, Running, Wanted
<1>12. Listed'
  BY <1>1, <1>2, <1>3, <1>4, <1>5, <1>6, <1>7 DEF Inv, Listed, Plain, Status
<1>13. Truth'
  <2>1. ui'.runtime.rev > 0 /\ Fresh(ui'.runtime) => Faithful(ui'.runtime)
    BY <1>4, <1>7 DEF Inv, Truth
  <2>2. \A i \in 1..Len(events') : Fresh(events'[i]) => Faithful(events'[i])
    BY <1>2, <1>6 DEF Inv, Truth
  <2> QED
    BY <1>1, <2>1, <2>2 DEF Truth, Fresh, Faithful, Running
<1>14. Pending'
  <2>1. ui'.wants # ui.wants => Len(queue) = 0
    BY <1>4, Lengths DEF Inv
  <2> QED
    BY <1>1, <1>5, <2>1 DEF Inv, Pending, Overruled, Waiting
<1>15. OffHeld'
  <2>1. off => ~ui'.wants
    <3>1. CASE ui'.wants = ui.wants
      BY <3>1 DEF Inv, OffHeld
    <3>2. CASE ui'.wants # ui.wants
      <4>1. Len(queue) = 0 /\ ui'.wants = s.requested
        BY <1>4, <3>2, Lengths DEF Inv
      <4>2. ~Waiting({"disconnect"})
        BY <4>1 DEF Waiting
      <4>3. Faithful(s)
        BY <1>4, <1>7, <3>2 DEF Inv, Paired, Truth, Fresh
      <4> QED
        BY <4>1, <4>2, <4>3 DEF Inv, OffHeld, Faithful
    <3> QED
      BY <3>1, <3>2
  <2> QED
    BY <1>1, <2>1 DEF Inv, OffHeld, Waiting
<1>16. Matched'
  BY <1>1, <1>5 DEF Inv, Matched, Reconciled, Waiting, Chosen, Running
<1> QED
  BY <1>8, <1>9, <1>10, <1>11, <1>12, <1>13, <1>14, <1>15, <1>16 DEF Inv

LEMMA BootInv == ASSUME Inv, Boot PROVE Inv'
<1>1. UNCHANGED <<backend, events, queue, step, call, reply, settled, refused, off>>
  BY DEF Boot, operation, asked
<1>2. step = "idle" /\ call = NoCall /\ reply = NoReply /\ settled = FALSE
  BY DEF Boot, Inv, Paired, Types
<1>3. Types /\ ui \in Fields /\ queue \in Seq(Operations) /\ backend \in Backends
      /\ backend.rev \in Nat
  BY DEF Inv, Types, Backends
<1>4. Sessions' /\ Late' /\ Removed' /\ Matched'
  BY <1>1, <1>2, Constants DEF Inv, Sessions, Late, Removed, Matched, Reconciled, Wanted
<1>5. CASE ui.boot = "status" /\ ui' = [Accept(ui, Status(backend)) EXCEPT !.boot = "nodes"]
  <2> DEFINE w == Accept(ui, Status(backend))
  <2>1. Status(backend) \in Statuses /\ Status(backend).rev = backend.rev
    BY <1>3, StatusType DEF Status
  <2>2. /\ w \in Fields /\ Elsewhere(ui, w)
        /\ w.runtime \in {ui.runtime, Status(backend)} /\ w.runtime.rev \in Nat
        /\ w.runtime.rev >= backend.rev
        /\ w.runtime.rev > ui.runtime.rev => w.runtime = Status(backend)
        /\ w.wants # ui.wants => queue = <<>> /\ w.wants = Status(backend).requested
    BY <1>3, <2>1, Accepted
  <2> HIDE DEF w
  <2>3. /\ ui' \in Fields /\ ui'.boot = "nodes" /\ ui'.runtime = w.runtime /\ ui'.wants = w.wants
        /\ ui'.acted = ui.acted /\ ui'.routing = ui.routing /\ ui'.applied = ui.applied
    BY <1>5, <2>2 DEF Fields, w, Elsewhere
  <2>4. w.runtime = Status(backend)
    <3>1. ui.runtime.rev \in Nat /\ ui.runtime.rev <= backend.rev
          /\ (ui.runtime.rev = backend.rev => ui.runtime = Status(backend))
      BY <1>3, Constants DEF Inv, Revisions, Fields, Statuses
    <3> QED
      BY <1>3, <2>2, <3>1
  <2>5. Faithful(Status(backend))
    BY StatusFaithful DEF Inv
  <2>6. Types' /\ Paired'
    BY <1>1, <1>2, <2>3, Constants DEF Inv, Types, Paired
  <2>12. Listed'
    BY <1>1, <1>5, <2>3, <2>4 DEF Inv, Listed, Plain, Status
  <2>7. Revisions'
    <3>1. Len(events) \in Nat /\ backend.rev > 0
      BY Lengths DEF Inv, Revisions
    <3>2. backend.rev + Len(events) >= backend.rev
      BY <1>3, <3>1
    <3> QED
      BY <1>1, <1>3, <2>1, <2>3, <2>4, <3>1, <3>2 DEF Inv, Revisions, Status
  <2>8. Truth'
    BY <1>1, <2>3, <2>4, <2>5 DEF Inv, Truth, Fresh, Faithful, Running
  <2>9. (Rules(ui))' /\ Starts'
    BY <1>1, <1>2, <2>3, Constants DEF Inv, Rules, Starts, Between, Running
  <2>10. Pending'
    <3>1. w.wants # ui.wants => Len(queue) = 0
      BY <2>2, Lengths DEF Inv
    <3> QED
      BY <1>1, <1>5, <2>3, <3>1 DEF Inv, Pending, Overruled, Waiting
  <2>11. OffHeld'
    <3>1. off => ~w.wants
      <4>1. CASE w.wants = ui.wants
        BY <4>1 DEF Inv, OffHeld
      <4>2. CASE w.wants # ui.wants
        <5>1. Len(queue) = 0 /\ w.wants = Status(backend).requested
          BY <2>2, <4>2, Lengths DEF Inv
        <5>2. ~Waiting({"disconnect"})
          BY <5>1 DEF Waiting
        <5> QED
          BY <2>5, <5>1, <5>2 DEF Inv, OffHeld, Faithful
      <4> QED
        BY <4>1, <4>2
    <3> QED
      BY <1>1, <2>3, <3>1 DEF Inv, OffHeld, Waiting
  <2> QED
    BY <1>4, <2>6, <2>7, <2>8, <2>9, <2>10, <2>11, <2>12 DEF Inv
<1>6. CASE ui.boot = "nodes"
  <2> DEFINE selected == IF ui.runtime.node \in backend.stored THEN ui.runtime.node
                         ELSE IF ui.selected \in backend.stored THEN ui.selected
                         ELSE CHOOSE n \in backend.stored : TRUE
             wants == IF ui.acted THEN ui.wants ELSE ui.runtime.requested
             mode == IF ~ui.acted /\ HasSession(ui) THEN ui.runtime.mode ELSE ui.mode
  <2>1. ui' = [ui EXCEPT !.boot = "done", !.servers = backend.stored, !.selected = selected,
                         !.wants = wants, !.mode = mode]
    BY <1>6 DEF Boot
  <2>2. backend.stored = Nodes /\ ui.selected \in Nodes /\ ui.runtime \in Statuses
        /\ ui.runtime.rev > 0 /\ Plain(ui.runtime)
    BY <1>6, Known DEF Inv, Types, Fields, Listed, Revisions
  <2>3. selected \in Nodes
    BY <2>2
  <2>4. wants \in BOOLEAN
    BY <1>3, <2>2 DEF Fields, Statuses
  <2>5. mode \in Modes
    BY <1>3, <2>2 DEF Fields, Plain, HasSession
  <2>6. Faithful(ui.runtime)
    BY <1>2, <2>2 DEF Inv, Truth, Fresh
  <2>7. off => ~wants
    <3>1. CASE ui.acted
      BY <3>1 DEF Inv, OffHeld
    <3>2. CASE ~ui.acted
      BY <1>6, <2>6, <3>2 DEF Inv, OffHeld, Pending, Faithful
    <3> QED
      BY <3>1, <3>2
  <2>8. Overruled(wants, step)
    <3>1. CASE ui.acted
      BY <3>1 DEF Inv, Pending
    <3>2. CASE ~ui.acted
      <4>1. ~Waiting({"disconnect"})
        BY <1>6, <3>2 DEF Inv, Pending
      <4> QED
        BY <1>2, <4>1 DEF Overruled, Waiting
    <3> QED
      BY <3>1, <3>2
  <2> HIDE DEF selected, wants, mode
  <2>9. /\ ui' \in Fields /\ ui'.boot = "done" /\ ui'.servers = Nodes /\ ui'.selected = selected
        /\ ui'.wants = wants /\ ui'.runtime = ui.runtime /\ ui'.routing = ui.routing
        /\ ui'.applied = ui.applied
    BY <1>3, <2>1, <2>2, <2>3, <2>4, <2>5 DEF Fields
  <2>10. Types' /\ Paired' /\ Listed'
    BY <1>1, <1>2, <2>3, <2>9, Constants DEF Inv, Types, Paired, Listed
  <2>11. Revisions' /\ Truth'
    BY <1>1, <1>6, <2>9 DEF Inv, Revisions, Status, Truth, Fresh, Faithful, Running
  <2>12. (Rules(ui))' /\ Starts'
    BY <1>1, <1>2, <2>9, Constants DEF Inv, Rules, Starts, Between, Running
  <2>13. Pending' /\ OffHeld'
    BY <1>1, <2>7, <2>8, <2>9 DEF Inv, Pending, Overruled, OffHeld, Waiting
  <2> QED
    BY <1>4, <2>10, <2>11, <2>12, <2>13 DEF Inv
<1> QED
  BY <1>5, <1>6 DEF Boot

-----------------------------------------------------------------------------
(* The user *)

LEMMA Enqueued ==
  ASSUME Inv, NEW o \in Operations, Enqueue(o)
  PROVE  /\ queue' \in Seq(Operations) /\ queue' # <<>>
         /\ queue # <<>> => queue'[1] = queue[1]
         /\ Len(queue) \in Nat /\ Len(queue') = Len(queue) + 1
         /\ (\A i \in 1..Len(queue) : queue'[i] = queue[i]) /\ queue'[Len(queue) + 1] = o
         /\ \A ops : (Waiting(ops))' = (Waiting(ops) \/ o.op \in ops)
<1>1. queue \in Seq(Operations) /\ queue' = Append(queue, o)
  BY DEF Inv, Types, Enqueue
<1>2. /\ queue' \in Seq(Operations) /\ queue' # <<>>
      /\ Len(queue) \in Nat /\ Len(queue') = Len(queue) + 1
      /\ (\A i \in 1..Len(queue) : queue'[i] = queue[i]) /\ queue'[Len(queue) + 1] = o
  BY <1>1, Appended
<1>3. queue # <<>> => 1 \in 1..Len(queue)
  BY Lengths DEF Inv
<1>4. 1..Len(queue') = 1..Len(queue) \cup {Len(queue) + 1}
  BY <1>2
<1>5. ASSUME NEW ops PROVE (Waiting(ops))' = (Waiting(ops) \/ o.op \in ops)
  BY <1>2, <1>4 DEF Waiting
<1> QED
  BY <1>2, <1>3, <1>5

\* What no wish disturbs.
LEMMA UserKeeps ==
  ASSUME Inv, UNCHANGED <<backend, events, step, call, reply, refused>>, ui' \in Fields,
         ui'.boot = ui.boot, ui'.runtime = ui.runtime, ui'.applied = ui.applied,
         ui'.routing >= ui.routing, ui'.servers = ui.servers,
         ui'.selected \in ui.servers \/ ui'.selected = ui.selected,
         off' \in BOOLEAN, settled' = FALSE \/ settled' = settled,
         queue' = queue \/ \E o \in Operations : Enqueue(o)
  PROVE  /\ Types' /\ Sessions' /\ Paired' /\ Listed' /\ Revisions' /\ Late' /\ Truth'
         /\ (Rules(ui))' /\ Starts' /\ Removed'
<1>1. queue' \in Seq(Operations) /\ (queue # <<>> => queue' # <<>> /\ queue'[1] = queue[1])
  BY Enqueued DEF Inv, Types
<1>2. Types'
  BY <1>1 DEF Inv, Types
<1>3. Sessions' /\ Late' /\ Removed'
  BY DEF Inv, Sessions, Late, Removed, Wanted, Running
<1>4. Paired'
  BY <1>1 DEF Inv, Paired
<1>5. Listed' /\ Revisions'
  BY DEF Inv, Listed, Status, Revisions
<1>6. Truth'
  BY DEF Inv, Truth, Fresh, Faithful, Running
<1>7. (Rules(ui))' /\ Starts'
  <2>1. ui.routing \in Nat /\ ui'.routing \in Nat /\ ui.applied \in Nat
        /\ \A r \in Nat : Between(ui, r) => (Between(ui, r))'
    BY DEF Inv, Types, Fields, Between
  <2>2. backend.session.routing \in Nat /\ backend.intent.routing \in Nat
        /\ (call.cmd = "start" => call.routing \in Nat)
    BY Constants DEF Inv, Types, Backends
  <2>3. (Rules(ui))'
    BY <2>1, <2>2 DEF Inv, Rules, Between, Running
  <2>4. Starts'
    BY <2>1, <2>2 DEF Inv, Starts, Between, Wanted
  <2> QED
    BY <2>3, <2>4
<1> QED
  BY <1>2, <1>3, <1>4, <1>5, <1>6, <1>7

\* Who asks for a connection is served after who did not; and nothing is behind an
\* operation that is put in last.
LEMMA StillOverruled ==
  ASSUME Inv, NEW o \in Operations, Enqueue(o), UNCHANGED step, NEW wants \in BOOLEAN,
         wants => ui.wants \/ o.op \in {"reconcile", "retry"},
         o.op # "disconnect"
  PROVE  (Overruled(wants, step))'
<1>1. /\ Len(queue) \in Nat /\ Len(queue') = Len(queue) + 1
      /\ (\A i \in 1..Len(queue) : queue'[i] = queue[i]) /\ queue'[Len(queue) + 1] = o
  BY Enqueued
<1>2. Len(queue) = 0 => step # "stop.last"
  BY Lengths DEF Inv, Paired
<1>3. ASSUME wants, NEW i \in 1..Len(queue'),
             queue'[i].op = "disconnect" \/ (i = 1 /\ step = "stop.last")
      PROVE  \E j \in 1..Len(queue') : j > i /\ queue'[j].op \in {"reconcile", "retry"}
  <2>1. i \in 1..Len(queue)
    BY <1>1, <1>2, <1>3
  <2>2. Len(queue) + 1 \in 1..Len(queue') /\ Len(queue) + 1 > i
    BY <1>1, <2>1
  <2>3. CASE o.op \in {"reconcile", "retry"}
    BY <1>1, <2>2, <2>3
  <2>4. CASE ui.wants
    <3>1. PICK j \in 1..Len(queue) : j > i /\ queue[j].op \in {"reconcile", "retry"}
      BY <1>1, <1>3, <2>1, <2>4 DEF Inv, Pending, Overruled
    <3> QED
      BY <1>1, <3>1
  <2> QED
    BY <1>3, <2>3, <2>4
<1> QED
  BY <1>3 DEF Overruled

LEMMA ChangeInv ==
  ASSUME Inv, UNCHANGED <<backend, events, step, call, reply, refused>>, NEW u, Change(u),
         u \in Fields, u.boot = ui.boot, u.runtime = ui.runtime, u.applied = ui.applied,
         u.routing >= ui.routing, u.servers = ui.servers, u.wants = ui.wants,
         u.acted \/ u.acted = ui.acted,
         u.selected \in ui.servers \/ u.selected = ui.selected
  PROVE  Inv'
<1> DEFINE o == Operation("reconcile")
<1>1. ui' = u /\ settled' = FALSE /\ off' = off /\ off \in BOOLEAN
      /\ (Enqueue(o) \/ queue' = queue)
  BY DEF Change, Inv, Types
<1>2. o \in Operations /\ o.op = "reconcile"
  BY DEF Operation, Operations
<1> HIDE DEF o
<1>3. /\ Types' /\ Sessions' /\ Paired' /\ Listed' /\ Revisions' /\ Late' /\ Truth'
      /\ (Rules(ui))' /\ Starts' /\ Removed'
  BY <1>1, <1>2, UserKeeps
<1>4. (Waiting({"disconnect"}))' = Waiting({"disconnect"})
  <2>1. CASE Enqueue(o)
    <3>1. (Waiting({"disconnect"}))' = (Waiting({"disconnect"}) \/ o.op \in {"disconnect"})
      BY <1>2, <2>1, Enqueued
    <3>2. o.op \notin {"disconnect"}
      BY <1>2
    <3> QED
      BY <3>1, <3>2, Zenon DEF Waiting
  <2>2. CASE queue' = queue
    BY <2>2 DEF Waiting
  <2> QED
    BY <1>1, <2>1, <2>2
<1>5. Pending'
  <2>1. u.wants \in BOOLEAN
    BY DEF Fields
  <2>2. CASE Enqueue(o)
    <3>1. (Overruled(u.wants, step))'
      <4> DEFINE wants == u.wants
      <4>1. wants \in BOOLEAN /\ (wants => ui.wants)
        BY <2>1
      <4> HIDE DEF wants
      <4>2. (Overruled(wants, step))'
        BY <1>2, <2>2, <4>1, StillOverruled
      <4> QED
        BY <1>1, <4>2 DEF wants, Overruled
    <3>2. (Overruled(ui.wants, step))'
      BY <1>1, <3>1 DEF Overruled
    <3> QED
      BY <1>1, <1>4, <3>2 DEF Inv, Pending, Waiting
  <2>3. CASE queue' = queue
    BY <1>1, <1>4, <2>3 DEF Inv, Pending, Overruled
  <2> QED
    BY <1>1, <2>2, <2>3
<1>6. OffHeld' /\ Matched'
  BY <1>1, <1>4 DEF Inv, OffHeld, Matched, Reconciled
<1> QED
  BY <1>3, <1>5, <1>6 DEF Inv

LEMMA AskInv ==
  ASSUME Inv, UNCHANGED <<backend, events, step, call, reply, refused>>,
         NEW wants \in BOOLEAN, NEW name, Ask(wants, name),
         \/ wants /\ name \in {"reconcile", "retry"}
         \/ ~wants /\ name \in {"disconnect", "recover"}
  PROVE  Inv'
<1> DEFINE o == Operation(name)
<1>1. /\ ui' = [ui EXCEPT !.wants = wants, !.acted = TRUE] /\ settled' = FALSE
      /\ off' = (name = "disconnect") /\ Enqueue(o)
  BY DEF Ask
<1>2. o \in Operations /\ o.op = name
  BY DEF Operation, Operations
<1> HIDE DEF o
<1>3. ui \in Fields
  BY DEF Inv, Types
<1>4. /\ ui' \in Fields /\ ui'.boot = ui.boot /\ ui'.runtime = ui.runtime
      /\ ui'.applied = ui.applied /\ ui'.routing = ui.routing /\ ui'.servers = ui.servers
      /\ ui'.selected = ui.selected /\ ui'.wants = wants /\ ui'.acted = TRUE
  BY <1>1, <1>3 DEF Fields
<1>5. /\ Types' /\ Sessions' /\ Paired' /\ Listed' /\ Revisions' /\ Late' /\ Truth'
      /\ (Rules(ui))' /\ Starts' /\ Removed'
  <2>1. ui'.routing >= ui.routing
    BY <1>3, <1>4 DEF Fields
  <2> QED
    BY <1>1, <1>2, <1>4, <2>1, UserKeeps
<1>6. (Waiting({"disconnect"}))' = (Waiting({"disconnect"}) \/ name = "disconnect")
  BY <1>1, <1>2, Enqueued
<1>7. Pending'
  <2>1. CASE wants
    <3>1. (Overruled(wants, step))'
      BY <1>1, <1>2, <2>1, StillOverruled
    <3> QED
      BY <1>4, <3>1 DEF Pending
  <2>2. CASE ~wants
    BY <1>4, <2>2 DEF Pending, Overruled
  <2> QED
    BY <2>1, <2>2
<1>8. OffHeld'
  BY <1>1, <1>4, <1>6 DEF Inv, OffHeld
<1>9. Matched'
  BY <1>1 DEF Matched, Reconciled
<1> QED
  BY <1>5, <1>7, <1>8, <1>9 DEF Inv

LEMMA LibraryAskInv ==
  ASSUME Inv, UNCHANGED <<backend, events, step, call, reply, refused>>,
         ui' = ui, off' = off, settled' = settled, NEW o \in Operations, Enqueue(o), o.op \in {"refresh", "remove"}
  PROVE  Inv'
<1>1. /\ Types' /\ Sessions' /\ Paired' /\ Listed' /\ Revisions' /\ Late' /\ Truth'
      /\ (Rules(ui))' /\ Starts' /\ Removed'
  <2>1. ui \in Fields /\ off \in BOOLEAN /\ ui.routing >= ui.routing
    BY DEF Inv, Types, Fields
  <2> QED
    BY <2>1, UserKeeps
<1>2. /\ (Waiting({"disconnect"}))' = (Waiting({"disconnect"}) \/ o.op \in {"disconnect"})
      /\ (Waiting(Changes))' = (Waiting(Changes) \/ o.op \in Changes)
  BY Enqueued
<1>3. o.op \notin {"disconnect"} /\ o.op \notin Changes /\ o.op # "disconnect"
  BY DEF Changes
<1>4. (Waiting({"disconnect"}))' = Waiting({"disconnect"})
      /\ (Waiting(Changes))' = Waiting(Changes)
  BY <1>2, <1>3, Zenon DEF Waiting
<1>5. Pending'
  <2>1. PICK wants \in BOOLEAN : wants = ui.wants
    BY DEF Inv, Types, Fields
  <2>2. UNCHANGED step
    OBVIOUS
  <2>3. (Overruled(wants, step))'
    BY <1>3, <2>1, <2>2, StillOverruled
  <2>4. (Overruled(ui.wants, step))'
    BY <2>1, <2>3 DEF Overruled
  <2> QED
    BY <1>4, <2>4 DEF Inv, Pending, Waiting
<1>6. OffHeld'
  BY <1>4 DEF Inv, OffHeld
<1>7. Matched'
  BY <1>4 DEF Inv, Matched, Reconciled, Chosen, Running
<1> QED
  BY <1>1, <1>5, <1>6, <1>7 DEF Inv

LEMMA UserInv == ASSUME Inv, User PROVE Inv'
<1>1. UNCHANGED <<backend, events, step, call, reply, refused>> /\ ui \in Fields
  BY DEF User, Inv, Types
<1>2. ASSUME NEW mode \in Modes \ {ui.mode}, Change([ui EXCEPT !.mode = mode, !.acted = TRUE])
      PROVE  Inv'
  <2> DEFINE u == [ui EXCEPT !.mode = mode, !.acted = TRUE]
  <2>0. u \in Fields /\ ui.routing \in Nat
    BY <1>1 DEF Fields
  <2>1. /\ u.boot = ui.boot /\ u.runtime = ui.runtime /\ u.applied = ui.applied
        /\ u.routing >= ui.routing /\ u.servers = ui.servers /\ u.wants = ui.wants /\ u.acted
        /\ u.selected = ui.selected
    BY <1>1, <2>0 DEF Fields
  <2>2. Change(u)
    BY <1>2
  <2> HIDE DEF u
  <2> QED
    BY <1>1, <2>0, <2>1, <2>2, ChangeInv
<1>3. ASSUME NEW node \in ui.servers \ {ui.selected},
             Change([ui EXCEPT !.selected = node, !.acted = TRUE])
      PROVE  Inv'
  <2> DEFINE u == [ui EXCEPT !.selected = node, !.acted = TRUE]
  <2>0. u \in Fields /\ ui.routing \in Nat
    BY <1>1 DEF Fields
  <2>1. /\ u.boot = ui.boot /\ u.runtime = ui.runtime /\ u.applied = ui.applied
        /\ u.routing >= ui.routing /\ u.servers = ui.servers /\ u.wants = ui.wants /\ u.acted
        /\ u.selected \in ui.servers
    BY <1>1, <2>0 DEF Fields
  <2>2. Change(u)
    BY <1>3
  <2> HIDE DEF u
  <2> QED
    BY <1>1, <2>0, <2>1, <2>2, ChangeInv
<1>4. ASSUME Change([ui EXCEPT !.routing = @ + 1]) PROVE Inv'
  <2> DEFINE u == [ui EXCEPT !.routing = @ + 1]
  <2>0. u \in Fields /\ ui.routing \in Nat
    BY <1>1 DEF Fields
  <2>1. /\ u.boot = ui.boot /\ u.runtime = ui.runtime /\ u.applied = ui.applied
        /\ u.routing >= ui.routing /\ u.servers = ui.servers /\ u.wants = ui.wants
        /\ u.acted = ui.acted /\ u.selected = ui.selected
    BY <1>1, <2>0 DEF Fields
  <2>2. Change(u)
    BY <1>4
  <2> HIDE DEF u
  <2> QED
    BY <1>1, <2>0, <2>1, <2>2, ChangeInv
<1>5. ASSUME Ask(TRUE, "reconcile") \/ Ask(FALSE, "disconnect") \/ Ask(FALSE, "recover")
             \/ Ask(TRUE, "retry")
      PROVE  Inv'
  BY <1>1, <1>5, AskInv
<1>6. ASSUME NEW node \in ui.servers, NEW name \in {"refresh", "remove"},
             Enqueue([op |-> name, node |-> node]), UNCHANGED <<ui, off, settled>>
      PROVE  Inv'
  <2> DEFINE o == [op |-> name, node |-> node]
  <2>1. o \in Operations /\ o.op = name /\ Enqueue(o)
    BY <1>1, <1>6 DEF Operations, Fields
  <2> HIDE DEF o
  <2> QED
    BY <1>1, <1>6, <2>1, LibraryAskInv
<1> QED
  BY <1>2, <1>3, <1>4, <1>5, <1>6 DEF User

-----------------------------------------------------------------------------
(* The backend *)

LEMMA Turned ==
  ASSUME Types, NEW b \in Backends, Turn(b)
  PROVE  /\ backend' \in Backends /\ backend'.rev = backend.rev + 1
         /\ backend'.phase = b.phase /\ backend'.session = b.session
         /\ backend'.intent = b.intent /\ backend'.stored = b.stored
         /\ events' = Append(events, Status(backend'))
  BY DEF Types, Backends, Turn

\* While a command is served nothing else is, and it is a step of the operation.
LEMMA Served ==
  ASSUME Inv, Serve
  PROVE  /\ ~reply.there /\ call # NoCall /\ call.cmd # "none" /\ step # "idle"
         /\ ui.boot = "done" /\ Awaits(step, call, queue[1].op)
         /\ UNCHANGED <<ui, queue, step, call, settled, off>>
         /\ call.cmd # "start" => backend.phase # "connecting"
<1>1. ~reply.there /\ call.cmd # "none" /\ UNCHANGED <<ui, queue, step, call, settled, off>>
  BY DEF Serve, asked
<1>2. call # NoCall
  BY <1>1, Constants
<1> QED
  BY <1>1, <1>2 DEF Inv, Paired, Sessions

\* What a command tells is heard, whatever it does.
LEMMA ServeCore ==
  ASSUME Inv, Serve, backend' \in Backends, refused' \in BOOLEAN, Sessions',
         \/ backend'.rev = backend.rev + 1 /\ events' = Append(events, Status(backend'))
         \/ /\ backend'.rev = backend.rev /\ events' = events
            /\ Status(backend') = Status(backend),
         reply' = reply \/ (reply'.there /\ reply'.status.rev = backend'.rev)
  PROVE  Types' /\ Paired' /\ Listed' /\ Revisions' /\ Late' /\ Truth' /\ Pending'
<1>1. /\ ~reply.there /\ call # NoCall /\ step # "idle" /\ ui.boot = "done"
      /\ UNCHANGED <<ui, queue, step, call, settled, off>>
  BY Served
<1>2. Types /\ Revisions
  BY DEF Inv
<1>3. events' \in Seq(Statuses) /\ Revisions'
  <2>1. CASE backend'.rev = backend.rev + 1 /\ events' = Append(events, Status(backend'))
    BY <1>1, <1>2, <2>1, TurnRevisions
  <2>2. CASE /\ backend'.rev = backend.rev /\ events' = events
             /\ Status(backend') = Status(backend)
    BY <1>1, <1>2, <2>2, StayRevisions DEF Types
  <2> QED
    BY <2>1, <2>2
<1>4. Types'
  BY <1>1, <1>2, <1>3 DEF Types
<1>5. Paired' /\ Listed' /\ Pending'
  BY <1>1 DEF Inv, Paired, Listed, Pending, Overruled, Waiting
<1>6. backend'.rev \in Nat /\ (reply'.there => reply'.status.rev = backend'.rev)
  BY <1>1 DEF Backends
<1>7. Late'
  BY <1>6 DEF Late
<1>8. Truth'
  BY <1>1, <1>3, <1>4, <1>6, AnswerTruth
<1> QED
  BY <1>3, <1>4, <1>5, <1>7, <1>8

LEMMA Answers ==
  ASSUME NEW ok, Answer(ok)
  PROVE  reply'.there /\ reply'.ok = ok /\ reply'.status.rev = backend'.rev
  BY DEF Answer, Status

LEMMA WantedType ==
  ASSUME Inv, call.cmd = "start"
  PROVE  /\ Wanted \in Requests /\ Wanted # Nothing /\ Wanted.mode = call.mode
         /\ Wanted.node = call.node /\ Wanted.routing = call.routing
         /\ Between(ui, Wanted.routing)
  BY Constants DEF Inv, Types, Wanted, Requests, Starts

\* A start that is awaited when nothing is to run will be followed by a disconnect.
LEMMA StartHeld ==
  ASSUME Inv, Serve, call.cmd = "start"
  PROVE  step = "start" /\ (off => Waiting({"disconnect"}))
<1>1. step = "start"
  BY Served DEF Awaits
<1> QED
  BY <1>1 DEF Inv, OffHeld

\* The attempt: which intent, session and phase it leaves.
LEMMA StartOutcome ==
  ASSUME Inv, Serve, call.cmd = "start", ServeStart
  PROVE  /\ backend' \in Backends /\ refused' \in BOOLEAN /\ backend'.stored = backend.stored
         /\ \/ backend'.rev = backend.rev + 1 /\ events' = Append(events, Status(backend'))
            \/ /\ backend'.rev = backend.rev /\ events' = events
               /\ Status(backend') = Status(backend)
         /\ reply' = reply \/ (reply'.there /\ reply'.status.rev = backend'.rev)
         /\ \/ /\ UNCHANGED <<backend, refused>> /\ backend.phase # "connecting"
               /\ reply'.there /\ ~reply'.ok
            \/ /\ backend'.intent = Wanted /\ backend'.session = backend.session
               /\ Running(backend) /\ refused' = (backend.session # Wanted)
               /\ backend'.phase \notin {"connecting", "disconnected", "failed"}
               /\ reply'.there /\ (reply'.ok => backend.session = Wanted)
            \/ /\ backend'.intent = Wanted /\ backend'.session = Nothing
               /\ backend'.phase = "connecting" /\ call.node \in backend.stored
               /\ refused' = FALSE /\ reply' = reply
            \/ /\ backend'.intent = Wanted /\ backend'.phase # "connecting" /\ reply'.there
               /\ \/ backend'.session = Nothing /\ ~reply'.ok
                  \/ backend'.session = Wanted
                     /\ backend'.phase \notin {"disconnected", "failed"}
<1>1. Types /\ backend \in Backends /\ refused \in BOOLEAN /\ Sessions
  BY DEF Inv, Types
<1>2. Wanted \in Requests /\ Nothing \in Requests
  BY WantedType, Constants
<1>3. CASE /\ backend.phase \in {"recovery", "blocked"} \/ call.node \notin backend.stored
           /\ Same /\ Answer(FALSE) /\ UNCHANGED refused
  <2>1. backend.phase # "connecting"
    BY <1>1, <1>3 DEF Sessions
  <2>2. UNCHANGED <<backend, events>>
    BY <1>3 DEF Same
  <2>3. reply'.there /\ ~reply'.ok /\ reply'.status.rev = backend'.rev
    BY <1>3, Answers
  <2> QED
    BY <1>1, <1>3, <2>1, <2>2, <2>3 DEF Status
<1>4. CASE /\ backend.phase \notin {"recovery", "blocked"} /\ Running(backend)
           /\ LET b == [backend EXCEPT !.intent = Wanted]
              IN IF backend.session = Wanted
                 THEN \/ Turn([b EXCEPT !.phase = "ready"]) /\ Answer(TRUE)
                      \/ \E phase \in Worse(b) : Turn([b EXCEPT !.phase = phase]) /\ Answer(FALSE)
                 ELSE Turn(b) /\ Answer(FALSE)
           /\ refused' = (backend.session # Wanted)
  <2> DEFINE b == [backend EXCEPT !.intent = Wanted]
  <2>1. b \in Backends /\ b.session = backend.session /\ b.intent = Wanted
        /\ b.phase = backend.phase /\ b.stored = backend.stored
    BY <1>1, <1>2 DEF Backends
  <2>2. backend.phase \notin {"connecting", "disconnected", "failed"}
    BY <1>1, <1>4 DEF Sessions, Running
  <2>3. ASSUME NEW phase \in {"ready", "degraded", "blocked"}, NEW ok \in BOOLEAN,
               Turn([b EXCEPT !.phase = phase]), Answer(ok)
        PROVE  /\ backend' \in Backends /\ backend'.stored = backend.stored
               /\ backend'.rev = backend.rev + 1 /\ events' = Append(events, Status(backend'))
               /\ backend'.intent = Wanted /\ backend'.session = backend.session
               /\ backend'.phase \notin {"connecting", "disconnected", "failed"}
               /\ reply'.there /\ reply'.ok = ok /\ reply'.status.rev = backend'.rev
    <3> DEFINE c == [b EXCEPT !.phase = phase]
    <3>1. c \in Backends /\ c.session = backend.session /\ c.intent = Wanted
          /\ c.phase = phase /\ c.stored = backend.stored
      BY <2>1 DEF Backends, Phases
    <3>2. Turn(c)
      BY <2>3
    <3> HIDE DEF b, c
    <3> QED
      BY <1>1, <2>3, <3>1, <3>2, Turned, Answers
  <2>4. CASE backend.session = Wanted
    <3>1. \E phase \in {"ready", "degraded", "blocked"}, ok \in BOOLEAN :
              Turn([b EXCEPT !.phase = phase]) /\ Answer(ok)
      BY <1>4, <2>4 DEF Worse
    <3>2. PICK phase \in {"ready", "degraded", "blocked"}, ok \in BOOLEAN :
              Turn([b EXCEPT !.phase = phase]) /\ Answer(ok)
      BY <3>1
    <3> HIDE DEF b
    <3> QED
      BY <1>4, <2>3, <2>4, <3>2
  <2>5. CASE backend.session # Wanted
    <3>1. Turn(b) /\ Answer(FALSE)
      BY <1>4, <2>5
    <3> HIDE DEF b
    <3>2. /\ backend' \in Backends /\ backend'.stored = backend.stored
          /\ backend'.rev = backend.rev + 1 /\ events' = Append(events, Status(backend'))
          /\ backend'.intent = Wanted /\ backend'.session = backend.session
          /\ backend'.phase = backend.phase
          /\ reply'.there /\ ~reply'.ok /\ reply'.status.rev = backend'.rev
      BY <1>1, <2>1, <3>1, Turned, Answers
    <3> QED
      BY <1>4, <2>2, <2>5, <3>2
  <2> QED
    BY <2>4, <2>5
<1>5. CASE /\ backend.phase \in {"disconnected", "failed"} /\ call.node \in backend.stored
           /\ Turn([backend EXCEPT !.intent = Wanted, !.phase = "connecting"])
           /\ refused' = FALSE /\ UNCHANGED reply
  <2> DEFINE b == [backend EXCEPT !.intent = Wanted, !.phase = "connecting"]
  <2>1. b \in Backends /\ b.session = Nothing /\ b.intent = Wanted
        /\ b.phase = "connecting" /\ b.stored = backend.stored
    BY <1>1, <1>2, <1>5 DEF Backends, Phases, Sessions
  <2>2. Turn(b)
    BY <1>5
  <2> HIDE DEF b
  <2> QED
    BY <1>1, <1>5, <2>1, <2>2, Turned
<1>6. CASE /\ backend.phase = "connecting" /\ UNCHANGED refused
           /\ \/ Turn(Up(backend, Wanted)) /\ Answer(TRUE)
              \/ Turn(Down(backend, "failed")) /\ Answer(FALSE)
              \/ Turn(Down(backend, "recovery")) /\ Answer(FALSE)
  <2>1. backend.intent = Wanted
    BY <1>1, <1>6 DEF Sessions
  <2>2. CASE Turn(Up(backend, Wanted)) /\ Answer(TRUE)
    <3> DEFINE b == Up(backend, Wanted)
    <3>1. b \in Backends /\ b.session = Wanted /\ b.intent = Wanted
          /\ b.phase = "ready" /\ b.stored = backend.stored
      BY <1>1, <1>2, <2>1 DEF Up, Backends, Phases
    <3>2. Turn(b)
      BY <2>2
    <3> HIDE DEF b
    <3> QED
      BY <1>1, <1>6, <2>2, <3>1, <3>2, Turned, Answers
  <2>3. ASSUME NEW phase \in {"failed", "recovery"}, Turn(Down(backend, phase)), Answer(FALSE)
        PROVE  /\ backend' \in Backends /\ backend'.stored = backend.stored
               /\ backend'.rev = backend.rev + 1 /\ events' = Append(events, Status(backend'))
               /\ backend'.intent = Wanted /\ backend'.session = Nothing
               /\ backend'.phase # "connecting"
               /\ reply'.there /\ ~reply'.ok /\ reply'.status.rev = backend'.rev
    <3> DEFINE b == Down(backend, phase)
    <3>1. b \in Backends /\ b.session = Nothing /\ b.intent = Wanted
          /\ b.phase = phase /\ b.stored = backend.stored
      BY <1>1, <1>2, <2>1 DEF Down, Backends, Phases
    <3>2. Turn(b)
      BY <2>3
    <3> HIDE DEF b
    <3> QED
      BY <1>1, <2>3, <3>1, <3>2, Turned, Answers
  <2> QED
    BY <1>1, <1>6, <2>2, <2>3
<1> QED
  BY <1>3, <1>4, <1>5, <1>6 DEF ServeStart

LEMMA ServeStartInv ==
  ASSUME Inv, Serve, call.cmd = "start", ServeStart
  PROVE  Inv'
<1>1. /\ UNCHANGED <<ui, queue, step, call, settled, off>> /\ ~reply.there
      /\ step = "start" /\ (off => Waiting({"disconnect"}))
  BY Served, StartHeld
<1>2. /\ backend' \in Backends /\ refused' \in BOOLEAN /\ backend'.stored = backend.stored
      /\ \/ backend'.rev = backend.rev + 1 /\ events' = Append(events, Status(backend'))
         \/ /\ backend'.rev = backend.rev /\ events' = events
            /\ Status(backend') = Status(backend)
      /\ reply' = reply \/ (reply'.there /\ reply'.status.rev = backend'.rev)
  BY StartOutcome
<1>3. \/ /\ UNCHANGED <<backend, refused>> /\ backend.phase # "connecting"
         /\ reply'.there /\ ~reply'.ok
      \/ /\ backend'.intent = Wanted /\ backend'.session = backend.session
         /\ Running(backend) /\ refused' = (backend.session # Wanted)
         /\ backend'.phase \notin {"connecting", "disconnected", "failed"}
         /\ reply'.there /\ (reply'.ok => backend.session = Wanted)
      \/ /\ backend'.intent = Wanted /\ backend'.session = Nothing
         /\ backend'.phase = "connecting" /\ call.node \in backend.stored
         /\ refused' = FALSE /\ reply' = reply
      \/ /\ backend'.intent = Wanted /\ backend'.phase # "connecting" /\ reply'.there
         /\ \/ backend'.session = Nothing /\ ~reply'.ok
            \/ backend'.session = Wanted /\ backend'.phase \notin {"disconnected", "failed"}
  BY StartOutcome
<1>4. /\ Wanted # Nothing /\ Wanted.mode = call.mode /\ Wanted.node = call.node
      /\ Between(ui, Wanted.routing) /\ Wanted' = Wanted
  BY <1>1, WantedType DEF Wanted
<1>5. Sessions'
  BY <1>1, <1>2, <1>3, <1>4 DEF Inv, Sessions, Running
<1>6. Types' /\ Paired' /\ Listed' /\ Revisions' /\ Late' /\ Truth' /\ Pending'
  BY <1>2, <1>5, ServeCore
<1>7. (Rules(ui))' /\ Starts'
  BY <1>1, <1>3, <1>4 DEF Inv, Rules, Starts, Between, Running, Wanted
<1>8. OffHeld' /\ Removed'
  BY <1>1 DEF Inv, OffHeld, Removed, Waiting
<1>9. Matched'
  <2> SUFFICES ASSUME Reconciled PROVE (Chosen(ui))'
    BY <1>1 DEF Inv, Matched, Reconciled, Waiting
  <2>1. Chosen(ui) /\ call.mode = ui.mode /\ call.node = ui.selected
    BY <1>1 DEF Inv, Matched
  <2> QED
    BY <1>1, <1>2, <1>3, <1>4, <2>1 DEF Chosen, Running
<1> QED
  BY <1>5, <1>6, <1>7, <1>8, <1>9 DEF Inv

\* The four commands that follow leave the rules and the answer of a start alone.
LEMMA ServeStopInv ==
  ASSUME Inv, Serve, call.cmd = "stop", ServeStop, refused' = FALSE
  PROVE  Inv'
<1>1. /\ UNCHANGED <<ui, queue, step, call, settled, off>> /\ ~reply.there
      /\ backend.phase # "connecting" /\ step # "start" /\ step # "switch"
  BY Served DEF Awaits
<1>2. Types /\ Sessions /\ backend \in Backends
  BY DEF Inv, Types
<1>3. /\ backend' \in Backends /\ backend'.stored = backend.stored
      /\ backend'.rev = backend.rev + 1 /\ events' = Append(events, Status(backend'))
      /\ backend'.intent = Nothing /\ reply'.there /\ reply'.status.rev = backend'.rev
      /\ backend'.phase # "connecting"
      /\ \/ backend'.session = Nothing
         \/ backend'.session = backend.session /\ backend'.phase = "recovery"
  <2>1. \E b \in Backends :
            /\ Turn(b) /\ b.stored = backend.stored /\ b.intent = Nothing
            /\ b.phase # "connecting"
            /\ b.session = Nothing \/ (b.session = backend.session /\ b.phase = "recovery")
    <3> DEFINE b == [backend EXCEPT !.intent = Nothing]
    <3>1. b \in Backends /\ b.stored = backend.stored /\ b.intent = Nothing
          /\ b.phase = backend.phase /\ b.session = backend.session
      BY <1>2, Constants DEF Backends
    <3>2. \A phase \in {"disconnected", "failed"} :
              /\ Down(b, phase) \in Backends /\ Down(b, phase).stored = backend.stored
              /\ Down(b, phase).intent = Nothing /\ Down(b, phase).phase = phase
              /\ Down(b, phase).session = Nothing
      <4> HIDE DEF b
      <4> QED
        BY <3>1, Constants DEF Down, Backends, Phases
    <3>3. [b EXCEPT !.phase = "recovery"] \in Backends
          /\ [b EXCEPT !.phase = "recovery"].stored = backend.stored
          /\ [b EXCEPT !.phase = "recovery"].intent = Nothing
          /\ [b EXCEPT !.phase = "recovery"].phase = "recovery"
          /\ [b EXCEPT !.phase = "recovery"].session = backend.session
      <4> HIDE DEF b
      <4> QED
        BY <3>1 DEF Backends, Phases
    <3>4. \/ Turn(Down(b, "disconnected")) \/ Turn([b EXCEPT !.phase = "recovery"])
          \/ Turn(Down(b, "failed"))
          \/ Turn(b) /\ backend.phase = "recovery"
      BY DEF ServeStop
    <3> HIDE DEF b
    <3> QED
      BY <1>1, <3>1, <3>2, <3>3, <3>4
  <2>2. reply'.there /\ reply'.status.rev = backend'.rev
    BY Answers DEF ServeStop
  <2> QED
    BY <1>2, <2>1, <2>2, Turned
<1>4. Sessions'
  BY <1>1, <1>3, Constants DEF Sessions
<1>5. Types' /\ Paired' /\ Listed' /\ Revisions' /\ Late' /\ Truth' /\ Pending'
  BY <1>3, <1>4, ServeCore
<1>6. (Rules(ui))' /\ Starts' /\ Removed'
  BY <1>1, <1>3 DEF Inv, Rules, Starts, Removed, Between, Running
<1>7. OffHeld'
  BY <1>1, <1>3 DEF Inv, OffHeld, Waiting
<1>8. Matched'
  BY <1>1, <1>3, Constants DEF Inv, Matched, Reconciled, Waiting, Chosen, Running
<1> QED
  BY <1>4, <1>5, <1>6, <1>7, <1>8 DEF Inv

LEMMA ServeSwitchInv ==
  ASSUME Inv, Serve, call.cmd = "switch", ServeSwitch, UNCHANGED refused
  PROVE  Inv'
<1>1. /\ UNCHANGED <<ui, queue, step, call, settled, off>> /\ ~reply.there
      /\ backend.phase # "connecting" /\ step = "switch"
  BY Served DEF Awaits
<1>2. Types /\ Sessions /\ backend \in Backends /\ call.node \in Nodes /\ refused \in BOOLEAN
  BY DEF Inv, Types
<1>3. \/ /\ backend' \in Backends /\ backend'.rev = backend.rev + 1
         /\ events' = Append(events, Status(backend'))
         /\ Running(backend) /\ backend.session.mode = "tun" /\ backend.phase # "recovery"
         /\ backend'.intent = backend.intent /\ backend'.stored = backend.stored
         /\ backend'.phase \in {"ready", "degraded"} /\ Running(backend')
         /\ backend'.session.mode = "tun"
         /\ backend'.session.routing = backend.session.routing
         /\ backend'.session.node \in {backend.session.node, call.node}
         /\ backend'.session.node # call.node => backend'.session = backend.session
      \/ UNCHANGED <<backend, events>>
  <2>1. CASE /\ Running(backend) /\ backend.session.mode = "tun" /\ backend.phase # "recovery"
             /\ Turn([backend EXCEPT !.session.node = call.node, !.phase = "ready"])
    <3> DEFINE b == [backend EXCEPT !.session.node = call.node, !.phase = "ready"]
    <3>1. backend.session \in [mode : Modes, node : Nodes, routing : Nat]
      BY <1>2, <2>1 DEF Running, Backends, Requests
    <3>2. b \in Backends /\ b.phase = "ready" /\ b.intent = backend.intent
          /\ b.stored = backend.stored /\ b.session = [backend.session EXCEPT !.node = call.node]
      BY <1>2, <3>1 DEF Backends, Phases, Requests
    <3>3. Turn(b)
      BY <2>1
    <3> HIDE DEF b
    <3>4. /\ b.session.mode = "tun" /\ b.session.node = call.node
          /\ b.session.routing = backend.session.routing /\ b.session # Nothing
      BY <2>1, <3>1, <3>2, Constants
    <3> QED
      BY <1>2, <2>1, <3>2, <3>3, <3>4, Turned DEF Running
  <2>2. CASE /\ Running(backend) /\ backend.session.mode = "tun" /\ backend.phase # "recovery"
             /\ Turn([backend EXCEPT !.phase = "degraded"])
    <3> DEFINE b == [backend EXCEPT !.phase = "degraded"]
    <3>1. b \in Backends /\ b.phase = "degraded" /\ b.intent = backend.intent
          /\ b.stored = backend.stored /\ b.session = backend.session
      BY <1>2 DEF Backends, Phases
    <3>2. Turn(b)
      BY <2>2
    <3> HIDE DEF b
    <3> QED
      BY <1>2, <2>2, <3>1, <3>2, Turned DEF Running
  <2> QED
    BY <2>1, <2>2 DEF ServeSwitch, Same
<1>4. reply'.there /\ reply'.status.rev = backend'.rev
  BY Answers DEF ServeSwitch
<1>5. Sessions'
  BY <1>1, <1>2, <1>3 DEF Sessions, Running
<1>6. Types' /\ Paired' /\ Listed' /\ Revisions' /\ Late' /\ Truth' /\ Pending'
  BY <1>2, <1>3, <1>4, <1>5, ServeCore DEF Status
<1>7. (Rules(ui))' /\ Starts' /\ Removed'
  BY <1>1, <1>3 DEF Inv, Rules, Starts, Removed, Between, Running
<1>8. OffHeld'
  BY <1>1, <1>3 DEF Inv, OffHeld, Waiting, Running
<1>9. Matched'
  <2> SUFFICES ASSUME Reconciled PROVE (Chosen(ui))'
    BY <1>1 DEF Inv, Matched, Reconciled, Waiting
  <2>1. Chosen(ui) /\ call.node = ui.selected
    BY <1>1 DEF Inv, Matched
  <2> QED
    BY <1>1, <1>3, <2>1 DEF Chosen, Running
<1> QED
  BY <1>5, <1>6, <1>7, <1>8, <1>9 DEF Inv

LEMMA ServeRecoverInv ==
  ASSUME Inv, Serve, call.cmd = "recover", ServeRecover, UNCHANGED refused
  PROVE  Inv'
<1>1. /\ UNCHANGED <<ui, queue, step, call, settled, off>> /\ ~reply.there
      /\ backend.phase # "connecting"
  BY Served
<1>2. Types /\ Sessions /\ backend \in Backends /\ refused \in BOOLEAN
  BY DEF Inv, Types
<1>3. \/ UNCHANGED <<backend, events>>
      \/ /\ backend' \in Backends /\ backend'.rev = backend.rev + 1
         /\ events' = Append(events, Status(backend')) /\ backend'.intent = backend.intent
         /\ backend'.stored = backend.stored /\ backend'.phase # "connecting"
         /\ \/ backend'.session = Nothing
            \/ backend'.session = backend.session /\ backend'.phase = "recovery"
  <2>1. CASE Turn(Down(backend, "disconnected"))
    <3> DEFINE b == Down(backend, "disconnected")
    <3>1. b \in Backends /\ b.phase = "disconnected" /\ b.intent = backend.intent
          /\ b.stored = backend.stored /\ b.session = Nothing
      BY <1>2, Constants DEF Down, Backends, Phases
    <3>2. Turn(b)
      BY <2>1
    <3> HIDE DEF b
    <3> QED
      BY <1>2, <3>1, <3>2, Turned
  <2>2. CASE backend.phase = "recovery" /\ Turn(backend)
    BY <1>2, <2>2, Turned
  <2> QED
    BY <2>1, <2>2 DEF ServeRecover, Same
<1>4. reply'.there /\ reply'.status.rev = backend'.rev
  BY Answers DEF ServeRecover
<1>5. Sessions'
  BY <1>1, <1>2, <1>3 DEF Sessions
<1>6. Types' /\ Paired' /\ Listed' /\ Revisions' /\ Late' /\ Truth' /\ Pending'
  BY <1>2, <1>3, <1>4, <1>5, ServeCore DEF Status
<1>7. (Rules(ui))' /\ Starts' /\ Removed'
  BY <1>1, <1>3 DEF Inv, Rules, Starts, Removed, Between, Running
<1>8. OffHeld'
  BY <1>1, <1>3 DEF Inv, OffHeld, Waiting
<1>9. Matched'
  BY <1>1, <1>3 DEF Inv, Matched, Reconciled, Waiting, Chosen, Running
<1> QED
  BY <1>5, <1>6, <1>7, <1>8, <1>9 DEF Inv

LEMMA ServeLibraryInv ==
  ASSUME Inv, Serve, call.cmd \in {"refresh", "remove"}, ServeLibrary, UNCHANGED refused
  PROVE  Inv'
<1>1. /\ UNCHANGED <<ui, queue, step, call, settled, off>> /\ ~reply.there
      /\ backend.phase # "connecting"
  BY Served
<1>2. Types /\ Sessions /\ backend \in Backends /\ refused \in BOOLEAN
  BY DEF Inv, Types
<1>3. /\ backend' \in Backends /\ backend'.rev = backend.rev /\ events' = events
      /\ Status(backend') = Status(backend)
      /\ backend'.intent = backend.intent /\ backend'.session = backend.session
      /\ backend'.phase = backend.phase /\ backend'.stored \subseteq backend.stored
      /\ reply'.there /\ reply'.status.rev = backend'.rev
      /\ reply'.ok /\ call.cmd = "remove" =>
             call.node \notin backend'.stored /\ backend'.session.node # call.node
  <2>1. CASE Same /\ Answer(FALSE)
    BY <1>2, <2>1, Answers DEF Same
  <2>2. CASE /\ backend.session.node # call.node /\ UNCHANGED events /\ Answer(TRUE)
             /\ backend' = [backend EXCEPT !.stored = IF call.cmd = "remove"
                                                      THEN @ \ {call.node} ELSE @]
    <3> DEFINE stored == IF call.cmd = "remove" THEN backend.stored \ {call.node}
                         ELSE backend.stored
    <3>1. stored \subseteq backend.stored /\ (call.cmd = "remove" => call.node \notin stored)
      OBVIOUS
    <3>2. backend' = [backend EXCEPT !.stored = stored]
      BY <2>2
    <3> HIDE DEF stored
    <3>3. /\ backend' \in Backends /\ backend'.rev = backend.rev /\ backend'.id = backend.id
          /\ backend'.intent = backend.intent /\ backend'.session = backend.session
          /\ backend'.phase = backend.phase /\ backend'.stored = stored
      BY <1>2, <3>1, <3>2 DEF Backends
    <3>4. reply'.there /\ reply'.ok /\ reply'.status.rev = backend'.rev
      BY <2>2, Answers
    <3> QED
      BY <2>2, <3>1, <3>3, <3>4 DEF Status
  <2> QED
    BY <2>1, <2>2 DEF ServeLibrary
<1>4. Sessions'
  BY <1>1, <1>2, <1>3 DEF Sessions
<1>5. Types' /\ Paired' /\ Listed' /\ Revisions' /\ Late' /\ Truth' /\ Pending'
  BY <1>2, <1>3, <1>4, ServeCore
<1>6. (Rules(ui))' /\ Starts' /\ Removed'
  BY <1>1, <1>3 DEF Inv, Rules, Starts, Removed, Between, Running
<1>7. OffHeld'
  BY <1>1, <1>3 DEF Inv, OffHeld, Waiting
<1>8. Matched'
  BY <1>1, <1>3 DEF Inv, Matched, Reconciled, Waiting, Chosen, Running
<1> QED
  BY <1>4, <1>5, <1>6, <1>7, <1>8 DEF Inv

LEMMA ServeInv == ASSUME Inv, Serve PROVE Inv'
<1>1. CASE call.cmd = "start" /\ ServeStart
  BY <1>1, ServeStartInv
<1>2. CASE call.cmd = "stop" /\ ServeStop /\ refused' = FALSE
  BY <1>2, ServeStopInv
<1>3. CASE call.cmd = "switch" /\ ServeSwitch /\ UNCHANGED refused
  BY <1>3, ServeSwitchInv
<1>4. CASE call.cmd = "recover" /\ ServeRecover /\ UNCHANGED refused
  BY <1>4, ServeRecoverInv
<1>5. CASE call.cmd \in {"refresh", "remove"} /\ ServeLibrary /\ UNCHANGED refused
  BY <1>5, ServeLibraryInv
<1> QED
  BY <1>1, <1>2, <1>3, <1>4, <1>5 DEF Serve

\* What the backend does by itself: the intent stands, and the session is found
\* worse or better, is lost, or becomes that of the intent.
LEMMA Drifted ==
  ASSUME Inv, Drift
  PROVE  /\ backend' \in Backends /\ backend'.rev = backend.rev + 1
         /\ events' = Append(events, Status(backend')) /\ backend'.intent = backend.intent
         /\ backend'.stored = backend.stored
         /\ backend'.phase \in {"ready", "degraded", "blocked", "failed"}
         /\ \/ /\ backend'.session = backend.session
               /\ backend.phase \in {"ready", "degraded"}
               /\ backend'.phase \in {"ready", "degraded", "blocked"}
               /\ backend'.phase = "blocked" => backend.session.mode = "proxy"
            \/ backend'.session = Nothing /\ backend'.phase = "failed"
            \/ /\ backend'.session = backend.intent /\ backend.intent.mode = "proxy"
               /\ backend.intent.node \in backend.stored /\ backend'.phase = "ready"
<1>1. Types /\ backend \in Backends
  BY DEF Inv, Types
<1>2. CASE \E phase \in {"ready", "degraded", "blocked"} :
               /\ Turn([backend EXCEPT !.phase = phase])
               /\ backend.phase \in {"ready", "degraded"}
               /\ phase = "blocked" => backend.session.mode = "proxy"
  <2>1. PICK phase \in {"ready", "degraded", "blocked"} :
            /\ Turn([backend EXCEPT !.phase = phase])
            /\ backend.phase \in {"ready", "degraded"}
            /\ phase = "blocked" => backend.session.mode = "proxy"
    BY <1>2
  <2> DEFINE b == [backend EXCEPT !.phase = phase]
  <2>2. b \in Backends /\ b.phase = phase /\ b.intent = backend.intent
        /\ b.stored = backend.stored /\ b.session = backend.session
    BY <1>1 DEF Backends, Phases
  <2>3. Turn(b)
    BY <2>1
  <2> HIDE DEF b
  <2> QED
    BY <1>1, <2>1, <2>2, <2>3, Turned
<1>3. CASE Turn(Down(backend, "failed"))
  <2> DEFINE b == Down(backend, "failed")
  <2>1. b \in Backends /\ b.phase = "failed" /\ b.intent = backend.intent
        /\ b.stored = backend.stored /\ b.session = Nothing
    BY <1>1, Constants DEF Down, Backends, Phases
  <2>2. Turn(b)
    BY <1>3
  <2> HIDE DEF b
  <2> QED
    BY <1>1, <2>1, <2>2, Turned
<1>4. CASE /\ backend.intent.mode = "proxy" /\ backend.intent.node \in backend.stored
           /\ Turn(Up(backend, backend.intent))
  <2> DEFINE b == Up(backend, backend.intent)
  <2>1. b \in Backends /\ b.phase = "ready" /\ b.intent = backend.intent
        /\ b.stored = backend.stored /\ b.session = backend.intent
    BY <1>1 DEF Up, Backends, Phases
  <2>2. Turn(b)
    BY <1>4
  <2> HIDE DEF b
  <2> QED
    BY <1>1, <1>4, <2>1, <2>2, Turned
<1>5. \/ backend.phase = "ready" /\ Turn([backend EXCEPT !.phase = "degraded"])
      \/ backend.phase = "degraded" /\ Turn([backend EXCEPT !.phase = "ready"])
      \/ /\ backend.phase \in {"ready", "degraded"} /\ backend.session.mode = "proxy"
         /\ Turn([backend EXCEPT !.phase = "blocked"])
      \/ Turn(Down(backend, "failed"))
      \/ /\ backend.intent.mode = "proxy" /\ backend.intent.node \in backend.stored
         /\ Turn(Up(backend, backend.intent))
  BY DEF Drift
<1> QED
  BY <1>2, <1>3, <1>4, <1>5

LEMMA DriftInv == ASSUME Inv, Drift PROVE Inv'
<1>1. UNCHANGED <<ui, queue, step, call, reply, settled, off, refused>>
  BY DEF Drift, operation
<1>2. /\ backend' \in Backends /\ backend'.rev = backend.rev + 1
      /\ events' = Append(events, Status(backend')) /\ backend'.intent = backend.intent
      /\ backend'.stored = backend.stored
      /\ backend'.phase \in {"ready", "degraded", "blocked", "failed"}
  BY Drifted
<1>3. \/ /\ backend'.session = backend.session
         /\ backend.phase \in {"ready", "degraded"}
         /\ backend'.phase \in {"ready", "degraded", "blocked"}
         /\ backend'.phase = "blocked" => backend.session.mode = "proxy"
      \/ backend'.session = Nothing /\ backend'.phase = "failed"
      \/ /\ backend'.session = backend.intent /\ backend.intent.mode = "proxy"
         /\ backend.intent.node \in backend.stored /\ backend'.phase = "ready"
  BY Drifted
<1>4. Types /\ Sessions /\ backend.rev \in Nat
  BY DEF Inv, Types, Backends
<1>5. events' \in Seq(Statuses) /\ Revisions'
  BY <1>1, <1>2, <1>4, TurnRevisions DEF Inv
<1>6. Types'
  BY <1>1, <1>2, <1>4, <1>5 DEF Types
<1>7. Sessions'
  BY <1>1, <1>2, <1>3, <1>4, Constants DEF Sessions
<1>8. Paired' /\ Pending'
  BY <1>1 DEF Inv, Paired, Pending, Overruled, Waiting
<1>9. Late'
  BY <1>1, <1>2, <1>4 DEF Inv, Late
<1>10. /\ Len(events) \in Nat /\ Len(events') = Len(events) + 1
       /\ (\A i \in 1..Len(events) : events'[i] = events[i])
       /\ events'[Len(events) + 1] = Status(backend')
  <2>1. Status(backend') \in Statuses
    BY <1>2, StatusType
  <2> QED
    BY <1>2, <1>4, <2>1, Appended DEF Types
<1>11. \A i \in 1..Len(events') : i \in 1..Len(events) \/ i = Len(events) + 1
  BY <1>10
<1>12. Listed'
  <2>1. ASSUME ui.boot # "done" PROVE Plain(Status(backend'))
    <3>1. Plain(Status(backend))
      BY <2>1 DEF Inv, Listed
    <3> QED
      BY <1>2, <1>3, <3>1 DEF Plain, Status, Modes
  <2>2. ASSUME ui.boot # "done", NEW i \in 1..Len(events') PROVE Plain(events'[i])
    BY <1>10, <1>11, <2>1, <2>2 DEF Inv, Listed
  <2> QED
    BY <1>1, <1>2, <2>1, <2>2 DEF Inv, Listed
<1>13. Truth'
  <2>1. ASSUME NEW s, Faithful(s) PROVE (Faithful(s))'
    BY <1>1, <1>2, <1>3, <2>1, Constants DEF Faithful, Running
  <2>2. (Faithful(Status(backend)))'
    BY <1>6, <1>7, Constants DEF Types, Sessions, Backends, Faithful, Status, Running
  <2>3. ui'.runtime.rev > 0 /\ (Fresh(ui.runtime))' => (Faithful(ui.runtime))'
    BY <1>1, <2>1 DEF Inv, Truth, Fresh, Faithful
  <2>4. ASSUME NEW i \in 1..Len(events'), (Fresh(events[i]))' PROVE (Faithful(events[i]))'
    <3>1. CASE i \in 1..Len(events)
      <4>1. Fresh(events[i]) /\ events'[i] = events[i]
        BY <1>1, <1>10, <2>4, <3>1 DEF Fresh
      <4>2. Faithful(events[i])
        BY <3>1, <4>1 DEF Inv, Truth
      <4> QED
        BY <2>1, <4>1, <4>2 DEF Faithful
    <3>2. CASE i = Len(events) + 1
      BY <1>10, <2>2, <3>2 DEF Faithful
    <3> QED
      BY <1>11, <3>1, <3>2
  <2> QED
    BY <2>3, <2>4 DEF Truth
<1>14. (Rules(ui))' /\ Starts'
  BY <1>1, <1>2, <1>3 DEF Inv, Rules, Starts, Between, Running, Wanted
<1>15. OffHeld'
  BY <1>1, <1>2, <1>3, Constants DEF Inv, OffHeld, Waiting
<1>16. Removed'
  BY <1>1, <1>2, <1>3 DEF Inv, Removed, Running
<1>17. Matched'
  <2> SUFFICES ASSUME Reconciled PROVE (Chosen(ui))'
    BY <1>1 DEF Inv, Matched, Reconciled, Waiting
  <2>1. Chosen(ui)
    BY DEF Inv, Matched
  <2> QED
    BY <1>1, <1>2, <1>3, <2>1 DEF Chosen, Running
<1> QED
  BY <1>5, <1>6, <1>7, <1>8, <1>9, <1>12, <1>13, <1>14, <1>15, <1>16, <1>17 DEF Inv

-----------------------------------------------------------------------------
(* The theorems *)

LEMMA StepInv == ASSUME Inv, [Next]_vars PROVE Inv'
<1>1. CASE Next
  BY <1>1, ReceiveInv, BootInv, BeginInv, ResumeInv, UserInv, ServeInv, DriftInv DEF Next
<1>2. CASE UNCHANGED vars
  <2>1. UNCHANGED <<backend, events, ui, queue, step, call, reply, settled, refused, off>>
    BY <1>2 DEF vars, operation, asked
  <2>2. Types' /\ Sessions' /\ Paired' /\ Late' /\ Removed' /\ Listed' /\ Revisions'
    BY <2>1 DEF Inv, Types, Sessions, Paired, Late, Removed, Listed, Revisions, Wanted, Running,
       Status
  <2>3. Truth' /\ (Rules(ui))' /\ Starts'
    BY <2>1 DEF Inv, Truth, Fresh, Faithful, Rules, Between, Running, Starts, Wanted
  <2>4. Pending' /\ OffHeld'
    BY <2>1 DEF Inv, Pending, Overruled, Waiting, OffHeld
  <2>5. Matched'
    BY <2>1 DEF Inv, Matched, Reconciled, Waiting, Chosen, Running
  <2> QED
    BY <2>2, <2>3, <2>4, <2>5 DEF Inv
<1> QED
  BY <1>1, <1>2

LEMMA Invariance == Spec => []Inv
  BY InitInv, StepInv, PTL DEF Spec

LEMMA InvTyped == Inv => TypeOK
<1> SUFFICES ASSUME Inv PROVE TypeOK
  OBVIOUS
<1>1. backend \in Backends /\ ui \in Fields /\ ui.applied <= ui.routing
  BY DEF Inv, Types, Rules
<1>2. (step = "idle") = (call = NoCall)
  BY DEF Inv, Paired, Awaits
<1>3. reply.there => call # NoCall
  BY Constants DEF Inv, Paired, Awaits
<1> QED
  BY <1>1, <1>2, <1>3 DEF TypeOK, Backends, Fields, Phases

\* The variables have their types, and an answer belongs to the command that is
\* awaited (enqueue, reconcileConnection).
THEOREM TypeCorrect == Spec => []TypeOK
  BY InvTyped, Invariance, PTL

LEMMA InvShows == Inv => ShownIsCurrent
<1> SUFFICES ASSUME Inv, Quiet PROVE ui.runtime = Status(backend)
  BY DEF ShownIsCurrent
<1>1. Len(events) = 0 /\ ui.boot = "done"
  BY Lengths DEF Inv, Quiet
<1>2. ui.runtime.rev \in Nat /\ backend.rev \in Nat
  BY <1>1, Known DEF Inv, Types, Backends
<1>3. ui.runtime.rev <= backend.rev /\ ui.runtime.rev + Len(events) >= backend.rev
      /\ (ui.runtime.rev = backend.rev => ui.runtime = Status(backend))
  BY <1>1 DEF Inv, Revisions
<1> QED
  BY <1>1, <1>2, <1>3

\* Once events and results are all in, in whatever order they came, the user sees
\* the status the backend has (acceptRuntime).
THEOREM ShownTheorem == Spec => []ShownIsCurrent
  BY InvShows, Invariance, PTL

LEMMA InvHonours == Inv => IntentHonoured
<1> SUFFICES ASSUME Inv, Quiet, settled
             PROVE  /\ off => backend.session = Nothing /\ backend.intent = Nothing
                    /\ ~refused => ChoiceRuns
  BY DEF IntentHonoured
<1>1. Len(queue) = 0
  BY Lengths DEF Inv, Quiet
<1>2. ~Waiting({"disconnect"}) /\ ~Waiting(Changes)
  BY <1>1 DEF Waiting
<1>3. off => backend.session = Nothing /\ backend.intent = Nothing
  BY <1>2 DEF Inv, OffHeld
<1>4. ASSUME ~off, ~refused, Running(backend), backend.phase # "recovery"
      PROVE  /\ backend.session.node = ui.selected /\ backend.session.mode = ui.mode
             /\ backend.session.routing = ui.routing
  <2>1. Chosen(ui)
    BY <1>2, <1>4 DEF Inv, Matched, Reconciled
  <2>2. Between(ui, backend.session.routing) /\ ui.routing = ui.applied
    BY <1>4, <2>1 DEF Inv, Rules, Chosen
  <2>3. backend.session.routing \in Nat /\ ui.routing \in Nat
    BY Constants DEF Inv, Types, Backends, Fields
  <2> QED
    BY <1>4, <2>1, <2>2, <2>3 DEF Chosen, Between
<1> QED
  BY <1>3, <1>4 DEF ChoiceRuns, Running

\* When the last change was reconciled without an error and all is quiet, then
\* nothing runs nor will by itself if the user disconnected last; otherwise what
\* runs is his last choice, unless a start was refused (reconcileConnection).
THEOREM IntentTheorem == Spec => []IntentHonoured
  BY InvHonours, Invariance, PTL
=====================
