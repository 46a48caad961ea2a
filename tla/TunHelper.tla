----------------------------- MODULE TunHelper -----------------------------
(***************************************************************************)
(* The elevated TUN helper (tun_helper.rs) and the application's end of it *)
(* (TunHelperChild): one helper process per TUN session, one request at a  *)
(* time over a pipe of its own, an engine in a job that dies with the      *)
(* helper, the ownership journal the helper keeps in the session directory *)
(* while the engine runs, and the recovery that reads what a dead session  *)
(* left.  The application, a helper and an engine may die at any step, and *)
(* an answer may come after its deadline.                                  *)
(*                                                                         *)
(* A RouteDeck adapter is known by the helper and the engine run that made *)
(* it (its LUID).  Windows keeps one adapter of a name; an adapter and its *)
(* routes may outlive the engine for a while.                              *)
(***************************************************************************)
EXTENDS Naturals

CONSTANTS
    MaxSessions,    \* bound: sessions, each with a helper of its own
    MaxRuns,        \* bound: engines one helper may start
    MaxRequests,    \* bound: the last request number of a session
    MaxBoots        \* bound: times RouteDeck is started again

ASSUME TunHelperBounds ==
    /\ MaxSessions \in Nat /\ MaxRuns \in Nat /\ MaxBoots \in Nat
    /\ MaxRequests \in Nat /\ MaxRequests >= 2

VARIABLES
    up, boots,      \* the application runs; starts so far
    recovery,       \* State.recovery_required
    child,          \* the TunHelperChild of State.active
    call,           \* the request the application waits for
    open,           \* the application's end of the pipe is open and not poisoned
    directory,      \* the session directory the application made exists
    toHelper, toParent,     \* the pipe
    pc,             \* what the helper does
    last,           \* ServerState: the last request number it accepted
    after,          \* what it does once the engine is cleaned up
    holds,          \* it holds handles in the session directory
    journal,        \* tun-journal.json
    run, alive,     \* its engine
    adapter, routes \* the RouteDeck adapter and the LUIDs with routes

application == <<up, boots, recovery>>
parent  == <<child, call, open>>
pipe    == <<toHelper, toParent>>
helper  == <<pc, last, after, holds>>
files   == <<directory, journal>>
network == <<run, alive, adapter, routes>>
vars == <<application, parent, pipe, helper, files, network>>

Helpers   == 1..MaxSessions      \* in the order of their launch
NoChild   == [h |-> "none"]
NoCall    == [does |-> "none"]
NoFrame   == [kind |-> "none"]
NoAdapter == <<>>
NoLuid    == <<>>
Luids     == Helpers \X (1..MaxRuns)
Ids       == 1..MaxRequests

Frame(k, id) == [kind |-> k, id |-> id]
Started(id, r) == [kind |-> "started", id |-> id, run |-> r]

Phases == {"none", "starting", "running", "adapter_observed", "capture_verified",
           "conflict", "torn"}
Journal(p, l) == [phase |-> p, luid |-> l]
NoJournal == Journal("none", NoLuid)

\* Steps of the helper: "off" before it is launched, then helper_main_inner.
\* In the steps of Owning an engine has been launched and not yet stopped.
Owning == {"running", "find", "routes", "started", "serve", "cleanup", "doubt", "drop"}
Steps  == {"off", "hello", "start", "prepare", "launch", "verify", "answer", "idle",
           "leaving", "gone"} \cup Owning

-----------------------------------------------------------------------------
Init ==
    /\ up = TRUE /\ boots = 0 /\ recovery = FALSE
    /\ child = NoChild /\ call = NoCall
    /\ open = [h \in Helpers |-> FALSE]
    /\ directory = [h \in Helpers |-> FALSE]
    /\ toHelper = [h \in Helpers |-> NoFrame]
    /\ toParent = [h \in Helpers |-> NoFrame]
    /\ pc = [h \in Helpers |-> "off"]
    /\ last = [h \in Helpers |-> 0]
    /\ after = [h \in Helpers |-> "none"]
    /\ holds = [h \in Helpers |-> FALSE]
    /\ journal = [h \in Helpers |-> NoJournal]
    /\ run = [h \in Helpers |-> 0]
    /\ alive = [h \in Helpers |-> FALSE]
    /\ adapter = NoAdapter /\ routes = {}

Gone(h) == pc[h] = "gone"
Goto(h, step) == pc' = [pc EXCEPT ![h] = step]
GoAfter(h, step, then) == Goto(h, step) /\ after' = [after EXCEPT ![h] = then]
Write(h, j) == journal' = [journal EXCEPT ![h] = j]
\* Closing an end loses what it has not read.
Close(h) == /\ open' = [open EXCEPT ![h] = FALSE]
            /\ toParent' = [toParent EXCEPT ![h] = NoFrame]

-----------------------------------------------------------------------------
(* The application: a session from launch_helper to the last stop *)

\* Slip: a directory is removed under the helper that still uses it.
RemovesAnyway(h) == TRUE

\* Drop for SessionConfig: handles without FILE_SHARE_DELETE and files it did
\* not make keep a directory where it is.
RemovesDirectory(h) == ~holds[h] /\ journal[h].phase = "none"

\* The session is dropped; what is left of any session asks for recovery
\* (reconcile_stale_sessions).
DropSession(h) ==
    /\ child' = NoChild
    /\ directory' = [directory EXCEPT ![h] = @ /\ ~RemovesDirectory(h)]
    /\ recovery' = \E g \in Helpers : directory'[g]

\* TunHelperLauncher::start up to the StartTun frame, request 2 after the
\* challenge.  A refused elevation ends like a failed start.
Launch(h) ==
    /\ up /\ ~recovery /\ child = NoChild /\ call = NoCall
    /\ pc[h] = "off" /\ \A g \in Helpers : g < h => pc[g] # "off"
    /\ call' = [does |-> "start", h |-> h, id |-> 2]
    /\ open' = [open EXCEPT ![h] = TRUE]
    /\ directory' = [directory EXCEPT ![h] = TRUE]
    /\ Goto(h, "hello")
    /\ toHelper' = [toHelper EXCEPT ![h] = Frame("start", 2)]
    /\ UNCHANGED <<application, child, toParent, last, after, holds, journal, network>>

\* Slip: a request is sent under the number of the one before it.
SameRequest == child.request

NextRequest == child.request + 1

\* A write reaches a helper that is there; otherwise the end is poisoned and
\* the call is over.
Send(does) ==
    /\ child' = [child EXCEPT !.request = NextRequest]
    /\ IF open[child.h] /\ ~Gone(child.h)
       THEN /\ toHelper' = [toHelper EXCEPT ![child.h] = Frame(does, NextRequest)]
            /\ call' = [does |-> does, h |-> child.h, id |-> NextRequest]
            /\ UNCHANGED <<open, toParent, recovery>>
       ELSE /\ Close(child.h)
            /\ recovery' = (recovery \/ does = "stop")
            /\ UNCHANGED <<toHelper, call>>
    /\ UNCHANGED <<up, boots, helper, files, network>>

Calls == up /\ child # NoChild /\ call = NoCall

\* query_running_state_inner and restart_owned_core look first whether the
\* helper still runs; a restart needs an intent and no recovery.
Ask(does) ==
    /\ Calls /\ ~child.stopped /\ child.request < MaxRequests
    /\ ~Gone(child.h)
    /\ does = "restart" => ~recovery
    /\ Send(does)

\* TunHelperChild::stop sends its request whether or not the helper runs.
AskStop ==
    /\ Calls /\ ~child.stopped /\ child.request < MaxRequests
    /\ Send("stop")

\* The answer to `call`.  Any other frame is a protocol error, like the end of
\* the pipe.
Answer == toParent[call.h]
Read == toParent' = [toParent EXCEPT ![call.h] = NoFrame]
Waits(does) == up /\ call.does = does
Matches == Answer # NoFrame /\ Answer.id = call.id

StartAnswered ==
    /\ Waits("start") /\ Matches
    /\ IF Answer.kind = "started"
       THEN /\ child' = [h |-> call.h, run |-> Answer.run, request |-> 2, stopped |-> FALSE]
            /\ Read /\ UNCHANGED <<open, directory, recovery>>
       ELSE Close(call.h) /\ DropSession(call.h)
    /\ call' = NoCall
    /\ UNCHANGED <<up, boots, toHelper, helper, journal, network>>

\* A status is told to the monitor; a new engine's identity is kept.  A cleanup
\* that failed in a restart asks for recovery.
AskAnswered ==
    /\ Waits("status") \/ Waits("restart")
    /\ Matches /\ Read
    /\ child' = IF Answer.kind = "started" THEN [child EXCEPT !.run = Answer.run] ELSE child
    /\ recovery' = (recovery \/ Answer.kind = "cleanup_conflict")
    /\ call' = NoCall
    /\ UNCHANGED <<up, boots, open, toHelper, helper, files, network>>

\* A confirmed stop closes the pipe and then waits for the helper to exit.
StopAnswered ==
    /\ Waits("stop") /\ Matches
    /\ IF Answer.kind = "stopped"
       THEN child' = [child EXCEPT !.stopped = TRUE] /\ Close(call.h) /\ UNCHANGED recovery
       ELSE recovery' = TRUE /\ Read /\ UNCHANGED <<child, open>>
    /\ call' = NoCall
    /\ UNCHANGED <<up, boots, toHelper, helper, files, network>>

\* No answer: the pipe broke, or the frame deadline passed.  The end is
\* poisoned.
NoAnswer ==
    /\ up /\ call # NoCall
    /\ Close(call.h)
    /\ call' = NoCall
    /\ CASE call.does = "start" -> DropSession(call.h)
         [] call.does = "stop"  -> recovery' = TRUE /\ UNCHANGED <<child, directory>>
         [] OTHER -> UNCHANGED <<recovery, child, directory>>
    /\ UNCHANGED <<up, boots, toHelper, helper, journal, network>>

\* The helper is gone after its answer, or a stop is repeated after the wait
\* for its exit timed out (which asked for recovery): the session is dropped.
Release ==
    /\ Calls /\ child.stopped /\ (Gone(child.h) \/ recovery)
    /\ DropSession(child.h)
    /\ UNCHANGED <<up, boots, call, open, pipe, helper, journal, network>>

ExitTimesOut ==
    /\ Calls /\ child.stopped /\ ~Gone(child.h)
    /\ recovery' = TRUE
    /\ UNCHANGED <<up, boots, parent, pipe, helper, files, network>>

-----------------------------------------------------------------------------
(* The helper: helper_main_inner and start_engine_session *)

Reading(h, step) == pc[h] = step /\ toHelper[h] # NoFrame
Consume(h) == toHelper' = [toHelper EXCEPT ![h] = NoFrame]
ToParent(h, frame) == toParent' = [toParent EXCEPT ![h] = frame]

\* ServerState::accept on a running session: numbers only grow.
Accepts(h) == toHelper[h].id > last[h]
Accept(h) == last' = [last EXCEPT ![h] = toHelper[h].id]

\* Slip: a helper that waits for a request does not watch the application.
NeverLost(h) == FALSE

\* read_frame_from_peer: the application's end is closed, or it died.
ParentLost(h) == ~open[h]

\* Nothing of the helper is left.
Exit(h) ==
    /\ GoAfter(h, "gone", "none")
    /\ last' = [last EXCEPT ![h] = 0]
    /\ holds' = [holds EXCEPT ![h] = FALSE]
    /\ toHelper' = [toHelper EXCEPT ![h] = NoFrame]

\* The challenge is answered in time and the start is the one it belongs to,
\* or the helper leaves.
Hello(h) ==
    /\ pc[h] = "hello"
    /\ \/ /\ toHelper[h] # NoFrame
          /\ Goto(h, "start") /\ Accept(h) /\ Consume(h) /\ UNCHANGED <<after, holds>>
       \/ Exit(h)
    /\ UNCHANGED <<application, parent, toParent, files, network>>

\* The application still has the handle of the configuration.
HandsOver(h) ==
    /\ up
    /\ (child # NoChild /\ child.h = h) \/ (call # NoCall /\ call.h = h)

\* The engine was not started: the helper answers and, after the first start
\* or a conflict, leaves.
FailStart(h, kind) == GoAfter(h, "answer", kind)

AdapterAbsent == adapter = NoAdapter

\* validate_start_preflight, the adapter check and duplicate_config, which
\* keeps the application's lease while the helper reads the configuration.
Preflight(h) ==
    /\ pc[h] = "start"
    /\ \/ /\ AdapterAbsent /\ HandsOver(h) /\ run[h] < MaxRuns
          /\ holds' = [holds EXCEPT ![h] = TRUE]
          /\ Goto(h, "prepare") /\ UNCHANGED after
       \/ FailStart(h, "failed") /\ UNCHANGED holds
    /\ UNCHANGED <<application, parent, pipe, last, files, network>>

\* The nested session, the engine's check and create_new of the journal.
Prepare(h) ==
    /\ pc[h] = "prepare"
    /\ \/ /\ journal[h] = NoJournal
          /\ Write(h, Journal("starting", NoLuid))
          /\ Goto(h, "launch") /\ UNCHANGED <<after, holds>>
       \/ /\ FailStart(h, "failed")
          /\ holds' = [holds EXCEPT ![h] = FALSE]
          /\ UNCHANGED journal
    /\ UNCHANGED <<application, parent, pipe, last, directory, network>>

LaunchEngine(h) ==
    /\ pc[h] = "launch"
    /\ \/ /\ run' = [run EXCEPT ![h] = @ + 1]
          /\ alive' = [alive EXCEPT ![h] = TRUE]
          /\ Goto(h, "running") /\ UNCHANGED <<after, holds, journal>>
       \/ /\ Write(h, Journal("conflict", NoLuid))
          /\ FailStart(h, "conflict")
          /\ holds' = [holds EXCEPT ![h] = FALSE]
          /\ UNCHANGED <<run, alive>>
    /\ UNCHANGED <<application, parent, pipe, last, directory, adapter, routes>>

\* with_tun_cleanup: whatever fails from here on stops the engine and verifies
\* its network.
CleanUp(h, then) == GoAfter(h, "cleanup", then)

MarkRunning(h) ==
    /\ pc[h] = "running"
    /\ \/ Write(h, Journal("running", NoLuid)) /\ Goto(h, "find") /\ UNCHANGED after
       \/ CleanUp(h, "failed") /\ UNCHANGED journal
    /\ UNCHANGED <<application, parent, pipe, last, holds, directory, network>>

\* The one adapter of the name within five seconds, and mark_adapter.
FindAdapter(h) ==
    /\ pc[h] = "find"
    /\ \/ /\ adapter # NoAdapter
          /\ Write(h, Journal("adapter_observed", adapter))
          /\ Goto(h, "routes") /\ UNCHANGED after
       \/ CleanUp(h, "failed") /\ UNCHANGED journal
    /\ UNCHANGED <<application, parent, pipe, last, holds, directory, network>>

\* inspect_owned_capture
Captured(h) == adapter # NoAdapter /\ adapter = journal[h].luid /\ adapter \in routes

FindRoutes(h) ==
    /\ pc[h] = "routes"
    /\ \/ /\ Captured(h)
          /\ Write(h, Journal("capture_verified", journal[h].luid))
          /\ Goto(h, "started") /\ UNCHANGED after
       \/ CleanUp(h, "failed") /\ UNCHANGED journal
    /\ UNCHANGED <<application, parent, pipe, last, holds, directory, network>>

\* Started tells the engine to the application, or finds the pipe closed.
TellStarted(h) ==
    /\ pc[h] = "started"
    /\ \/ /\ open[h] /\ ToParent(h, Started(last[h], run[h]))
          /\ Goto(h, "serve") /\ UNCHANGED after
       \/ ParentLost(h) /\ CleanUp(h, "lost") /\ UNCHANGED toParent
    /\ UNCHANGED <<application, parent, toHelper, last, holds, files, network>>

\* A status is answered with what is seen now; a changed physical network
\* spoils the capture as well.
StatusKinds(h) ==
    IF ~alive[h] THEN {"failed"}
    ELSE {"invalid"} \cup (IF Captured(h) THEN {"running"} ELSE {})

\* serve_running.  The pipe may have closed before the answer, or is_alive fails;
\* then the helper ends without one.
ServeStatus(h) ==
    /\ Reading(h, "serve") /\ toHelper[h].kind = "status" /\ Accepts(h)
    /\ Accept(h) /\ Consume(h)
    /\ \/ /\ open[h]
          /\ \E kind \in StatusKinds(h) : ToParent(h, Frame(kind, toHelper[h].id))
          /\ UNCHANGED <<pc, after>>
       \/ CleanUp(h, "lost") /\ UNCHANGED toParent
    /\ UNCHANGED <<application, parent, holds, files, network>>

ServeCommand(h) ==
    /\ Reading(h, "serve") /\ toHelper[h].kind \in {"stop", "restart"} /\ Accepts(h)
    /\ Accept(h) /\ Consume(h)
    /\ CleanUp(h, toHelper[h].kind)
    /\ UNCHANGED <<application, parent, toParent, holds, files, network>>

\* The pipe broke, or a frame was out of order.
ServeLost(h) ==
    /\ pc[h] = "serve"
    /\ ParentLost(h) \/ (toHelper[h] # NoFrame /\ ~Accepts(h))
    /\ CleanUp(h, "lost")
    /\ UNCHANGED <<application, parent, pipe, last, holds, files, network>>

-----------------------------------------------------------------------------
(* with_tun_cleanup *)

\* Who hears of a conflict: a stop and a start are answered, a restart that was
\* not cleaned up before is not.
Worse(h) ==
    CASE after[h] = "stop"   -> "stop_conflict"
      [] after[h] = "failed" -> "conflict"
      [] OTHER -> "lost"

\* child.stop(); one that fails may leave the engine running.
StopEngine(h) ==
    /\ pc[h] = "cleanup"
    /\ \/ /\ alive' = [alive EXCEPT ![h] = FALSE]
          /\ Goto(h, "verify") /\ UNCHANGED after
       \/ GoAfter(h, "doubt", Worse(h)) /\ UNCHANGED alive
    /\ UNCHANGED <<application, parent, pipe, last, holds, files, run, adapter, routes>>

\* Slip: the record of a conflict loses the adapter it is about.
ForgetsLuid(h) == [phase |-> "conflict"]

Conflict(h) == Journal("conflict", journal[h].luid)

\* After a failed stop the network is looked at, but the journal is marked
\* whatever is seen; the mark may fail.
MarkConflict(h) ==
    /\ pc[h] = "doubt"
    /\ Write(h, Conflict(h)) \/ UNCHANGED journal
    /\ Goto(h, "drop")
    /\ UNCHANGED <<application, parent, pipe, last, after, holds, directory, network>>

\* The engine goes with the drop of its job; the nested session and the journal's
\* handle are let go.
DropEngine(h) ==
    /\ pc[h] = "drop"
    /\ alive' = [alive EXCEPT ![h] = FALSE]
    /\ holds' = [holds EXCEPT ![h] = FALSE]
    /\ Goto(h, "answer")
    /\ UNCHANGED <<application, parent, pipe, last, after, files, run, adapter, routes>>

\* Slip: the network is taken for restored once the engine is stopped.
StoppedIsClean(h) == TRUE

\* cleanup_state_from
CleanupComplete(h) == adapter = NoAdapter /\ journal[h].luid \notin routes

\* wait_for_cleanup for three seconds, then the journal is removed or kept.  A
\* journal that cannot be removed or written stays as it is.
Verify(h) ==
    /\ pc[h] = "verify"
    /\ holds' = [holds EXCEPT ![h] = FALSE]
    /\ \/ /\ CleanupComplete(h) /\ Write(h, NoJournal)
          /\ Goto(h, "answer") /\ UNCHANGED after
       \/ /\ Write(h, Conflict(h)) \/ UNCHANGED journal
          /\ GoAfter(h, "answer", Worse(h))
    /\ UNCHANGED <<application, parent, pipe, last, directory, network>>

\* Slip: the answer to a stop does not wait for what was verified.
AlwaysComplete(h) == IF after[h] \in {"stop", "stop_conflict"} THEN "stopped" ELSE after[h]

\* Stopped with Complete or Conflict, Failure, or nothing (a lost pipe).
AnswerKind(h) ==
    CASE after[h] = "stop"     -> "stopped"
      [] after[h] = "conflict" -> "cleanup_conflict"
      [] OTHER -> after[h]

\* A restart goes on to the next engine; a failed one waits for another.
StaysFor(h) == after[h] = "failed" /\ last[h] > 2 /\ open[h]

TellOutcome(h) ==
    /\ pc[h] = "answer"
    /\ IF after[h] \in {"lost", "restart"} \/ ~open[h]
       THEN UNCHANGED toParent
       ELSE ToParent(h, Frame(AnswerKind(h), last[h]))
    /\ IF after[h] = "restart" \/ StaysFor(h)
       THEN GoAfter(h, IF StaysFor(h) THEN "idle" ELSE "start", "none")
       ELSE GoAfter(h, "leaving", "none")
    /\ UNCHANGED <<application, parent, toHelper, last, holds, files, network>>

\* The process ends a while after its last answer.
Leave(h) ==
    /\ pc[h] = "leaving" /\ Exit(h)
    /\ UNCHANGED <<application, parent, toParent, files, network>>

\* serve_idle
IdleRequest(h) ==
    /\ Reading(h, "idle") /\ Accepts(h)
    /\ LET kind == toHelper[h].kind IN
       /\ IF kind = "restart" \/ ~open[h] THEN UNCHANGED toParent
          ELSE ToParent(h, Frame(IF kind = "stop" THEN "stopped" ELSE "failed", toHelper[h].id))
       /\ Goto(h, IF kind = "restart" THEN "start"
                  ELSE IF kind = "stop" \/ ~open[h] THEN "leaving" ELSE "idle")
    /\ Accept(h) /\ Consume(h)
    /\ UNCHANGED <<application, parent, after, holds, files, network>>

IdleLost(h) ==
    /\ pc[h] = "idle"
    /\ ParentLost(h) \/ (toHelper[h] # NoFrame /\ ~Accepts(h))
    /\ Exit(h)
    /\ UNCHANGED <<application, parent, toParent, files, network>>

-----------------------------------------------------------------------------
(* Recovery: reconcile_stale_tun_sessions, at a start and on request *)

\* Writes of the journal start by truncating it; a torn one is not read.
Torn(h) == pc[h] \in {"prepare", "launch", "running", "find", "routes", "doubt", "verify"}

\* CleanupPlan opens everything with DELETE access, which a lease refuses.
Unleased(h) == ~holds[h]

\* stale_recovery_is_safe; the recorded engine does not run any more.
Recoverable ==
    \/ \A h \in Helpers : ~directory[h]
    \/ /\ adapter = NoAdapter
       /\ \A h \in Helpers : directory[h] =>
            /\ Unleased(h)
            /\ journal[h].phase # "torn"
            /\ journal[h].luid \notin routes
            /\ journal[h].phase \in {"none", "starting"} \/ ~alive[h]

Reconcile ==
    IF Recoverable
    THEN /\ recovery' = FALSE
         /\ directory' = [h \in Helpers |-> FALSE]
         /\ journal' = [h \in Helpers |-> IF directory[h] THEN NoJournal ELSE journal[h]]
    ELSE recovery' = TRUE /\ UNCHANGED files

\* retry_session_recovery without a session; with one it is a stop.
RetryRecovery ==
    /\ up /\ recovery /\ child = NoChild /\ call = NoCall
    /\ Reconcile
    /\ UNCHANGED <<up, boots, parent, pipe, helper, network>>

Boot ==
    /\ ~up /\ boots < MaxBoots
    /\ up' = TRUE /\ boots' = boots + 1
    /\ Reconcile
    /\ UNCHANGED <<parent, pipe, helper, network>>

-----------------------------------------------------------------------------
(* What may happen at any time *)

\* The application is killed; its handles close.
ApplicationDies ==
    /\ up /\ up' = FALSE
    /\ child' = NoChild /\ call' = NoCall
    /\ open' = [h \in Helpers |-> FALSE]
    /\ toParent' = [h \in Helpers |-> NoFrame]
    /\ UNCHANGED <<boots, recovery, toHelper, helper, files, network>>

\* The helper is killed; its job kills the engine, its handles close.
HelperDies(h) ==
    /\ pc[h] \notin {"off", "gone"}
    /\ Exit(h)
    /\ alive' = [alive EXCEPT ![h] = FALSE]
    /\ \/ UNCHANGED journal
       \/ Torn(h) /\ Write(h, Journal("torn", NoLuid))
    /\ UNCHANGED <<application, parent, toParent, directory, run, adapter, routes>>

EngineDies(h) ==
    /\ alive[h] /\ alive' = [alive EXCEPT ![h] = FALSE]
    /\ UNCHANGED <<application, parent, pipe, helper, files, run, adapter, routes>>

\* The engine makes its adapter, unless one of that name is there, and routes.
AdapterAppears(h) ==
    /\ alive[h] /\ adapter = NoAdapter
    /\ adapter' = <<h, run[h]>>
    /\ UNCHANGED <<application, parent, pipe, helper, files, run, alive, routes>>

AdapterGoes ==
    /\ adapter # NoAdapter
    /\ \A h \in Helpers : alive[h] => adapter # <<h, run[h]>>
    /\ adapter' = NoAdapter
    /\ UNCHANGED <<application, parent, pipe, helper, files, run, alive, routes>>

RoutesAppear(h) ==
    /\ alive[h] /\ adapter = <<h, run[h]>> /\ adapter \notin routes
    /\ routes' = routes \cup {adapter}
    /\ UNCHANGED <<application, parent, pipe, helper, files, run, alive, adapter>>

\* Routes go with the engine or are taken away by another program.
RoutesGo ==
    /\ \E l \in routes : routes' = routes \ {l}
    /\ UNCHANGED <<application, parent, pipe, helper, files, run, alive, adapter>>

-----------------------------------------------------------------------------
Application ==
    \/ \E h \in Helpers : Launch(h)
    \/ \E does \in {"status", "restart"} : Ask(does)
    \/ AskStop \/ StartAnswered \/ AskAnswered \/ StopAnswered \/ NoAnswer
    \/ Release \/ ExitTimesOut \/ RetryRecovery

HelperStep(h) ==
    \/ Hello(h) \/ Preflight(h) \/ Prepare(h) \/ LaunchEngine(h)
    \/ MarkRunning(h) \/ FindAdapter(h) \/ FindRoutes(h) \/ TellStarted(h)
    \/ ServeStatus(h) \/ ServeCommand(h) \/ ServeLost(h)
    \/ StopEngine(h) \/ MarkConflict(h) \/ DropEngine(h) \/ Verify(h)
    \/ TellOutcome(h) \/ Leave(h) \/ IdleRequest(h) \/ IdleLost(h)

Surroundings ==
    \/ ApplicationDies \/ Boot \/ AdapterGoes \/ RoutesGo
    \/ \E h \in Helpers : HelperDies(h) \/ EngineDies(h) \/ AdapterAppears(h)
                           \/ RoutesAppear(h)

Next == Application \/ (\E h \in Helpers : HelperStep(h)) \/ Surroundings

Spec == Init /\ [][Next]_vars

\* Each helper is a process that runs until it exits: its steps wait at most for
\* a deadline, and a read ends when the application's end is closed.
Fairness == \A h \in Helpers : WF_vars(HelperStep(h))

FairSpec == Spec /\ Fairness

-----------------------------------------------------------------------------
(* Properties *)

\* Types.
TypeOK ==
    /\ up \in BOOLEAN /\ boots \in 0..MaxBoots /\ recovery \in BOOLEAN
    /\ child \in {NoChild} \cup [h : Helpers, run : 0..MaxRuns, request : Ids,
                                stopped : BOOLEAN]
    /\ call \in {NoCall} \cup [does : {"start", "status", "restart", "stop"}, h : Helpers,
                               id : Ids]
    /\ open \in [Helpers -> BOOLEAN]
    /\ directory \in [Helpers -> BOOLEAN] /\ holds \in [Helpers -> BOOLEAN]
    /\ pc \in [Helpers -> Steps] /\ last \in [Helpers -> Nat]
    /\ journal \in [Helpers -> [phase : Phases, luid : Luids \cup {NoLuid}]]
    /\ run \in [Helpers -> 0..MaxRuns] /\ alive \in [Helpers -> BOOLEAN]
    /\ adapter \in Luids \cup {NoAdapter} /\ routes \subseteq Luids

\* Two sessions never have an engine or an adapter at the same time, whatever
\* was abandoned, killed or recovered on the way: a directory that a helper
\* still uses cannot be removed, one that remains blocks the next start, and
\* an adapter that remains blocks recovery and the next engine.
OneTunnel ==
    \A g, h \in Helpers : alive[h] =>
        /\ g # h => ~alive[g]
        /\ adapter # NoAdapter => adapter = <<h, run[h]>>

\* While an engine runs or the adapter of a session is there, that session has
\* a journal, whoever died in between: recovery has something to go by.
ResidueHasEvidence ==
    \A h \in Helpers :
        alive[h] \/ (\E r \in 1..MaxRuns : adapter = <<h, r>>) => journal[h].phase # "none"

\* A stop the application takes for confirmed has left nothing: no engine, no
\* adapter, no routes of the adapter it ran on and no journal.
TruthfulStop ==
    child # NoChild /\ child.stopped =>
        LET h == child.h IN
        /\ ~alive[h] /\ journal[h].phase = "none"
        /\ \A r \in 1..MaxRuns : adapter # <<h, r>>
        /\ <<h, child.run>> \notin routes

\* Neither end ever meets a frame out of order: a request that waits is newer
\* than everything the helper accepted, and an answer that waits on an open
\* pipe is the one the application asked for.
FramesMatch ==
    \A h \in Helpers :
        /\ toHelper[h] # NoFrame /\ ~Gone(h) => Accepts(h)
        /\ toParent[h] # NoFrame /\ open[h] =>
              call # NoCall /\ call.h = h /\ call.id = toParent[h].id

\* A helper whose application is gone stops its engine and leaves.
Orphan(h) == pc[h] # "off" /\ ~open[h]
OrphanStops == \A h \in Helpers : Orphan(h) ~> Gone(h) /\ ~alive[h]

\* A Disconnect of a session whose helper is dead and of which nothing is left
\* is not refused.
NothingLeft(h) == Gone(h) /\ ~alive[h] /\ adapter = NoAdapter /\ routes = {}
DeadHelperReleased ==
    [][AskStop /\ NothingLeft(child.h) => child' = NoChild \/ call' # NoCall]_vars
=============================================================================
