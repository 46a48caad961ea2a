------------------------------ MODULE Controller ------------------------------
(***************************************************************************)
(* ApplicationController (src/src-tauri/src/application.rs): connect,       *)
(* disconnect, recover, reconnect and exit.  The commands of the UI, the    *)
(* exit handler of the main loop and the health monitor are threads that    *)
(* share two locks: `operation` (op), held for a whole command, and `state` *)
(* (st), held for the steps that must not be observed half-way.  Meanwhile  *)
(* other programs change the Windows proxy setting, the engine dies, and    *)
(* RouteDeck itself may be killed at any step.                              *)
(*                                                                         *)
(* Timers are abstracted: a probe or a reconnect attempt may or may not be  *)
(* due.  Errors keep the class that finish_connection_attempt and           *)
(* reconnect_tick tell apart: "config", "ownership", "process", "other".    *)
(***************************************************************************)
EXTENDS ProxyContract, Naturals

CONSTANTS
    Renderers,    \* UI command threads: tauriController.ts runs one at a time
    Requests,     \* what the user may ask to connect: [mode, node]
    Nodes,        \* servers a TUN session can switch to
    Uses,         \* other commands the user gives: disconnect, retry, ...
    OtherSettings,\* settings the user or another program chooses
    Sustained,    \* failed probes before recovery (6 in the code)
    Crashes       \* may the process be killed?

ASSUME RequestsAssumption == Requests \subseteq [mode : {"proxy", "tun"}, node : Nodes]
ASSUME UsesAssumption == Uses \subseteq {"stop", "retry", "clear", "update", "switch"}
ASSUME OtherSettingsAssumption == OtherSettings \subseteq Direct \cup {"manual"}
ASSUME SustainedAssumption == Sustained \in Nat /\ Sustained > 2
ASSUME CrashesAssumption == Crashes \in BOOLEAN
ASSUME RenderersAssumption == Renderers \cap {"exit", "monitor", "free"} = {}

VARIABLES
    registry,   \* the Windows proxy setting
    saved,      \* the ownership journal
    core,       \* the engine process: "none", "live" or "dead"
    ended,      \* "no", or how the process ended: "exit", "crash"
    active,     \* State.active: the session and what it owns
    phase, err, \* State.status
    recovery,   \* State.recovery_required
    shutting,   \* State.shutting_down
    intent,     \* State.reconnect
    op, st,     \* holders of the two mutexes, or "free"
    pc, cmd,    \* each thread's step and command
    job,        \* locals of the start or teardown that holds st
    probe,      \* the monitor's ProbeSnapshot
    off,        \* history: nothing was asked for since the last disconnect
    conflict    \* history: how RouteDeck found a foreign setting in its place

windows == <<registry, saved>>
status  == <<phase, err>>
control == <<recovery, shutting, intent>>
locks   == <<op, st>>
threads == <<pc, cmd>>
history == <<off, conflict>>
vars == <<windows, core, ended, active, status, control, locks, threads, job, probe, history>>

Threads == Renderers \cup {"exit", "monitor"}

\* Session and generation ids are random; only the monitor compares them with
\* remembered ones, so two values tell fresh from stale.
Generations == {1, 2}

NoSession == [mode |-> "none"]
Sessions == [mode : {"proxy", "tun"}, node : Nodes, gen : Generations,
             restore : BOOLEAN, fails : 0..Sustained, uncertain : BOOLEAN]
NoIntent == [mode |-> "none"]
Intents == [mode : {"proxy", "tun"}, node : Nodes, paused : BOOLEAN]
NoProbe == [mode |-> "none"]
Probes == [mode : {"proxy", "tun"}, gen : Generations]
NoJob == [failure |-> "none", foreign |-> FALSE]
Errors == {"none", "config", "ownership", "process", "other"}
Phases == {"Disconnected", "Connecting", "SystemProxyReady", "TunReady", "BlockedByConflict",
           "Degraded", "RollingBack", "Stopping", "DisconnectedWithError", "RecoveryRequired"}
Ready == {"SystemProxyReady", "TunReady"}
ReadyPhase(mode) == IF mode = "proxy" THEN "SystemProxyReady" ELSE "TunReady"

Command(o) == [op |-> o]
Start(r)  == [op |-> "start", mode |-> r.mode, node |-> r.node]
Commands == {Start(r) : r \in Requests}
              \cup [op : Uses \cap {"switch"}, node : Nodes] \cup [op : Uses \ {"switch"}]
AllCommands == Commands \cup {Command(o) : o \in {"none", "exit", "loss"}}
                 \cup [op : {"reconnect"}, mode : {"proxy", "tun"}, node : Nodes]
FirstStep(c) == IF c.op = "stop" THEN "stop.cancel" ELSE c.op

Steps == {"idle", "stop.cancel", "stop", "start", "retry", "switch", "clear", "update",
          "installing", "recover", "body", "reverify", "prepare", "launch", "prove",
          "publish", "confirm", "rollback.restore", "rollback.stop", "succeeded", "failed",
          "teardown.restore", "teardown.stop", "exit.check", "probing", "warming", "reconnect"}

TypeOK ==
    /\ registry \in Registries
    /\ saved \in Journals
    /\ core \in {"none", "live", "dead"}
    /\ ended \in {"no", "exit", "crash"}
    /\ active \in {NoSession} \cup Sessions
    /\ phase \in Phases
    /\ err \in Errors
    /\ recovery \in BOOLEAN
    /\ shutting \in BOOLEAN
    /\ intent \in {NoIntent} \cup Intents
    /\ op \in Threads \cup {"free"}
    /\ st \in Threads \cup {"free"}
    /\ pc \in [Threads -> Steps]
    /\ cmd \in [Threads -> AllCommands]
    /\ job \in [failure : Errors, foreign : BOOLEAN]
    /\ probe \in {NoProbe} \cup Probes
    /\ off \in BOOLEAN
    /\ conflict \in {"no", "preserved", "told"}

\* with_services_and_controls
Init ==
    /\ registry \in OtherSettings
    /\ saved = "none" /\ core = "none" /\ ended = "no"
    /\ active = NoSession
    /\ phase = "Disconnected" /\ err = "none"
    /\ recovery = FALSE /\ shutting = FALSE /\ intent = NoIntent
    /\ op = "free" /\ st = "free"
    /\ pc = [t \in Threads |-> "idle"]
    /\ cmd = [t \in Threads |-> Command("none")]
    /\ job = NoJob /\ probe = NoProbe
    /\ off = TRUE /\ conflict = "no"

-----------------------------------------------------------------------------
(* Vocabulary *)

Up == active # NoSession
IsTun == Up /\ active.mode = "tun"
MustRestore == Up /\ active.restore
Uncertain == Up /\ active.uncertain

At(t, step) == ended = "no" /\ pc[t] = step
Goto(t, step) == pc' = [pc EXCEPT ![t] = step] /\ UNCHANGED cmd
Status(p, e) == phase' = p /\ err' = e

\* A thread that needs a mutex waits until it is free.
OpFree == op = "free"
StFree == st = "free"

\* random_hex(16): never one the monitor remembers.
FreshGeneration == IF probe # NoProbe /\ probe.gen = 1 THEN 2 ELSE 1

\* The command returns to the renderer, or the monitor goes round its loop.
Return(t) ==
    /\ pc' = [pc EXCEPT ![t] = "idle"]
    /\ cmd' = [cmd EXCEPT ![t] = Command("none")]

\* Slip: the intent goes on as if nothing had happened.
UnpausedIntent == intent

PausedIntent == IF intent = NoIntent THEN NoIntent ELSE [intent EXCEPT !.paused = TRUE]

Apply(outcome) == registry' = outcome.registry /\ saved' = outcome.saved

-----------------------------------------------------------------------------
(* Commands arrive *)

Invoke(t) ==
    /\ t \in Renderers /\ At(t, "idle")
    /\ \E c \in Commands :
         /\ cmd' = [cmd EXCEPT ![t] = c]
         /\ pc' = [pc EXCEPT ![t] = FirstStep(c)]
    /\ UNCHANGED <<windows, core, ended, active, status, control, locks, job, probe>>

-----------------------------------------------------------------------------
(* start_system_proxy and start_tun *)

\* The intent of start_system_proxy and start_tun is stored before the attempt
\* is known to be possible.
StartEnter(t) ==
    /\ At(t, "start") /\ OpFree /\ StFree
    /\ \/ \* shutting down, recovery, conflict, unknown node, invalid rules
          /\ Return(t)
          /\ UNCHANGED <<op, intent>>
       \/ /\ ~shutting /\ ~recovery /\ phase # "BlockedByConflict"
          /\ intent' = [mode |-> cmd[t].mode, node |-> cmd[t].node, paused |-> FALSE]
          /\ op' = t
          /\ Goto(t, "body")
    /\ UNCHANGED <<windows, core, ended, active, status, recovery, shutting, st, job, probe>>

\* Slip: what start_system_proxy and start_tun checked is not checked again.
ConnectingStaysAllowed == TRUE

ConnectingAllowed == ~shutting /\ ~recovery

Exact(t) == Up /\ active.mode = cmd[t].mode /\ active.node = cmd[t].node

\* start_*_locked up to the first visible effect.
StartBody(t) ==
    /\ At(t, "body") /\ StFree
    /\ \/ \* not elevated, or the node was removed from the library
          /\ cmd[t].mode = "tun" \/ ~Up
          /\ Goto(t, "failed")
          /\ UNCHANGED <<st, status>>
       \/ /\ ~ConnectingAllowed \/ Uncertain \/ (Up /\ ~Exact(t))
          /\ Goto(t, "failed")
          /\ UNCHANGED <<st, status>>
       \/ /\ ConnectingAllowed /\ ~Uncertain /\ Exact(t)
          /\ Goto(t, "reverify")
          /\ UNCHANGED <<st, status>>
       \/ /\ ConnectingAllowed /\ ~Up
          /\ st' = t
          /\ Status("Connecting", "none")
          /\ Goto(t, "prepare")
    /\ UNCHANGED <<windows, core, ended, active, control, op, job, probe>>

\* The proof ran without `state`; its result is used against the session that
\* is there now.
ReverifyProxy(t) ==
    /\ At(t, "reverify") /\ StFree /\ cmd[t].mode = "proxy"
    /\ IF ~Exact(t) THEN Goto(t, "failed") /\ UNCHANGED status
       ELSE \E proof \in BOOLEAN, owned \in IsOwned(registry, saved) :
              CASE proof /\ core = "live" /\ owned = "yes" ->
                     Status("SystemProxyReady", "none") /\ Goto(t, "succeeded")
                [] owned = "yes" /\ ~(proof /\ core = "live") ->
                     Status("Degraded", "other") /\ Goto(t, "failed")
                [] OTHER ->
                     Status("BlockedByConflict", "ownership") /\ Goto(t, "failed")
    /\ UNCHANGED <<windows, core, ended, active, control, locks, job, probe>>

ReverifyTun(t) ==
    /\ At(t, "reverify") /\ StFree /\ cmd[t].mode = "tun"
    /\ \/ /\ ~Exact(t)
          /\ Goto(t, "failed")
          /\ UNCHANGED <<status, st, job>>
       \/ /\ Exact(t) /\ core = "live"
          /\ Status("TunReady", "none")
          /\ Goto(t, "succeeded")
          /\ UNCHANGED <<st, job>>
       \/ /\ Exact(t)
          /\ Status("RollingBack", "none")
          /\ st' = t
          /\ job' = [NoJob EXCEPT !.failure = "other"]
          /\ Goto(t, "rollback.stop")
    /\ UNCHANGED <<windows, core, ended, active, control, op, probe>>

\* Err from start_locked: roll back what the attempt has done so far.
RollBack(t, error, session) ==
    /\ Status("RollingBack", "none")
    /\ job' = [NoJob EXCEPT !.failure = error]
    /\ Goto(t, IF session # NoSession /\ session.restore THEN "rollback.restore"
                                                         ELSE "rollback.stop")

\* Ports, configuration, private session files, `check` with the engine.
StartPrepare(t) ==
    /\ At(t, "prepare")
    /\ \/ Goto(t, "launch") /\ UNCHANGED <<status, job>>
       \/ \E e \in {"config", "other"} : RollBack(t, e, active)
    /\ UNCHANGED <<windows, core, ended, active, control, locks, probe>>

\* Sidecar, then the front engine; a provisional child is stopped when the
\* second start fails.
StartLaunch(t) ==
    /\ At(t, "launch")
    /\ \/ /\ core' = "live"
          /\ active' = [mode |-> cmd[t].mode, node |-> cmd[t].node, gen |-> FreshGeneration,
                        restore |-> FALSE, fails |-> 0, uncertain |-> FALSE]
          /\ Goto(t, "prove")
          /\ UNCHANGED <<status, job>>
       \/ /\ \E e \in {"process", "other"} : RollBack(t, e, active)
          /\ UNCHANGED <<core, active>>
    /\ UNCHANGED <<windows, ended, control, locks, probe>>

\* Listeners, HTTPS through the private route, then ordinary traffic.
StartProve(t) ==
    /\ At(t, "prove")
    /\ \/ /\ core = "live"
          /\ IF active.mode = "proxy"
               THEN Goto(t, "publish") /\ UNCHANGED <<status, st>>
               ELSE Status("TunReady", "none") /\ st' = "free" /\ Goto(t, "succeeded")
          /\ UNCHANGED job
       \/ /\ \E e \in {"process", "other"} : RollBack(t, e, active)
          /\ UNCHANGED st
    /\ UNCHANGED <<windows, core, ended, active, control, op, probe>>

\* Slip: only a successful publication has to be undone.
OnlySuccessObliges(result) == result = "published"

\* SystemProxyError::may_have_changed
ObligesToRestore(result) == result # "unchanged"

\* system_proxy_requires_restore is set before the call and stays set when the
\* error says that something may have changed.
StartPublish(t) ==
    /\ At(t, "publish")
    /\ \E outcome \in Publish(registry, saved) :
         /\ Apply(outcome)
         /\ LET session == [active EXCEPT !.restore = ObligesToRestore(outcome.result)] IN
              /\ active' = session
              /\ IF outcome.result = "published"
                   THEN Goto(t, "confirm") /\ UNCHANGED <<status, job>>
                   ELSE RollBack(t, "other", session)
    /\ UNCHANGED <<core, ended, control, locks, probe>>

\* is_owned once more before the status turns green.
StartConfirm(t) ==
    /\ At(t, "confirm")
    /\ \E owned \in IsOwned(registry, saved) :
         IF owned = "yes"
           THEN /\ Status("SystemProxyReady", "none")
                /\ st' = "free"
                /\ Goto(t, "succeeded")
                /\ UNCHANGED job
           ELSE RollBack(t, "ownership", active) /\ UNCHANGED st
    /\ UNCHANGED <<windows, core, ended, active, control, op, probe>>

-----------------------------------------------------------------------------
(* Rollback of a failed start, finish_connection_attempt *)

\* The attempt ends and lets go of `state`.
Release(t, step) ==
    /\ st' = "free"
    /\ job' = NoJob
    /\ Goto(t, step)

\* Slip: a failed restoration is logged and forgotten.
AnyResultEndsObligation(result) == TRUE

EndsObligation(result) == result \in {"restored", "foreign"}

\* Restored or ForeignPreserved ends the obligation; NoJournal and errors leave
\* the core running under a setting that may still point at it.
RollBackRestore(t) ==
    /\ At(t, "rollback.restore")
    /\ \E outcome \in Restore(registry, saved) :
         /\ Apply(outcome)
         /\ IF EndsObligation(outcome.result)
              THEN /\ active' = [active EXCEPT !.restore = FALSE]
                   /\ job' = [job EXCEPT !.foreign = (outcome.result = "foreign")]
                   /\ Goto(t, "rollback.stop")
                   /\ UNCHANGED <<status, recovery, st>>
              ELSE /\ recovery' = TRUE
                   /\ Status("RecoveryRequired", "other")
                   /\ Release(t, "failed")
                   /\ UNCHANGED active
    /\ UNCHANGED <<core, ended, shutting, intent, op, probe>>

\* child.stop(), then reconcile_stale_sessions: is anything left on disk?
RollBackStop(t) ==
    /\ At(t, "rollback.stop")
    /\ \/ /\ Up     \* the stop failed; the child stays in `active`
          /\ recovery' = TRUE
          /\ Status("RecoveryRequired", "other")
          /\ UNCHANGED <<core, active>>
       \/ /\ core' = "none" /\ active' = NoSession
          /\ \/ recovery' = TRUE /\ Status("RecoveryRequired", job.failure)
             \/ UNCHANGED recovery /\ Status("DisconnectedWithError", job.failure)
    /\ Release(t, "failed")
    /\ UNCHANGED <<windows, ended, shutting, intent, op, probe>>

\* finish_connection_attempt: its failure count only sets the backoff delay.
Finish(t) ==
    /\ ended = "no" /\ pc[t] \in {"succeeded", "failed"} /\ StFree
    /\ intent' = IF err \in {"config", "ownership"} \/ (~Up /\ intent.mode = "tun")
                   THEN PausedIntent ELSE intent
    /\ op' = "free"
    /\ Return(t)
    /\ UNCHANGED <<windows, core, ended, active, status, recovery, shutting, st, job, probe>>

-----------------------------------------------------------------------------
(* stop_active_locked: on behalf of a disconnect, an exit, a recovery retry,  *)
(* the loss of the engine, or a reconnect                                     *)

\* What the caller does after the teardown; ok: it returned Ok.
TeardownReturn(t, ok) ==
    /\ st' = "free"
    /\ job' = NoJob
    /\ CASE cmd[t].op = "exit" -> op' = "free" /\ Goto(t, "exit.check")
         [] cmd[t].op = "loss" -> UNCHANGED op /\ Goto(t, "reconnect")
         [] cmd[t].op = "reconnect" /\ ok /\ cmd[t].mode = "proxy" ->
                UNCHANGED op /\ Goto(t, "body")
         [] OTHER -> op' = "free" /\ Return(t)

\* Entered with `state` free; e is the terminal failure, if any.
TeardownBegin(t, e) ==
    /\ Up
    /\ st' = t
    /\ job' = [NoJob EXCEPT !.failure = e]
    /\ Status("Stopping", "none")

TeardownStep == IF MustRestore THEN "teardown.restore" ELSE "teardown.stop"

TeardownRestore(t) ==
    /\ At(t, "teardown.restore")
    /\ \E outcome \in Restore(registry, saved) :
         /\ Apply(outcome)
         /\ IF EndsObligation(outcome.result)
              THEN /\ active' = [active EXCEPT !.restore = FALSE]
                   /\ job' = [job EXCEPT !.foreign = (outcome.result = "foreign")]
                   /\ Goto(t, "teardown.stop")
                   /\ UNCHANGED <<status, recovery, op, st, cmd>>
              ELSE /\ recovery' = TRUE
                   /\ Status("RecoveryRequired", "other")
                   /\ TeardownReturn(t, FALSE)
                   /\ UNCHANGED active
    /\ UNCHANGED <<core, ended, shutting, intent, probe>>

\* The session is given up only after its child has stopped; what the
\* reconciliation of the session directory finds decides `recovery_required`.
TeardownStop(t) ==
    /\ At(t, "teardown.stop")
    /\ \/ \* child.stop() failed
          /\ recovery' = TRUE
          /\ Status("RecoveryRequired", "other")
          /\ TeardownReturn(t, FALSE)
          /\ UNCHANGED <<core, active, intent>>
       \/ /\ core' = "none" /\ active' = NoSession
          /\ \/ \* session data remains
                /\ recovery' = TRUE
                /\ Status("RecoveryRequired", "other")
                /\ TeardownReturn(t, FALSE)
                /\ UNCHANGED intent
             \/ /\ recovery' = FALSE /\ job.foreign
                /\ intent' = PausedIntent
                /\ Status("DisconnectedWithError", "ownership")
                /\ TeardownReturn(t, FALSE)
             \/ /\ recovery' = FALSE /\ ~job.foreign
                /\ IF job.failure # "none" THEN Status("DisconnectedWithError", job.failure)
                                           ELSE Status("Disconnected", "none")
                /\ TeardownReturn(t, TRUE)
                /\ UNCHANGED intent
    /\ UNCHANGED <<windows, ended, shutting, probe>>

-----------------------------------------------------------------------------
(* stop *)

\* Slip: the teardown is expected to see to the intent.
StopCancelKeepsIntent(t) ==
    /\ At(t, "stop.cancel") /\ StFree
    /\ Goto(t, "stop")
    /\ UNCHANGED <<windows, core, ended, active, status, control, locks, job, probe>>

\* The intent is withdrawn before waiting for the operation in progress.
StopCancel(t) ==
    /\ At(t, "stop.cancel") /\ StFree
    /\ intent' = NoIntent
    /\ Goto(t, "stop")
    /\ UNCHANGED <<windows, core, ended, active, status, recovery, shutting, locks, job, probe>>

StopEnter(t) ==
    /\ At(t, "stop") /\ OpFree /\ StFree
    /\ \/ /\ TeardownBegin(t, "none")
          /\ op' = t
          /\ Goto(t, TeardownStep)
       \/ /\ ~Up
          /\ IF recovery THEN UNCHANGED status ELSE Status("Disconnected", "none")
          /\ TeardownReturn(t, TRUE)
    /\ UNCHANGED <<windows, core, ended, active, control, probe>>

-----------------------------------------------------------------------------
(* retry_session_recovery *)

RetryEnter(t) ==
    /\ At(t, "retry") /\ OpFree /\ StFree
    /\ \/ /\ ~recovery
          /\ Return(t)
          /\ UNCHANGED <<locks, job, status>>
       \/ /\ recovery
          /\ TeardownBegin(t, "none")
          /\ op' = t
          /\ Goto(t, TeardownStep)
       \/ /\ recovery /\ ~Up
          /\ op' = t
          /\ Goto(t, "recover")
          /\ UNCHANGED <<st, job, status>>
    /\ UNCHANGED <<windows, core, ended, active, control, probe>>

\* Slip: the flag is cleared, the status is not.
RetryRecoverKeepsStatus(t) ==
    /\ At(t, "recover") /\ StFree
    /\ \E outcome \in Restore(registry, saved) :
         /\ Apply(outcome)
         /\ recovery' = (outcome.result = "recovery")
    /\ op' = "free"
    /\ Return(t)
    /\ UNCHANGED <<core, ended, active, status, shutting, intent, st, job, probe>>

\* recover_sessions, then reconcile_stale_journal, without `state`.
RetryRecover(t) ==
    /\ At(t, "recover") /\ StFree
    /\ \/ Status("RecoveryRequired", "other") /\ UNCHANGED <<windows, recovery>>
       \/ \E outcome \in Restore(registry, saved) :
            /\ Apply(outcome)
            /\ IF outcome.result = "recovery"
                 THEN Status("RecoveryRequired", "other") /\ UNCHANGED recovery
                 ELSE Status("Disconnected", "none") /\ recovery' = FALSE
    /\ op' = "free"
    /\ Return(t)
    /\ UNCHANGED <<core, ended, active, shutting, intent, st, job, probe>>

-----------------------------------------------------------------------------
(* clear_stale_system_proxy, begin_portable_update, switch_tun_server *)

\* Turns off somebody else's stale loopback proxy, never under a journal.
ClearStaleProxy(t) ==
    /\ At(t, "clear") /\ OpFree /\ StFree
    /\ \/ UNCHANGED registry
       \/ /\ ~shutting /\ ~recovery
          /\ Up => active.mode = "tun" /\ phase = "TunReady"
          /\ registry = "manual" /\ saved = "none"
          /\ registry' = "a"
    /\ Return(t)
    /\ UNCHANGED <<saved, core, ended, active, status, control, locks, job, probe>>

\* The guard keeps `operation` and turns new work away while the update is
\* prepared and launched.
UpdateBegin(t) ==
    /\ At(t, "update") /\ OpFree /\ StFree
    /\ IF shutting \/ Up \/ intent # NoIntent \/ recovery \/ phase # "Disconnected"
         THEN Return(t) /\ UNCHANGED <<op, shutting>>
         ELSE shutting' = TRUE /\ op' = t /\ Goto(t, "installing")
    /\ UNCHANGED <<windows, core, ended, active, status, recovery, intent, st, job, probe>>

\* Slip: a failed installation keeps the operation lock.
UpdateEndKeepsLock(t) ==
    /\ At(t, "installing") /\ StFree
    /\ shutting' \in BOOLEAN
    /\ op' = IF shutting' THEN "free" ELSE op
    /\ Return(t)
    /\ UNCHANGED <<windows, core, ended, active, status, recovery, intent, st, job, probe>>

\* Committed, or dropped: work is accepted again.
UpdateEnd(t) ==
    /\ At(t, "installing") /\ StFree
    /\ shutting' \in BOOLEAN
    /\ op' = "free"
    /\ Return(t)
    /\ UNCHANGED <<windows, core, ended, active, status, recovery, intent, st, job, probe>>

\* Slip: a monitor proof started before the switch stays valid.
SwitchedInPlace(session) == session

Switched(session) == [session EXCEPT !.gen = FreshGeneration]

CanSwitch == ~shutting /\ ~recovery /\ IsTun /\ ~Uncertain

\* Both locks are held throughout.  The fresh generation discards a monitor
\* proof that started before; a refused candidate leaves the status alone, an
\* invalid ownership or an unknown selection degrades it.
SwitchServer(t) ==
    /\ At(t, "switch") /\ OpFree /\ StFree
    /\ \/ UNCHANGED <<active, status>>
       \/ /\ CanSwitch
          /\ \/ /\ core = "live"
                /\ active' = [Switched(active) EXCEPT !.node = cmd[t].node, !.fails = 0]
                /\ Status("TunReady", "none")
             \/ /\ active' = Switched(active)
                /\ UNCHANGED status
             \/ \E uncertain \in BOOLEAN, e \in {"process", "other"} :
                  /\ active' = [Switched(active) EXCEPT !.uncertain = uncertain]
                  /\ Status("Degraded", e)
    /\ Return(t)
    /\ UNCHANGED <<windows, core, ended, control, locks, job, probe>>

-----------------------------------------------------------------------------
(* shutdown, on ExitRequested *)

\* Slip: the window closes whatever the teardown achieved.
ExitAnyway == TRUE

SafeToExit == ~Up

ExitBegin ==
    /\ At("exit", "idle") /\ StFree
    /\ IF shutting
         THEN /\ ended' = IF SafeToExit THEN "exit" ELSE "no"
              /\ UNCHANGED <<shutting, pc, cmd>>
         ELSE /\ shutting' = TRUE
              /\ cmd' = [cmd EXCEPT !["exit"] = Command("exit")]
              /\ pc' = [pc EXCEPT !["exit"] = "stop.cancel"]
              /\ UNCHANGED ended
    /\ UNCHANGED <<windows, core, active, status, recovery, intent, locks, job, probe>>

\* Not safe: a later ExitRequested may try again.
ExitCheck ==
    /\ At("exit", "exit.check") /\ StFree
    /\ IF SafeToExit THEN ended' = "exit" /\ UNCHANGED shutting
                     ELSE shutting' = FALSE /\ UNCHANGED ended
    /\ Return("exit")
    /\ UNCHANGED <<windows, core, active, status, recovery, intent, locks, job, probe>>

-----------------------------------------------------------------------------
(* The health monitor: monitor_tick, then reconnect_tick, once a second.      *)
(* monitor_tick takes only `state`.                                           *)

MonitorRests == Goto("monitor", "reconnect") /\ UNCHANGED <<active, status, intent, st, job>>

\* handle_runtime_loss.  A TUN helper that is still alive can restart its
\* engine; every other loss ends the session.
HandleRuntimeLoss(e) ==
    \/ /\ intent # NoIntent /\ IsTun
       /\ Status("Degraded", e)
       /\ Goto("monitor", "reconnect")
       /\ UNCHANGED <<intent, st, job>>
    \/ /\ intent' = IF intent.mode = "tun" THEN PausedIntent ELSE intent
       /\ st' = "monitor"
       /\ job' = [NoJob EXCEPT !.failure = e]
       /\ Status("Stopping", "none")
       /\ cmd' = [cmd EXCEPT !["monitor"] = Command("loss")]
       /\ pc' = [pc EXCEPT !["monitor"] = TeardownStep]

\* Slip: the counter does not saturate.
CountFailureForEver(session) == [session EXCEPT !.fails = @ + 1]

CountFailure(session) ==
    IF session.fails < Sustained THEN [session EXCEPT !.fails = @ + 1] ELSE session

\* handle_tun_capture_loss
HandleCaptureLoss(counts) ==
    /\ active' = IF counts THEN CountFailure(active) ELSE active
    /\ HandleRuntimeLoss("other")

MonitorSkips == recovery \/ phase = "RecoveryRequired"

MonitorTick ==
    /\ At("monitor", "idle") /\ StFree
    /\ \/ \* nothing to watch, or no probe is due
          /\ MonitorSkips \/ ~Up \/ core = "live"
          /\ MonitorRests
          /\ UNCHANGED probe
       \/ /\ ~MonitorSkips /\ Up
          /\ \/ \* the engine is gone, or the helper no longer answers
                /\ core = "dead" \/ IsTun
                /\ HandleRuntimeLoss("process")
                /\ UNCHANGED active
             \/ IsTun /\ \E counts \in BOOLEAN : HandleCaptureLoss(counts)
          /\ UNCHANGED probe
       \/ /\ ~MonitorSkips /\ Up /\ core = "live" /\ active.mode = "proxy"
          /\ \/ /\ "no" \in IsOwned(registry, saved)
                /\ Status("BlockedByConflict", "ownership")
             \/ /\ "recovery" \in IsOwned(registry, saved)
                /\ Status("Degraded", "ownership")
          /\ Goto("monitor", "reconnect")
          /\ UNCHANGED <<active, intent, st, job, probe>>
       \/ /\ ~MonitorSkips /\ Up /\ core = "live" /\ ~Uncertain
          /\ active.mode = "proxy" => "yes" \in IsOwned(registry, saved)
          /\ probe' = [mode |-> active.mode, gen |-> active.gen]
          /\ Goto("monitor", "probing")
          /\ UNCHANGED <<active, status, intent, st, job>>
    /\ UNCHANGED <<windows, core, ended, recovery, shutting, op>>

\* The session the probe was started for is still there.
SameSession == Up /\ active.gen = probe.gen

\* The probe ran without any lock.
MonitorProbed ==
    /\ At("monitor", "probing") /\ StFree
    /\ \/ /\ MonitorSkips \/ ~SameSession
          /\ MonitorRests
          /\ probe' = NoProbe
       \/ /\ ~MonitorSkips /\ SameSession
          /\ \/ HandleRuntimeLoss("process") /\ UNCHANGED active
             \/ probe.mode = "tun" /\ HandleCaptureLoss(TRUE)
          /\ probe' = NoProbe
       \/ /\ ~MonitorSkips /\ SameSession /\ core = "live"
          /\ active' = [active EXCEPT !.fails = 0]
          /\ Status(ReadyPhase(probe.mode), "none")
          /\ Goto("monitor", "warming")
          /\ UNCHANGED <<intent, st, job, probe>>
       \/ /\ ~MonitorSkips /\ SameSession /\ core = "live"
          /\ active' = CountFailure(active)
          /\ IF active'.fails >= 2 THEN Status("Degraded", "other") ELSE UNCHANGED status
          /\ probe' = NoProbe
          /\ Goto("monitor", "reconnect")
          /\ UNCHANGED <<intent, st, job>>
    /\ UNCHANGED <<windows, core, ended, recovery, shutting, op>>

\* The latency measurement published nothing but a number, yet it notices an
\* engine that died meanwhile.
MonitorWarmed ==
    /\ At("monitor", "warming") /\ StFree
    /\ \/ MonitorRests
       \/ /\ ~recovery /\ err = "none" /\ phase \in Ready /\ SameSession
          /\ core = "dead" \/ IsTun
          /\ HandleRuntimeLoss("process")
          /\ UNCHANGED active
    /\ probe' = NoProbe
    /\ UNCHANGED <<windows, core, ended, recovery, shutting, op>>

-----------------------------------------------------------------------------
(* reconnect_tick: gives up at once when an operation is in progress.         *)

\* Slip: an error in the status is taken for a reason to wait for the user.
ReconnectDueWithoutError ==
    /\ OpFree /\ ~shutting /\ ~recovery /\ err = "none"
    /\ intent # NoIntent /\ ~intent.paused

ReconnectDue ==
    /\ OpFree /\ ~shutting /\ ~recovery /\ phase # "BlockedByConflict"
    /\ intent # NoIntent /\ ~intent.paused

ReconnectSkip ==
    /\ At("monitor", "reconnect") /\ (OpFree => StFree)
    /\ Return("monitor")
    /\ UNCHANGED <<windows, core, ended, active, status, control, locks, job, probe>>

SustainedFailure == active.fails = Sustained

ReconnectCommand == [op |-> "reconnect", mode |-> intent.mode, node |-> intent.node]

\* A lost System Proxy session is started again.
ReconnectStart ==
    /\ At("monitor", "reconnect") /\ StFree /\ ReconnectDue
    /\ ~Up /\ intent.mode = "proxy"
    /\ op' = "monitor"
    /\ cmd' = [cmd EXCEPT !["monitor"] = ReconnectCommand]
    /\ pc' = [pc EXCEPT !["monitor"] = "body"]
    /\ UNCHANGED <<windows, core, ended, active, status, control, st, job, probe>>

\* A System Proxy session that fails for long is stopped, then started again.
ReconnectStop ==
    /\ At("monitor", "reconnect") /\ StFree /\ ReconnectDue
    /\ Up /\ active.mode = "proxy" /\ SustainedFailure
    /\ TeardownBegin("monitor", "none")
    /\ op' = "monitor"
    /\ cmd' = [cmd EXCEPT !["monitor"] = ReconnectCommand]
    /\ pc' = [pc EXCEPT !["monitor"] = TeardownStep]
    /\ UNCHANGED <<windows, core, ended, active, control, probe>>

\* restart_owned_core, then finish_connection_attempt, which waits for `state`
\* again.  The adapter and the session stay.
RestartCore ==
    /\ At("monitor", "reconnect") /\ StFree /\ ReconnectDue
    /\ IsTun /\ (SustainedFailure \/ err = "process")
    /\ op' = "monitor"
    /\ \/ /\ core' = "live"
          /\ active' = [active EXCEPT !.fails = 0, !.gen = FreshGeneration]
          /\ Goto("monitor", "succeeded")
          /\ UNCHANGED <<status, recovery, intent>>
       \/ /\ core' \in {core, "dead"}
          /\ \E pauses \in BOOLEAN, e \in {"config", "process", "other"} :
               /\ intent' = IF pauses THEN PausedIntent ELSE intent
               /\ \/ Status("Degraded", e) /\ UNCHANGED recovery
                  \/ /\ pauses /\ e = "other"
                     /\ recovery' = TRUE
                     /\ Status("RecoveryRequired", e)
          /\ Goto("monitor", "failed")
          /\ UNCHANGED active
    /\ UNCHANGED <<windows, ended, shutting, st, job, probe>>

-----------------------------------------------------------------------------
(* The rest of the machine *)

\* Another program, or the user in Windows settings, changes the proxy.
ForeignWrite ==
    /\ ended = "no"
    /\ \E r \in OtherSettings \ {registry} : registry' = r
    /\ UNCHANGED <<saved, core, ended, active, status, control, locks, threads, job, probe>>

CoreDies ==
    /\ ended = "no" /\ core = "live"
    /\ core' = "dead"
    /\ UNCHANGED <<windows, ended, active, status, control, locks, threads, job, probe>>

\* What a killed publication or restoration may leave.
Interrupted ==
    {<<registry, saved>>} \cup
    {<<o.registry, o.saved>> : o \in
        UNION {IF pc[t] = "publish" THEN Publish(registry, saved)
               ELSE IF pc[t] \in {"rollback.restore", "teardown.restore", "recover"}
                 THEN Restore(registry, saved) ELSE {} : t \in Threads}}

\* The kill-on-close job object takes the engine along.
Crash ==
    /\ Crashes /\ ended = "no"
    /\ ended' = "crash"
    /\ \E left \in Interrupted : registry' = left[1] /\ saved' = left[2]
    /\ core' = "none"
    /\ UNCHANGED <<active, status, control, locks, threads, job, probe>>

\* production_with_recovery: offline recovery of both kinds of session data
\* comes before anything else, and a failure of either blocks connecting.
Boot ==
    /\ ended # "no"
    /\ ended' = "no" /\ core' = "none" /\ active' = NoSession
    /\ \E engine \in BOOLEAN, outcome \in Restore(registry, saved) :
         /\ Apply(outcome)
         /\ recovery' = (engine \/ outcome.result = "recovery")
    /\ IF recovery' THEN Status("RecoveryRequired", "other") ELSE Status("Disconnected", "none")
    /\ shutting' = FALSE /\ intent' = NoIntent
    /\ op' = "free" /\ st' = "free"
    /\ pc' = [t \in Threads |-> "idle"]
    /\ cmd' = [t \in Threads |-> Command("none")]
    /\ job' = NoJob /\ probe' = NoProbe

-----------------------------------------------------------------------------
(* History, kept beside the code's own state *)

StartPending == \E t \in Renderers : cmd[t].op = "start"

\* A disconnect has returned with the session gone, and nobody waits to connect.
Disconnects ==
    \E t \in Renderers : /\ cmd[t].op = "stop" /\ pc[t] # "idle" /\ pc'[t] = "idle"
                         /\ active' = NoSession

Asks == \E t \in Renderers : pc[t] = "idle" /\ pc'[t] = "start"
AcceptsStart == \E t \in Renderers : pc[t] = "start" /\ pc'[t] = "body"

\* ForeignPreserved; and a teardown that says so when it ends.
FindsForeign == job'.foreign /\ ~job.foreign
TellsConflict ==
    job.foreign /\ ~job'.foreign /\ phase' = "DisconnectedWithError" /\ err' = "ownership"

History ==
    /\ off' = CASE Asks -> FALSE
                [] ended' # "no" -> TRUE
                [] ~Asks /\ Disconnects /\ ~StartPending -> TRUE
                [] OTHER -> off
    /\ conflict' =
         CASE AcceptsStart \/ ended' # "no" -> "no"
           [] FindsForeign  -> "preserved"
           [] TellsConflict -> "told"
           [] OTHER -> conflict

-----------------------------------------------------------------------------
StartSteps(t) == \/ StartEnter(t) \/ StartBody(t) \/ ReverifyProxy(t) \/ ReverifyTun(t)
                 \/ StartPrepare(t) \/ StartLaunch(t) \/ StartProve(t) \/ StartPublish(t)
                 \/ StartConfirm(t) \/ RollBackRestore(t) \/ RollBackStop(t) \/ Finish(t)
StopSteps(t)  == StopCancel(t) \/ StopEnter(t) \/ TeardownRestore(t) \/ TeardownStop(t)
OtherSteps(t) == \/ RetryEnter(t) \/ RetryRecover(t) \/ ClearStaleProxy(t)
                 \/ UpdateBegin(t) \/ UpdateEnd(t) \/ SwitchServer(t)
Monitor == \/ MonitorTick \/ MonitorProbed \/ MonitorWarmed
           \/ ReconnectSkip \/ ReconnectStart \/ ReconnectStop \/ RestartCore

Thread(t) == StartSteps(t) \/ StopSteps(t) \/ OtherSteps(t)

Next ==
    /\ \/ \E t \in Renderers : Invoke(t)
       \/ \E t \in Threads : Thread(t)
       \/ Monitor
       \/ ExitBegin \/ ExitCheck
       \/ ForeignWrite \/ CoreDies \/ Crash \/ Boot
    /\ History

Spec == Init /\ [][Next]_vars

(* Fairness.  A thread that can run does, and one that waits for a mutex gets *)
(* it when it is free again and again.  The reconnect delay is at most one     *)
(* minute, so the monitor does not skip a due reconnect for ever.  Nothing     *)
(* makes the user give commands, the engine die or other programs write.      *)
Fairness ==
    /\ \A t \in Renderers : SF_vars(Thread(t) /\ History)
    /\ SF_vars((Thread("exit") \/ ExitCheck) /\ History)
    /\ SF_vars((Thread("monitor") \/ Monitor) /\ History)
    /\ SF_vars((ReconnectStart \/ ReconnectStop \/ RestartCore) /\ History)

FairSpec == Spec /\ Fairness

-----------------------------------------------------------------------------
(* Properties.  Those about states that hold a lock would say nothing: st is   *)
(* held exactly while a half-done change is being finished.                   *)

\* As long as a journal exists somebody is obliged to restore: the session that
\* published (system_proxy_requires_restore), or the user, told by
\* recovery_required.  Otherwise a stop would leave Windows pointing at a dead
\* endpoint (start_locked, both rollbacks, stop_active_locked, recovery).
JournalHasOwner ==
    ended = "no" /\ saved # "none" => MustRestore \/ recovery

\* While RouteDeck lives, no engine goes away under a setting that points at
\* it: every teardown restores first and stops only if that succeeded.
NoDeadEndpoint ==
    [][core # "none" /\ core' = "none" /\ ended' = "no" => registry # "ours"]_vars

\* An engine starts only while nothing is to be recovered, no exit or update is
\* under way, no journal is left over and somebody wants the connection,
\* whatever happened since the checks at the start of the command.
StartsOnlyWhenSafe ==
    [][core # "live" /\ core' = "live" =>
         ~recovery /\ ~shutting /\ saved = "none" /\ ~off]_vars

\* After a disconnect has returned with the session gone, no engine runs and
\* none will be started until the user asks again, even if a reconnect attempt
\* was in progress when the disconnect was requested.
DisconnectWins ==
    off /\ ended = "no" => core = "none" /\ ~Up /\ intent = NoIntent

\* RouteDeck exits on its own only with the engine gone; a journal that outlives
\* it has been announced to the user.
ExitIsClean ==
    ended = "exit" => /\ core = "none"
                      /\ saved # "none" => phase = "RecoveryRequired"

\* The green status always belongs to the running session and its mode, and a
\* session with an unknown exit server never shows it: results of probes that
\* began earlier do not get through.
ReadyHasSession ==
    ended = "no" /\ StFree /\ phase \in Ready =>
        Up /\ phase = ReadyPhase(active.mode) /\ ~Uncertain

\* The monitor, not the user, publishes.
Republishes == registry # "ours" /\ registry' = "ours" /\ op = "monitor"

\* Once a teardown has told the user that a foreign setting was preserved,
\* DIRECT included, no automatic reconnect takes it over.
ToldConflictPauses ==
    [][Republishes => conflict # "told"]_vars

\* Every command of the UI returns (or the process ends).
CommandsReturn ==
    \A t \in Renderers : pc[t] # "idle" ~> (pc[t] = "idle" \/ ended # "no")

\* A lost System Proxy connection does not wait for ever: it is attempted again,
\* or a command, a conflict, recovery or an exit intervenes.
Waiting ==
    /\ ended = "no" /\ ~Up /\ intent # NoIntent /\ intent.mode = "proxy" /\ ~intent.paused
    /\ ~recovery /\ ~shutting /\ OpFree /\ phase # "BlockedByConflict"
Reconnects == Waiting ~> ~Waiting

(* What the documentation says and the code does not keep; see the findings.  *)

\* When a restoration has failed (recovery_required) and RouteDeck's setting is
\* still in force, the status keeps saying so: ui-spec.md:351-352 wants a
\* persistent error.
RecoveryIsShown ==
    ended = "no" /\ StFree /\ recovery /\ registry = "ours" => phase = "RecoveryRequired"

\* After restore_if_owned preserved a foreign setting nothing is published until
\* the user connects, whichever operation found it and however that one ended.
PreservedSettingPauses ==
    [][Republishes => conflict # "preserved"]_vars

\* A session whose exit server is unknown is never restarted.
UncertainIsNotRestarted ==
    [][Uncertain /\ active' # NoSession => active'.gen = active.gen]_vars

\* When there is nothing to restore, a stop or a retry does not fail on it.
NothingToRestoreIsFine ==
    [][(\E t \in Threads : At(t, "teardown.restore")) /\ ended' = "no"
        /\ saved = "none" /\ registry # "ours" => phase' # "RecoveryRequired"]_vars

=============================================================================
