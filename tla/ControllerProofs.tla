--------------------------- MODULE ControllerProofs ---------------------------
(* Proofs about Controller: who holds which lock, why no restore is lost, and *)
(* what the status, a disconnect, an exit and a preserved setting mean.       *)
EXTENDS Controller, TLAPS

\* Steps taken with `state` held, steps of a command that holds `operation`, and
\* a teardown, which belongs to a command unless the monitor began it.
Inside == {"prepare", "launch", "prove", "publish", "confirm", "rollback.restore",
           "rollback.stop", "teardown.restore", "teardown.stop"}
Working == {"body", "reverify", "prepare", "launch", "prove", "publish", "confirm",
            "rollback.restore", "rollback.stop", "succeeded", "failed", "recover",
            "installing"}
Teardown == {"teardown.restore", "teardown.stop"}
Connecting == {"start", "body", "reverify", "prepare", "launch", "prove", "publish", "confirm"}
\* What the steps of a start read from the command.
ConnectCommands == [op : {"start", "reconnect"}, mode : {"proxy", "tun"}, node : Nodes]

\* TypeOK without the history variables, which no action reads.
Types ==
    /\ registry \in Registries
    /\ saved \in Journals
    /\ core \in {"none", "live", "dead"}
    /\ ended \in {"no", "exit", "crash"}
    /\ active \in {NoSession} \cup Sessions
    /\ phase \in Phases
    /\ err \in Errors
    /\ recovery \in BOOLEAN
    /\ shutting \in BOOLEAN
    /\ intent \in {NoIntent} \cup Intents
    /\ op \in Threads \cup {"free"}
    /\ st \in Threads \cup {"free"}
    /\ pc \in [Threads -> Steps]
    /\ cmd \in [Threads -> AllCommands]
    /\ job \in [failure : Errors, foreign : BOOLEAN]
    /\ probe \in {NoProbe} \cup Probes

\* Who holds which mutex.
Locks ==
    \A u \in Threads :
      /\ pc[u] \in Inside => st = u
      /\ pc[u] \in Working => op = u
      /\ pc[u] \in Teardown /\ cmd[u].op # "loss" => op = u

\* The command a thread works on is one its step can belong to.
Asked ==
    \A u \in Threads :
      /\ pc[u] \in Connecting => cmd[u] \in ConnectCommands
      /\ pc[u] = "switch" => cmd[u] \in [op : {"switch"}, node : Nodes]
      /\ pc[u] \in {"stop.cancel", "stop"} => cmd[u].op \notin {"loss", "reconnect"}

\* RouteDeck's setting is never in force without a journal.
Covered == registry = "ours" => saved # "none"

\* The engine runs for a session of a living process.
Engine == core # "none" => Up /\ ended = "no"

\* A journal has somebody who must restore it; a session that need not restore
\* (a TUN session never must) means that there is none.
Owed ==
    /\ saved # "none" => MustRestore \/ recovery
    /\ Up /\ ~MustRestore => saved = "none"
    /\ IsTun => ~MustRestore

\* What each step of a start, rollback, teardown or recovery relies on.
Progress ==
    \A u \in Threads :
      /\ pc[u] \in {"prepare", "launch"} => ~Up /\ ~recovery /\ saved = "none"
      /\ pc[u] \in {"prove", "publish"} => Up /\ ~MustRestore
      /\ pc[u] = "publish" => ~IsTun
      /\ pc[u] \in {"confirm", "rollback.restore", "teardown.restore"} => MustRestore
      /\ pc[u] = "rollback.stop" => saved = "none"
      /\ pc[u] = "teardown.stop" => Up /\ ~MustRestore
      /\ pc[u] = "recover" => ~Up

\* A crash leaves the obligation to the next start of the program.
Running == ended = "no" => Owed /\ Progress

Inv == Types /\ Locks /\ Asked /\ Covered /\ Engine /\ Running

\* What a step does to the session, as far as Owed and Progress look.
SessionKept  == (Up' <=> Up) /\ (MustRestore' <=> MustRestore) /\ (IsTun' <=> IsTun)
SessionFreed == Up' /\ ~MustRestore' /\ (IsTun' <=> IsTun)

USE DEF windows, status, control, locks, threads

\* The two ways a thread's own variables change keep their types.
LEMMA ReturnTypes ==
    ASSUME NEW t \in Threads, Types, Return(t)
    PROVE  pc' \in [Threads -> Steps] /\ cmd' \in [Threads -> AllCommands]
<1>1. Command("none") \in AllCommands
  BY DEF AllCommands
<1> QED
  BY <1>1 DEF Types, Return, Steps

LEMMA GotoTypes ==
    ASSUME NEW t \in Threads, NEW s \in Steps, Types, Goto(t, s)
    PROVE  pc' \in [Threads -> Steps] /\ cmd' \in [Threads -> AllCommands]
  BY DEF Types, Goto

\* A start knows its mode and server.
LEMMA ConnectFields ==
    ASSUME NEW t \in Threads, Asked, pc[t] \in Connecting
    PROVE  cmd[t].mode \in {"proxy", "tun"} /\ cmd[t].node \in Nodes
  BY DEF Asked, ConnectCommands

\* A reconnect command is a start command of the monitor.
LEMMA LossOrConnect ==
    ASSUME NEW c \in AllCommands, c.op = "reconnect" PROVE c \in ConnectCommands
  BY UsesAssumption DEF AllCommands, Commands, Command, Start, ConnectCommands

\* A caller that holds what it should gives its locks up in order.
LEMMA TeardownReturnFacts ==
    ASSUME NEW t \in Threads, NEW ok \in BOOLEAN, Types, Locks, Asked, st \in {t, "free"},
           cmd[t].op # "loss" => op \in {t, "free"},
           cmd[t].op = "reconnect" => op = t,
           TeardownReturn(t, ok)
    PROVE  /\ pc' \in [Threads -> Steps] /\ cmd' \in [Threads -> AllCommands]
           /\ job' \in [failure : Errors, foreign : BOOLEAN]
           /\ op' \in Threads \cup {"free"} /\ st' = "free"
           /\ Locks' /\ Asked'
           /\ \E s \in {"idle", "exit.check", "reconnect", "body"} : pc' = [pc EXCEPT ![t] = s]
<1>1. pc' \in [Threads -> Steps] /\ cmd' \in [Threads -> AllCommands]
  BY ReturnTypes, GotoTypes DEF TeardownReturn, Steps
<1>2. st' = "free" /\ job' \in [failure : Errors, foreign : BOOLEAN]
  BY DEF TeardownReturn, NoJob, Errors
<1>3. op' \in {op, "free"}
  BY DEF TeardownReturn
<1>4. \E s \in {"idle", "exit.check", "reconnect", "body"} : pc' = [pc EXCEPT ![t] = s]
  BY DEF TeardownReturn, Goto, Return
<1>5. t \in Threads /\ t # "free"
  BY RenderersAssumption DEF Threads
<1>6. Locks'
  BY DEF TeardownReturn, Goto, Return, Types, Locks, Inside, Working, Teardown
<1>7. Asked'
  BY LossOrConnect DEF TeardownReturn, Goto, Return, Types, Asked, Connecting
<1> QED
  BY <1>1, <1>2, <1>3, <1>4, <1>6, <1>7 DEF Types

\* Every way a session or an intent is updated keeps its type.
LEMMA SessionFacts ==
    ASSUME NEW s \in Sessions
    PROVE  /\ s # NoSession
           /\ \A b \in BOOLEAN : [s EXCEPT !.restore = b] \in Sessions
           /\ CountFailure(s) \in Sessions
           /\ CountFailure(s).restore = s.restore /\ CountFailure(s).mode = s.mode
<1>1. s # NoSession
  BY DEF Sessions, NoSession
<1>2. CountFailure(s) \in Sessions
  BY SustainedAssumption DEF Sessions, CountFailure
<1> QED
  BY <1>1, <1>2 DEF Sessions, CountFailure

\* Obligations and modes belong to a session.
LEMMA Implied ==
    (MustRestore => Up) /\ (IsTun => Up) /\ (MustRestore' => Up') /\ (IsTun' => Up')
  BY DEF MustRestore, IsTun

\* Three ways to see what a step does to the session.
LEMMA Kept ==
    ASSUME active' = active PROVE SessionKept
  BY DEF SessionKept, Up, MustRestore, IsTun

LEMMA KeptByFields ==
    ASSUME active \in Sessions, active' \in Sessions,
           active'.restore = active.restore, active'.mode = active.mode
    PROVE  SessionKept
<1>1. active # NoSession /\ active' # NoSession
  BY SessionFacts
<1> QED
  BY <1>1 DEF SessionKept, Up, MustRestore, IsTun

LEMMA SetRestore ==
    ASSUME NEW b \in BOOLEAN, active \in {NoSession} \cup Sessions, Up,
           active' = [active EXCEPT !.restore = b]
    PROVE  active' \in Sessions /\ Up' /\ (MustRestore' <=> b) /\ (IsTun' <=> IsTun)
<1>1. active \in Sessions
  BY DEF Up
<1>2. active' \in Sessions
  BY <1>1, SessionFacts
<1>3. active # NoSession /\ active' # NoSession
  BY <1>1, SessionFacts
<1>4. active'.restore = b /\ active'.mode = active.mode
  OBVIOUS
<1> QED
  BY <1>2, <1>3 DEF Up, MustRestore, IsTun

\* A server switch leaves mode and obligation alone.
LEMMA SwitchedFacts ==
    ASSUME NEW s \in Sessions
    PROVE  Switched(s) \in Sessions /\ Switched(s).restore = s.restore /\ Switched(s).mode = s.mode
<1>1. FreshGeneration \in Generations
  BY DEF FreshGeneration, Generations
<1> QED
  BY <1>1 DEF Sessions, Switched

\* Pausing an intent keeps its type.
LEMMA PausedIntentType ==
    ASSUME intent \in {NoIntent} \cup Intents
    PROVE  PausedIntent \in {NoIntent} \cup Intents
  BY DEF PausedIntent, Intents

\* What the calls of the proxy manager guarantee their caller.
LEMMA PublishFacts ==
    ASSUME NEW r \in Registries, NEW j \in Journals, r = "ours" => j # "none",
           NEW o \in Publish(r, j)
    PROVE  /\ o.registry \in Registries
           /\ o.saved \in Journals
           /\ o.registry = "ours" => o.saved # "none"
           /\ j = "none" /\ o.saved # "none" => ObligesToRestore(o.result)
           /\ ObligesToRestore(o.result) \in BOOLEAN
           /\ o.result = "published" => ObligesToRestore(o.result)
  BY DEF Publish, Result, ObligesToRestore, Registries, Journals, Direct

\* The same for a restore.
LEMMA RestoreFacts ==
    ASSUME NEW r \in Registries, NEW j \in Journals, r = "ours" => j # "none",
           NEW o \in Restore(r, j)
    PROVE  /\ o.registry \in Registries
           /\ o.saved \in Journals
           /\ o.registry = "ours" => o.saved # "none"
           /\ o.saved # "none" => j # "none"
           /\ o.result # "recovery" => o.saved = "none"
           /\ o.result = "noJournal" => j = "none"
           /\ o.result \in {"noJournal", "recovery", "restored", "foreign"}
  BY DEF Restore, Result, Registries, Journals, Direct

-----------------------------------------------------------------------------
(* Every action preserves Inv: start, rollback, teardown, the other commands, *)
(* exit, the monitor, and the rest of the machine.                           *)

LEMMA StartEnterStep ==
    ASSUME NEW t \in Threads, Inv, StartEnter(t) PROVE Inv'
<1>a. cmd[t].mode \in {"proxy", "tun"} /\ cmd[t].node \in Nodes
  BY ConnectFields DEF Inv, StartEnter, At, Connecting
<1>b. [mode |-> cmd[t].mode, node |-> cmd[t].node, paused |-> FALSE] \in Intents
  BY <1>a DEF Intents
<1>1. Types'
  <2>1. pc' \in [Threads -> Steps] /\ cmd' \in [Threads -> AllCommands]
    BY ReturnTypes, GotoTypes DEF Inv, StartEnter, Steps
  <2>2. intent' \in {NoIntent} \cup Intents
    BY <1>b DEF Inv, Types, StartEnter
  <2> QED
    BY <2>1, <2>2 DEF Inv, Types, StartEnter
<1>2. Locks'
  BY RenderersAssumption DEF Inv, Types, StartEnter, Goto, Return, Locks, Inside, Working,
     Teardown, OpFree, Threads
<1>3. Asked'
  BY DEF Inv, Types, StartEnter, At, Goto, Return, Asked, Connecting
<1>4. Covered' /\ Engine'
  BY DEF Inv, StartEnter, Covered, Engine, Up
<1>5. Running'
  <2>1. Owed' \/ ended' # "no"
    BY DEF Inv, StartEnter, Running, Up, MustRestore, IsTun, Owed
  <2>2. Progress' \/ ended' # "no"
    BY <1>a DEF Inv, Types, StartEnter, Goto, Return, Running, Up, MustRestore, IsTun, Progress
  <2> QED
    BY <2>1, <2>2 DEF Running
<1> QED
  BY <1>1, <1>2, <1>3, <1>4, <1>5 DEF Inv

LEMMA StartBodyStep ==
    ASSUME NEW t \in Threads, Inv, StartBody(t) PROVE Inv'
<1>1. Types'
  <2>1. pc' \in [Threads -> Steps] /\ cmd' \in [Threads -> AllCommands]
    BY GotoTypes DEF Inv, StartBody, Steps
  <2> QED
    BY <2>1 DEF Inv, Types, StartBody, Status, Phases, Errors
<1>2. Locks'
  BY RenderersAssumption DEF Inv, Types, StartBody, At, Goto, Locks, Inside, Working, StFree,
     Threads
<1>3. Asked'
  BY DEF Inv, Types, StartBody, At, Goto, Asked, Connecting
<1>4. Covered' /\ Engine'
  BY DEF Inv, StartBody, Covered, Engine, Up
<1>5. Running'
  <2>1. Owed' \/ ended' # "no"
    BY DEF Inv, StartBody, Running, Up, MustRestore, IsTun, Owed
  <2>2. Progress' \/ ended' # "no"
    BY DEF Inv, Types, StartBody, Goto, Running, Up, MustRestore, IsTun, Owed, Progress,
       ConnectingAllowed
  <2> QED
    BY <2>1, <2>2 DEF Running
<1> QED
  BY <1>1, <1>2, <1>3, <1>4, <1>5 DEF Inv

LEMMA ReverifyProxyStep ==
    ASSUME NEW t \in Threads, Inv, ReverifyProxy(t) PROVE Inv'
<1>1. Types'
  <2>1. pc' \in [Threads -> Steps] /\ cmd' \in [Threads -> AllCommands]
    BY GotoTypes DEF Inv, ReverifyProxy, Steps
  <2> QED
    BY <2>1 DEF Inv, Types, ReverifyProxy, Status, Phases, Errors
<1>2. Locks'
  BY DEF Inv, Types, ReverifyProxy, At, Goto, Locks, Inside, Working
<1>3. Asked'
  BY DEF Inv, Types, ReverifyProxy, Goto, Asked, Connecting
<1>4. Covered' /\ Engine'
  BY DEF Inv, ReverifyProxy, Covered, Engine, Up
<1>5. Running'
  <2>1. Owed' \/ ended' # "no"
    BY DEF Inv, ReverifyProxy, Running, Up, MustRestore, IsTun, Owed
  <2>2. Progress' \/ ended' # "no"
    BY DEF Inv, Types, ReverifyProxy, Goto, Running, Up, MustRestore, IsTun, Progress
  <2> QED
    BY <2>1, <2>2 DEF Running
<1> QED
  BY <1>1, <1>2, <1>3, <1>4, <1>5 DEF Inv

LEMMA ReverifyTunStep ==
    ASSUME NEW t \in Threads, Inv, ReverifyTun(t) PROVE Inv'
<1>1. Types'
  <2>1. pc' \in [Threads -> Steps] /\ cmd' \in [Threads -> AllCommands]
    BY GotoTypes DEF Inv, ReverifyTun, Steps
  <2>2. job' \in [failure : Errors, foreign : BOOLEAN]
    BY DEF Inv, Types, ReverifyTun, NoJob, Errors
  <2> QED
    BY <2>1, <2>2 DEF Inv, Types, ReverifyTun, Status, Phases, Errors
<1>2. Locks'
  BY RenderersAssumption DEF Inv, Types, ReverifyTun, At, Goto, Locks, Inside, Working, StFree,
     Threads
<1>3. Asked'
  BY DEF Inv, Types, ReverifyTun, Goto, Asked, Connecting
<1>4. Covered' /\ Engine'
  BY DEF Inv, ReverifyTun, Covered, Engine, Up
<1>5. Running'
  <2>1. Owed' \/ ended' # "no"
    BY DEF Inv, ReverifyTun, Running, Up, MustRestore, IsTun, Owed
  <2>2. Progress' \/ ended' # "no"
    BY DEF Inv, Types, ReverifyTun, Goto, Running, Up, MustRestore, IsTun, Owed, Progress, Exact
  <2> QED
    BY <2>1, <2>2 DEF Running
<1> QED
  BY <1>1, <1>2, <1>3, <1>4, <1>5 DEF Inv

LEMMA StartPrepareStep ==
    ASSUME NEW t \in Threads, Inv, StartPrepare(t) PROVE Inv'
<1>1. Types'
  <2>1. pc' \in [Threads -> Steps] /\ cmd' \in [Threads -> AllCommands]
    BY GotoTypes DEF Inv, StartPrepare, Steps, RollBack
  <2>2. job' \in [failure : Errors, foreign : BOOLEAN]
    BY DEF Inv, Types, StartPrepare, NoJob, Errors, RollBack
  <2> QED
    BY <2>1, <2>2 DEF Inv, Types, StartPrepare, Status, Phases, Errors, RollBack
<1>2. Locks'
  BY DEF Inv, Types, StartPrepare, At, Goto, RollBack, Locks, Inside, Working
<1>3. Asked'
  BY DEF Inv, Types, StartPrepare, At, Goto, RollBack, Asked, Connecting
<1>4. Covered' /\ Engine'
  BY DEF Inv, StartPrepare, Covered, Engine, Up
<1>5. Running'
  <2>1. Owed' \/ ended' # "no"
    BY DEF Inv, StartPrepare, Running, Up, MustRestore, IsTun, Owed
  <2>2. Progress' \/ ended' # "no"
    BY DEF Inv, Types, StartPrepare, At, Goto, RollBack, Running, Up, MustRestore, Progress
  <2> QED
    BY <2>1, <2>2 DEF Running
<1> QED
  BY <1>1, <1>2, <1>3, <1>4, <1>5 DEF Inv

LEMMA StartLaunchStep ==
    ASSUME NEW t \in Threads, Inv, StartLaunch(t) PROVE Inv'
<1>1. cmd[t].mode \in {"proxy", "tun"} /\ cmd[t].node \in Nodes
  BY ConnectFields DEF Inv, StartLaunch, At, Connecting
<1>2. [mode |-> cmd[t].mode, node |-> cmd[t].node, gen |-> FreshGeneration,
      restore |-> FALSE, fails |-> 0, uncertain |-> FALSE] \in Sessions
  BY <1>1, SustainedAssumption DEF Sessions, FreshGeneration, Generations
<1>3. /\ pc[t] = "launch" /\ ended = "no" /\ st = t /\ op = t
      /\ ~Up /\ ~recovery /\ saved = "none"
      /\ UNCHANGED <<registry, saved, ended, recovery, shutting, intent, op, st, probe, cmd>>
  BY DEF Inv, StartLaunch, At, Goto, RollBack, Locks, Inside, Working, Running, Progress
<1>4. /\ active' \in {NoSession} \cup Sessions
      /\ job' \in [failure : Errors, foreign : BOOLEAN]
      /\ phase' \in Phases /\ err' \in Errors
  BY <1>2 DEF Inv, Types, StartLaunch, RollBack, NoJob, Status, Phases, Errors
<1>5. \/ core' = "live" /\ Up' /\ ~MustRestore' /\ pc' = [pc EXCEPT ![t] = "prove"]
      \/ core' = core /\ SessionKept /\ pc' = [pc EXCEPT ![t] = "rollback.stop"]
  <2>1. CASE active' = active /\ core' = core /\ \E e \in Errors : RollBack(t, e, active)
    BY <1>3, <2>1, Kept DEF RollBack, Goto, Up
  <2>2. CASE core' = "live" /\ Goto(t, "prove") /\ active' = [mode |-> cmd[t].mode, node |-> cmd[t].node,
             gen |-> FreshGeneration, restore |-> FALSE, fails |-> 0, uncertain |-> FALSE]
    <3>1. active' # NoSession /\ ~active'.restore
      BY <1>2, <2>2, SessionFacts
    <3> QED
      BY <2>2, <3>1 DEF Goto, Up, MustRestore
  <2> QED
    BY <2>1, <2>2 DEF StartLaunch, Errors
<1>6. Types'
  BY <1>3, <1>4, <1>5 DEF Inv, Types, Steps
<1>7. Locks'
  BY <1>3, <1>5 DEF Inv, Types, Locks
<1>8. Asked'
  BY <1>3, <1>5 DEF Inv, Types, Asked, Connecting
<1>9. Covered' /\ Engine'
  BY <1>3, <1>5 DEF Inv, Covered, Engine
<1>10. Running'
  <2>1. Owed' \/ ended' # "no"
    BY <1>3, <1>5 DEF Inv, Running, SessionKept, Owed
  <2>2. Progress' \/ ended' # "no"
    BY <1>3, <1>5 DEF Inv, Types, Locks, Inside, Working, Progress
  <2> QED
    BY <2>1, <2>2 DEF Running
<1> QED
  BY <1>6, <1>7, <1>8, <1>9, <1>10 DEF Inv

LEMMA StartProveStep ==
    ASSUME NEW t \in Threads, Inv, StartProve(t) PROVE Inv'
<1>1. Types'
  <2>1. pc' \in [Threads -> Steps] /\ cmd' \in [Threads -> AllCommands]
    BY GotoTypes DEF Inv, StartProve, Steps, RollBack
  <2>2. job' \in [failure : Errors, foreign : BOOLEAN]
    BY DEF Inv, Types, StartProve, NoJob, Errors, RollBack
  <2> QED
    BY <2>1, <2>2 DEF Inv, Types, StartProve, Status, Phases, Errors, RollBack
<1>2. Locks'
  BY DEF Inv, Types, StartProve, At, Goto, RollBack, Locks, Inside, Working
<1>3. Asked'
  BY DEF Inv, Types, StartProve, At, Goto, RollBack, Asked, Connecting
<1>4. Covered' /\ Engine'
  BY DEF Inv, StartProve, Covered, Engine, Up
<1>5. Running'
  <2>1. Owed' \/ ended' # "no"
    BY DEF Inv, StartProve, Running, Up, MustRestore, IsTun, Owed
  <2>2. Progress' \/ ended' # "no"
    BY DEF Inv, Types, StartProve, At, Goto, RollBack, Running, Up, MustRestore, IsTun, Owed,
       Progress
  <2> QED
    BY <2>1, <2>2 DEF Running
<1> QED
  BY <1>1, <1>2, <1>3, <1>4, <1>5 DEF Inv

LEMMA StartPublishStep ==
    ASSUME NEW t \in Threads, Inv, StartPublish(t) PROVE Inv'
<1>1. PICK o \in Publish(registry, saved) :
        /\ registry' = o.registry /\ saved' = o.saved
        /\ active' = [active EXCEPT !.restore = ObligesToRestore(o.result)]
        /\ \/ o.result = "published" /\ Goto(t, "confirm") /\ UNCHANGED <<status, job>>
           \/ o.result # "published" /\ RollBack(t, "other", active')
  BY DEF StartPublish, Apply
<1>2. /\ registry' \in Registries /\ saved' \in Journals
      /\ registry' = "ours" => saved' # "none"
      /\ saved = "none" /\ saved' # "none" => ObligesToRestore(o.result)
      /\ ObligesToRestore(o.result) \in BOOLEAN
      /\ o.result = "published" => ObligesToRestore(o.result)
  BY <1>1, PublishFacts DEF Inv, Types, Covered
<1>3. /\ pc[t] = "publish" /\ ended = "no" /\ st = t /\ op = t
      /\ Up /\ ~MustRestore /\ ~IsTun /\ saved = "none"
      /\ UNCHANGED <<core, ended, recovery, shutting, intent, op, st, probe, cmd>>
  BY DEF Inv, StartPublish, At, Goto, RollBack, Locks, Inside, Working, Running, Owed, Progress
<1>4. /\ active' \in Sessions /\ Up' /\ ~IsTun'
      /\ MustRestore' <=> ObligesToRestore(o.result)
  BY <1>1, <1>2, <1>3, SetRestore DEF Inv, Types
<1>5. /\ job' \in [failure : Errors, foreign : BOOLEAN]
      /\ phase' \in Phases /\ err' \in Errors
  BY <1>1 DEF Inv, Types, RollBack, NoJob, Status, Phases, Errors
<1>6. \/ MustRestore' /\ pc' = [pc EXCEPT ![t] = "confirm"]
      \/ MustRestore' /\ pc' = [pc EXCEPT ![t] = "rollback.restore"]
      \/ ~MustRestore' /\ pc' = [pc EXCEPT ![t] = "rollback.stop"]
  BY <1>1, <1>2, <1>4 DEF RollBack, Goto, Up
<1>7. Types'
  BY <1>2, <1>3, <1>4, <1>5, <1>6 DEF Inv, Types, Steps
<1>8. Locks'
  BY <1>3, <1>6 DEF Inv, Types, Locks
<1>9. Asked'
  BY <1>3, <1>6 DEF Inv, Types, Asked, Connecting
<1>10. Covered' /\ Engine'
  BY <1>2, <1>3, <1>4 DEF Covered, Engine
<1>11. Running'
  <2>1. Owed' \/ ended' # "no"
    BY <1>2, <1>3, <1>4 DEF Owed
  <2>2. Progress' \/ ended' # "no"
    BY <1>2, <1>3, <1>4, <1>6 DEF Inv, Types, Locks, Inside, Working, Progress
  <2> QED
    BY <2>1, <2>2 DEF Running
<1> QED
  BY <1>7, <1>8, <1>9, <1>10, <1>11 DEF Inv

LEMMA StartConfirmStep ==
    ASSUME NEW t \in Threads, Inv, StartConfirm(t) PROVE Inv'
<1>1. Types'
  <2>1. pc' \in [Threads -> Steps] /\ cmd' \in [Threads -> AllCommands]
    BY GotoTypes DEF Inv, StartConfirm, Steps, RollBack
  <2>2. job' \in [failure : Errors, foreign : BOOLEAN]
    BY DEF Inv, Types, StartConfirm, NoJob, Errors, RollBack
  <2> QED
    BY <2>1, <2>2 DEF Inv, Types, StartConfirm, Status, Phases, Errors, RollBack
<1>2. Locks'
  BY DEF Inv, Types, StartConfirm, At, Goto, RollBack, Locks, Inside, Working
<1>3. Asked'
  BY DEF Inv, Types, StartConfirm, Goto, RollBack, Asked, Connecting
<1>4. Covered' /\ Engine'
  BY DEF Inv, StartConfirm, Covered, Engine, Up
<1>5. Running'
  <2>1. Owed' \/ ended' # "no"
    BY DEF Inv, StartConfirm, Running, Up, MustRestore, IsTun, Owed
  <2>2. Progress' \/ ended' # "no"
    BY DEF Inv, Types, StartConfirm, At, Goto, RollBack, Running, Up, MustRestore, Progress
  <2> QED
    BY <2>1, <2>2 DEF Running
<1> QED
  BY <1>1, <1>2, <1>3, <1>4, <1>5 DEF Inv

LEMMA RollBackRestoreStep ==
    ASSUME NEW t \in Threads, Inv, RollBackRestore(t) PROVE Inv'
<1>1. PICK o \in Restore(registry, saved) :
        /\ registry' = o.registry /\ saved' = o.saved
        /\ \/ /\ EndsObligation(o.result)
              /\ active' = [active EXCEPT !.restore = FALSE]
              /\ job' = [job EXCEPT !.foreign = (o.result = "foreign")]
              /\ Goto(t, "rollback.stop") /\ UNCHANGED <<status, recovery, st>>
           \/ /\ recovery' = TRUE
              /\ Status("RecoveryRequired", "other")
              /\ Release(t, "failed")
              /\ UNCHANGED active
  BY DEF RollBackRestore, Apply
<1>2. /\ registry' \in Registries /\ saved' \in Journals
      /\ registry' = "ours" => saved' # "none"
      /\ EndsObligation(o.result) => saved' = "none"
  BY <1>1, RestoreFacts DEF Inv, Types, Covered, EndsObligation
<1>3. /\ pc[t] = "rollback.restore" /\ ended = "no" /\ st = t /\ op = t
      /\ MustRestore /\ Up
      /\ UNCHANGED <<core, ended, shutting, intent, op, probe, cmd>>
  BY Implied DEF Inv, RollBackRestore, At, Goto, Release, Locks, Inside, Working, Running,
     Progress
<1>4. /\ job' \in [failure : Errors, foreign : BOOLEAN]
      /\ phase' \in Phases /\ err' \in Errors
  <2>1. job' = NoJob \/ job' = [job EXCEPT !.foreign = (o.result = "foreign")]
    BY <1>1 DEF Release
  <2>2. job' \in [failure : Errors, foreign : BOOLEAN]
    <3>1. NoJob \in [failure : Errors, foreign : BOOLEAN]
      BY DEF NoJob, Errors
    <3>2. [job EXCEPT !.foreign = (o.result = "foreign")] \in [failure : Errors, foreign : BOOLEAN]
      BY DEF Inv, Types
    <3> QED
      BY <2>1, <3>1, <3>2
  <2>3. phase' \in Phases /\ err' \in Errors
    BY <1>1 DEF Inv, Types, Status, Phases, Errors
  <2> QED
    BY <2>2, <2>3
<1>5. \/ /\ saved' = "none" /\ SessionFreed /\ recovery' = recovery /\ st' = st
         /\ active' \in Sessions /\ pc' = [pc EXCEPT ![t] = "rollback.stop"]
      \/ /\ SessionKept /\ active' = active /\ recovery' = TRUE /\ st' = "free"
         /\ pc' = [pc EXCEPT ![t] = "failed"]
  BY <1>1, <1>2, <1>3, SetRestore, Kept DEF Inv, Types, Release, Goto, SessionFreed
<1>6. Types'
  BY <1>2, <1>3, <1>4, <1>5 DEF Inv, Types, Steps
<1>7. Locks'
  BY <1>3, <1>5 DEF Inv, Types, Locks, Inside
<1>8. Asked'
  BY <1>3, <1>5 DEF Inv, Types, Asked, Connecting
<1>9. Covered' /\ Engine'
  BY <1>2, <1>3, <1>5 DEF Covered, Engine, SessionKept, SessionFreed
<1>10. Running'
  <2>1. Owed' \/ ended' # "no"
    BY <1>3, <1>5 DEF Inv, Running, SessionKept, SessionFreed, Owed
  <2>2. Progress' \/ ended' # "no"
    BY <1>3, <1>5 DEF Inv, Types, Locks, Inside, Working, Progress
  <2> QED
    BY <2>1, <2>2 DEF Running
<1> QED
  BY <1>6, <1>7, <1>8, <1>9, <1>10 DEF Inv

LEMMA RollBackStopStep ==
    ASSUME NEW t \in Threads, Inv, RollBackStop(t) PROVE Inv'
<1>1. Types'
  <2>1. pc' \in [Threads -> Steps] /\ cmd' \in [Threads -> AllCommands]
    BY GotoTypes DEF Inv, RollBackStop, Steps, Release
  <2> QED
    BY <2>1 DEF Inv, Types, RollBackStop, Status, Phases, Errors, Release, NoJob
<1>2. Locks'
  BY DEF Inv, Types, RollBackStop, At, Goto, Release, Locks, Inside, Working
<1>3. Asked'
  BY DEF Inv, RollBackStop, Goto, Release, Asked, Connecting
<1>4. Covered' /\ Engine'
  BY DEF Inv, RollBackStop, Covered, Engine, Up
<1>5. Running'
  <2>1. Owed' \/ ended' # "no"
    BY DEF Inv, RollBackStop, At, Running, Up, MustRestore, IsTun, Owed, Progress
  <2>2. Progress' \/ ended' # "no"
    BY DEF Inv, RollBackStop, At, Goto, Release, Running, Locks, Inside, Up, Progress
  <2> QED
    BY <2>1, <2>2 DEF Running
<1> QED
  BY <1>1, <1>2, <1>3, <1>4, <1>5 DEF Inv

LEMMA FinishStep ==
    ASSUME NEW t \in Threads, Inv, Finish(t) PROVE Inv'
<1>1. Types'
  <2>1. pc' \in [Threads -> Steps] /\ cmd' \in [Threads -> AllCommands]
    BY ReturnTypes DEF Inv, Finish
  <2> QED
    BY <2>1, PausedIntentType DEF Inv, Types, Finish
<1>2. Locks'
  BY DEF Inv, Types, Finish, Return, Locks, Inside, Working, Teardown
<1>3. Asked'
  BY DEF Inv, Finish, Return, Asked, Connecting
<1>4. Covered' /\ Engine'
  BY DEF Inv, Finish, Covered, Engine, Up
<1>5. Running'
  <2>1. Owed' \/ ended' # "no"
    BY DEF Inv, Finish, Running, Up, MustRestore, IsTun, Owed
  <2>2. Progress' \/ ended' # "no"
    BY DEF Inv, Finish, Return, Running, Up, MustRestore, IsTun, Progress
  <2> QED
    BY <2>1, <2>2 DEF Running
<1> QED
  BY <1>1, <1>2, <1>3, <1>4, <1>5 DEF Inv

LEMMA TeardownRestoreStep ==
    ASSUME NEW t \in Threads, Inv, TeardownRestore(t) PROVE Inv'
<1>1. PICK o \in Restore(registry, saved) :
         /\ registry' = o.registry /\ saved' = o.saved
         /\ \/ /\ EndsObligation(o.result)
               /\ active' = [active EXCEPT !.restore = FALSE]
               /\ job' = [job EXCEPT !.foreign = (o.result = "foreign")]
               /\ Goto(t, "teardown.stop") /\ UNCHANGED <<status, recovery, op, st>>
            \/ /\ recovery' = TRUE
               /\ Status("RecoveryRequired", "other")
               /\ TeardownReturn(t, FALSE) /\ UNCHANGED active
  BY DEF TeardownRestore, Apply
<1>2. /\ registry' \in Registries /\ saved' \in Journals
      /\ registry' = "ours" => saved' # "none"
      /\ EndsObligation(o.result) => saved' = "none"
  BY <1>1, RestoreFacts DEF Inv, Types, Covered, EndsObligation
<1>3. /\ pc[t] = "teardown.restore" /\ ended = "no" /\ st = t
      /\ cmd[t].op # "loss" => op = t
      /\ MustRestore /\ Up
      /\ UNCHANGED <<core, ended, shutting, intent, probe>>
  BY Implied DEF Inv, TeardownRestore, At, Locks, Inside, Teardown, Running, Progress
<1>4. CASE /\ EndsObligation(o.result)
           /\ active' = [active EXCEPT !.restore = FALSE]
           /\ job' = [job EXCEPT !.foreign = (o.result = "foreign")]
           /\ Goto(t, "teardown.stop") /\ UNCHANGED <<status, recovery, op, st>>
  <2>1. active' \in Sessions /\ SessionFreed
    BY <1>3, <1>4, SetRestore DEF Inv, Types, SessionFreed
  <2>2. job' \in [failure : Errors, foreign : BOOLEAN]
    BY <1>4 DEF Inv, Types
  <2>3. Types'
    BY <1>2, <1>3, <1>4, <2>1 DEF Inv, Types, Goto, Steps
  <2>4. Locks'
    BY <1>3, <1>4 DEF Inv, Goto, Locks, Working
  <2>5. Asked'
    BY <1>4 DEF Inv, Goto, Asked, Connecting
  <2>6. Covered' /\ Engine'
    BY <1>2, <1>3, <2>1 DEF Covered, Engine, SessionFreed
  <2>7. Owed' /\ Progress'
    BY <1>2, <1>3, <1>4, <2>1 DEF Inv, Types, Goto, Running, Owed, Progress, SessionFreed,
       Locks, Inside
  <2> QED
    BY <2>3, <2>4, <2>5, <2>6, <2>7 DEF Inv, Running
<1>5. CASE /\ recovery' = TRUE
           /\ Status("RecoveryRequired", "other")
           /\ TeardownReturn(t, FALSE) /\ UNCHANGED active
  <2>1. /\ pc' \in [Threads -> Steps] /\ cmd' \in [Threads -> AllCommands]
        /\ job' \in [failure : Errors, foreign : BOOLEAN]
        /\ op' \in Threads \cup {"free"} /\ st' = "free"
        /\ Locks' /\ Asked'
        /\ \E s \in {"idle", "exit.check", "reconnect", "body"} : pc' = [pc EXCEPT ![t] = s]
    BY <1>3, <1>5, TeardownReturnFacts DEF Inv
  <2>2. SessionKept
    BY <1>5, Kept
  <2>3. Types'
    BY <1>2, <1>3, <1>5, <2>1 DEF Inv, Types, Status, Phases, Errors
  <2>4. Covered' /\ Engine'
    BY <1>2, <1>3, <2>2 DEF Covered, Engine, SessionKept
  <2>5. Owed' /\ Progress'
    BY <1>3, <2>1, <2>2 DEF Inv, Running, Owed, Progress, SessionKept, Locks, Inside
  <2> QED
    BY <2>1, <2>3, <2>4, <2>5 DEF Inv, Running
<1> QED
  BY <1>1, <1>4, <1>5

LEMMA TeardownStopStep ==
    ASSUME NEW t \in Threads, Inv, TeardownStop(t) PROVE Inv'
<1>1. /\ pc[t] = "teardown.stop" /\ ended = "no" /\ st = t
      /\ cmd[t].op # "loss" => op = t
      /\ Up /\ ~MustRestore /\ saved = "none"
      /\ UNCHANGED <<registry, saved, ended, shutting, probe>>
  BY DEF Inv, TeardownStop, At, Locks, Inside, Teardown, Running, Owed, Progress
<1>2. TeardownReturn(t, FALSE) \/ TeardownReturn(t, TRUE)
  BY DEF TeardownStop
<1>3. /\ pc' \in [Threads -> Steps] /\ cmd' \in [Threads -> AllCommands]
      /\ job' \in [failure : Errors, foreign : BOOLEAN]
      /\ op' \in Threads \cup {"free"} /\ st' = "free"
      /\ Locks' /\ Asked'
      /\ \E s \in {"idle", "exit.check", "reconnect", "body"} : pc' = [pc EXCEPT ![t] = s]
  BY <1>1, <1>2, TeardownReturnFacts DEF Inv
<1>4. /\ recovery' \in BOOLEAN
      /\ phase' \in Phases /\ err' \in Errors
      /\ intent' \in {NoIntent} \cup Intents
  BY PausedIntentType DEF Inv, Types, TeardownStop, Status, Phases, Errors
<1>5. \/ recovery' = TRUE /\ core' = core /\ active' = active /\ SessionKept
      \/ core' = "none" /\ active' = NoSession /\ ~Up'
  BY Kept DEF TeardownStop, Up
<1>6. Types'
  BY <1>1, <1>3, <1>4, <1>5 DEF Inv, Types
<1>7. Covered' /\ Engine'
  BY <1>1, <1>5 DEF Inv, Covered, Engine, SessionKept
<1>8. Owed' /\ Progress'
  BY <1>1, <1>3, <1>5, Implied DEF Inv, Running, Owed, Progress, SessionKept, Locks, Inside
<1> QED
  BY <1>3, <1>6, <1>7, <1>8 DEF Inv, Running

LEMMA StopCancelStep ==
    ASSUME NEW t \in Threads, Inv, StopCancel(t) PROVE Inv'
<1>1. Types'
  <2>1. pc' \in [Threads -> Steps] /\ cmd' \in [Threads -> AllCommands]
    BY GotoTypes DEF Inv, StopCancel, Steps
  <2> QED
    BY <2>1 DEF Inv, Types, StopCancel
<1>2. Locks'
  BY DEF Inv, StopCancel, Goto, Locks, Inside, Working, Teardown
<1>3. Asked'
  BY DEF Inv, StopCancel, At, Goto, Asked, Connecting
<1>4. Covered' /\ Engine'
  BY DEF Inv, StopCancel, Covered, Engine, Up
<1>5. Running'
  <2>1. Owed' \/ ended' # "no"
    BY DEF Inv, StopCancel, Running, Up, MustRestore, IsTun, Owed
  <2>2. Progress' \/ ended' # "no"
    BY DEF Inv, StopCancel, Goto, Running, Up, MustRestore, IsTun, Progress
  <2> QED
    BY <2>1, <2>2 DEF Running
<1> QED
  BY <1>1, <1>2, <1>3, <1>4, <1>5 DEF Inv

LEMMA StopEnterStep ==
    ASSUME NEW t \in Threads, Inv, StopEnter(t) PROVE Inv'
<1>1. /\ pc[t] = "stop" /\ ended = "no" /\ st = "free" /\ op = "free"
      /\ cmd[t].op \notin {"loss", "reconnect"}
      /\ UNCHANGED <<registry, saved, core, ended, active, recovery, shutting, intent, probe>>
  BY DEF Inv, Asked, StopEnter, At, OpFree, StFree
<1>2. SessionKept
  BY <1>1, Kept
<1>3. Covered' /\ Engine'
  BY <1>1, <1>2 DEF Inv, Covered, Engine, SessionKept
<1>4. CASE TeardownBegin(t, "none") /\ op' = t /\ Goto(t, TeardownStep)
  <2>1. /\ Up /\ st' = t
        /\ job' \in [failure : Errors, foreign : BOOLEAN]
        /\ phase' \in Phases /\ err' \in Errors
    BY <1>4 DEF TeardownBegin, NoJob, Status, Phases, Errors
  <2>2. /\ UNCHANGED cmd
        /\ \/ MustRestore /\ pc' = [pc EXCEPT ![t] = "teardown.restore"]
           \/ ~MustRestore /\ pc' = [pc EXCEPT ![t] = "teardown.stop"]
    BY <1>4 DEF Goto, TeardownStep
  <2>3. Types'
    BY <1>1, <1>4, <2>1, <2>2 DEF Inv, Types, Steps
  <2>4. Locks'
    BY <1>1, <1>4, <2>1, <2>2, RenderersAssumption DEF Inv, Types, Locks, Threads
  <2>5. Asked'
    BY <2>2 DEF Inv, Types, Asked, Connecting
  <2>6. Owed' /\ Progress'
    BY <1>1, <1>2, <2>1, <2>2 DEF Inv, Types, Running, Owed, Progress, SessionKept
  <2> QED
    BY <1>3, <2>3, <2>4, <2>5, <2>6 DEF Inv, Running
<1>5. CASE /\ ~Up
           /\ IF recovery THEN UNCHANGED status ELSE Status("Disconnected", "none")
           /\ TeardownReturn(t, TRUE)
  <2>1. /\ pc' \in [Threads -> Steps] /\ cmd' \in [Threads -> AllCommands]
        /\ job' \in [failure : Errors, foreign : BOOLEAN]
        /\ op' \in Threads \cup {"free"} /\ st' = "free"
        /\ Locks' /\ Asked'
        /\ \E s \in {"idle", "exit.check", "reconnect", "body"} : pc' = [pc EXCEPT ![t] = s]
    BY <1>1, <1>5, TeardownReturnFacts DEF Inv
  <2>2. phase' \in Phases /\ err' \in Errors
    BY <1>5 DEF Inv, Types, Status, Phases, Errors
  <2>3. Types'
    BY <1>1, <2>1, <2>2 DEF Inv, Types
  <2>4. Owed' /\ Progress'
    BY <1>1, <1>2, <2>1 DEF Inv, Running, Owed, Progress, SessionKept
  <2> QED
    BY <1>3, <2>1, <2>3, <2>4 DEF Inv, Running
<1> QED
  BY <1>4, <1>5 DEF StopEnter

LEMMA RetryEnterStep ==
    ASSUME NEW t \in Threads, Inv, RetryEnter(t) PROVE Inv'
<1>1. Types'
  <2>1. pc' \in [Threads -> Steps] /\ cmd' \in [Threads -> AllCommands]
    BY ReturnTypes, GotoTypes DEF Inv, RetryEnter, Steps, TeardownStep
  <2>2. job' \in [failure : Errors, foreign : BOOLEAN]
    BY DEF Inv, Types, RetryEnter, TeardownBegin, NoJob, Errors
  <2>3. op' \in Threads \cup {"free"} /\ st' \in Threads \cup {"free"}
    BY DEF Inv, Types, RetryEnter, TeardownBegin
  <2> QED
    BY <2>1, <2>2 DEF Inv, Types, RetryEnter, Status, Phases, TeardownBegin
<1>2. Locks'
  BY RenderersAssumption DEF Inv, Types, RetryEnter, Goto, Return, TeardownBegin, Locks, Inside,
     Working, Teardown, OpFree, StFree, Threads
<1>3. Asked'
  BY DEF Inv, Types, RetryEnter, Goto, Return, TeardownStep, Asked, Connecting
<1>4. Covered' /\ Engine'
  BY DEF Inv, RetryEnter, Covered, Engine, Up
<1>5. Running'
  <2>1. Owed' \/ ended' # "no"
    BY DEF Inv, RetryEnter, Running, Up, MustRestore, IsTun, Owed
  <2>2. Progress' \/ ended' # "no"
    BY DEF Inv, Types, RetryEnter, Goto, Return, TeardownBegin, TeardownStep, Running, Up,
       MustRestore, IsTun, Progress
  <2> QED
    BY <2>1, <2>2 DEF Running
<1> QED
  BY <1>1, <1>2, <1>3, <1>4, <1>5 DEF Inv

LEMMA RetryRecoverStep ==
    ASSUME NEW t \in Threads, Inv, RetryRecover(t) PROVE Inv'
<1>1. /\ pc[t] = "recover" /\ ended = "no" /\ st = "free" /\ op = t /\ op' = "free" /\ ~Up
      /\ phase' \in Phases /\ err' \in Errors
      /\ UNCHANGED <<core, ended, active, shutting, intent, st, job, probe>>
  BY DEF Inv, RetryRecover, At, StFree, Locks, Working, Running, Progress, Status, Phases,
     Errors
<1>2. /\ pc' = [pc EXCEPT ![t] = "idle"]
      /\ cmd' = [cmd EXCEPT ![t] = Command("none")]
      /\ pc' \in [Threads -> Steps] /\ cmd' \in [Threads -> AllCommands]
  BY ReturnTypes DEF Inv, RetryRecover, Return
<1>3. SessionKept
  BY <1>1, Kept
<1>4. /\ registry' \in Registries /\ saved' \in Journals /\ recovery' \in BOOLEAN
      /\ registry' = "ours" => saved' # "none"
      /\ saved' # "none" => recovery' = recovery /\ saved # "none"
  <2>1. CASE UNCHANGED <<registry, saved, recovery>>
    BY <2>1 DEF Inv, Types, Covered
  <2>2. CASE \E o \in Restore(registry, saved) :
               /\ Apply(o)
               /\ IF o.result = "recovery" THEN UNCHANGED recovery ELSE recovery' = FALSE
    <3>1. PICK o \in Restore(registry, saved) :
               /\ Apply(o)
               /\ IF o.result = "recovery" THEN UNCHANGED recovery ELSE recovery' = FALSE
      BY <2>2
    <3> QED
      BY <3>1, RestoreFacts DEF Inv, Types, Covered, Apply
  <2> QED
    BY <2>1, <2>2 DEF RetryRecover
<1>5. Types'
  BY <1>1, <1>2, <1>4 DEF Inv, Types
<1>6. Locks'
  BY <1>1, <1>2 DEF Inv, Locks, Inside, Working, Teardown
<1>7. Asked'
  BY <1>2 DEF Inv, Asked, Connecting
<1>8. Covered' /\ Engine'
  BY <1>1, <1>4 DEF Inv, Covered, Engine
<1>9. Running'
  <2>1. Owed' \/ ended' # "no"
    BY <1>1, <1>3, <1>4 DEF Inv, Running, SessionKept, Owed
  <2>2. Progress' \/ ended' # "no"
    BY <1>1, <1>2, RenderersAssumption DEF Inv, Locks, Inside, Working, Threads, Progress
  <2> QED
    BY <2>1, <2>2 DEF Running
<1> QED
  BY <1>5, <1>6, <1>7, <1>8, <1>9 DEF Inv

LEMMA ClearStaleProxyStep ==
    ASSUME NEW t \in Threads, Inv, ClearStaleProxy(t) PROVE Inv'
<1>1. Types'
  <2>1. pc' \in [Threads -> Steps] /\ cmd' \in [Threads -> AllCommands]
    BY ReturnTypes DEF Inv, ClearStaleProxy
  <2> QED
    BY <2>1 DEF Inv, Types, ClearStaleProxy, Registries, Direct
<1>2. Locks'
  BY DEF Inv, ClearStaleProxy, Return, Locks, Inside, Working, Teardown, OpFree, StFree
<1>3. Asked'
  BY DEF Inv, ClearStaleProxy, At, Return, Asked, Connecting
<1>4. Covered' /\ Engine'
  BY DEF Inv, ClearStaleProxy, Covered, Engine, Up
<1>5. Running'
  <2>1. Owed' \/ ended' # "no"
    BY DEF Inv, ClearStaleProxy, Running, Up, MustRestore, IsTun, Owed
  <2>2. Progress' \/ ended' # "no"
    BY DEF Inv, ClearStaleProxy, Return, Running, Up, MustRestore, IsTun, Progress
  <2> QED
    BY <2>1, <2>2 DEF Running
<1> QED
  BY <1>1, <1>2, <1>3, <1>4, <1>5 DEF Inv

LEMMA UpdateBeginStep ==
    ASSUME NEW t \in Threads, Inv, UpdateBegin(t) PROVE Inv'
<1>1. Types'
  <2>1. pc' \in [Threads -> Steps] /\ cmd' \in [Threads -> AllCommands]
    BY ReturnTypes, GotoTypes DEF Inv, UpdateBegin, Steps
  <2>2. shutting' \in BOOLEAN
    BY DEF Inv, Types, UpdateBegin
  <2>3. op' \in Threads \cup {"free"}
    BY DEF Inv, Types, UpdateBegin
  <2> QED
    BY <2>1, <2>2 DEF Inv, Types, UpdateBegin
<1>2. Locks'
  BY RenderersAssumption DEF Inv, Types, UpdateBegin, Goto, Return, Locks, Inside, Working,
     Teardown, OpFree, Threads
<1>3. Asked'
  BY DEF Inv, Types, UpdateBegin, Goto, Return, Asked, Connecting
<1>4. Covered' /\ Engine'
  BY DEF Inv, UpdateBegin, Covered, Engine, Up
<1>5. Running'
  <2>1. Owed' \/ ended' # "no"
    BY DEF Inv, UpdateBegin, Running, Up, MustRestore, IsTun, Owed
  <2>2. Progress' \/ ended' # "no"
    BY DEF Inv, Types, UpdateBegin, Goto, Return, Running, Up, MustRestore, IsTun, Progress
  <2> QED
    BY <2>1, <2>2 DEF Running
<1> QED
  BY <1>1, <1>2, <1>3, <1>4, <1>5 DEF Inv

LEMMA UpdateEndStep ==
    ASSUME NEW t \in Threads, Inv, UpdateEnd(t) PROVE Inv'
<1>1. Types'
  <2>1. pc' \in [Threads -> Steps] /\ cmd' \in [Threads -> AllCommands]
    BY ReturnTypes DEF Inv, UpdateEnd
  <2> QED
    BY <2>1 DEF Inv, Types, UpdateEnd
<1>2. Locks'
  BY DEF Inv, Types, UpdateEnd, At, Return, Locks, Inside, Working, Teardown
<1>3. Asked'
  BY DEF Inv, UpdateEnd, At, Return, Asked, Connecting
<1>4. Covered' /\ Engine'
  BY DEF Inv, UpdateEnd, Covered, Engine, Up
<1>5. Running'
  <2>1. Owed' \/ ended' # "no"
    BY DEF Inv, UpdateEnd, Running, Up, MustRestore, IsTun, Owed
  <2>2. Progress' \/ ended' # "no"
    BY DEF Inv, UpdateEnd, Return, Running, Up, MustRestore, IsTun, Progress
  <2> QED
    BY <2>1, <2>2 DEF Running
<1> QED
  BY <1>1, <1>2, <1>3, <1>4, <1>5 DEF Inv

LEMMA SwitchServerStep ==
    ASSUME NEW t \in Threads, Inv, SwitchServer(t) PROVE Inv'
<1>1. /\ pc[t] = "switch" /\ ended = "no" /\ st = "free"
      /\ phase' \in Phases /\ err' \in Errors
      /\ UNCHANGED <<registry, saved, core, ended, recovery, shutting, intent, op, st, job, probe>>
  BY DEF Inv, Types, SwitchServer, At, StFree, Status, Phases, Errors
<1>2. /\ pc' = [pc EXCEPT ![t] = "idle"]
      /\ cmd' = [cmd EXCEPT ![t] = Command("none")]
      /\ pc' \in [Threads -> Steps] /\ cmd' \in [Threads -> AllCommands]
  BY ReturnTypes DEF Inv, SwitchServer, Return
<1>3. active' \in {NoSession} \cup Sessions /\ SessionKept
  <2>1. CASE active' = active
    BY <2>1, Kept DEF Inv, Types
  <2>2. CASE CanSwitch /\ \/ active' = [Switched(active) EXCEPT !.node = cmd[t].node, !.fails = 0]
                          \/ active' = Switched(active)
                          \/ \E u \in BOOLEAN : active' = [Switched(active) EXCEPT !.uncertain = u]
    <3>1. cmd[t].node \in Nodes
      BY <1>1 DEF Inv, Asked
    <3>2. active \in Sessions
      BY <2>2 DEF Inv, Types, CanSwitch, IsTun, Up
    <3>3. /\ active' \in Sessions
          /\ active'.restore = active.restore /\ active'.mode = active.mode
      <4>1. PICK u \in BOOLEAN :
                  \/ active' = [Switched(active) EXCEPT !.node = cmd[t].node, !.fails = 0]
                  \/ active' = Switched(active)
                  \/ active' = [Switched(active) EXCEPT !.uncertain = u]
        BY <2>2
      <4>2. CASE active' = [Switched(active) EXCEPT !.node = cmd[t].node, !.fails = 0]
        <5>1. 0 \in 0..Sustained
          BY SustainedAssumption
        <5> QED
          BY <3>1, <3>2, <4>2, <5>1, SwitchedFacts DEF Sessions
      <4>3. CASE active' = Switched(active)
        BY <3>2, <4>3, SwitchedFacts
      <4>4. CASE active' = [Switched(active) EXCEPT !.uncertain = u]
        BY <3>2, <4>4, SwitchedFacts DEF Sessions
      <4> QED
        BY <4>1, <4>2, <4>3, <4>4
    <3> QED
      BY <3>2, <3>3, KeptByFields
  <2> QED
    BY <2>1, <2>2 DEF SwitchServer
<1>4. Types'
  BY <1>1, <1>2, <1>3 DEF Inv, Types
<1>5. Locks'
  BY <1>1, <1>2 DEF Inv, Locks, Inside, Working, Teardown
<1>6. Asked'
  BY <1>2 DEF Inv, Asked, Connecting
<1>7. Covered' /\ Engine'
  BY <1>1, <1>3 DEF Inv, Covered, Engine, SessionKept
<1>8. Running'
  <2>1. Owed' \/ ended' # "no"
    BY <1>1, <1>3 DEF Inv, Running, SessionKept, Owed
  <2>2. Progress' \/ ended' # "no"
    BY <1>1, <1>2, <1>3 DEF Inv, Running, SessionKept, Progress
  <2> QED
    BY <2>1, <2>2 DEF Running
<1> QED
  BY <1>4, <1>5, <1>6, <1>7, <1>8 DEF Inv

LEMMA ExitBeginStep ==
    ASSUME Inv, ExitBegin PROVE Inv'
<1>1. Types'
  <2>2. shutting' \in BOOLEAN
    BY DEF ExitBegin
  <2>3. ended' \in {"no", "exit", "crash"}
    BY DEF Inv, Types, ExitBegin
  <2>4. /\ pc' \in [Threads -> Steps] /\ cmd' \in [Threads -> AllCommands]
    BY DEF Inv, Types, ExitBegin, Steps, AllCommands
  <2> QED
    BY <2>2, <2>4 DEF Inv, Types, ExitBegin
<1>2. Locks'
  BY DEF Inv, Types, ExitBegin, Locks, Inside, Working, Teardown
<1>3. Asked'
  BY DEF Inv, Types, ExitBegin, Asked, Connecting, Command
<1>4. Covered' /\ Engine'
  BY DEF Inv, ExitBegin, Covered, Engine, Up, SafeToExit
<1>5. Running'
  <2>1. Owed' \/ ended' # "no"
    BY DEF Inv, ExitBegin, At, Running, Up, MustRestore, IsTun, Owed
  <2>2. Progress' \/ ended' # "no"
    BY DEF Inv, Types, ExitBegin, At, Running, Up, MustRestore, IsTun, Progress
  <2> QED
    BY <2>1, <2>2 DEF Running
<1> QED
  BY <1>1, <1>2, <1>3, <1>4, <1>5 DEF Inv

LEMMA ExitCheckStep ==
    ASSUME Inv, ExitCheck PROVE Inv'
<1>1. Types'
  <2>1. pc' \in [Threads -> Steps] /\ cmd' \in [Threads -> AllCommands]
    BY ReturnTypes DEF Inv, ExitCheck, Threads
  <2>2. shutting' \in BOOLEAN
    BY DEF Inv, Types, ExitCheck
  <2>3. ended' \in {"no", "exit", "crash"}
    BY DEF Inv, Types, ExitCheck
  <2> QED
    BY <2>1, <2>2 DEF Inv, Types, ExitCheck
<1>2. Locks'
  BY DEF Inv, ExitCheck, Return, Locks, Inside, Working, Teardown, StFree
<1>3. Asked'
  BY DEF Inv, ExitCheck, At, Return, Asked, Connecting
<1>4. Covered' /\ Engine'
  BY DEF Inv, ExitCheck, Covered, Engine, Up, SafeToExit
<1>5. Running'
  <2>1. Owed' \/ ended' # "no"
    BY DEF Inv, ExitCheck, Running, Up, MustRestore, IsTun, Owed
  <2>2. Progress' \/ ended' # "no"
    BY DEF Inv, ExitCheck, Return, Running, Up, MustRestore, IsTun, Progress
  <2> QED
    BY <2>1, <2>2 DEF Running
<1> QED
  BY <1>1, <1>2, <1>3, <1>4, <1>5 DEF Inv

LEMMA InvokeStep ==
    ASSUME NEW t \in Threads, Inv, Invoke(t) PROVE Inv'
<1>a. PICK c \in Commands :
       cmd' = [cmd EXCEPT ![t] = c] /\ pc' = [pc EXCEPT ![t] = FirstStep(c)]
  BY DEF Invoke
<1>b. /\ c \in AllCommands
      /\ c.op \in {"start", "stop", "retry", "clear", "update", "switch"}
      /\ c.op = "start" => c \in ConnectCommands
      /\ c.op = "switch" => c \in [op : {"switch"}, node : Nodes]
  <2>1. CASE \E r \in Requests : c = Start(r)
    BY <2>1, RequestsAssumption DEF AllCommands, Start, ConnectCommands
  <2>2. CASE c \in [op : Uses \cap {"switch"}, node : Nodes]
    BY <2>2 DEF AllCommands
  <2>3. CASE c \in [op : Uses \ {"switch"}]
    BY <2>3, UsesAssumption DEF AllCommands
  <2> QED
    BY <2>1, <2>2, <2>3 DEF Commands
<1>c. /\ FirstStep(c) \in {"start", "stop.cancel", "retry", "clear", "update", "switch"}
      /\ (FirstStep(c) = "start" => c.op = "start") /\ (FirstStep(c) = "switch" => c.op = "switch")
      /\ (FirstStep(c) = "stop.cancel" => c.op = "stop")
  BY <1>b DEF FirstStep
<1>1. Types'
  <2>2. pc' \in [Threads -> Steps] /\ cmd' \in [Threads -> AllCommands]
    BY <1>a, <1>b, <1>c DEF Inv, Types, Steps
  <2> QED
    BY <2>2 DEF Inv, Types, Invoke
<1>2. Locks'
  BY <1>a, <1>c DEF Inv, Invoke, At, Locks, Inside, Working, Teardown
<1>3. Asked'
  BY <1>a, <1>b, <1>c DEF Inv, Types, Asked, Connecting
<1>4. Covered' /\ Engine'
  BY DEF Inv, Invoke, Covered, Engine, Up
<1>5. Running'
  <2>1. Owed' \/ ended' # "no"
    BY DEF Inv, Invoke, Running, Up, MustRestore, IsTun, Owed
  <2>2. Progress' \/ ended' # "no"
    BY <1>a, <1>c DEF Inv, Invoke, Running, Up, MustRestore, IsTun, Progress
  <2> QED
    BY <2>1, <2>2 DEF Running
<1> QED
  BY <1>1, <1>2, <1>3, <1>4, <1>5 DEF Inv

\* The monitor ends a session whose engine or helper is gone.
LEMMA LossStep ==
    ASSUME Inv, NEW e \in {"process", "other"}, HandleRuntimeLoss(e), Up, st = "free", ended = "no",
           pc["monitor"] \in {"idle", "probing", "warming"},
           active' \in {NoSession} \cup Sessions, SessionKept, probe' \in {NoProbe} \cup Probes,
           UNCHANGED <<windows, core, ended, recovery, shutting, op>>
    PROVE  Inv'
<1>1. "monitor" \in Threads
  BY DEF Threads
<1>2. /\ job' \in [failure : Errors, foreign : BOOLEAN]
      /\ phase' \in Phases /\ err' \in Errors
      /\ intent' \in {NoIntent} \cup Intents
  BY PausedIntentType DEF Inv, Types, HandleRuntimeLoss, NoJob, Status, Phases, Errors
<1>3. \/ UNCHANGED <<st, cmd>> /\ pc' = [pc EXCEPT !["monitor"] = "reconnect"]
      \/ /\ st' = "monitor" /\ cmd' = [cmd EXCEPT !["monitor"] = Command("loss")]
         /\ \/ MustRestore /\ pc' = [pc EXCEPT !["monitor"] = "teardown.restore"]
            \/ ~MustRestore /\ pc' = [pc EXCEPT !["monitor"] = "teardown.stop"]
  BY DEF HandleRuntimeLoss, Goto, TeardownStep
<1>4. Command("loss") \in AllCommands /\ Command("loss").op = "loss"
  BY DEF AllCommands, Command
<1>5. Types'
  BY <1>1, <1>2, <1>3, <1>4 DEF Inv, Types, Steps
<1>6. Locks'
  BY <1>3, <1>4, RenderersAssumption DEF Inv, Types, Locks, Inside, Working, Teardown, Threads
<1>7. Asked'
  BY <1>3 DEF Inv, Types, Asked, Connecting
<1>8. Covered' /\ Engine'
  BY DEF Inv, Covered, Engine, SessionKept
<1>9. Owed' /\ Progress'
  BY <1>3 DEF Inv, Types, Running, Owed, Progress, SessionKept
<1> QED
  BY <1>5, <1>6, <1>7, <1>8, <1>9 DEF Inv, Running

\* The other steps of the monitor move only its own step counter.
LEMMA QuietStep ==
    ASSUME Inv, NEW s \in {"reconnect", "probing", "warming"}, Goto("monitor", s),
           active' \in {NoSession} \cup Sessions, SessionKept, probe' \in {NoProbe} \cup Probes,
           phase' \in Phases, err' \in Errors,
           UNCHANGED <<windows, core, ended, recovery, shutting, op, intent, st, job>>
    PROVE  Inv'
<1>1. pc' \in [Threads -> Steps] /\ cmd' \in [Threads -> AllCommands]
  BY GotoTypes DEF Inv, Steps, Threads
<1>2. "monitor" \in Threads
  BY DEF Threads
<1>3. Types'
  BY <1>1 DEF Inv, Types
<1>4. Locks'
  BY DEF Inv, Goto, Locks, Inside, Working, Teardown
<1>5. Asked'
  BY DEF Inv, Goto, Asked, Connecting
<1>6. Covered' /\ Engine'
  BY DEF Inv, Covered, Engine, SessionKept
<1>7. Owed' \/ ended' # "no"
  BY DEF Inv, Running, Owed, SessionKept
<1>8. Progress' \/ ended' # "no"
  BY DEF Inv, Goto, Running, Progress, SessionKept
<1> QED
  BY <1>3, <1>4, <1>5, <1>6, <1>7, <1>8 DEF Inv, Running

\* Counting a failed probe changes nothing else of the session.
LEMMA CountedKept ==
    ASSUME active \in Sessions, active' \in {active, CountFailure(active)}
    PROVE  active' \in Sessions /\ SessionKept
<1>1. active' \in Sessions /\ active'.restore = active.restore /\ active'.mode = active.mode
  BY SessionFacts
<1> QED
  BY <1>1, KeptByFields

LEMMA MonitorTickStep ==
    ASSUME Inv, MonitorTick PROVE Inv'
<1>1. /\ pc["monitor"] = "idle" /\ ended = "no" /\ st = "free"
      /\ UNCHANGED <<windows, core, ended, recovery, shutting, op>>
  BY DEF MonitorTick, At, StFree
<1>2. CASE MonitorRests /\ UNCHANGED probe
  BY <1>1, <1>2, QuietStep, Kept DEF MonitorRests, Inv, Types
<1>3. CASE Up /\ HandleRuntimeLoss("process") /\ UNCHANGED <<active, probe>>
  BY <1>1, <1>3, LossStep, Kept DEF Inv, Types
<1>4. CASE Up /\ UNCHANGED probe /\ \E counts \in BOOLEAN : HandleCaptureLoss(counts)
  <2>1. HandleRuntimeLoss("other") /\ active' \in {active, CountFailure(active)}
    BY <1>4 DEF HandleCaptureLoss
  <2>2. active \in Sessions
    BY <1>4 DEF Inv, Types, Up
  <2> QED
    BY <1>1, <1>4, <2>1, <2>2, CountedKept, LossStep DEF Inv, Types
<1>5. CASE /\ Status("BlockedByConflict", "ownership") \/ Status("Degraded", "ownership")
           /\ Goto("monitor", "reconnect")
           /\ UNCHANGED <<active, intent, st, job, probe>>
  <2>1. phase' \in Phases /\ err' \in Errors
    BY <1>5 DEF Status, Phases, Errors
  <2> QED
    BY <1>1, <1>5, <2>1, QuietStep, Kept DEF Inv, Types
<1>6. CASE /\ Up /\ probe' = [mode |-> active.mode, gen |-> active.gen]
           /\ Goto("monitor", "probing")
           /\ UNCHANGED <<active, status, intent, st, job>>
  <2>1. probe' \in Probes
    BY <1>6 DEF Inv, Types, Up, Sessions, Probes
  <2> QED
    BY <1>1, <1>6, <2>1, QuietStep, Kept DEF Inv, Types
<1> QED
  BY <1>2, <1>3, <1>4, <1>5, <1>6 DEF MonitorTick

LEMMA MonitorProbedStep ==
    ASSUME Inv, MonitorProbed PROVE Inv'
<1>1. /\ pc["monitor"] = "probing" /\ ended = "no" /\ st = "free"
      /\ UNCHANGED <<windows, core, ended, recovery, shutting, op>>
  BY DEF MonitorProbed, At, StFree
<1>2. SameSession => Up /\ active \in Sessions
  BY DEF Inv, Types, SameSession, Up
<1>3. CASE MonitorRests /\ probe' = NoProbe
  BY <1>1, <1>3, QuietStep, Kept DEF MonitorRests, Inv, Types
<1>4. CASE SameSession /\ probe' = NoProbe /\ HandleRuntimeLoss("process") /\ UNCHANGED active
  BY <1>1, <1>2, <1>4, LossStep, Kept
<1>5. CASE SameSession /\ probe' = NoProbe /\ HandleCaptureLoss(TRUE)
  BY <1>1, <1>2, <1>5, CountedKept, LossStep DEF HandleCaptureLoss
<1>6. CASE /\ SameSession /\ active' = [active EXCEPT !.fails = 0]
           /\ Status(ReadyPhase(probe.mode), "none")
           /\ Goto("monitor", "warming")
           /\ UNCHANGED <<intent, st, job, probe>>
  <2>1. 0 \in 0..Sustained
    BY SustainedAssumption
  <2>2. active' \in Sessions /\ active'.restore = active.restore /\ active'.mode = active.mode
    BY <1>2, <1>6, <2>1 DEF Sessions
  <2>3. SessionKept
    BY <1>2, <1>6, <2>2, KeptByFields
  <2>4. phase' \in Phases /\ err' \in Errors
    BY <1>6 DEF Status, ReadyPhase, Phases, Errors
  <2> QED
    BY <1>1, <1>6, <2>2, <2>3, <2>4, QuietStep DEF Inv, Types
<1>7. CASE /\ SameSession /\ active' = CountFailure(active)
           /\ \/ Status("Degraded", "other")
              \/ UNCHANGED status
           /\ probe' = NoProbe
           /\ Goto("monitor", "reconnect")
           /\ UNCHANGED <<intent, st, job>>
  <2>1. phase' \in Phases /\ err' \in Errors
    BY <1>7 DEF Inv, Types, Status, Phases, Errors
  <2> QED
    BY <1>1, <1>2, <1>7, <2>1, CountedKept, QuietStep
<1> QED
  BY <1>3, <1>4, <1>5, <1>6, <1>7 DEF MonitorProbed

LEMMA MonitorWarmedStep ==
    ASSUME Inv, MonitorWarmed PROVE Inv'
<1>1. /\ pc["monitor"] = "warming" /\ ended = "no" /\ st = "free" /\ probe' = NoProbe
      /\ UNCHANGED <<windows, core, ended, recovery, shutting, op>>
  BY DEF MonitorWarmed, At, StFree
<1>2. CASE MonitorRests
  BY <1>1, <1>2, QuietStep, Kept DEF MonitorRests, Inv, Types
<1>3. CASE Up /\ HandleRuntimeLoss("process") /\ UNCHANGED active
  BY <1>1, <1>3, LossStep, Kept DEF Inv, Types
<1> QED
  BY <1>2, <1>3 DEF MonitorWarmed, SameSession

LEMMA ReconnectSkipStep ==
    ASSUME Inv, ReconnectSkip PROVE Inv'
<1>1. "monitor" \in Threads
  BY DEF Threads
<1>2. /\ pc' = [pc EXCEPT !["monitor"] = "idle"]
      /\ cmd' = [cmd EXCEPT !["monitor"] = Command("none")]
      /\ pc' \in [Threads -> Steps] /\ cmd' \in [Threads -> AllCommands]
  BY <1>1, ReturnTypes DEF Inv, ReconnectSkip, Return
<1>3. UNCHANGED <<windows, core, ended, active, status, control, locks, job, probe>>
  BY DEF ReconnectSkip
<1>4. SessionKept
  BY <1>3, Kept
<1>5. Types'
  BY <1>2, <1>3 DEF Inv, Types
<1>6. Locks'
  BY <1>2, <1>3 DEF Inv, Locks, Inside, Working, Teardown
<1>7. Asked'
  BY <1>2 DEF Inv, Asked, Connecting
<1>8. Covered' /\ Engine'
  BY <1>3, <1>4 DEF Inv, Covered, Engine, SessionKept
<1>9. Running'
  <2>1. Owed' \/ ended' # "no"
    BY <1>3, <1>4 DEF Inv, Running, SessionKept, Owed
  <2>2. Progress' \/ ended' # "no"
    BY <1>2, <1>3, <1>4 DEF Inv, Running, SessionKept, Progress
  <2> QED
    BY <2>1, <2>2 DEF Running
<1> QED
  BY <1>5, <1>6, <1>7, <1>8, <1>9 DEF Inv

LEMMA ReconnectStartStep ==
    ASSUME Inv, ReconnectStart PROVE Inv'
<1>1. "monitor" \in Threads
  BY DEF Threads
<1>2. /\ ReconnectCommand \in AllCommands /\ ReconnectCommand \in ConnectCommands
      /\ ReconnectCommand.op # "loss"
  <2>1. intent \in Intents
    BY DEF Inv, Types, ReconnectStart, ReconnectDue
  <2> QED
    BY <2>1 DEF ReconnectCommand, AllCommands, ConnectCommands, Intents
<1>3. /\ ended = "no" /\ st = "free" /\ op = "free" /\ op' = "monitor" /\ ~Up
      /\ cmd' = [cmd EXCEPT !["monitor"] = ReconnectCommand]
      /\ pc' = [pc EXCEPT !["monitor"] = "body"]
      /\ UNCHANGED <<registry, saved, core, ended, active, phase, err, recovery, shutting, intent, st, job, probe>>
  BY DEF ReconnectStart, At, StFree, OpFree, ReconnectDue
<1>4. SessionKept
  BY <1>3, Kept
<1>5. Types'
  BY <1>1, <1>2, <1>3 DEF Inv, Types, Steps
<1>6. Locks'
  BY <1>3, RenderersAssumption DEF Inv, Locks, Inside, Threads
<1>7. Asked'
  BY <1>2, <1>3 DEF Inv, Types, Asked
<1>8. Covered' /\ Engine'
  BY <1>3 DEF Inv, Covered, Engine
<1>9. Running'
  <2>1. Owed' \/ ended' # "no"
    BY <1>3, <1>4 DEF Inv, Running, SessionKept, Owed
  <2>2. Progress' \/ ended' # "no"
    BY <1>3, RenderersAssumption DEF Inv, Locks, Inside, Working, Threads, Progress
  <2> QED
    BY <2>1, <2>2 DEF Running
<1> QED
  BY <1>5, <1>6, <1>7, <1>8, <1>9 DEF Inv

LEMMA ReconnectStopStep ==
    ASSUME Inv, ReconnectStop PROVE Inv'
<1>1. "monitor" \in Threads
  BY DEF Threads
<1>2. /\ ReconnectCommand \in AllCommands /\ ReconnectCommand \in ConnectCommands
      /\ ReconnectCommand.op # "loss"
  <2>1. intent \in Intents
    BY DEF Inv, Types, ReconnectStop, ReconnectDue
  <2> QED
    BY <2>1 DEF ReconnectCommand, AllCommands, ConnectCommands, Intents
<1>3. /\ ended = "no" /\ st = "free" /\ op = "free" /\ op' = "monitor" /\ st' = "monitor" /\ Up
      /\ cmd' = [cmd EXCEPT !["monitor"] = ReconnectCommand]
      /\ UNCHANGED <<registry, saved, core, ended, active, recovery, shutting, intent, probe>>
  BY DEF ReconnectStop, TeardownBegin, At, StFree, OpFree, ReconnectDue
<1>4. \/ MustRestore /\ pc' = [pc EXCEPT !["monitor"] = "teardown.restore"]
      \/ ~MustRestore /\ pc' = [pc EXCEPT !["monitor"] = "teardown.stop"]
  BY DEF ReconnectStop, TeardownStep
<1>5. /\ job' \in [failure : Errors, foreign : BOOLEAN]
      /\ phase' \in Phases /\ err' \in Errors
  BY DEF ReconnectStop, TeardownBegin, NoJob, Status, Phases, Errors
<1>6. SessionKept
  BY <1>3, Kept
<1>7. Types'
  BY <1>1, <1>2, <1>3, <1>4, <1>5 DEF Inv, Types, Steps
<1>8. Locks'
  BY <1>3, <1>4, RenderersAssumption DEF Inv, Types, Locks, Threads
<1>9. Asked'
  BY <1>3, <1>4 DEF Inv, Types, Asked, Connecting
<1>10. Covered' /\ Engine'
  BY <1>3, <1>6 DEF Inv, Covered, Engine, SessionKept
<1>11. Running'
  <2>1. Owed' \/ ended' # "no"
    BY <1>3, <1>6 DEF Inv, Running, SessionKept, Owed
  <2>2. Progress' \/ ended' # "no"
    BY <1>3, <1>4, <1>6 DEF Inv, Types, Running, SessionKept, Progress
  <2> QED
    BY <2>1, <2>2 DEF Running
<1> QED
  BY <1>7, <1>8, <1>9, <1>10, <1>11 DEF Inv

LEMMA RestartCoreStep ==
    ASSUME Inv, RestartCore PROVE Inv'
<1>1. "monitor" \in Threads
  BY DEF Threads
<1>2. /\ ended = "no" /\ st = "free" /\ op = "free" /\ op' = "monitor" /\ Up /\ active \in Sessions
      /\ cmd' = cmd
      /\ UNCHANGED <<registry, saved, ended, shutting, st, job, probe>>
  BY Implied DEF Inv, Types, RestartCore, At, Goto, StFree, OpFree, ReconnectDue, Up
<1>3. /\ pc' = [pc EXCEPT !["monitor"] = "succeeded"] \/ pc' = [pc EXCEPT !["monitor"] = "failed"]
      /\ core' \in {"none", "live", "dead"}
  BY DEF Inv, Types, RestartCore, Goto
<1>4. /\ recovery' \in BOOLEAN /\ (recovery => recovery')
      /\ phase' \in Phases /\ err' \in Errors
      /\ intent' \in {NoIntent} \cup Intents
  <2>1. intent' = intent \/ intent' = PausedIntent
    BY DEF RestartCore
  <2>2. phase' \in Phases /\ err' \in Errors
    BY DEF Inv, Types, RestartCore, Status, Phases, Errors
  <2>3. recovery' \in BOOLEAN /\ (recovery => recovery')
    <3>1. recovery' = recovery \/ recovery' = TRUE
      BY DEF RestartCore
    <3> QED
      BY <3>1 DEF Inv, Types
  <2> QED
    BY <2>1, <2>2, <2>3, PausedIntentType DEF Inv, Types
<1>5. /\ active' \in Sessions /\ SessionKept
  <2>1. CASE active' = active
    BY <1>2, <2>1, Kept
  <2>2. CASE active' = [active EXCEPT !.fails = 0, !.gen = FreshGeneration]
    <3>1. 0 \in 0..Sustained /\ FreshGeneration \in Generations
      BY SustainedAssumption DEF FreshGeneration, Generations
    <3>2. active' \in Sessions /\ active'.restore = active.restore /\ active'.mode = active.mode
      BY <1>2, <2>2, <3>1 DEF Sessions
    <3> QED
      BY <1>2, <3>2, KeptByFields
  <2> QED
    BY <2>1, <2>2 DEF RestartCore
<1>6. Types'
  BY <1>1, <1>2, <1>3, <1>4, <1>5 DEF Inv, Types, Steps
<1>7. Locks'
  BY <1>2, <1>3, RenderersAssumption DEF Inv, Types, Locks, Inside, Threads
<1>8. Asked'
  BY <1>2, <1>3 DEF Inv, Types, Asked, Connecting
<1>9. Covered' /\ Engine'
  BY <1>2, <1>5 DEF Inv, Covered, Engine, SessionKept
<1>10. Running'
  <2>1. Owed' \/ ended' # "no"
    BY <1>2, <1>5 DEF Inv, Running, SessionKept, Owed
  <2>2. Progress' \/ ended' # "no"
    BY <1>2, <1>3, RenderersAssumption DEF Inv, Types, Locks, Inside, Working, Threads, Progress
  <2> QED
    BY <2>1, <2>2 DEF Running
<1> QED
  BY <1>6, <1>7, <1>8, <1>9, <1>10 DEF Inv

LEMMA ForeignWriteStep ==
    ASSUME Inv, ForeignWrite PROVE Inv'
<1>1. /\ registry' \in Registries \ {"ours"}
      /\ UNCHANGED <<saved, core, ended, active, status, control, locks, threads, job, probe>>
  BY OtherSettingsAssumption DEF ForeignWrite, Registries, Direct
<1>2. SessionKept
  BY <1>1, Kept
<1>3. Types'
  BY <1>1 DEF Inv, Types
<1>4. Locks'
  BY <1>1 DEF Inv, Locks
<1>5. Asked'
  BY <1>1 DEF Inv, Asked
<1>6. Covered' /\ Engine'
  BY <1>1, <1>2 DEF Inv, Covered, Engine, SessionKept
<1>7. Running'
  <2>1. Owed' \/ ended' # "no"
    BY <1>1, <1>2 DEF Inv, Running, SessionKept, Owed
  <2>2. Progress' \/ ended' # "no"
    BY <1>1, <1>2 DEF Inv, Running, SessionKept, Progress
  <2> QED
    BY <2>1, <2>2 DEF Running
<1> QED
  BY <1>3, <1>4, <1>5, <1>6, <1>7 DEF Inv

LEMMA CoreDiesStep ==
    ASSUME Inv, CoreDies PROVE Inv'
<1>1. /\ core = "live" /\ core' = "dead"
      /\ UNCHANGED <<windows, ended, active, status, control, locks, threads, job, probe>>
  BY DEF CoreDies
<1>2. SessionKept
  BY <1>1, Kept
<1>3. Types'
  BY <1>1 DEF Inv, Types
<1>4. Locks'
  BY <1>1 DEF Inv, Locks
<1>5. Asked'
  BY <1>1 DEF Inv, Asked
<1>6. Covered' /\ Engine'
  BY <1>1, <1>2 DEF Inv, Covered, Engine, SessionKept
<1>7. Running'
  <2>1. Owed' \/ ended' # "no"
    BY <1>1, <1>2 DEF Inv, Running, SessionKept, Owed
  <2>2. Progress' \/ ended' # "no"
    BY <1>1, <1>2 DEF Inv, Running, SessionKept, Progress
  <2> QED
    BY <2>1, <2>2 DEF Running
<1> QED
  BY <1>3, <1>4, <1>5, <1>6, <1>7 DEF Inv

LEMMA CrashStep ==
    ASSUME Inv, Crash PROVE Inv'
<1>1. PICK left \in Interrupted : registry' = left[1] /\ saved' = left[2]
  BY DEF Crash
<1>2. /\ registry' \in Registries /\ saved' \in Journals
      /\ registry' = "ours" => saved' # "none"
  <2>1. CASE left = <<registry, saved>>
    BY <1>1, <2>1 DEF Inv, Types, Covered
  <2>2. CASE \E o \in Publish(registry, saved) \cup Restore(registry, saved) :
               left = <<o.registry, o.saved>>
    BY <1>1, <2>2, PublishFacts, RestoreFacts DEF Inv, Types, Covered
  <2> QED
    BY <2>1, <2>2 DEF Interrupted
<1>3. /\ ended' = "crash" /\ core' = "none"
      /\ UNCHANGED <<active, status, control, locks, threads, job, probe>>
  BY DEF Crash
<1>4. Types'
  BY <1>2, <1>3 DEF Inv, Types
<1> QED
  BY <1>2, <1>3, <1>4 DEF Inv, Locks, Asked, Covered, Engine, Running

LEMMA BootStep ==
    ASSUME Inv, Boot PROVE Inv'
<1>1. PICK engine \in BOOLEAN, o \in Restore(registry, saved) :
         registry' = o.registry /\ saved' = o.saved /\ recovery' = (engine \/ o.result = "recovery")
  BY DEF Boot, Apply
<1>2. /\ registry' \in Registries /\ saved' \in Journals /\ recovery' \in BOOLEAN
      /\ registry' = "ours" => saved' # "none"
      /\ saved' # "none" => recovery'
  BY <1>1, RestoreFacts DEF Inv, Types, Covered
<1>3. /\ ended' = "no" /\ core' = "none" /\ active' = NoSession /\ ~Up'
      /\ shutting' = FALSE /\ intent' = NoIntent /\ op' = "free" /\ st' = "free"
      /\ pc' = [t \in Threads |-> "idle"] /\ cmd' = [t \in Threads |-> Command("none")]
      /\ job' = NoJob /\ probe' = NoProbe
  BY DEF Boot, Up
<1>4. phase' \in Phases /\ err' \in Errors
  BY DEF Boot, Status, Phases, Errors
<1>5. Command("none") \in AllCommands /\ NoJob \in [failure : Errors, foreign : BOOLEAN]
  BY DEF AllCommands, NoJob, Errors
<1>6. Types'
  BY <1>2, <1>3, <1>4, <1>5 DEF Types, Steps
<1>7. Locks' /\ Asked' /\ Covered' /\ Engine'
  BY <1>2, <1>3 DEF Locks, Asked, Covered, Engine, Inside, Working, Teardown, Connecting
<1>8. Owed' /\ Progress'
  BY <1>2, <1>3, Implied DEF Owed, Progress
<1> QED
  BY <1>6, <1>7, <1>8 DEF Inv, Running

LEMMA InitInv ==
    Init => Inv
<1> SUFFICES ASSUME Init PROVE Inv
  OBVIOUS
<1>1. Command("none") \in AllCommands /\ NoJob \in [failure : Errors, foreign : BOOLEAN]
  BY DEF AllCommands, NoJob, Errors
<1>2. Types
  BY <1>1, OtherSettingsAssumption DEF Init, Types, Registries, Journals, Phases, Errors, Steps
<1>3. Locks /\ Asked /\ Covered /\ Engine
  BY OtherSettingsAssumption DEF Init, Locks, Asked, Covered, Engine, Inside, Working, Teardown,
     Connecting, Direct
<1>4. Owed /\ Progress
  BY DEF Init, Owed, Progress, Up, IsTun
<1> QED
  BY <1>2, <1>3, <1>4 DEF Inv, Running

-----------------------------------------------------------------------------
(* The invariant and the theorems *)

LEMMA ThreadStep ==
    ASSUME Inv, NEW t \in Threads, Thread(t) PROVE Inv'
<1>1. CASE StartSteps(t)
  BY <1>1, StartEnterStep, StartBodyStep, ReverifyProxyStep, ReverifyTunStep, StartPrepareStep,
     StartLaunchStep, StartProveStep, StartPublishStep, StartConfirmStep, RollBackRestoreStep,
     RollBackStopStep, FinishStep DEF StartSteps
<1>2. CASE StopSteps(t)
  BY <1>2, StopCancelStep, StopEnterStep, TeardownRestoreStep, TeardownStopStep DEF StopSteps
<1>3. CASE OtherSteps(t)
  BY <1>3, RetryEnterStep, RetryRecoverStep, ClearStaleProxyStep, UpdateBeginStep,
     UpdateEndStep, SwitchServerStep DEF OtherSteps
<1> QED
  BY <1>1, <1>2, <1>3 DEF Thread

LEMMA StepInv ==
    Inv /\ [Next]_vars => Inv'
<1> SUFFICES ASSUME Inv, [Next]_vars PROVE Inv'
  OBVIOUS
<1>1. CASE \E t \in Renderers : Invoke(t)
  BY <1>1, InvokeStep DEF Threads
<1>2. CASE \E t \in Threads : Thread(t)
  BY <1>2, ThreadStep
<1>3. CASE Monitor
  BY <1>3, MonitorTickStep, MonitorProbedStep, MonitorWarmedStep, ReconnectSkipStep,
     ReconnectStartStep, ReconnectStopStep, RestartCoreStep DEF Monitor
<1>4. CASE ExitBegin \/ ExitCheck \/ ForeignWrite \/ CoreDies \/ Crash \/ Boot
  BY <1>4, ExitBeginStep, ExitCheckStep, ForeignWriteStep, CoreDiesStep, CrashStep, BootStep
<1>5. CASE UNCHANGED vars
  <2>1. UNCHANGED <<registry, saved, core, ended, active, phase, err, recovery, shutting, intent,
                    op, st, pc, cmd, job, probe>>
    BY <1>5 DEF vars
  <2>2. SessionKept
    BY <2>1, Kept
  <2>3. Types' /\ Locks' /\ Asked' /\ Covered' /\ Engine'
    BY <2>1, <2>2 DEF Inv, Types, Locks, Asked, Covered, Engine, SessionKept
  <2>4. Running'
    BY <2>1, <2>2 DEF Inv, Running, Owed, Progress, SessionKept
  <2> QED
    BY <2>3, <2>4 DEF Inv
<1> QED
  BY <1>1, <1>2, <1>3, <1>4, <1>5 DEF Next

\* The history variables, of which the invariant says nothing.
HistoryTypes == off \in BOOLEAN /\ conflict \in {"no", "preserved", "told"}

LEMMA StepHistory ==
    HistoryTypes /\ [Next]_vars => HistoryTypes'
<1> SUFFICES ASSUME HistoryTypes, [Next]_vars PROVE HistoryTypes'
  OBVIOUS
<1>1. CASE UNCHANGED vars
  BY <1>1 DEF vars, history, HistoryTypes
<1>2. CASE Next
  <2>1. History
    BY <1>2 DEF Next
  <2>2. off' \in BOOLEAN
    BY <2>1 DEF History, HistoryTypes
  <2>3. conflict' \in {"no", "preserved", "told"}
    BY <2>1 DEF History, HistoryTypes
  <2> QED
    BY <2>2, <2>3 DEF HistoryTypes
<1> QED
  BY <1>1, <1>2

\* Every variable stays in its domain, whatever the commands, threads, servers
\* and other programs (application.rs, struct State and its two mutexes).
THEOREM TypeCorrect == Spec => []TypeOK
<1>1. Init => HistoryTypes
  BY DEF Init, HistoryTypes
<1>2. Inv /\ HistoryTypes => TypeOK
  BY DEF Inv, Types, HistoryTypes, TypeOK
<1> QED
  BY <1>1, <1>2, InitInv, StepInv, StepHistory, PTL DEF Spec

\* A journal never loses the session or the recovery flag that must restore it:
\* no interleaving of start, rollback, teardown, recovery, reconnect, a dying
\* engine and a crash drops the obligation (system_proxy_requires_restore and
\* recovery_required in application.rs).
THEOREM JournalTheorem == Spec => []JournalHasOwner
<1>1. Inv => JournalHasOwner
  BY DEF Inv, Running, Owed, JournalHasOwner
<1> QED
  BY <1>1, InitInv, StepInv, PTL DEF Spec

\* Only the two steps that stop the child take the engine away from a RouteDeck
\* that lives on; both come after the restore.
LEMMA EngineLeaves ==
    ASSUME Inv, Next, core # "none", core' = "none", ended' = "no"
    PROVE  saved = "none"
<1>1. ended = "no"
  BY DEF Inv, Engine
<1>2. core' # core
  OBVIOUS
<1>3. \/ \E t \in Threads : RollBackStop(t) \/ TeardownStop(t)
      \/ Crash \/ Boot \/ RestartCore \/ \E t \in Threads : StartLaunch(t)
  <2>1. CASE \E t \in Renderers : Invoke(t)
    BY <2>1 DEF Invoke
  <2>2. CASE \E t \in Threads : Thread(t)
    <3>1. PICK t \in Threads : Thread(t)
      BY <2>2
    <3>2. CASE StartSteps(t)
      BY <3>2 DEF StartSteps, StartEnter, StartBody, ReverifyProxy, ReverifyTun, StartPrepare,
         StartProve, StartPublish, StartConfirm, RollBackRestore, Finish
    <3>3. CASE StopSteps(t)
      BY <3>3 DEF StopSteps, StopCancel, StopEnter, TeardownRestore
    <3>4. CASE OtherSteps(t)
      BY <3>4 DEF OtherSteps, RetryEnter, RetryRecover, ClearStaleProxy, UpdateBegin, UpdateEnd,
         SwitchServer
    <3> QED
      BY <3>1, <3>2, <3>3, <3>4 DEF Thread
  <2>3. CASE Monitor
    BY <2>3 DEF Monitor, MonitorTick, MonitorProbed, MonitorWarmed, ReconnectSkip,
       ReconnectStart, ReconnectStop
  <2>4. CASE ExitBegin \/ ExitCheck \/ ForeignWrite \/ CoreDies \/ Crash \/ Boot
    BY <2>4 DEF ExitBegin, ExitCheck, ForeignWrite, CoreDies
  <2> QED
    BY <2>1, <2>2, <2>3, <2>4 DEF Next
<1>4. CASE \E t \in Threads : RollBackStop(t)
  BY <1>4 DEF RollBackStop, At, Inv, Running, Progress
<1>5. CASE \E t \in Threads : TeardownStop(t)
  BY <1>5 DEF TeardownStop, At, Inv, Running, Progress, Owed
<1>6. CASE Crash \/ Boot
  BY <1>1, <1>6 DEF Crash, Boot
<1>7. CASE RestartCore
  BY <1>7 DEF RestartCore
<1>8. CASE \E t \in Threads : StartLaunch(t)
  BY <1>8 DEF StartLaunch
<1> QED
  BY <1>3, <1>4, <1>5, <1>6, <1>7, <1>8

\* As long as RouteDeck lives, Windows never points at an engine it has just
\* stopped (both rollbacks and stop_active_locked restore before child.stop()).
THEOREM EndpointTheorem == Spec => NoDeadEndpoint
<1>1. Inv /\ [Next]_vars =>
        [core # "none" /\ core' = "none" /\ ended' = "no" => registry # "ours"]_vars
  <2>1. ASSUME Inv, Next, core # "none", core' = "none", ended' = "no" PROVE registry # "ours"
    BY <2>1, EngineLeaves DEF Inv, Covered
  <2> QED
    BY <2>1
<1> QED
  BY <1>1, InitInv, StepInv, PTL DEF Spec, NoDeadEndpoint

-----------------------------------------------------------------------------
(* What the user sees: the status, a disconnect, an exit, a preserved setting *)

\* A session is proved or started only with a known exit server, and stays so.
Certain ==
    \A u \in Threads : pc[u] \in {"reverify", "prove", "publish", "confirm"} => ~Uncertain

\* The monitor's result is about a session like the one its generation names.
ProbeFresh ==
    /\ pc["monitor"] = "probing" => probe # NoProbe
    /\ probe # NoProbe /\ SameSession => active.mode = probe.mode /\ ~Uncertain

\* An obligation without a session has been announced.
Announced ==
    ended = "no" /\ StFree /\ ~Up /\ saved # "none" => phase = "RecoveryRequired"

Outcome == Certain /\ ProbeFresh /\ ReadyHasSession /\ Announced /\ ExitIsClean

-----------------------------------------------------------------------------
(* The status *)

\* A new generation is one that no result in progress has.
LEMMA FreshFacts ==
    ASSUME Types
    PROVE  /\ FreshGeneration \in Generations
           /\ probe # NoProbe => FreshGeneration # probe.gen
  BY DEF Types, FreshGeneration, Generations, Probes

\* Whoever makes the status green has proved, or probed, the session it belongs to.
LEMMA ReadyStep ==
    ASSUME Inv, Certain, ProbeFresh, ReadyHasSession, Next
    PROVE  ReadyHasSession'
<1> SUFFICES ASSUME ended' = "no", StFree', phase' \in Ready
             PROVE  Up' /\ phase' = ReadyPhase(active'.mode) /\ ~Uncertain'
  BY DEF ReadyHasSession
<1>0. Types /\ Locks /\ (ended = "no" => Progress)
  BY DEF Inv, Running
<1>1. ASSUME NEW t \in Renderers, Invoke(t) PROVE ReadyHasSession'
  BY <1>1 DEF Invoke, ReadyHasSession, Up, Uncertain, StFree
<1>2. ASSUME NEW t \in Threads, StartSteps(t) PROVE ReadyHasSession'
  <2>1. CASE StartEnter(t) \/ StartBody(t) \/ ReverifyProxy(t) \/ ReverifyTun(t)
    BY <1>0, <1>2, <2>1 DEF StartEnter, StartBody, ReverifyProxy, ReverifyTun, At, Status, Exact,
       ReadyHasSession, ReadyPhase, Certain, Up, Uncertain, StFree, Ready, Inv, Types
  <2>2. CASE StartPrepare(t) \/ StartLaunch(t) \/ StartPublish(t)
    BY <1>0, <2>2, RenderersAssumption DEF StartPrepare, StartLaunch, StartPublish, At, Status,
       RollBack, Locks, Inside, ReadyHasSession, StFree, Ready, Threads
  <2>3. CASE StartProve(t)
    <3>1. Up /\ active.mode \in {"proxy", "tun"} /\ ~Uncertain /\ st = t
      BY <1>0, <2>3 DEF StartProve, At, Progress, Certain, Types, Up, Sessions, Locks, Inside
    <3> QED
      BY <2>3, <3>1, RenderersAssumption DEF StartProve, At, Status, RollBack, ReadyHasSession,
         ReadyPhase, StFree, Ready, Threads, Up, Uncertain
  <2>5. CASE StartConfirm(t)
    <3>1. Up /\ active.mode = "proxy" /\ ~Uncertain /\ st = t
      <4>1. MustRestore /\ ~IsTun
        BY <1>0, <2>5 DEF StartConfirm, At, Progress, Inv, Running, Owed
      <4>2. active \in Sessions
        BY <1>0, <2>5, <4>1 DEF Types, MustRestore, Up, StartConfirm, At
      <4> QED
        BY <1>0, <2>5, <4>1, <4>2 DEF StartConfirm, At, MustRestore, IsTun, Certain, Sessions,
           Locks, Inside
    <3> QED
      BY <2>5, <3>1, RenderersAssumption DEF StartConfirm, At, Status, RollBack,
         ReadyHasSession, ReadyPhase, StFree, Ready, Threads, Up, Uncertain
  <2>4. CASE RollBackRestore(t) \/ RollBackStop(t) \/ Finish(t)
    BY <1>0, <2>4, RenderersAssumption DEF RollBackRestore, RollBackStop, Finish, At, Status,
       Release, Locks, Inside, ReadyHasSession, StFree, Ready, Threads, Up, Uncertain
  <2> QED
    BY <1>2, <2>1, <2>2, <2>3, <2>4, <2>5 DEF StartSteps
<1>3. ASSUME NEW t \in Threads, StopSteps(t) PROVE ReadyHasSession'
  <2>1. CASE StopCancel(t) \/ StopEnter(t)
    BY <1>3, <2>1 DEF StopCancel, StopEnter, At, Status, TeardownBegin, TeardownReturn,
       ReadyHasSession, Up, Uncertain, StFree, Ready
  <2>2. CASE TeardownRestore(t) \/ TeardownStop(t)
    BY <1>0, <2>2, RenderersAssumption DEF TeardownRestore, TeardownStop, At, Status, Locks,
       Inside, StFree, Threads, Ready, ReadyHasSession
  <2> QED
    BY <1>3, <2>1, <2>2 DEF StopSteps
<1>4. ASSUME NEW t \in Threads, OtherSteps(t) PROVE ReadyHasSession'
  <2>1. CASE RetryEnter(t) \/ RetryRecover(t) \/ ClearStaleProxy(t) \/ UpdateBegin(t)
               \/ UpdateEnd(t)
    BY <1>4, <2>1 DEF RetryEnter, RetryRecover, ClearStaleProxy, UpdateBegin, UpdateEnd, At,
       Status, TeardownBegin, ReadyHasSession, Up, Uncertain, StFree, Ready
  <2>2. CASE SwitchServer(t)
    <3>1. CASE UNCHANGED <<active, status>>
      BY <2>2, <3>1 DEF SwitchServer, ReadyHasSession, Up, Uncertain, StFree
    <3>2. CASE ~UNCHANGED <<active, status>>
      <4>1. active \in Sessions /\ active.mode = "tun" /\ ~active.uncertain
        BY <1>0, <2>2, <3>2 DEF SwitchServer, CanSwitch, At, IsTun, Uncertain, Up, Types
      <4>2. active' # NoSession /\ active'.mode = "tun"
        BY <2>2, <3>2, <4>1 DEF SwitchServer, Switched, Sessions, NoSession
      <4>3. CASE Status("Degraded", err')
        BY <4>3 DEF Status, Ready
      <4>4. CASE active'.uncertain = active.uncertain
                 /\ (Status("TunReady", "none") \/ UNCHANGED status)
        BY <2>2, <4>1, <4>2, <4>4 DEF SwitchServer, At, Status, Ready, ReadyPhase,
           ReadyHasSession, Up, Uncertain
      <4>5. \/ Status("Degraded", err')
            \/ active'.uncertain = active.uncertain
                 /\ (Status("TunReady", "none") \/ UNCHANGED status)
        BY <2>2, <3>2, <4>1 DEF SwitchServer, Switched, Sessions, Status
      <4> QED
        BY <4>3, <4>4, <4>5
    <3> QED
      BY <3>1, <3>2
  <2> QED
    BY <1>4, <2>1, <2>2 DEF OtherSteps
<1>5. CASE Monitor
  <2>0. ASSUME NEW e, HandleRuntimeLoss(e) PROVE phase' \notin Ready
    BY <2>0 DEF HandleRuntimeLoss, Status, Ready
  <2>1. CASE MonitorTick
    BY <2>0, <2>1 DEF MonitorTick, MonitorRests, HandleCaptureLoss, Status, ReadyHasSession,
       Up, Uncertain, StFree, Ready
  <2>2. CASE MonitorProbed
    <3>1. CASE phase' = ReadyPhase(probe.mode) /\ active' = [active EXCEPT !.fails = 0]
               /\ SameSession /\ probe # NoProbe
      <4>1. active \in Sessions /\ active.mode = probe.mode /\ ~active.uncertain
        BY <1>0, <3>1 DEF SameSession, ProbeFresh, Up, Uncertain, Types
      <4>2. active' # NoSession /\ active'.mode = active.mode
            /\ active'.uncertain = active.uncertain
        BY <3>1, <4>1 DEF Sessions, NoSession
      <4> QED
        BY <3>1, <4>1, <4>2 DEF Up, Uncertain
    <3>2. CASE SameSession /\ phase' = phase /\ active' = CountFailure(active)
      <4>1. active \in Sessions
        BY <1>0, <3>2 DEF SameSession, Up, Types
      <4>2. active' # NoSession /\ active'.mode = active.mode
            /\ active'.uncertain = active.uncertain
        BY <3>2, <4>1 DEF CountFailure, Sessions, NoSession
      <4> QED
        BY <2>2, <3>2, <4>2 DEF MonitorProbed, ReadyHasSession, Up, Uncertain
    <3>3. CASE MonitorRests \/ \E e : HandleRuntimeLoss(e)
      BY <2>0, <2>2, <3>3 DEF MonitorProbed, MonitorRests, ReadyHasSession, Up, Uncertain, StFree
    <3>4. CASE phase' = "Degraded"
      BY <3>4 DEF Ready
    <3> QED
      BY <2>2, <3>1, <3>2, <3>3, <3>4 DEF MonitorProbed, HandleCaptureLoss, Status, ProbeFresh,
         At
  <2>3. CASE MonitorWarmed
    BY <2>0, <2>3 DEF MonitorWarmed, MonitorRests, ReadyHasSession, Up, Uncertain, StFree
  <2>4. CASE ReconnectSkip \/ ReconnectStart \/ ReconnectStop
    BY <2>4 DEF ReconnectSkip, ReconnectStart, ReconnectStop, TeardownBegin, Status,
       ReadyHasSession, Up, Uncertain, StFree, Ready
  <2>5. CASE RestartCore
    <3>1. CASE active' = [active EXCEPT !.fails = 0, !.gen = FreshGeneration]
               /\ IsTun /\ phase' = phase
      <4>1. active \in Sessions
        BY <1>0, <3>1 DEF IsTun, Up, Types
      <4>2. active' # NoSession /\ active'.mode = active.mode
            /\ active'.uncertain = active.uncertain
        BY <3>1, <4>1 DEF Sessions, NoSession
      <4> QED
        BY <2>5, <3>1, <4>2 DEF RestartCore, ReadyHasSession, Up, Uncertain, IsTun
    <3> QED
      BY <2>5, <3>1 DEF RestartCore, Status, ReadyHasSession, Up, Uncertain, StFree, Ready
  <2> QED
    BY <1>5, <2>1, <2>2, <2>3, <2>4, <2>5 DEF Monitor
<1>6. CASE ExitBegin \/ ExitCheck \/ ForeignWrite \/ CoreDies \/ Crash \/ Boot
  BY <1>6 DEF ExitBegin, ExitCheck, ForeignWrite, CoreDies, Crash, Boot, At, Status,
     ReadyHasSession, Up, Uncertain, StFree, Ready
<1>7. CASE \E t \in Threads : Thread(t)
  BY <1>2, <1>3, <1>4, <1>7 DEF Thread, ReadyHasSession
<1> QED
  BY <1>1, <1>5, <1>6, <1>7 DEF Next, ReadyHasSession

\* How the session changes in a step that neither starts one nor switches.
LEMMA ActiveChanges ==
    ASSUME Inv, Next
    PROVE  \/ active' \in {active, NoSession}
           \/ Up /\ Up' /\ active'.mode = active.mode /\ active'.uncertain = active.uncertain
                /\ (active'.gen = active.gen \/ active'.gen = FreshGeneration)
           \/ \E t \in Threads : StartLaunch(t) \/ SwitchServer(t)
<1>1. CASE \E t \in Renderers : Invoke(t)
  BY <1>1 DEF Invoke
<1>2. ASSUME NEW f, active \in Sessions, active' = [active EXCEPT !.fails = f]
      PROVE  /\ Up /\ Up' /\ active'.mode = active.mode
             /\ active'.uncertain = active.uncertain /\ active'.gen = active.gen
  BY <1>2 DEF Sessions, Up, NoSession
<1>3. ASSUME NEW b \in BOOLEAN, active \in Sessions, active' = [active EXCEPT !.restore = b]
      PROVE  /\ Up /\ Up' /\ active'.mode = active.mode
             /\ active'.uncertain = active.uncertain /\ active'.gen = active.gen
  BY <1>3 DEF Sessions, Up, NoSession
<1>4. ASSUME NEW t \in Threads, Thread(t), active' # active, active' # NoSession
      PROVE  \/ \E b \in BOOLEAN : active' = [active EXCEPT !.restore = b] /\ active \in Sessions
             \/ StartLaunch(t) \/ SwitchServer(t)
  <2>1. CASE StartSteps(t)
    <3>1. CASE StartPublish(t)
      <4>1. active \in Sessions
        BY <3>1 DEF Inv, Types, Running, Progress, StartPublish, At, Up
      <4> QED
        BY <3>1, <4>1 DEF StartPublish, ObligesToRestore
    <3>2. CASE RollBackRestore(t)
      <4>1. active \in Sessions
        BY <3>2 DEF Inv, Types, Running, Progress, RollBackRestore, At, Up, MustRestore
      <4> QED
        BY <1>4, <3>2, <4>1 DEF RollBackRestore
    <3> QED
      BY <1>4, <2>1, <3>1, <3>2 DEF StartSteps, StartEnter, StartBody, ReverifyProxy, ReverifyTun,
         StartPrepare, StartProve, StartConfirm, RollBackStop, Finish
  <2>2. CASE StopSteps(t)
    <3>1. CASE TeardownRestore(t)
      <4>1. active \in Sessions
        BY <3>1 DEF Inv, Types, Running, Progress, TeardownRestore, At, Up, MustRestore
      <4> QED
        BY <1>4, <3>1, <4>1 DEF TeardownRestore
    <3> QED
      BY <1>4, <2>2, <3>1 DEF StopSteps, StopCancel, StopEnter, TeardownStop
  <2>3. CASE OtherSteps(t)
    BY <1>4, <2>3 DEF OtherSteps, RetryEnter, RetryRecover, ClearStaleProxy, UpdateBegin,
       UpdateEnd
  <2> QED
    BY <1>4, <2>1, <2>2, <2>3 DEF Thread
<1>5. CASE Monitor
  <2>1. ASSUME active \in Sessions, active' = CountFailure(active)
        PROVE  active' = active \/ \E f : active' = [active EXCEPT !.fails = f]
    BY <2>1 DEF CountFailure
  <2>2. Up => active \in Sessions
    BY DEF Inv, Types, Up
  <2>3. CASE MonitorTick
    BY <1>2, <2>1, <2>2, <2>3 DEF MonitorTick, HandleCaptureLoss, MonitorRests
  <2>4. CASE MonitorProbed
    BY <1>2, <2>1, <2>2, <2>4 DEF MonitorProbed, HandleCaptureLoss, MonitorRests, SameSession
  <2>5. CASE RestartCore
    <3>1. active \in Sessions
      BY <2>2, <2>5 DEF RestartCore, IsTun
    <3> QED
      BY <2>5, <3>1 DEF RestartCore, Sessions, Up, NoSession
  <2> QED
    BY <1>5, <2>3, <2>4, <2>5 DEF Monitor, MonitorWarmed, MonitorRests, ReconnectSkip,
       ReconnectStart, ReconnectStop
<1>6. CASE ExitBegin \/ ExitCheck \/ ForeignWrite \/ CoreDies \/ Crash \/ Boot
  BY <1>6 DEF ExitBegin, ExitCheck, ForeignWrite, CoreDies, Crash, Boot
<1>7. CASE \E t \in Threads : Thread(t)
  BY <1>3, <1>4, <1>7
<1> QED
  BY <1>1, <1>5, <1>6, <1>7 DEF Next

\* A thread's step leaves the others alone.
LEMMA ThreadMoves ==
    ASSUME Inv, NEW t \in Threads, Thread(t), NEW u \in Threads, u # t
    PROVE  pc'[u] = pc[u] /\ cmd'[u] = cmd[u]
<1>1. Types
  BY DEF Inv
<1>2. ASSUME NEW s, Goto(t, s) PROVE pc'[u] = pc[u] /\ cmd'[u] = cmd[u]
  BY <1>1, <1>2 DEF Goto, Types
<1>3. ASSUME Return(t) PROVE pc'[u] = pc[u] /\ cmd'[u] = cmd[u]
  BY <1>1, <1>3 DEF Return, Types
<1>4. ASSUME NEW ok, TeardownReturn(t, ok) PROVE pc'[u] = pc[u] /\ cmd'[u] = cmd[u]
  BY <1>2, <1>3, <1>4 DEF TeardownReturn
<1>5. CASE StartSteps(t)
  BY <1>2, <1>3, <1>5 DEF StartSteps, StartEnter, StartBody, ReverifyProxy, ReverifyTun,
     StartPrepare, StartLaunch, StartProve, StartPublish, StartConfirm, RollBack, RollBackRestore,
     RollBackStop, Release, Finish
<1>6. CASE StopSteps(t)
  BY <1>2, <1>4, <1>6 DEF StopSteps, StopCancel, StopEnter, TeardownRestore, TeardownStop
<1>7. CASE OtherSteps(t)
  BY <1>2, <1>3, <1>7 DEF OtherSteps, RetryEnter, RetryRecover, ClearStaleProxy, UpdateBegin,
     UpdateEnd, SwitchServer
<1> QED
  BY <1>5, <1>6, <1>7 DEF Thread

\* A thread takes `operation` for itself, and ends its command or goes on with it.
LEMMA ThreadKeeps ==
    ASSUME Inv, NEW t \in Threads, Thread(t)
    PROVE  op' \in {op, t, "free"} /\ cmd'[t] \in {cmd[t], Command("none")}
<1>1. Types
  BY DEF Inv
<1>2. ASSUME NEW s, Goto(t, s) PROVE cmd'[t] = cmd[t]
  BY <1>2 DEF Goto
<1>3. ASSUME Return(t) PROVE cmd'[t] = Command("none")
  BY <1>1, <1>3 DEF Return, Types
<1>4. ASSUME NEW ok, TeardownReturn(t, ok)
      PROVE  op' \in {op, "free"} /\ cmd'[t] \in {cmd[t], Command("none")}
  BY <1>2, <1>3, <1>4 DEF TeardownReturn
<1>5. CASE StartSteps(t)
  BY <1>2, <1>3, <1>5 DEF StartSteps, StartEnter, StartBody, ReverifyProxy, ReverifyTun,
     StartPrepare, StartLaunch, StartProve, StartPublish, StartConfirm, RollBack, RollBackRestore,
     RollBackStop, Release, Finish
<1>6. CASE StopSteps(t)
  BY <1>2, <1>4, <1>6 DEF StopSteps, StopCancel, StopEnter, TeardownRestore, TeardownStop
<1>7. CASE OtherSteps(t)
  BY <1>2, <1>3, <1>7 DEF OtherSteps, RetryEnter, RetryRecover, ClearStaleProxy, UpdateBegin,
     UpdateEnd, SwitchServer
<1> QED
  BY <1>5, <1>6, <1>7 DEF Thread

\* Who takes a thread to another step of its command.
LEMMA Moves ==
    ASSUME Inv, Next, NEW u \in Threads, pc'[u] # pc[u], pc'[u] # "idle"
    PROVE  \/ u \in Renderers /\ Invoke(u)
           \/ Thread(u)
           \/ u = "monitor" /\ Monitor
           \/ u = "exit" /\ ExitBegin
<1>1. Types
  BY DEF Inv
<1>2. ASSUME NEW t \in Threads, NEW s, Goto(t, s) PROVE t = u
  BY <1>1, <1>2 DEF Goto, Types
<1>3. ASSUME NEW t \in Threads, Return(t) PROVE t = u
  BY <1>1, <1>3 DEF Return, Types
<1>5. ASSUME NEW t \in Threads, Thread(t) PROVE t = u
  BY <1>5, ThreadMoves
<1>6. CASE Monitor
  <2>1. "monitor" \in Threads
    BY DEF Threads
  <2> QED
    BY <1>1, <1>2, <1>3, <1>6, <2>1 DEF Monitor, MonitorTick, MonitorProbed, MonitorWarmed,
       MonitorRests, HandleCaptureLoss, HandleRuntimeLoss, ReconnectSkip, ReconnectStart,
       ReconnectStop, RestartCore, Types
<1>7. CASE ExitBegin \/ ExitCheck
  <2>1. "exit" \in Threads
    BY DEF Threads
  <2> QED
    BY <1>1, <1>3, <1>7, <2>1 DEF ExitBegin, ExitCheck, Return, Types
<1>8. CASE \E t \in Renderers : Invoke(t)
  BY <1>1, <1>8 DEF Invoke, Types, Threads
<1>9. CASE ForeignWrite \/ CoreDies \/ Crash \/ Boot
  BY <1>9 DEF ForeignWrite, CoreDies, Crash, Boot
<1> QED
  BY <1>5, <1>6, <1>7, <1>8, <1>9 DEF Next

\* How a thread gets on the way to a connection: a user's start, or one step after
\* another from there.
LEMMA Connects ==
    ASSUME Inv, Next, NEW u \in Threads, pc'[u] # pc[u], pc'[u] \in Connecting
    PROVE  \/ pc'[u] = "start" /\ u \in Renderers /\ Invoke(u)
           \/ /\ pc'[u] = "body"
              /\ \/ StartEnter(u)
                 \/ pc[u] \in Teardown /\ cmd[u].op = "reconnect"
                 \/ u = "monitor" /\ ReconnectStart
           \/ pc'[u] \in {"reverify", "prepare"} /\ StartBody(u)
           \/ pc'[u] = "launch" /\ StartPrepare(u)
           \/ pc'[u] = "prove" /\ StartLaunch(u)
           \/ pc'[u] = "publish" /\ StartProve(u)
           \/ pc'[u] = "confirm" /\ StartPublish(u)
<1>1. Types /\ pc'[u] # "idle"
  BY DEF Inv, Connecting
<1>2. CASE StartSteps(u)
  <2>1. CASE StartEnter(u) \/ StartBody(u) \/ StartPrepare(u)
    BY <1>1, <2>1 DEF StartEnter, StartBody, StartPrepare, RollBack, Goto, Return, Types, Connecting
  <2>2. CASE StartLaunch(u) \/ StartProve(u) \/ StartPublish(u)
    BY <1>1, <2>2 DEF StartLaunch, StartProve, StartPublish, RollBack, Goto, Types, Connecting
  <2>3. CASE ReverifyProxy(u) \/ ReverifyTun(u) \/ StartConfirm(u)
    BY <1>1, <2>3 DEF ReverifyProxy, ReverifyTun, StartConfirm, RollBack, Goto, Types, Connecting
  <2>4. CASE RollBackRestore(u) \/ RollBackStop(u) \/ Finish(u)
    BY <1>1, <2>4 DEF RollBackRestore, RollBackStop, Release, Finish, Goto, Return, Types,
       Connecting
  <2> QED
    BY <1>2, <2>1, <2>2, <2>3, <2>4 DEF StartSteps
<1>3. CASE StopSteps(u)
  <2>1. CASE StopCancel(u) \/ StopEnter(u)
    BY <1>1, <2>1 DEF StopCancel, StopEnter, TeardownStep, TeardownReturn, Goto, Return, Types,
       Connecting, Inv, Asked, At
  <2>2. CASE TeardownRestore(u) \/ TeardownStop(u)
    BY <1>1, <2>2 DEF TeardownRestore, TeardownStop, TeardownReturn, Goto, Return, Types,
       Connecting, Teardown, At
  <2> QED
    BY <1>3, <2>1, <2>2 DEF StopSteps
<1>4. CASE OtherSteps(u)
  BY <1>1, <1>4 DEF OtherSteps, RetryEnter, RetryRecover, ClearStaleProxy, UpdateBegin,
     UpdateEnd, SwitchServer, TeardownStep, Goto, Return, Types, Connecting
<1>5. CASE u = "monitor" /\ Monitor
  BY <1>1, <1>5 DEF Monitor, MonitorTick, MonitorProbed, MonitorWarmed, MonitorRests,
     HandleCaptureLoss, HandleRuntimeLoss, ReconnectSkip, ReconnectStop, RestartCore,
     TeardownStep, Goto, Return, Types, Connecting, ReconnectStart
<1>6. CASE u = "exit" /\ ExitBegin
  BY <1>1, <1>6 DEF ExitBegin, Types, Connecting
<1>7. CASE u \in Renderers /\ Invoke(u)
  <2>1. ASSUME NEW c \in Commands PROVE FirstStep(c) \in Connecting => FirstStep(c) = "start"
    BY UsesAssumption DEF Commands, Start, FirstStep, Connecting
  <2> QED
    BY <1>1, <1>7, <2>1 DEF Invoke, Types
<1> QED
  BY <1>1, <1>2, <1>3, <1>4, <1>5, <1>6, <1>7, Moves DEF Thread

\* A session gets its exit server when it is proved.
LEMMA CertainStep ==
    ASSUME Inv, Certain, Next
    PROVE  Certain'
<1> DEFINE Proved == {"reverify", "prove", "publish", "confirm"}
<1> SUFFICES ASSUME NEW u \in Threads, pc'[u] \in Proved PROVE ~Uncertain'
  BY DEF Certain
<1>1. CASE \E t \in Threads : StartLaunch(t)
  BY <1>1 DEF StartLaunch, RollBack, Goto, Status, At, Inv, Types, Certain, Uncertain, Up
<1>2. CASE pc[u] \in Proved
  <2>1. ~Uncertain /\ op # "free"
    BY <1>2, RenderersAssumption DEF Certain, Inv, Locks, Working, Threads
  <2>2. ~\E t \in Threads : SwitchServer(t)
    BY <2>1 DEF SwitchServer, OpFree
  <2> QED
    BY <1>1, <2>1, <2>2, ActiveChanges DEF Uncertain, Up
<1>3. CASE pc[u] \notin Proved
  <2>1. StartLaunch(u) \/ (StartBody(u) /\ pc'[u] = "reverify")
    BY <1>3, Connects DEF Connecting, StartProve, StartPublish, At
  <2>2. StartBody(u) /\ pc'[u] = "reverify" => ~Uncertain /\ active' = active
    BY DEF StartBody, Goto, Inv, Types
  <2> QED
    BY <1>1, <2>1, <2>2 DEF Uncertain, Up
<1> QED
  BY <1>2, <1>3

\* Only the monitor probes, and only a user begins a start.
LEMMA NotByThread ==
    ASSUME Inv, NEW u \in Threads, Thread(u), pc'[u] \in {"probing", "start"}
    PROVE  pc'[u] = pc[u]
<1>1. Types
  BY DEF Inv
<1>2. CASE StartSteps(u)
  <2>1. CASE StartEnter(u) \/ StartBody(u) \/ StartPrepare(u)
    BY <1>1, <1>2, <2>1 DEF StartEnter, StartBody, StartPrepare, RollBack, Goto, Return, Types
  <2>2. CASE StartLaunch(u) \/ StartProve(u) \/ StartPublish(u)
    BY <1>1, <1>2, <2>2 DEF StartLaunch, StartProve, StartPublish, RollBack, Goto, Types
  <2>3. CASE ReverifyProxy(u) \/ ReverifyTun(u) \/ StartConfirm(u)
    BY <1>1, <1>2, <2>3 DEF ReverifyProxy, ReverifyTun, StartConfirm, RollBack, Goto, Types
  <2>4. CASE RollBackRestore(u) \/ RollBackStop(u) \/ Finish(u)
    BY <1>1, <1>2, <2>4 DEF RollBackRestore, RollBackStop, Release, Finish, Goto, Return, Types
  <2> QED
    BY <1>2, <2>1, <2>2, <2>3, <2>4 DEF StartSteps
<1>3. CASE StopSteps(u)
  BY <1>1, <1>3 DEF StopSteps, StopCancel, StopEnter, TeardownRestore, TeardownStop, TeardownStep,
     TeardownReturn, Goto, Return, Types
<1>4. CASE OtherSteps(u)
  BY <1>1, <1>4 DEF OtherSteps, RetryEnter, RetryRecover, ClearStaleProxy, UpdateBegin,
     UpdateEnd, SwitchServer, TeardownStep, Goto, Return, Types
<1> QED
  BY <1>2, <1>3, <1>4 DEF Thread

\* The monitor begins a probe for the session there is, and ends it by forgetting it.
LEMMA ProbeChanges ==
    ASSUME Inv, Next
    PROVE  \/ probe' = probe /\ (pc'["monitor"] = "probing" => pc["monitor"] = "probing")
           \/ probe' = NoProbe /\ pc'["monitor"] # "probing"
           \/ /\ Up /\ ~Uncertain /\ active' = active
              /\ probe' = [mode |-> active.mode, gen |-> active.gen]
<1>1. Types /\ "monitor" \in Threads
  BY DEF Inv, Threads
<1>2. CASE Monitor
  BY <1>1, <1>2 DEF Monitor, MonitorTick, MonitorProbed, MonitorWarmed, MonitorRests,
     HandleCaptureLoss, HandleRuntimeLoss, TeardownStep, ReconnectSkip, ReconnectStart,
     ReconnectStop, RestartCore, Goto, Return, Types
<1>3. CASE Boot
  BY <1>1, <1>3 DEF Boot
<1>4. CASE \E t \in Threads : Thread(t)
  <2>1. probe' = probe
    BY <1>4, ZenonT(60) DEF Thread, StartSteps, StartEnter, StartBody, ReverifyProxy, ReverifyTun, StartPrepare,
       StartLaunch, StartProve, StartPublish, StartConfirm, RollBackRestore, RollBackStop, Finish,
       StopSteps, StopCancel, StopEnter, TeardownRestore, TeardownStop, OtherSteps, RetryEnter,
       RetryRecover, ClearStaleProxy, UpdateBegin, UpdateEnd, SwitchServer
  <2>2. pc'["monitor"] = "probing" => pc["monitor"] = "probing"
    BY <1>1, <1>4, ThreadMoves, NotByThread
  <2> QED
    BY <2>1, <2>2
<1>5. CASE ExitBegin \/ ExitCheck \/ ForeignWrite \/ CoreDies \/ Crash
  BY <1>1, <1>5 DEF ExitBegin, ExitCheck, ForeignWrite, CoreDies, Crash, Return, Types
<1>6. CASE \E t \in Renderers : Invoke(t)
  BY <1>1, <1>6, RenderersAssumption DEF Invoke, Types
<1> QED
  BY <1>2, <1>3, <1>4, <1>5, <1>6 DEF Next

\* Whatever changes the session also changes its generation.
LEMMA ProbeStep ==
    ASSUME Inv, ProbeFresh, Next
    PROVE  ProbeFresh'
<1>1. pc'["monitor"] = "probing" => probe' # NoProbe
  BY ProbeChanges DEF ProbeFresh, NoProbe
<1>2. ASSUME probe' # NoProbe, SameSession'
      PROVE  active'.mode = probe'.mode /\ ~Uncertain'
  <2>1. CASE probe' = [mode |-> active.mode, gen |-> active.gen] /\ active' = active /\ ~Uncertain
    BY <1>2, <2>1 DEF Uncertain, Up, SameSession
  <2>2. CASE probe' = probe
    <3>1. FreshGeneration # probe.gen
      BY <1>2, <2>2, FreshFacts DEF Inv
    <3>2. ASSUME NEW t \in Threads, StartLaunch(t) PROVE active' = active \/ active'.gen = FreshGeneration
      BY <3>2 DEF StartLaunch
    <3>3. ASSUME NEW t \in Threads, SwitchServer(t) PROVE active' = active \/ active'.gen = FreshGeneration
      BY <3>3 DEF SwitchServer, CanSwitch, IsTun, Up, Inv, Types, Switched, Sessions
    <3>4. active'.gen # FreshGeneration
      BY <1>2, <2>2, <3>1 DEF SameSession
    <3>5. \/ active' = active
          \/ Up /\ active'.mode = active.mode /\ active'.uncertain = active.uncertain
               /\ active'.gen = active.gen
      BY <1>2, <3>2, <3>3, <3>4, ActiveChanges DEF SameSession, Up
    <3> QED
      BY <1>2, <2>2, <3>5 DEF ProbeFresh, SameSession, Uncertain, Up
  <2> QED
    BY <1>2, <2>1, <2>2, ProbeChanges
<1> QED
  BY <1>1, <1>2 DEF ProbeFresh

\* Who leaves an obligation without a session also says so in the status.
LEMMA AnnouncedStep ==
    ASSUME Inv, Announced, Next
    PROVE  Announced'
<1> SUFFICES ASSUME ended' = "no", StFree', ~Up', saved' # "none"
             PROVE  phase' = "RecoveryRequired"
  BY DEF Announced
<1>1. Types /\ Locks /\ (ended = "no" => Progress /\ Owed)
  BY DEF Inv, Running
<1>2. ASSUME NEW t \in Threads, pc[t] \in Inside PROVE st = t /\ t # "free"
  BY <1>1, <1>2, RenderersAssumption DEF Locks, Threads
<1>3. ASSUME NEW t \in Threads, StartSteps(t) PROVE phase' = "RecoveryRequired"
  <2>1. CASE StartEnter(t) \/ StartBody(t) \/ ReverifyProxy(t) \/ ReverifyTun(t)
    BY <2>1, RenderersAssumption DEF StartEnter, StartBody, ReverifyProxy, ReverifyTun, At,
       Exact, Announced, Up, StFree, Threads
  <2>2. CASE StartPrepare(t) \/ StartLaunch(t) \/ StartPublish(t)
    BY <1>2, <2>2 DEF StartPrepare, StartLaunch, StartPublish, At, RollBack, Inside, StFree
  <2>3. CASE StartProve(t) \/ StartConfirm(t)
    BY <1>1, <1>2, <2>3 DEF StartProve, StartConfirm, At, RollBack, Inside, StFree, Progress,
       MustRestore, Up
  <2>4. CASE RollBackRestore(t) \/ RollBackStop(t)
    BY <1>1, <1>2, <2>4 DEF RollBackRestore, RollBackStop, At, Inside, StFree, Progress,
       MustRestore, Up, Status
  <2>5. CASE Finish(t)
    BY <2>5 DEF Finish, Announced, Up, StFree
  <2> QED
    BY <1>3, <2>1, <2>2, <2>3, <2>4, <2>5 DEF StartSteps
<1>4. ASSUME NEW t \in Threads, StopSteps(t) PROVE phase' = "RecoveryRequired"
  <2>1. CASE StopCancel(t) \/ StopEnter(t)
    BY <1>1, <2>1 DEF StopCancel, StopEnter, TeardownBegin, At, Announced, Up, StFree, Owed,
       MustRestore
  <2>2. CASE TeardownRestore(t) \/ TeardownStop(t)
    BY <1>1, <1>2, <2>2 DEF TeardownRestore, TeardownStop, At, Inside, Teardown, StFree, Progress,
       Owed, MustRestore, Up, Status
  <2> QED
    BY <1>4, <2>1, <2>2 DEF StopSteps
<1>5. ASSUME NEW t \in Threads, OtherSteps(t) PROVE phase' = "RecoveryRequired"
  <2>1. CASE RetryRecover(t)
    <3>1. saved # "none"
      BY <1>1, <2>1, RestoreFacts DEF RetryRecover, Apply, Inv, Covered, Types
    <3> QED
      BY <1>1, <2>1, <3>1, RestoreFacts DEF RetryRecover, Apply, Status, Inv, Covered, Types
  <2>2. CASE SwitchServer(t)
    <3>1. Up => Up'
      BY <1>1, <2>2 DEF SwitchServer, Switched, Types, Sessions, NoSession, Up
    <3> QED
      BY <2>2, <3>1 DEF SwitchServer, CanSwitch, IsTun, At, Announced, StFree
  <2> QED
    BY <1>5, <2>1, <2>2 DEF OtherSteps, RetryEnter, ClearStaleProxy, UpdateBegin, UpdateEnd,
       TeardownBegin, At, Announced, Up, StFree
<1>6. CASE Monitor
  <2>1. Up => Up'
    <3>1. Up => active \in Sessions
      BY <1>1 DEF Up, Types
    <3>2. active \in Sessions => \A f : [active EXCEPT !.fails = f] # NoSession
      BY DEF Sessions, NoSession
    <3>3. active \in Sessions => CountFailure(active) # NoSession
      BY SessionFacts
    <3>4. CASE MonitorTick \/ MonitorProbed
      BY <3>1, <3>2, <3>3, <3>4 DEF MonitorTick, MonitorProbed, MonitorRests, HandleCaptureLoss, Up
    <3>5. CASE RestartCore
      BY <3>1, <3>5 DEF RestartCore, Sessions, NoSession, Up
    <3> QED
      BY <1>6, <3>4, <3>5 DEF Monitor, MonitorWarmed, MonitorRests, ReconnectSkip,
         ReconnectStart, ReconnectStop, Up
  <2>2. CASE MonitorTick \/ MonitorProbed \/ MonitorWarmed
    BY <2>1, <2>2 DEF MonitorTick, MonitorProbed, MonitorWarmed, MonitorRests, SameSession, At,
       Announced, StFree
  <2>3. CASE ReconnectSkip \/ ReconnectStart \/ ReconnectStop \/ RestartCore
    BY <2>1, <2>3 DEF ReconnectSkip, ReconnectStart, ReconnectStop, RestartCore, IsTun, At,
       Announced, StFree
  <2> QED
    BY <1>6, <2>2, <2>3 DEF Monitor
<1>7. CASE Boot
  BY <1>7, RestoreFacts DEF Boot, Apply, Status, Inv, Covered, Types
<1>8. CASE ExitBegin \/ ExitCheck \/ ForeignWrite \/ CoreDies \/ Crash
  BY <1>8 DEF ExitBegin, ExitCheck, ForeignWrite, CoreDies, Crash, At, Announced, Up, StFree
<1>9. CASE \E t \in Renderers : Invoke(t)
  BY <1>9 DEF Invoke, At, Announced, Up, StFree
<1> QED
  BY <1>3, <1>4, <1>5, <1>6, <1>7, <1>8, <1>9 DEF Next, Thread

\* A process that has ended only starts again, and it ends by a crash or an exit.
LEMMA EndedMoves ==
    ASSUME Next
    PROVE  /\ ended # "no" => Boot
           /\ ended' # ended => Boot \/ Crash \/ ExitBegin \/ ExitCheck
<1>1. ASSUME NEW t \in Threads, Thread(t) PROVE ended = "no" /\ ended' = ended
  <2>1. CASE StartSteps(t)
    BY <2>1 DEF StartSteps, StartEnter, StartBody, ReverifyProxy, ReverifyTun, StartPrepare,
       StartLaunch, StartProve, StartPublish, StartConfirm, RollBackRestore, RollBackStop, Finish, At
  <2>2. CASE StopSteps(t)
    BY <2>2 DEF StopSteps, StopCancel, StopEnter, TeardownRestore, TeardownStop, At
  <2>3. CASE OtherSteps(t)
    BY <2>3 DEF OtherSteps, RetryEnter, RetryRecover, ClearStaleProxy, UpdateBegin, UpdateEnd,
       SwitchServer, At
  <2> QED
    BY <1>1, <2>1, <2>2, <2>3 DEF Thread
<1>2. CASE Monitor
  BY <1>2 DEF Monitor, MonitorTick, MonitorProbed, MonitorWarmed, ReconnectSkip, ReconnectStart,
     ReconnectStop, RestartCore, At
<1>3. CASE ExitBegin \/ ExitCheck \/ ForeignWrite \/ CoreDies \/ Crash \/ Boot
  BY <1>3 DEF ExitBegin, ExitCheck, ForeignWrite, CoreDies, Crash, At
<1>4. CASE \E t \in Renderers : Invoke(t)
  BY <1>4 DEF Invoke, At
<1> QED
  BY <1>1, <1>2, <1>3, <1>4 DEF Next

\* The process ends in ExitCheck only, where the engine is gone.
LEMMA ExitStep ==
    ASSUME Inv, Announced, ExitIsClean, Next
    PROVE  ExitIsClean'
<1> SUFFICES ASSUME ended' = "exit"
             PROVE  core' = "none" /\ (saved' # "none" => phase' = "RecoveryRequired")
  BY DEF ExitIsClean
<1>1. CASE ended = "exit"
  BY <1>1, EndedMoves DEF Boot
<1>2. CASE ended # "exit"
  <2>1. ExitBegin \/ ExitCheck
    BY <1>2, EndedMoves DEF Boot, Crash
  <2> QED
    BY <2>1 DEF ExitBegin, ExitCheck, SafeToExit, At, StFree, Announced, Inv, Engine
<1> QED
  BY <1>1, <1>2

\* The part of the invariant that is about the session and the status.
LEMMA OutcomeInv == Spec => []Outcome
<1>1. Init => Outcome
  <2>1. "monitor" \in Threads
    BY DEF Threads
  <2> QED
    BY <2>1 DEF Init, Outcome, Certain, ProbeFresh, ReadyHasSession, Announced, ExitIsClean, Up,
       Ready
<1>2. Inv /\ Outcome /\ [Next]_vars => Outcome'
  <2> SUFFICES ASSUME Inv, Outcome, [Next]_vars PROVE Outcome'
    OBVIOUS
  <2>1. CASE UNCHANGED vars
    BY <2>1 DEF vars, Outcome, Certain, ProbeFresh, ReadyHasSession, Announced, ExitIsClean, Up,
       Uncertain, SameSession, StFree
  <2> QED
    BY <2>1, CertainStep, ProbeStep, ReadyStep, AnnouncedStep, ExitStep DEF Outcome
<1> QED
  BY <1>1, <1>2, InitInv, StepInv, PTL DEF Spec

\* The green status belongs to the running session and its mode, with a known exit
\* server: the result of a proof or a probe that began for another session never
\* shows (monitor_tick, start_system_proxy_locked and start_tun_locked).
THEOREM ReadyTheorem == Spec => []ReadyHasSession
<1>1. Outcome => ReadyHasSession
  BY DEF Outcome
<1> QED
  BY <1>1, OutcomeInv, PTL

\* RouteDeck exits with the engine gone, and never over a journal that the user was
\* not told about (shutdown in application.rs).
THEOREM ExitTheorem == Spec => []ExitIsClean
<1>1. Outcome => ExitIsClean
  BY DEF Outcome
<1> QED
  BY <1>1, OutcomeInv, PTL

-----------------------------------------------------------------------------
(* What RouteDeck does on its own: a disconnect and a preserved setting *)

MonitorSteps == {"idle", "probing", "warming", "reconnect"} \cup Working \cup Teardown

\* The monitor and the exit handler begin no command of a user, and the monitor
\* holds `operation` only to reconnect.
Own ==
    /\ pc["monitor"] \in MonitorSteps /\ pc["exit"] # "start"
    /\ cmd["monitor"].op \in {"none", "loss", "reconnect"}
    /\ \A u \in Threads \ {"monitor"} : cmd[u].op # "loss"
    /\ op = "monitor" =>
         \/ pc["monitor"] \in Working
         \/ pc["monitor"] \in Teardown /\ cmd["monitor"].op # "loss"

\* Commands keep to their own threads.
LEMMA OwnStep ==
    ASSUME Inv, Own, Next
    PROVE  Own'
<1>1. Types /\ Locks /\ "monitor" \in Threads /\ "exit" \in Threads
  BY DEF Inv, Threads
<1>2. CASE \E t \in Renderers : Invoke(t)
  <2>1. ASSUME NEW c \in Commands PROVE c.op # "loss"
    BY UsesAssumption, <2>1 DEF Commands, Start
  <2> QED
    BY <1>1, <1>2, <2>1, RenderersAssumption DEF Invoke, Own, Types, Threads
<1>4. ASSUME NEW t \in Threads, Thread(t)
      PROVE  op' \in {op, t, "free"} /\ cmd'[t] \in {cmd[t], Command("none")}
  BY <1>4, ThreadKeeps
<1>5. CASE Thread("monitor")
  <2>1. /\ cmd'["monitor"].op \in {"none", "loss", "reconnect"}
        /\ \A u \in Threads \ {"monitor"} : cmd'[u].op # "loss"
        /\ pc'["exit"] # "start"
    BY <1>1, <1>4, <1>5, ThreadMoves DEF Own, Command
  <2>2. /\ pc'["monitor"] \in MonitorSteps
        /\ op' = "monitor" =>
              \/ pc'["monitor"] \in Working
              \/ pc'["monitor"] \in Teardown /\ cmd'["monitor"].op # "loss"
    <3>1. CASE StartSteps("monitor")
      <4>1. CASE StartEnter("monitor") \/ StartBody("monitor") \/ StartPrepare("monitor")
        BY <1>1, <4>1 DEF StartEnter, StartBody, StartPrepare, RollBack, At, Goto, Return,
           Types, Own, MonitorSteps, Working, Teardown
      <4>2. CASE StartLaunch("monitor") \/ StartProve("monitor") \/ StartPublish("monitor")
        BY <1>1, <4>2 DEF StartLaunch, StartProve, StartPublish, RollBack, Goto, Types,
           Own, MonitorSteps, Working
      <4>3. CASE ReverifyProxy("monitor") \/ ReverifyTun("monitor") \/ StartConfirm("monitor")
        BY <1>1, <4>3 DEF ReverifyProxy, ReverifyTun, StartConfirm, RollBack, Goto, Types,
           Own, MonitorSteps, Working
      <4>4. CASE RollBackRestore("monitor") \/ RollBackStop("monitor") \/ Finish("monitor")
        BY <1>1, <4>4 DEF RollBackRestore, RollBackStop, Release, Finish, Goto, Return, Types,
           Own, MonitorSteps, Working
      <4> QED
        BY <3>1, <4>1, <4>2, <4>3, <4>4 DEF StartSteps
    <3>2. CASE StopSteps("monitor")
      <4>1. CASE StopCancel("monitor") \/ StopEnter("monitor")
        BY <4>1 DEF StopCancel, StopEnter, At, Own, MonitorSteps, Working, Teardown
      <4>2. CASE TeardownRestore("monitor") \/ TeardownStop("monitor")
        BY <1>1, <4>2 DEF TeardownRestore, TeardownStop, TeardownReturn, At, Goto, Return, Types,
           Own, MonitorSteps, Working, Teardown
      <4> QED
        BY <3>2, <4>1, <4>2 DEF StopSteps
    <3>3. CASE OtherSteps("monitor")
      BY <1>1, <3>3 DEF OtherSteps, RetryEnter, RetryRecover, ClearStaleProxy, UpdateBegin,
         UpdateEnd, SwitchServer, At, Return, Types, Own, MonitorSteps, Working, Teardown
    <3> QED
      BY <1>5, <3>1, <3>2, <3>3 DEF Thread
  <2> QED
    BY <2>1, <2>2 DEF Own
<1>6. ASSUME NEW t \in Threads \ {"monitor"}, Thread(t) PROVE Own'
  <2>1. pc'["monitor"] = pc["monitor"] /\ cmd'["monitor"] = cmd["monitor"]
    BY <1>1, <1>6, ThreadMoves
  <2>2. \A u \in Threads \ {"monitor"} : cmd'[u].op # "loss"
    BY <1>4, <1>6, ThreadMoves DEF Own, Command
  <2>3. pc'["exit"] # "start"
    <3>1. CASE t # "exit"
      BY <1>1, <1>6, <3>1, ThreadMoves DEF Own
    <3>2. CASE t = "exit" /\ pc'["exit"] = "start"
      BY <1>1, <1>6, <3>2, NotByThread DEF Own
    <3> QED
      BY <3>1, <3>2
  <2>4. op' = "monitor" => op = "monitor"
    BY <1>4, <1>6
  <2> QED
    BY <2>1, <2>2, <2>3, <2>4 DEF Own
<1>7. CASE Monitor
  <2>1. /\ pc'["exit"] = pc["exit"]
        /\ \A u \in Threads \ {"monitor"} : cmd'[u] = cmd[u]
    BY <1>1, <1>7 DEF Monitor, MonitorTick, MonitorProbed, MonitorWarmed, MonitorRests,
       HandleCaptureLoss, HandleRuntimeLoss, ReconnectSkip, ReconnectStart, ReconnectStop,
       RestartCore, Goto, Return, Types
  <2>2. CASE MonitorTick \/ MonitorProbed \/ MonitorWarmed
    <3>1. op # "monitor" /\ op' = op
      BY <2>2 DEF MonitorTick, MonitorProbed, MonitorWarmed, At, Own, Working, Teardown
    <3>2. cmd'["monitor"] \in {cmd["monitor"], Command("loss")}
          /\ pc'["monitor"] \in {"probing", "warming", "reconnect"} \cup Teardown
      BY <1>1, <2>2 DEF MonitorTick, MonitorProbed, MonitorWarmed, MonitorRests,
         HandleCaptureLoss, HandleRuntimeLoss, TeardownStep, Teardown, Goto, Types
    <3> QED
      BY <2>1, <3>1, <3>2 DEF Own, MonitorSteps, Command
  <2>3. CASE ReconnectSkip \/ ReconnectStart \/ ReconnectStop \/ RestartCore
    BY <1>1, <2>1, <2>3 DEF ReconnectSkip, ReconnectStart, ReconnectStop, RestartCore,
       ReconnectCommand, TeardownStep, Goto, Return, Command, Types, At, Own, MonitorSteps,
       Working, Teardown
  <2> QED
    BY <1>7, <2>2, <2>3 DEF Monitor
<1>8. CASE ExitBegin \/ ExitCheck
  BY <1>1, <1>8 DEF ExitBegin, ExitCheck, Return, Own, Command, Types
<1>9. CASE ForeignWrite \/ CoreDies \/ Crash \/ Boot
  BY <1>1, <1>9 DEF ForeignWrite, CoreDies, Crash, Boot, Own, Command, MonitorSteps
<1> QED
  BY <1>2, <1>5, <1>6, <1>7, <1>8, <1>9 DEF Next

\* A user who disconnects is on the way to it until the command returns.
Stops ==
    \A t \in Threads : cmd[t].op = "stop" => pc[t] \in {"stop.cancel", "stop"} \cup Teardown

LEMMA StopsStep ==
    ASSUME Inv, Own, Stops, Next
    PROVE  Stops'
<1> SUFFICES ASSUME NEW u \in Threads, cmd'[u].op = "stop"
             PROVE  pc'[u] \in {"stop.cancel", "stop"} \cup Teardown
  BY DEF Stops
<1>1. Types
  BY DEF Inv
<1>2. CASE \E t \in Renderers : Invoke(t)
  <2>1. ASSUME NEW c \in Commands, c.op = "stop" PROVE FirstStep(c) = "stop.cancel"
    BY <2>1 DEF FirstStep
  <2> QED
    BY <1>1, <1>2, <2>1 DEF Invoke, Types, Stops, Threads
<1>3. CASE Thread(u)
  <2>0. pc[u] \in {"stop.cancel", "stop"} \cup Teardown
    BY <1>3, ThreadKeeps DEF Stops, Command
  <2>1. CASE StartSteps(u) \/ OtherSteps(u)
    BY <2>0, <2>1 DEF Teardown, At, StartSteps, StartEnter, StartBody, ReverifyProxy, ReverifyTun,
       StartPrepare, StartLaunch, StartProve, StartPublish, StartConfirm, RollBackRestore,
       RollBackStop, Finish, OtherSteps, RetryEnter, RetryRecover, ClearStaleProxy, UpdateBegin,
       UpdateEnd, SwitchServer
  <2>2. CASE StopSteps(u)
    BY <1>1, <2>2 DEF StopSteps, StopCancel, StopEnter, TeardownRestore, TeardownStop,
       TeardownStep, TeardownReturn, Goto, Return, Command, Types, Stops, Teardown
  <2> QED
    BY <1>3, <2>1, <2>2 DEF Thread
<1>4. CASE \E t \in Threads \ {u} : Thread(t)
  BY <1>4, ThreadMoves DEF Stops
<1>5. CASE Monitor
  <2>1. CASE u = "monitor"
    BY <2>1, OwnStep DEF Own
  <2>2. CASE u # "monitor"
    BY <1>1, <1>5, <2>2 DEF Monitor, MonitorTick, MonitorProbed, MonitorWarmed, MonitorRests,
       HandleCaptureLoss, HandleRuntimeLoss, ReconnectSkip, ReconnectStart, ReconnectStop,
       RestartCore, Goto, Return, Types, Stops
  <2> QED
    BY <2>1, <2>2
<1>6. CASE ExitBegin \/ ExitCheck \/ ForeignWrite \/ CoreDies \/ Crash \/ Boot
  BY <1>1, <1>6 DEF ExitBegin, ExitCheck, ForeignWrite, CoreDies, Crash, Boot, Return, Command,
     Types, Stops, At
<1> QED
  BY <1>2, <1>3, <1>4, <1>5, <1>6 DEF Next

\* Who gives RouteDeck an intent, and who starts an engine.
LEMMA IntentMoves ==
    ASSUME Next
    PROVE  \/ intent' \in {intent, PausedIntent, NoIntent}
           \/ \E t \in Threads : StartEnter(t) /\ op' = t
<1>1. ASSUME NEW t \in Threads, Thread(t)
      PROVE  intent' \in {intent, PausedIntent, NoIntent} \/ (StartEnter(t) /\ op' = t)
  <2>1. CASE StartEnter(t)
    BY <2>1 DEF StartEnter
  <2>2. CASE StartSteps(t) /\ ~StartEnter(t)
    BY <2>2 DEF StartSteps, StartBody, ReverifyProxy, ReverifyTun, StartPrepare, StartLaunch,
       StartProve, StartPublish, StartConfirm, RollBackRestore, RollBackStop, Finish
  <2>3. CASE StopSteps(t)
    BY <2>3 DEF StopSteps, StopCancel, StopEnter, TeardownRestore, TeardownStop
  <2>4. CASE OtherSteps(t)
    BY <2>4 DEF OtherSteps, RetryEnter, RetryRecover, ClearStaleProxy, UpdateBegin, UpdateEnd,
       SwitchServer
  <2> QED
    BY <1>1, <2>1, <2>2, <2>3, <2>4 DEF Thread
<1>2. CASE Monitor
  BY <1>2 DEF Monitor, MonitorTick, MonitorProbed, MonitorWarmed, MonitorRests, HandleCaptureLoss,
     HandleRuntimeLoss, ReconnectSkip, ReconnectStart, ReconnectStop, RestartCore
<1>3. CASE ExitBegin \/ ExitCheck \/ ForeignWrite \/ CoreDies \/ Crash \/ Boot
  BY <1>3 DEF ExitBegin, ExitCheck, ForeignWrite, CoreDies, Crash, Boot
<1>4. CASE \E t \in Renderers : Invoke(t)
  BY <1>4 DEF Invoke
<1> QED
  BY <1>1, <1>2, <1>3, <1>4 DEF Next

LEMMA CoreMoves ==
    ASSUME Next, core # "live", core' = "live"
    PROVE  RestartCore \/ \E t \in Threads : StartLaunch(t)
<1>1. ASSUME NEW t \in Threads, Thread(t) PROVE StartLaunch(t)
  BY <1>1 DEF Thread, StartSteps, StartEnter, StartBody, ReverifyProxy, ReverifyTun, StartPrepare,
     StartProve, StartPublish, StartConfirm, RollBackRestore, RollBackStop, Finish,
     StopSteps, StopCancel, StopEnter, TeardownRestore, TeardownStop, OtherSteps, RetryEnter,
     RetryRecover, ClearStaleProxy, UpdateBegin, UpdateEnd, SwitchServer
<1>2. CASE Monitor
  BY <1>2 DEF Monitor, MonitorTick, MonitorProbed, MonitorWarmed, MonitorRests, HandleCaptureLoss,
     HandleRuntimeLoss, ReconnectSkip, ReconnectStart, ReconnectStop
<1>3. CASE ExitBegin \/ ExitCheck \/ ForeignWrite \/ CoreDies \/ Crash \/ Boot
  BY <1>3 DEF ExitBegin, ExitCheck, ForeignWrite, CoreDies, Crash, Boot
<1>4. CASE \E t \in Renderers : Invoke(t)
  BY <1>4 DEF Invoke
<1> QED
  BY <1>1, <1>2, <1>3, <1>4 DEF Next

\* The renderer queues its commands (tauriController.ts).
OneAtATime == \A s, t \in Renderers : s = t

\* A disconnect that goes on has withdrawn the intent.
Withdrawn ==
    \A t \in Renderers : cmd[t].op = "stop" /\ pc[t] \in {"stop"} \cup Teardown => intent = NoIntent

LEMMA WithdrawnStep ==
    ASSUME Inv, Own, Stops, Withdrawn, Next, OneAtATime
    PROVE  Withdrawn'
<1> SUFFICES ASSUME NEW t \in Renderers, cmd'[t].op = "stop", pc'[t] \in {"stop"} \cup Teardown
             PROVE  intent' = NoIntent
  BY DEF Withdrawn
<1>1. Types /\ t \in Threads
  BY DEF Inv, Threads
<1>2. CASE cmd[t].op = "stop" /\ pc[t] \in {"stop"} \cup Teardown
  <2>1. intent = NoIntent
    BY <1>2 DEF Withdrawn
  <2>2. ASSUME NEW s \in Threads, StartEnter(s) PROVE FALSE
    <3>1. s \in Renderers
      BY <2>2 DEF StartEnter, At, Own, Threads, MonitorSteps, Working, Teardown
    <3>2. s = t
      BY <3>1 DEF OneAtATime
    <3> QED
      BY <1>2, <2>2, <3>2 DEF StartEnter, At, Teardown
  <2> QED
    BY <2>1, <2>2, IntentMoves DEF PausedIntent
<1>3. CASE pc[t] = "stop.cancel"
  <2>1. pc'[t] # pc[t] /\ pc'[t] # "idle"
    BY <1>3 DEF Teardown
  <2>2. Thread(t)
    BY <1>1, <1>3, <2>1, Moves, RenderersAssumption DEF Invoke, At
  <2>3. StopCancel(t)
    BY <1>3, <2>2 DEF Thread, At, StartSteps, StartEnter, StartBody, ReverifyProxy, ReverifyTun,
       StartPrepare, StartLaunch, StartProve, StartPublish, StartConfirm, RollBackRestore,
       RollBackStop, Finish, StopSteps, StopEnter, TeardownRestore, TeardownStop, OtherSteps,
       RetryEnter, RetryRecover, ClearStaleProxy, UpdateBegin, UpdateEnd, SwitchServer
  <2> QED
    BY <2>3 DEF StopCancel
<1>4. CASE cmd[t].op # "stop"
  <2>1. ASSUME NEW c \in Commands, c.op = "stop" PROVE FirstStep(c) = "stop.cancel"
    BY <2>1 DEF FirstStep
  <2>2. ASSUME NEW s \in Renderers, Invoke(s) PROVE FALSE
    BY <1>1, <1>4, <2>1, <2>2 DEF Invoke, Types, Teardown, Threads
  <2>3. ASSUME NEW s \in Threads, Thread(s) PROVE FALSE
    BY <1>1, <1>4, <2>3, ThreadKeeps, ThreadMoves DEF Command
  <2>4. ~Monitor
    BY <1>1, <1>4, RenderersAssumption DEF Monitor, MonitorTick, MonitorProbed, MonitorWarmed,
       MonitorRests, HandleCaptureLoss, HandleRuntimeLoss, ReconnectSkip, ReconnectStart,
       ReconnectStop, RestartCore, Goto, Return, Types
  <2>5. ~(ExitBegin \/ ExitCheck \/ ForeignWrite \/ CoreDies \/ Crash \/ Boot)
    BY <1>1, <1>4, RenderersAssumption DEF ExitBegin, ExitCheck, ForeignWrite, CoreDies, Crash, Boot,
       Return, Command, Types
  <2> QED
    BY <2>2, <2>3, <2>4, <2>5 DEF Next
<1> QED
  BY <1>1, <1>2, <1>3, <1>4 DEF Stops

\* Nobody wants a connection.
NobodyConnects ==
    /\ core = "none" /\ ~Up /\ intent = NoIntent
    /\ \A u \in Threads : pc[u] \notin Connecting

StaysOff == off /\ ended = "no" => NobodyConnects

\* Without an intent nobody begins a connection, if no user asks for one.
LEMMA NobodyConnectsStep ==
    ASSUME ~Asks, Inv, Own, NobodyConnects, Next, ended = "no"
    PROVE  NobodyConnects'
<1>1. Types /\ Progress
  BY DEF Inv, Running
<1>2. ASSUME NEW u \in Threads PROVE pc'[u] \notin Connecting
  <2> SUFFICES ASSUME pc'[u] \in Connecting, pc'[u] # pc[u] PROVE FALSE
    BY DEF NobodyConnects
  <2>1. CASE pc'[u] = "start" /\ u \in Renderers /\ Invoke(u)
    BY <2>1 DEF Asks, Invoke, At
  <2>2. CASE pc[u] \in Teardown
    BY <1>1, <2>2 DEF Progress, NobodyConnects, Teardown, MustRestore
  <2>3. CASE ReconnectStart
    BY <2>3 DEF ReconnectStart, ReconnectDue, NobodyConnects
  <2>4. pc[u] \notin Connecting
    BY DEF NobodyConnects
  <2> QED
    BY <2>1, <2>2, <2>3, <2>4, Connects DEF StartEnter, StartBody, StartPrepare, StartLaunch,
       StartProve, StartPublish, At, Connecting
<1>3. ASSUME NEW t \in Threads PROVE ~StartLaunch(t) /\ ~StartEnter(t)
  BY DEF StartLaunch, StartEnter, At, NobodyConnects, Connecting
<1>4. active' = NoSession
  <2>1. ASSUME NEW t \in Threads, SwitchServer(t) PROVE active' = active
    BY <2>1 DEF SwitchServer, CanSwitch, IsTun, NobodyConnects
  <2> QED
    BY <1>3, <2>1, ActiveChanges DEF NobodyConnects, Up
<1>5. intent' = NoIntent
  BY <1>3, IntentMoves DEF NobodyConnects, PausedIntent
<1>6. core' = "none"
  <2>1. Inv'
    BY StepInv
  <2> QED
    BY <1>4, <2>1 DEF Inv, Engine, Up
<1> QED
  BY <1>2, <1>4, <1>5, <1>6 DEF NobodyConnects, Up

\* The disconnect returns after the operation in progress, when nobody connects.
LEMMA StaysOffStep ==
    ASSUME Inv, Own, Stops, Withdrawn, StaysOff, Next, OneAtATime
    PROVE  StaysOff'
<1> SUFFICES ASSUME (off /\ ended = "no")' PROVE NobodyConnects'
  BY DEF StaysOff
<1>1. Types /\ Locks /\ (ended = "no" => Progress)
  BY DEF Inv, Running
<1>2. CASE ended # "no"
  <2>1. Boot
    BY <1>2, EndedMoves
  <2> QED
    BY <2>1 DEF Boot, NobodyConnects, Up, Connecting
<1>3. CASE ended = "no" /\ off /\ ~Asks
  BY <1>3, NobodyConnectsStep DEF StaysOff
<1>4. CASE ended = "no" /\ Disconnects /\ ~StartPending
  <2>1. PICK t \in Renderers : /\ cmd[t].op = "stop" /\ pc[t] # "idle" /\ pc'[t] = "idle"
                               /\ active' = NoSession
    BY <1>4 DEF Disconnects
  <2>2. Thread(t) /\ t \in Threads
    <3>1. t \in Threads /\ t # "monitor" /\ t # "exit"
      BY RenderersAssumption DEF Threads
    <3>2. pc[t] \in {"stop.cancel", "stop"} \cup Teardown
      BY <2>1, <3>1 DEF Stops
    <3>3. ~Monitor
      BY <1>1, <2>1, <3>1 DEF Monitor, MonitorTick, MonitorProbed, MonitorWarmed, MonitorRests,
         HandleCaptureLoss, HandleRuntimeLoss, ReconnectSkip, ReconnectStart, ReconnectStop,
         RestartCore, Goto, Return, Types
    <3>4. ~(ExitBegin \/ ExitCheck \/ ForeignWrite \/ CoreDies \/ Crash)
      BY <1>1, <2>1, <3>1 DEF ExitBegin, ExitCheck, ForeignWrite, CoreDies, Crash, Return, Types
    <3>5. ASSUME NEW s \in Renderers, Invoke(s) PROVE FALSE
      <4>1. s = t
        BY DEF OneAtATime
      <4> QED
        BY <2>1, <3>5, <4>1 DEF Invoke, At
    <3> QED
      BY <1>4, <2>1, <3>1, <3>3, <3>4, <3>5, ThreadMoves DEF Next, Boot
  <2>3. StopEnter(t) \/ TeardownStop(t)
    <3>1. pc[t] \in {"stop.cancel", "stop"} \cup Teardown
      BY <2>1, <2>2 DEF Stops
    <3>2. StopSteps(t)
      BY <2>2, <3>1 DEF Teardown, At, Thread, StartSteps, StartEnter, StartBody, ReverifyProxy,
         ReverifyTun, StartPrepare, StartLaunch, StartProve, StartPublish, StartConfirm,
         RollBackRestore, RollBackStop, Finish, OtherSteps, RetryEnter, RetryRecover,
         ClearStaleProxy, UpdateBegin, UpdateEnd, SwitchServer
    <3>3. ~StopCancel(t)
      BY <1>1, <2>1, <2>2 DEF StopCancel, Goto, Types
    <3>4. ~TeardownRestore(t)
      <4> SUFFICES ASSUME TeardownRestore(t) PROVE FALSE
        OBVIOUS
      <4>1. Up /\ active \in Sessions
        BY <1>1, <1>4, <2>2 DEF TeardownRestore, At, Progress, MustRestore, Up, Types
      <4>2. active' # NoSession
        BY <4>1, SessionFacts DEF TeardownRestore, Up
      <4> QED
        BY <2>1, <4>2
    <3> QED
      BY <3>2, <3>3, <3>4 DEF StopSteps
  <2>4. /\ intent = NoIntent /\ op \in {t, "free"}
        /\ intent' \in {intent, PausedIntent}
    BY <1>1, <2>1, <2>2, <2>3 DEF StopEnter, TeardownStop, At, Withdrawn, Teardown, OpFree, Locks
  <2>5. intent' = NoIntent
    BY <2>4 DEF PausedIntent
  <2>6. ASSUME NEW u \in Threads PROVE pc'[u] \notin Connecting
    <3>1. CASE u = t
      BY <2>1, <3>1 DEF Connecting
    <3>2. CASE u # t
      <4>1. u \notin Renderers /\ pc'[u] = pc[u]
        BY <2>2, <3>2, ThreadMoves DEF OneAtATime
      <4>2. pc[u] # "start"
        BY <4>1 DEF Own, Threads, MonitorSteps, Working, Teardown
      <4>3. pc[u] \in Connecting => op = u
        BY <1>1, <4>2 DEF Connecting, Working, Locks
      <4> QED
        BY <2>4, <3>2, <4>1, <4>3, RenderersAssumption DEF Threads
    <3> QED
      BY <3>1, <3>2
  <2>7. core' = "none"
    BY <2>1, StepInv DEF Inv, Engine, Up
  <2> QED
    BY <2>1, <2>5, <2>6, <2>7 DEF NobodyConnects, Up
<1>6. ~Asks
  BY DEF Next, History
<1>7. off \/ (Disconnects /\ ~StartPending)
  BY <1>6 DEF Next, History
<1> QED
  BY <1>1, <1>2, <1>3, <1>4, <1>6, <1>7 DEF Types

\* Neither an exit nor an update begins while an engine is being started.
Admitted == \A u \in Threads : pc[u] \in {"prepare", "launch"} => ~shutting

LEMMA AdmittedStep ==
    ASSUME Inv, Admitted, Next
    PROVE  Admitted'
<1> SUFFICES ASSUME NEW u \in Threads, pc'[u] \in {"prepare", "launch"} PROVE ~shutting'
  BY DEF Admitted
<1>1. Types /\ Locks
  BY DEF Inv
<1>2. CASE StartBody(u) \/ StartPrepare(u)
  BY <1>1, <1>2 DEF StartBody, StartPrepare, ConnectingAllowed, Admitted, At, Goto, Types
<1>3. CASE pc'[u] = pc[u]
  <2>1. ~shutting /\ ~StFree
    BY <1>1, <1>3, RenderersAssumption DEF Admitted, Locks, Inside, StFree, Threads
  <2>2. ASSUME NEW t \in Threads, Thread(t) PROVE shutting' = shutting
    <3>1. ~UpdateBegin(t) /\ ~UpdateEnd(t)
      BY <2>1 DEF UpdateBegin, UpdateEnd
    <3>2. CASE StartSteps(t)
      BY <3>2 DEF StartSteps, StartEnter, StartBody, ReverifyProxy, ReverifyTun, StartPrepare,
         StartLaunch, StartProve, StartPublish, StartConfirm, RollBackRestore, RollBackStop, Finish
    <3>3. CASE StopSteps(t)
      BY <3>3 DEF StopSteps, StopCancel, StopEnter, TeardownRestore, TeardownStop
    <3>4. CASE OtherSteps(t)
      BY <3>1, <3>4 DEF OtherSteps, RetryEnter, RetryRecover, ClearStaleProxy, SwitchServer
    <3> QED
      BY <2>2, <3>2, <3>3, <3>4 DEF Thread
  <2>3. CASE Monitor
    BY <2>1, <2>3 DEF Monitor, MonitorTick, MonitorProbed, MonitorWarmed, ReconnectSkip,
       ReconnectStart, ReconnectStop, RestartCore
  <2>4. CASE ExitBegin \/ ExitCheck \/ ForeignWrite \/ CoreDies \/ Crash \/ Boot
    BY <2>1, <2>4 DEF ExitBegin, ExitCheck, ForeignWrite, CoreDies, Crash, Boot
  <2>5. CASE \E t \in Renderers : Invoke(t)
    BY <2>1, <2>5 DEF Invoke
  <2> QED
    BY <2>1, <2>2, <2>3, <2>4, <2>5 DEF Next
<1> QED
  BY <1>2, <1>3, Connects DEF Connecting

Choices == Own /\ Stops /\ Withdrawn /\ StaysOff /\ Admitted

\* The part of the invariant that is about what the user chose.
LEMMA ChoicesInv ==
    ASSUME OneAtATime
    PROVE  Spec => []Choices
<1>1. Init => Choices
  <2>1. "monitor" \in Threads /\ "exit" \in Threads
    BY DEF Threads
  <2> QED
    BY <2>1, RenderersAssumption DEF Init, Choices, Own, Stops, Withdrawn, StaysOff, Admitted,
       NobodyConnects, MonitorSteps, Command, Up, Connecting, Threads
<1>2. Inv /\ Choices /\ [Next]_vars => Choices'
  <2> SUFFICES ASSUME Inv, Choices, [Next]_vars PROVE Choices'
    OBVIOUS
  <2>1. CASE UNCHANGED vars
    BY <2>1 DEF vars, history, Choices, Own, Stops, Withdrawn, StaysOff, Admitted,
       NobodyConnects, Up
  <2> QED
    BY <2>1, OwnStep, StopsStep, WithdrawnStep, StaysOffStep, AdmittedStep DEF Choices
<1> QED
  BY <1>1, <1>2, InitInv, StepInv, PTL DEF Spec

\* After a disconnect nothing connects until the user asks for it, whatever attempt
\* was under way: `stop` withdraws the intent before it waits for the operation in
\* progress.  It takes the UI's queue: between the two, another command thread
\* could give a new intent.
THEOREM DisconnectTheorem ==
    ASSUME OneAtATime
    PROVE  Spec => []DisconnectWins
<1>1. Choices => DisconnectWins
  BY DEF Choices, StaysOff, NobodyConnects, DisconnectWins
<1> QED
  BY <1>1, ChoicesInv, PTL

\* An engine starts only when nothing is to be recovered, no exit or update is under
\* way, no journal is left and somebody wants it, although the checks of
\* start_system_proxy and start_tun are steps ago.
THEOREM StartsTheorem ==
    ASSUME OneAtATime
    PROVE  Spec => StartsOnlyWhenSafe
<1>1. Inv /\ Choices /\ [Next]_vars =>
        [core # "live" /\ core' = "live" =>
           ~recovery /\ ~shutting /\ saved = "none" /\ ~off]_vars
  <2> SUFFICES ASSUME Inv, Choices, Next, core # "live", core' = "live"
               PROVE  ~recovery /\ ~shutting /\ saved = "none" /\ ~off
    OBVIOUS
  <2>1. CASE RestartCore
    BY <2>1 DEF RestartCore, At, ReconnectDue, Inv, Running, Owed, Choices, StaysOff, NobodyConnects,
       IsTun
  <2>2. ASSUME NEW t \in Threads, StartLaunch(t)
        PROVE  ~recovery /\ ~shutting /\ saved = "none" /\ ~off
    BY <2>2 DEF StartLaunch, At, Inv, Running, Progress, Choices, Admitted, StaysOff,
       NobodyConnects, Connecting
  <2> QED
    BY <2>1, <2>2, CoreMoves
<1> QED
  BY <1>1, InitInv, StepInv, ChoicesInv, PTL DEF Spec, StartsOnlyWhenSafe

-----------------------------------------------------------------------------
(* A foreign setting that was found in RouteDeck's place *)

\* A restore that found a foreign setting is followed by the stop of the engine.
Stopping == {"rollback.stop", "teardown.stop"}
Found == job.foreign => \E u \in Threads : pc[u] \in Stopping

\* A new process knows nothing of the conflicts of the last one.
Forgotten == ended # "no" => conflict = "no"

Paused == intent = NoIntent \/ intent.paused

\* After the user was told, the intent is paused, or the attempt that found the
\* foreign setting is about to pause it (finish_connection_attempt).
ToldPauses ==
    conflict = "told" /\ ended = "no" =>
        \/ op # "monitor" /\ Paused
        \/ op \in Threads /\ pc[op] = "failed" /\ err = "ownership" /\ ~Up

\* Only two steps tell.
LEMMA Tells ==
    ASSUME Inv, Found, Next, TellsConflict, ended = "no"
    PROVE  \E t \in Threads :
             \/ /\ RollBackStop(t) /\ pc'[t] = "failed" /\ op = t /\ op' = t /\ active' = NoSession
             \/ TeardownStop(t) /\ intent' = PausedIntent
<1>1. Types /\ Locks
  BY DEF Inv
<1>2. job.foreign /\ ~job'.foreign /\ phase' = "DisconnectedWithError" /\ err' = "ownership"
  BY DEF TellsConflict
<1>3. PICK u \in Threads : pc[u] \in Stopping /\ st = u /\ ~StFree
  <2>1. PICK u \in Threads : pc[u] \in Stopping
    BY <1>2 DEF Found
  <2> QED
    BY <1>1, <2>1, RenderersAssumption DEF Stopping, Locks, Inside, StFree, Threads
<1>4. PICK t \in Threads : Thread(t)
  <2>1. ~Monitor
    BY <1>2, <1>3 DEF Monitor, MonitorTick, MonitorProbed, MonitorWarmed, ReconnectSkip,
       ReconnectStart, ReconnectStop, RestartCore
  <2>2. ~(ExitBegin \/ ExitCheck \/ ForeignWrite \/ CoreDies \/ Crash \/ Boot)
    BY <1>2, <1>3 DEF ExitBegin, ExitCheck, ForeignWrite, CoreDies, Crash, Boot
  <2>3. ~\E t \in Renderers : Invoke(t)
    BY <1>2 DEF Invoke
  <2> QED
    BY <2>1, <2>2, <2>3 DEF Next
<1>5. CASE StartSteps(t)
  <2>1. RollBackStop(t)
    <3>1. ~(StartEnter(t) \/ StartBody(t) \/ ReverifyProxy(t) \/ Finish(t))
      BY <1>2 DEF StartEnter, StartBody, ReverifyProxy, Finish
    <3>2. ~(ReverifyTun(t) \/ StartPrepare(t) \/ StartLaunch(t) \/ StartProve(t))
      BY <1>2 DEF ReverifyTun, StartPrepare, StartLaunch, StartProve, RollBack, Status
    <3>3. ~(StartPublish(t) \/ StartConfirm(t))
      BY <1>2 DEF StartPublish, StartConfirm, RollBack, Status
    <3>4. ~RollBackRestore(t)
      BY <1>1, <1>3 DEF RollBackRestore, At, Locks, Inside, Stopping
    <3> QED
      BY <1>5, <3>1, <3>2, <3>3, <3>4 DEF StartSteps
  <2>2. active' = NoSession /\ pc'[t] = "failed" /\ op = t /\ op' = t
    BY <1>1, <1>2, <2>1 DEF RollBackStop, At, Status, Release, Goto, Types, Locks, Working
  <2> QED
    BY <2>1, <2>2
<1>6. CASE StopSteps(t)
  <2>1. ~TeardownRestore(t)
    BY <1>1, <1>3 DEF TeardownRestore, At, Locks, Inside, Stopping
  <2>2. TeardownStop(t)
    BY <1>2, <1>3, <1>6, <2>1 DEF StopSteps, StopCancel, StopEnter
  <2>3. intent' = PausedIntent
    BY <1>2, <2>2 DEF TeardownStop, Status
  <2> QED
    BY <2>2, <2>3
<1>7. CASE OtherSteps(t)
  BY <1>2, <1>3, <1>7 DEF OtherSteps, RetryEnter, RetryRecover, ClearStaleProxy, UpdateBegin,
     UpdateEnd, SwitchServer
<1> QED
  BY <1>4, <1>5, <1>6, <1>7 DEF Thread

\* The thread that found the foreign setting is the one that stops the engine.
LEMMA FoundStep ==
    ASSUME Inv, Found, Next
    PROVE  Found'
<1> SUFFICES ASSUME job'.foreign PROVE \E u \in Threads : pc'[u] \in Stopping
  BY DEF Found
<1>1. Types /\ job' # NoJob
  BY DEF Inv, NoJob
<1>2. ASSUME NEW t \in Threads, Thread(t), job' # job \/ pc[t] \in Stopping
      PROVE  pc'[t] \in Stopping
  <2>1. CASE StartSteps(t)
    <3>1. CASE StartEnter(t) \/ StartBody(t) \/ ReverifyProxy(t) \/ Finish(t)
      BY <1>2, <3>1 DEF StartEnter, StartBody, ReverifyProxy, Finish, At, Stopping
    <3>2. CASE ReverifyTun(t) \/ StartPrepare(t) \/ StartLaunch(t) \/ StartProve(t)
      BY <1>2, <3>2 DEF ReverifyTun, StartPrepare, StartLaunch, StartProve, At, RollBack, NoJob,
         Stopping
    <3>3. CASE StartPublish(t) \/ StartConfirm(t)
      BY <1>2, <3>3 DEF StartPublish, StartConfirm, At, RollBack, NoJob, Stopping
    <3>4. CASE RollBackRestore(t) \/ RollBackStop(t)
      BY <1>1, <3>4 DEF RollBackRestore, RollBackStop, Release, Goto, Types, Stopping
    <3> QED
      BY <2>1, <3>1, <3>2, <3>3, <3>4 DEF StartSteps
  <2>2. CASE StopSteps(t)
    BY <1>1, <1>2, <2>2 DEF StopSteps, StopCancel, StopEnter, TeardownBegin, TeardownRestore,
       TeardownStop, TeardownReturn, At, Goto, Types, Stopping, NoJob
  <2>3. CASE OtherSteps(t)
    BY <1>2, <2>3 DEF OtherSteps, RetryEnter, RetryRecover, ClearStaleProxy, UpdateBegin,
       UpdateEnd, SwitchServer, TeardownBegin, NoJob, At, Stopping
  <2> QED
    BY <1>2, <2>1, <2>2, <2>3 DEF Thread
<1>3. CASE \E t \in Threads : Thread(t)
  <2>1. PICK t \in Threads : Thread(t)
    BY <1>3
  <2>2. CASE job' # job
    BY <1>2, <2>1, <2>2
  <2>3. CASE job' = job
    <3>1. PICK u \in Threads : pc[u] \in Stopping
      BY <2>3 DEF Found
    <3> QED
      BY <1>2, <2>1, <3>1, ThreadMoves
  <2> QED
    BY <2>2, <2>3
<1>4. CASE ~\E t \in Threads : Thread(t)
  <2>1. job' = job /\ ~Boot
    BY <1>1, <1>4 DEF Next, Invoke, Monitor, MonitorTick, MonitorProbed, MonitorWarmed,
       MonitorRests, HandleCaptureLoss, HandleRuntimeLoss, ReconnectSkip, ReconnectStart,
       ReconnectStop, RestartCore, TeardownBegin, ExitBegin, ExitCheck, ForeignWrite, CoreDies,
       Crash, Boot, NoJob
  <2>2. PICK u \in Threads : pc[u] \in Stopping
    BY <2>1 DEF Found
  <2>3. CASE Monitor
    <3>1. u # "monitor"
      BY <2>2, <2>3 DEF Stopping, At, Monitor, MonitorTick, MonitorProbed, MonitorWarmed,
         ReconnectSkip, ReconnectStart, ReconnectStop, RestartCore
    <3>2. pc'[u] = pc[u]
      BY <1>1, <2>3, <3>1 DEF Monitor, MonitorTick, MonitorProbed, MonitorWarmed, MonitorRests,
         HandleCaptureLoss, HandleRuntimeLoss, ReconnectSkip, ReconnectStart, ReconnectStop,
         RestartCore, Goto, Return, Types
    <3> QED
      BY <2>2, <3>2
  <2>4. CASE ExitBegin \/ ExitCheck \/ ForeignWrite \/ CoreDies \/ Crash
    BY <1>1, <2>2, <2>4 DEF ExitBegin, ExitCheck, ForeignWrite, CoreDies, Crash, At, Return, Types,
       Stopping
  <2>5. CASE \E t \in Renderers : Invoke(t)
    BY <1>1, <2>2, <2>5 DEF Invoke, At, Types, Stopping
  <2> QED
    BY <1>4, <2>1, <2>3, <2>4, <2>5 DEF Next
<1> QED
  BY <1>3, <1>4

\* A process that ended is not asked for its conflicts.
LEMMA ForgottenStep ==
    ASSUME Inv, Forgotten, Next
    PROVE  Forgotten'
<1> SUFFICES ASSUME ended' # "no" PROVE conflict' = "no"
  BY DEF Forgotten
<1>1. Crash \/ ExitBegin \/ ExitCheck
  BY EndedMoves DEF Boot
<1>2. job' = job
  BY <1>1 DEF Crash, ExitBegin, ExitCheck
<1> QED
  BY <1>2 DEF Next, History, FindsForeign, TellsConflict

\* While an attempt that failed waits for `state`, nobody else does anything that counts.
LEMMA FailedWaits ==
    ASSUME Inv, Own, Next, ended' = "no",
           op \in Threads, pc[op] = "failed", err = "ownership", ~Up, ended = "no"
    PROVE  \/ op' # "monitor" /\ Paused'
           \/ op' \in Threads /\ pc'[op'] = "failed" /\ err' = "ownership" /\ ~Up'
<1>1. Types /\ Locks /\ Progress /\ op # "free"
  BY RenderersAssumption DEF Inv, Running, Threads
<1>2. CASE Finish(op)
  <2>1. op' # "monitor"
    BY <1>2 DEF Finish
  <2>2. intent' = PausedIntent
    BY <1>2 DEF Finish
  <2> QED
    BY <1>1, <2>1, <2>2 DEF Paused, PausedIntent, Types, Intents
<1>3. ASSUME NEW t \in Threads, Thread(t), ~Finish(op)
      PROVE  UNCHANGED <<op, err, active>> /\ t # op
  <2>1. CASE StartSteps(t)
    <3>1. ~StartEnter(t)
      BY <1>1 DEF StartEnter, OpFree
    <3>2. pc[t] \in Working
      BY <2>1, <3>1 DEF StartSteps, StartBody, ReverifyProxy, ReverifyTun, StartPrepare, StartLaunch,
         StartProve, StartPublish, StartConfirm, RollBackRestore, RollBackStop, Finish, At, Working
    <3>3. t = op
      BY <1>1, <3>2 DEF Locks
    <3>4. ~(StartBody(t) \/ ReverifyProxy(t) \/ ReverifyTun(t) \/ StartPrepare(t) \/ StartLaunch(t))
      BY <3>3 DEF StartBody, ReverifyProxy, ReverifyTun, StartPrepare, StartLaunch, At
    <3>5. ~(StartProve(t) \/ StartPublish(t) \/ StartConfirm(t) \/ RollBackRestore(t) \/ RollBackStop(t))
      BY <3>3 DEF StartProve, StartPublish, StartConfirm, RollBackRestore, RollBackStop, At
    <3> QED
      BY <1>3, <2>1, <3>1, <3>3, <3>4, <3>5 DEF StartSteps
  <2>2. CASE StopSteps(t)
    <3>1. ~(StopEnter(t) \/ TeardownRestore(t) \/ TeardownStop(t))
      BY <1>1 DEF StopEnter, TeardownRestore, TeardownStop, At, OpFree, Progress, MustRestore
    <3> QED
      BY <2>2, <3>1 DEF StopSteps, StopCancel, At
  <2>3. CASE OtherSteps(t)
    BY <1>1, <2>3 DEF OtherSteps, RetryEnter, RetryRecover, ClearStaleProxy, UpdateBegin, UpdateEnd,
       SwitchServer, At, OpFree, Locks, Working
  <2> QED
    BY <1>3, <2>1, <2>2, <2>3 DEF Thread
<1>4. ASSUME ~\E t \in Threads : Thread(t)
      PROVE  op' = op /\ pc'[op] = pc[op] /\ err' = err /\ active' = active
  <2>1. CASE Monitor
    <3>1. CASE MonitorTick \/ MonitorProbed \/ MonitorWarmed
      BY <1>1, <3>1 DEF MonitorTick, MonitorProbed, MonitorWarmed, MonitorRests, SameSession, IsTun,
         Uncertain, At, Goto, Types
    <3>2. CASE ReconnectSkip \/ ReconnectStart \/ ReconnectStop \/ RestartCore
      BY <1>1, <3>2 DEF ReconnectSkip, ReconnectStart, ReconnectStop, RestartCore, ReconnectDue, OpFree,
         At, Return, Types
    <3> QED
      BY <2>1, <3>1, <3>2 DEF Monitor
  <2>2. CASE \E t \in Renderers : Invoke(t)
    BY <1>1, <2>2 DEF Invoke, At, Types
  <2>3. CASE ExitBegin \/ ExitCheck \/ ForeignWrite \/ CoreDies
    BY <1>1, <2>3 DEF ExitBegin, ExitCheck, ForeignWrite, CoreDies, At, Return, Types
  <2> QED
    BY <1>4, <2>1, <2>2, <2>3 DEF Next, Crash, Boot
<1>5. CASE \E t \in Threads : Thread(t)
  BY <1>2, <1>3, <1>5, ThreadMoves DEF Up
<1> QED
  BY <1>4, <1>5 DEF Up

\* The monitor takes `operation` only to reconnect, which a paused intent forbids.
LEMMA MonitorStays ==
    ASSUME Inv, Own, Next, op # "monitor", Paused
    PROVE  op' # "monitor"
<1>1. ~(ReconnectStart \/ ReconnectStop \/ RestartCore)
  BY DEF ReconnectStart, ReconnectStop, RestartCore, ReconnectDue, Paused
<1>2. CASE Thread("monitor")
  <2>1. CASE StartSteps("monitor")
    BY <2>1 DEF StartSteps, StartEnter, StartBody, ReverifyProxy, ReverifyTun, StartPrepare,
       StartLaunch, StartProve, StartPublish, StartConfirm, RollBackRestore, RollBackStop, Finish,
       At, Own, MonitorSteps, Working, Teardown
  <2>2. CASE StopSteps("monitor")
    BY <2>2 DEF StopSteps, StopCancel, StopEnter, TeardownRestore, TeardownStop, TeardownReturn,
       At, Own, MonitorSteps, Working, Teardown
  <2>3. CASE OtherSteps("monitor")
    BY <2>3 DEF OtherSteps, RetryEnter, RetryRecover, ClearStaleProxy, UpdateBegin, UpdateEnd,
       SwitchServer, At, Own, MonitorSteps, Working, Teardown
  <2> QED
    BY <1>2, <2>1, <2>2, <2>3 DEF Thread
<1>3. ASSUME NEW t \in Threads \ {"monitor"}, Thread(t) PROVE op' # "monitor"
  BY <1>3, ThreadKeeps
<1>4. CASE Monitor
  BY <1>1, <1>4 DEF Monitor, MonitorTick, MonitorProbed, MonitorWarmed, ReconnectSkip
<1>5. CASE \/ \E t \in Renderers : Invoke(t)
           \/ ExitBegin \/ ExitCheck \/ ForeignWrite \/ CoreDies \/ Crash \/ Boot
  BY <1>5 DEF Invoke, ExitBegin, ExitCheck, ForeignWrite, CoreDies, Crash, Boot
<1> QED
  BY <1>2, <1>3, <1>4, <1>5 DEF Next

\* The intent is paused before, or by the attempt, that told the user.
LEMMA ToldPausesStep ==
    ASSUME Inv, Own, Found, Forgotten, ToldPauses, Next
    PROVE  ToldPauses'
<1> SUFFICES ASSUME conflict' = "told", ended' = "no"
             PROVE  \/ op' # "monitor" /\ Paused'
                    \/ op' \in Threads /\ pc'[op'] = "failed" /\ err' = "ownership" /\ ~Up'
  BY DEF ToldPauses
<1>1. Types /\ Locks
  BY DEF Inv
<1>2. PausedIntent = NoIntent \/ PausedIntent.paused
  BY <1>1 DEF PausedIntent, Types, Intents
<1>3. CASE conflict # "told"
  <2>1. TellsConflict
    BY <1>3 DEF Next, History
  <2>2. ended = "no"
    <3>1. ended # "no" => Boot
      <4>1. ASSUME ended # "no", NEW t \in Threads PROVE ~Thread(t)
        BY <4>1 DEF Thread, StartSteps, StartEnter, StartBody, ReverifyProxy, ReverifyTun,
           StartPrepare, StartLaunch, StartProve, StartPublish, StartConfirm, RollBackRestore,
           RollBackStop, Finish, StopSteps, StopCancel, StopEnter, TeardownRestore, TeardownStop,
           OtherSteps, RetryEnter, RetryRecover, ClearStaleProxy, UpdateBegin, UpdateEnd,
           SwitchServer, At
      <4> QED
        BY <4>1 DEF Next, Invoke, Monitor, MonitorTick, MonitorProbed, MonitorWarmed,
           ReconnectSkip, ReconnectStart, ReconnectStop, RestartCore, ExitBegin, ExitCheck,
           ForeignWrite, CoreDies, Crash, At
    <3> QED
      BY <2>1, <3>1 DEF Boot, TellsConflict, Status
  <2>3. PICK t \in Threads :
          \/ /\ RollBackStop(t) /\ pc'[t] = "failed" /\ op = t /\ op' = t /\ active' = NoSession
          \/ TeardownStop(t) /\ intent' = PausedIntent
    BY <2>1, <2>2, Tells
  <2>4. CASE RollBackStop(t) /\ pc'[t] = "failed" /\ op' = t /\ active' = NoSession
    BY <2>1, <2>4 DEF TellsConflict, Up
  <2>5. CASE TeardownStop(t) /\ intent' = PausedIntent
    <3>1. pc[t] = "teardown.stop" /\ op' \in {op, "free"} /\ (cmd[t].op # "loss" => op = t)
      BY <1>1, <2>5 DEF TeardownStop, TeardownReturn, At, Locks, Teardown
    <3>2. op' # "monitor"
      <4>1. CASE t = "monitor" /\ cmd[t].op = "loss"
        BY <3>1, <4>1 DEF Own, Working
      <4>2. CASE t = "monitor" /\ cmd[t].op # "loss"
        <5>1. job.foreign
          BY <2>1 DEF TellsConflict
        <5>2. TeardownReturn(t, FALSE) \/ op' = "free"
          BY <2>5, <5>1, <2>1 DEF TeardownStop, TellsConflict, Status
        <5> QED
          BY <4>2, <5>2 DEF TeardownReturn
      <4>3. CASE t # "monitor"
        BY <3>1, <4>3 DEF Own
      <4> QED
        BY <4>1, <4>2, <4>3
    <3> QED
      BY <1>2, <2>5, <3>2 DEF Paused
  <2> QED
    BY <2>3, <2>4, <2>5
<1>4. CASE conflict = "told"
  <2>1. ended = "no"
    BY <1>4 DEF Forgotten
  <2>2. CASE op # "monitor" /\ Paused
    <3>1. op' # "monitor"
      BY <2>2, MonitorStays
    <3>2. intent' \in {intent, PausedIntent, NoIntent}
      <4>1. ASSUME NEW t \in Threads, StartEnter(t), op' = t PROVE FALSE
        <5>1. AcceptsStart
          BY <1>1, <4>1, RenderersAssumption DEF StartEnter, At, OpFree, Goto, Types, Own,
             MonitorSteps, Working, Teardown, AcceptsStart, Threads
        <5>2. job' = job
          BY <4>1 DEF StartEnter
        <5> QED
          BY <5>1, <5>2 DEF Next, History, FindsForeign, TellsConflict
      <4> QED
        BY <1>1, <4>1, IntentMoves
    <3> QED
      BY <1>2, <2>2, <3>1, <3>2 DEF Paused
  <2>3. CASE op \in Threads /\ pc[op] = "failed" /\ err = "ownership" /\ ~Up
    BY <2>1, <2>3, FailedWaits
  <2> QED
    BY <1>4, <2>1, <2>2, <2>3 DEF ToldPauses
<1> QED
  BY <1>3, <1>4

Preserved == Own /\ Found /\ Forgotten /\ ToldPauses

\* The part of the invariant that is about a preserved setting.
LEMMA PreservedInv == Spec => []Preserved
<1>1. Init => Preserved
  <2>1. "monitor" \in Threads /\ "exit" \in Threads
    BY DEF Threads
  <2> QED
    BY <2>1, RenderersAssumption DEF Init, Preserved, Own, Found, Forgotten, ToldPauses,
       MonitorSteps, Command, NoJob, Threads
<1>2. Inv /\ Preserved /\ [Next]_vars => Preserved'
  <2> SUFFICES ASSUME Inv, Preserved, [Next]_vars PROVE Preserved'
    OBVIOUS
  <2>1. CASE UNCHANGED vars
    BY <2>1 DEF vars, history, Preserved, Own, Found, Forgotten, ToldPauses, Paused, Up
  <2> QED
    BY <2>1, OwnStep, FoundStep, ForgottenStep, ToldPausesStep DEF Preserved
<1> QED
  BY <1>1, <1>2, InitInv, StepInv, PTL DEF Spec

\* The monitor never takes a setting over that a teardown told the user was
\* preserved: the intent is paused before `operation` is free again
\* (stop_active_locked, finish_connection_attempt), and only the user's next start
\* gives a new one.
THEOREM ToldTheorem == Spec => ToldConflictPauses
<1>1. Inv /\ Preserved /\ [Next]_vars => [Republishes => conflict # "told"]_vars
  <2> SUFFICES ASSUME Inv, Preserved, Next, Republishes, conflict = "told" PROVE FALSE
    OBVIOUS
  <2>1. registry # "ours" /\ registry' = "ours" /\ op = "monitor"
    BY DEF Republishes
  <2>2. ended = "no" /\ op \in Threads /\ pc[op] = "failed"
    BY <2>1 DEF Preserved, Forgotten, ToldPauses
  <2>3. Types /\ \A t \in Threads : pc[t] # "publish"
    BY <2>2 DEF Inv, Locks, Working
  <2>4. \A o \in Restore(registry, saved) : o.registry # "ours"
    BY <2>1, <2>3 DEF Restore, Result, Direct, Types, Journals
  <2>5. ASSUME NEW t \in Threads, Thread(t) PROVE FALSE
    <3>1. ~(StartPublish(t) \/ RollBackRestore(t) \/ TeardownRestore(t) \/ RetryRecover(t))
      BY <2>1, <2>3, <2>4 DEF StartPublish, RollBackRestore, TeardownRestore, RetryRecover, At, Apply
    <3> QED
      BY <2>1, <2>5, <3>1 DEF Thread, StartSteps, StartEnter, StartBody, ReverifyProxy, ReverifyTun,
         StartPrepare, StartLaunch, StartProve, StartConfirm, RollBackStop, Finish, StopSteps,
         StopCancel, StopEnter, TeardownStop, OtherSteps, RetryEnter, ClearStaleProxy, UpdateBegin,
         UpdateEnd, SwitchServer
  <2>6. ~Monitor
    BY <2>1 DEF Monitor, MonitorTick, MonitorProbed, MonitorWarmed, ReconnectSkip, ReconnectStart,
       ReconnectStop, RestartCore
  <2>7. ~Crash
    BY <2>1, <2>3, <2>4 DEF Crash, Interrupted
  <2> QED
    BY <2>1, <2>2, <2>5, <2>6, <2>7, OtherSettingsAssumption
       DEF Next, Invoke, ExitBegin, ExitCheck, ForeignWrite, CoreDies, Boot, Direct
<1> QED
  BY <1>1, InitInv, StepInv, PreservedInv, PTL DEF Spec, ToldConflictPauses
=============================================================================
