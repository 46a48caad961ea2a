-------------------------- MODULE TunHelperProofs --------------------------
(***************************************************************************)
(* Proofs about TunHelper, for any number of sessions, engines, requests    *)
(* and starts of RouteDeck: OneTunnel, ResidueHasEvidence, TruthfulStop and *)
(* FramesMatch from one inductive invariant.                                *)
(*                                                                         *)
(* A step of a helper changes what belongs to that helper only (`Local`),   *)
(* so its lemma is about `At(h)`, the part of the invariant for one helper.  *)
(***************************************************************************)
EXTENDS TunHelper, TLAPS

-----------------------------------------------------------------------------
(* The inductive invariant *)

\* The application waits for an answer of h; it has a session with h.
Asked(h) == call # NoCall /\ call.h = h
Mine(h) == child # NoChild /\ child.h = h

Requests == {"start", "status", "restart", "stop"}
Answers  == {"failed", "invalid", "running", "stopped", "cleanup_conflict", "stop_conflict"}
Afters   == {"none", "failed", "conflict", "stop", "stop_conflict", "restart", "lost"}

Types ==
    /\ TypeOK
    /\ toHelper \in [Helpers -> {NoFrame} \cup [kind : Requests, id : Ids]]
    /\ toParent \in [Helpers -> {NoFrame} \cup [kind : Answers, id : Nat]
                                 \cup [kind : {"started"}, id : Nat, run : 0..MaxRuns]]
    /\ after \in [Helpers -> Afters]

\* The application's end of a pipe is open for its session, or for the start that
\* makes one, and nothing else.
Session ==
    /\ ~up => child = NoChild /\ call = NoCall
    /\ call # NoCall =>
          /\ open[call.h]
          /\ (call.does = "start") <=> (child = NoChild)
          /\ call.does = "start" => call.id = 2
          /\ call.does # "start" => child.h = call.h /\ child.request = call.id /\ ~child.stopped
    /\ \A h \in Helpers : open[h] => Asked(h) \/ Mine(h)
    /\ child # NoChild /\ child.stopped => ~open[child.h] /\ call = NoCall

\* At most one session directory exists.  A session in use has one, a helper at work
\* keeps its own there, and without a session one that exists asks for recovery.
OneDirectory ==
    /\ \A g, h \in Helpers : directory[g] /\ directory[h] => g = h
    /\ \A h \in Helpers : Asked(h) \/ Mine(h) \/ holds[h] => directory[h]
    /\ up /\ ~recovery /\ child = NoChild /\ call = NoCall => \A h \in Helpers : ~directory[h]

\* A helper that was not launched has left nothing, and one that was just launched
\* belongs to no session yet.
Launched(h) ==
    /\ pc[h] = "off" => ~open[h] /\ ~directory[h] /\ run[h] = 0
    /\ pc[h] \in {"off", "hello"} => last[h] = 0 /\ ~Mine(h)

\* An engine runs only while its helper owns one and keeps the directory; then any
\* adapter is this engine's, and before its launch there is none.
Engine(h) ==
    /\ alive[h] => pc[h] \in Owning
    /\ pc[h] \in {"prepare", "launch", "verify"} \cup Owning => holds[h]
    /\ pc[h] \in {"prepare", "launch"} => run[h] < MaxRuns /\ adapter = NoAdapter
    /\ pc[h] \in Owning => run[h] >= 1 /\ (adapter # NoAdapter => adapter = <<h, run[h]>>)

\* There is a journal from before the launch until the adapter is gone, and once the
\* routes are looked for it names the engine's adapter.
Evidence(h) ==
    /\ \A r \in 1..MaxRuns : adapter = <<h, r>> => r = run[h] /\ journal[h].phase # "none"
    /\ pc[h] \in {"launch", "verify"} \cup Owning => journal[h].phase # "none"
    /\ pc[h] \in {"off", "hello", "start", "prepare", "idle"} => journal[h].phase = "none"
    /\ pc[h] \in {"routes", "started", "serve"} => journal[h].luid = <<h, run[h]>>

Ending == {"cleanup", "doubt", "drop", "verify", "answer"}
Working == {"start", "prepare", "launch", "running", "find", "routes", "started"} \cup Ending

\* What comes after a cleanup, and that it was complete where it must have been.
AfterCleanup(h) ==
    /\ pc[h] \in {"cleanup", "verify"} => after[h] \in {"failed", "stop", "restart", "lost"}
    /\ pc[h] \in {"doubt", "drop"} => after[h] \in {"conflict", "stop_conflict", "lost"}
    /\ pc[h] = "answer" => after[h] # "none"
    /\ pc[h] = "answer" /\ after[h] \in {"failed", "stop", "restart"} =>
          journal[h].phase = "none"

\* One frame at most is between the two, the request or its answer, and while the
\* helper works on the request there is none.
Pipe(h) ==
    /\ toHelper[h] # NoFrame /\ ~Gone(h) => Accepts(h)
    /\ toHelper[h] # NoFrame /\ open[h] =>
          Asked(h) /\ toHelper[h].id = call.id /\ toParent[h] = NoFrame
    /\ toParent[h] # NoFrame =>
          /\ open[h] /\ Asked(h) /\ toParent[h].id = call.id
          /\ pc[h] \in {"serve", "idle", "leaving", "gone"}
    /\ open[h] /\ pc[h] \in Working /\ ~(pc[h] \in Ending /\ after[h] = "lost") =>
          Asked(h) /\ call.id = last[h] /\ toHelper[h] = NoFrame /\ toParent[h] = NoFrame
    /\ open[h] /\ Asked(h) => last[h] <= call.id
    /\ open[h] /\ ~Asked(h) /\ Mine(h) => last[h] <= child.request

\* What the helper works on, and what it has started, is what was asked for.
Wanted(h) ==
    /\ toHelper[h] # NoFrame /\ open[h] => toHelper[h].kind = call.does
    /\ open[h] /\ pc[h] \in Working \ Ending => call.does \in {"start", "restart"}
    /\ open[h] /\ pc[h] \in Ending /\ after[h] = "restart" => call.does = "restart"
    /\ toParent[h].kind = "started" => call.does \in {"start", "restart"}

\* The engine the application knows of is an earlier one than the helper's, or not a
\* later one, and its routes are gone.
Past(h)   == child.run < run[h] /\ <<h, child.run>> \notin routes
Before(h) == child.run <= run[h] /\ <<h, child.run>> \notin routes

\* How the engine the application knows of relates to the helper's.
Known(h) ==
    open[h] /\ Mine(h) =>
        /\ pc[h] = "serve" => child.run = run[h] \/ toParent[h].kind = "started"
        /\ pc[h] \in {"cleanup", "verify"} /\ after[h] \in {"stop", "restart"} =>
              child.run = run[h] /\ journal[h].luid = <<h, run[h]>>
        /\ pc[h] \in {"start", "prepare", "launch", "idle"} => Before(h)
        /\ pc[h] = "answer" /\ after[h] \in {"failed", "stop", "restart"} => Before(h)
        /\ pc[h] \in {"running", "find", "routes", "started"} => Past(h)
        /\ pc[h] \in {"cleanup", "verify"} /\ after[h] = "failed" => Past(h)

\* Nothing of the engine the application knows of is left, and h makes no other.
Settled(h) ==
    pc[h] \in {"leaving", "gone"} /\ journal[h].phase = "none" /\ <<h, child.run>> \notin routes

\* An answer that waits is still true, and so is the stop that was confirmed.
Told(h) ==
    /\ toParent[h].kind = "started" => toParent[h].run = run[h] /\ pc[h] \in {"serve", "gone"}
    /\ toParent[h].kind = "stopped" /\ Mine(h) => Settled(h)
    /\ Mine(h) /\ child.stopped => Settled(h)

At(h) == /\ Launched(h) /\ Engine(h) /\ Evidence(h) /\ AfterCleanup(h)
         /\ Pipe(h) /\ Wanted(h) /\ Known(h) /\ Told(h)

Inv == Types /\ Session /\ OneDirectory /\ \A h \in Helpers : At(h)

-----------------------------------------------------------------------------
(* Facts used throughout *)

\* The records that stand for "none" are no members of the sets of the real ones.
LEMMA Absent ==
  /\ \A c \in [h : Helpers, run : 0..MaxRuns, request : Ids, stopped : BOOLEAN] : c # NoChild
  /\ \A c \in [does : Requests, h : Helpers, id : Ids] : c # NoCall
  /\ \A f \in [kind : Requests, id : Ids] : f # NoFrame
  /\ \A l \in Luids : l # NoLuid /\ l # NoAdapter
<1>1. \A c \in [h : Helpers, run : 0..MaxRuns, request : Ids, stopped : BOOLEAN] : c # NoChild
  BY DEF NoChild
<1>2. \A c \in [does : Requests, h : Helpers, id : Ids] : c # NoCall
  BY DEF NoCall
<1>3. \A f \in [kind : Requests, id : Ids] : f # NoFrame
  BY DEF NoFrame
<1>4. \A l \in Luids : l # NoLuid /\ l # NoAdapter
  BY SMTT(60) DEF Luids, NoLuid, NoAdapter
<1> QED
  BY <1>1, <1>2, <1>3, <1>4

\* The numbers and kinds in a session, a call and a frame that are there.
LEMMA Numbers ==
  ASSUME Types, NEW h \in Helpers
  PROVE  /\ Asked(h) => call.id \in Ids /\ call.does \in Requests
         /\ Mine(h) => child.request \in Ids /\ child.run \in 0..MaxRuns
         /\ toHelper[h] # NoFrame => toHelper[h].id \in Ids /\ toHelper[h].kind \in Requests
         /\ toParent[h] # NoFrame =>
               toParent[h].id \in Nat /\ toParent[h].kind \in Answers \cup {"started"}
         /\ Ids \subseteq Nat
         /\ last[h] \in Nat /\ run[h] \in Nat
         /\ NoFrame.kind = "none"
         /\ \A r \in 1..MaxRuns : <<h, r>> # NoAdapter
<1>1. Asked(h) => call.id \in Ids /\ call.does \in Requests
  BY DEF Types, TypeOK, Asked, Requests
<1>2. Mine(h) => child.request \in Ids /\ child.run \in 0..MaxRuns
  BY DEF Types, TypeOK, Mine
<1>3. toHelper[h] # NoFrame => toHelper[h].id \in Ids /\ toHelper[h].kind \in Requests
  BY DEF Types
<1>4. toParent[h] # NoFrame =>
         toParent[h].id \in Nat /\ toParent[h].kind \in Answers \cup {"started"}
  BY DEF Types
<1>5. Ids \subseteq Nat /\ last[h] \in Nat /\ run[h] \in Nat /\ NoFrame.kind = "none"
  BY DEF Types, TypeOK, Ids, NoFrame
<1>6. \A r \in 1..MaxRuns : <<h, r>> # NoAdapter
  BY DEF NoAdapter
<1> QED
  BY <1>1, <1>2, <1>3, <1>4, <1>5, <1>6

\* Nothing was ever launched.
LEMMA InitInv == Init => Inv
<1> SUFFICES ASSUME Init PROVE Inv
  OBVIOUS
<1>1. Types
  <2>1. journal \in [Helpers -> [phase : Phases, luid : Luids \cup {NoLuid}]]
    BY DEF Init, NoJournal, Journal, Phases
  <2>2. /\ open \in [Helpers -> BOOLEAN] /\ directory \in [Helpers -> BOOLEAN]
        /\ holds \in [Helpers -> BOOLEAN] /\ alive \in [Helpers -> BOOLEAN]
    BY Zenon DEF Init
  <2>3. /\ toHelper \in [Helpers -> {NoFrame} \cup [kind : Requests, id : Ids]]
        /\ toParent \in [Helpers -> {NoFrame} \cup [kind : Answers, id : Nat]
                                      \cup [kind : {"started"}, id : Nat, run : 0..MaxRuns]]
    BY Zenon DEF Init
  <2>4. /\ boots \in 0..MaxBoots /\ last \in [Helpers -> Nat]
        /\ run \in [Helpers -> 0..MaxRuns] /\ pc \in [Helpers -> Steps]
        /\ after \in [Helpers -> Afters]
    BY TunHelperBounds DEF Init, Steps, Afters
  <2> QED
    BY <2>1, <2>4 DEF Init, Types, TypeOK
<1>2. Session /\ OneDirectory
  BY DEF Init, Session, OneDirectory, Asked, Mine
<1>3. ASSUME NEW h \in Helpers PROVE At(h)
  BY DEF Init, At, Launched, Engine, Evidence, AfterCleanup, Pipe, Wanted, Known, Told,
     Mine, Owning, NoJournal, Journal, NoFrame, NoAdapter
<1> QED
  BY <1>1, <1>2, <1>3 DEF Inv

-----------------------------------------------------------------------------
(* Steps of one helper *)

\* A step changes function f at h at most.
Only(f, h) == f' = [f EXCEPT ![h] = f'[h]]

\* What a step of helper h may change.
Local(h) ==
    /\ UNCHANGED <<application, parent, directory, adapter, routes>>
    /\ Only(pc, h) /\ Only(last, h) /\ Only(after, h) /\ Only(holds, h)
    /\ Only(journal, h) /\ Only(run, h) /\ Only(alive, h)
    /\ Only(toHelper, h) /\ Only(toParent, h)

\* The types of what belongs to helper h.
TypesOf(h) ==
    /\ pc[h] \in Steps /\ last[h] \in Nat /\ after[h] \in Afters /\ holds[h] \in BOOLEAN
    /\ journal[h] \in [phase : Phases, luid : Luids \cup {NoLuid}]
    /\ run[h] \in 0..MaxRuns /\ alive[h] \in BOOLEAN
    /\ toHelper[h] \in {NoFrame} \cup [kind : Requests, id : Ids]
    /\ toParent[h] \in {NoFrame} \cup [kind : Answers, id : Nat]
                        \cup [kind : {"started"}, id : Nat, run : 0..MaxRuns]

\* Writing one place of a function.
LEMMA Update ==
  ASSUME NEW S, NEW h \in Helpers, NEW f \in [Helpers -> S], NEW v \in S
  PROVE  [f EXCEPT ![h] = v] \in [Helpers -> S]
OBVIOUS

\* A step of h keeps the types of everybody's state, if it keeps those of h's.
LEMMA LocalTypes ==
  ASSUME Types, NEW h \in Helpers, Local(h), TypesOf(h)'
  PROVE  Types'
<1>1. /\ pc' \in [Helpers -> Steps] /\ last' \in [Helpers -> Nat]
      /\ after' \in [Helpers -> Afters] /\ run' \in [Helpers -> 0..MaxRuns]
  BY DEF Types, TypeOK, TypesOf, Local, Only
<1>2. holds' \in [Helpers -> BOOLEAN] /\ alive' \in [Helpers -> BOOLEAN]
  BY Zenon DEF Types, TypeOK, TypesOf, Local, Only
<1>3. journal' \in [Helpers -> [phase : Phases, luid : Luids \cup {NoLuid}]]
  BY Zenon DEF Types, TypeOK, TypesOf, Local, Only
<1>4. /\ toHelper' \in [Helpers -> {NoFrame} \cup [kind : Requests, id : Ids]]
      /\ toParent' \in [Helpers -> {NoFrame} \cup [kind : Answers, id : Nat]
                                    \cup [kind : {"started"}, id : Nat, run : 0..MaxRuns]]
  BY Zenon DEF Types, TypesOf, Local, Only
<1> QED
  BY <1>1, <1>2, <1>3, <1>4 DEF Types, TypeOK, Local, application, parent

\* A step of h keeps the invariant, if it keeps the types and the part of h, and h keeps
\* a directory only where there is one.
LEMMA LocalInv ==
  ASSUME Inv, NEW h \in Helpers, Local(h), TypesOf(h)', At(h)', holds'[h] => directory[h]
  PROVE  Inv'
<1>0. Types'
  BY LocalTypes DEF Inv
<1>1. Session'
  BY DEF Inv, Session, Local, application, parent, Asked, Mine
<1>2. OneDirectory'
  BY DEF Inv, OneDirectory, Local, Only, Types, TypeOK, application, parent, Asked, Mine
<1>3. ASSUME NEW g \in Helpers PROVE At(g)'
  <2>1. CASE g = h
    BY <2>1
  <2>2. CASE g # h
    <3>1. At(g)
      BY DEF Inv
    <3>2. /\ pc'[g] = pc[g] /\ last'[g] = last[g] /\ after'[g] = after[g]
          /\ holds'[g] = holds[g] /\ journal'[g] = journal[g]
          /\ run'[g] = run[g] /\ alive'[g] = alive[g]
          /\ toHelper'[g] = toHelper[g] /\ toParent'[g] = toParent[g]
      BY <2>2 DEF Local, Only, Inv, Types, TypeOK
    <3>3. UNCHANGED <<child, call, open, directory, adapter, routes>>
      BY DEF Local, parent
    <3> QED
      BY <3>1, <3>2, <3>3 DEF At, Launched, Engine, Evidence, AfterCleanup, Pipe,
         Wanted, Known, Told, Settled, Past, Before, Mine, Asked, Gone, Accepts
  <2> QED
    BY <2>2
<1> QED
  BY <1>0, <1>1, <1>2, <1>3 DEF Inv

\* How the variables are grouped, and the operators that only abbreviate updates.
USE DEF application, parent, pipe, helper, files, network, Goto, GoAfter, Write, Consume,
        Accept, ToParent, Journal

\* The handshake: nothing is owned yet.
LEMMA HelloInv ==
  ASSUME Inv, NEW h \in Helpers, Hello(h)
  PROVE  Inv'
<1>1. Types /\ At(h) /\ OneDirectory
  BY DEF Inv
<1>2. Local(h)
  BY <1>1 DEF Hello, Exit, Local, Only, Types, TypeOK
<1>3. TypesOf(h)'
  <2>1. /\ pc'[h] \in Steps /\ last'[h] \in Nat /\ after'[h] \in Afters
        /\ run'[h] \in 0..MaxRuns
    BY <1>1, Numbers DEF Hello, Exit, Types, TypeOK, Steps, Afters
  <2>2. holds'[h] \in BOOLEAN /\ alive'[h] \in BOOLEAN
    BY <1>1 DEF Hello, Exit, Types, TypeOK
  <2>3. journal'[h] \in [phase : Phases, luid : Luids \cup {NoLuid}]
    BY <1>1 DEF Hello, Types, TypeOK
  <2>4. /\ toHelper'[h] \in {NoFrame} \cup [kind : Requests, id : Ids]
        /\ toParent'[h] \in {NoFrame} \cup [kind : Answers, id : Nat]
                             \cup [kind : {"started"}, id : Nat, run : 0..MaxRuns]
    BY <1>1 DEF Hello, Exit, Types
  <2> QED
    BY <2>1, <2>2, <2>3, <2>4 DEF TypesOf
<1>4. Launched(h)' /\ Engine(h)' /\ Evidence(h)' /\ AfterCleanup(h)' /\ (holds'[h] => directory[h])
  BY <1>1 DEF Hello, Exit, Types, TypeOK, OneDirectory, At, Launched, Engine, Evidence,
     AfterCleanup, Owning
<1>5. Pipe(h)' /\ Wanted(h)'
  <2>1. Pipe(h)'
    BY <1>1, Numbers DEF Hello, Exit, Types, TypeOK, At, Pipe, Asked, Mine, Working,
       Ending
  <2>2. Wanted(h)'
    BY DEF Inv, Session, Hello, Exit, Types, TypeOK, At, Launched, Wanted, Asked, Mine,
       Ending
  <2> QED
    BY <2>1, <2>2
<1>6. Known(h)' /\ Told(h)'
  BY <1>1 DEF Hello, At, Launched, Known, Told, Mine
<1> QED
  BY <1>2, <1>3, <1>4, <1>5, <1>6, LocalInv DEF At

\* What the helper refuses before it touches anything leaves no journal.
LEMMA PreflightInv ==
  ASSUME Inv, NEW h \in Helpers, Preflight(h)
  PROVE  Inv'
<1>1. Types /\ At(h) /\ OneDirectory
  BY DEF Inv
<1>2. Local(h)
  BY <1>1 DEF Preflight, FailStart, Local, Only, Types, TypeOK
<1>3. TypesOf(h)'
  <2>1. /\ pc'[h] \in Steps /\ last'[h] \in Nat /\ after'[h] \in Afters
        /\ run'[h] \in 0..MaxRuns
    BY <1>1 DEF Preflight, FailStart, Types, TypeOK, Steps, Afters
  <2>2. holds'[h] \in BOOLEAN /\ alive'[h] \in BOOLEAN
    BY <1>1 DEF Preflight, Types, TypeOK
  <2>3. journal'[h] \in [phase : Phases, luid : Luids \cup {NoLuid}]
    BY <1>1 DEF Preflight, Types, TypeOK
  <2>4. /\ toHelper'[h] \in {NoFrame} \cup [kind : Requests, id : Ids]
        /\ toParent'[h] \in {NoFrame} \cup [kind : Answers, id : Nat]
                             \cup [kind : {"started"}, id : Nat, run : 0..MaxRuns]
    BY <1>1 DEF Preflight, Types
  <2> QED
    BY <2>1, <2>2, <2>3, <2>4 DEF TypesOf
<1>4. Launched(h)' /\ Engine(h)' /\ Evidence(h)' /\ AfterCleanup(h)' /\ (holds'[h] => directory[h])
  BY <1>1 DEF Preflight, AdapterAbsent, HandsOver, FailStart, Types, TypeOK,
     OneDirectory, At, Launched, Engine, Evidence, AfterCleanup, Mine, Asked, Owning
<1>5. Pipe(h)' /\ Wanted(h)'
  BY <1>1 DEF Preflight, FailStart, Types, TypeOK, At, Pipe, Wanted, Asked, Accepts,
     Gone, Working, Ending
<1>6. Known(h)' /\ Told(h)'
  BY <1>1 DEF Preflight, FailStart, Types, TypeOK, At, Known, Told, Settled, Before,
     Mine
<1> QED
  BY <1>2, <1>3, <1>4, <1>5, <1>6, LocalInv DEF At

\* The journal is there before the launch, while no engine of this session has run.
LEMMA PrepareInv ==
  ASSUME Inv, NEW h \in Helpers, Prepare(h)
  PROVE  Inv'
<1>1. Types /\ At(h) /\ OneDirectory
  BY DEF Inv
<1>2. Local(h)
  BY <1>1 DEF Prepare, FailStart, Local, Only, Types, TypeOK
<1>3. TypesOf(h)'
  <2>1. /\ pc'[h] \in Steps /\ last'[h] \in Nat /\ after'[h] \in Afters
        /\ run'[h] \in 0..MaxRuns
    BY <1>1 DEF Prepare, FailStart, Types, TypeOK, Steps, Afters
  <2>2. holds'[h] \in BOOLEAN /\ alive'[h] \in BOOLEAN
    BY <1>1 DEF Prepare, Types, TypeOK
  <2>3. journal'[h] \in [phase : Phases, luid : Luids \cup {NoLuid}]
    BY <1>1 DEF Prepare, Types, TypeOK, Phases
  <2>4. /\ toHelper'[h] \in {NoFrame} \cup [kind : Requests, id : Ids]
        /\ toParent'[h] \in {NoFrame} \cup [kind : Answers, id : Nat]
                             \cup [kind : {"started"}, id : Nat, run : 0..MaxRuns]
    BY <1>1 DEF Prepare, Types
  <2> QED
    BY <2>1, <2>2, <2>3, <2>4 DEF TypesOf
<1>4. Launched(h)' /\ Engine(h)' /\ Evidence(h)' /\ AfterCleanup(h)' /\ (holds'[h] => directory[h])
  BY <1>1 DEF Prepare, FailStart, Types, TypeOK, OneDirectory, At, Launched, Engine,
     Evidence, AfterCleanup, Owning
<1>5. Pipe(h)' /\ Wanted(h)'
  BY <1>1 DEF Prepare, FailStart, Types, TypeOK, At, Pipe, Wanted, Asked, Accepts, Gone,
     Working, Ending
<1>6. Known(h)' /\ Told(h)'
  BY <1>1 DEF Prepare, FailStart, Types, TypeOK, At, Known, Told, Settled, Before, Mine
<1> QED
  BY <1>2, <1>3, <1>4, <1>5, <1>6, LocalInv DEF At

\* With the launch the number of the run is used, whether the engine survives it or not.
LEMMA LaunchEngineInv ==
  ASSUME Inv, NEW h \in Helpers, LaunchEngine(h)
  PROVE  Inv'
<1>1. Types /\ At(h) /\ OneDirectory
  BY DEF Inv
<1>2. Local(h)
  BY <1>1 DEF LaunchEngine, FailStart, Local, Only, Types, TypeOK
<1>3. TypesOf(h)'
  <2>1. /\ pc'[h] \in Steps /\ last'[h] \in Nat /\ after'[h] \in Afters
        /\ run'[h] \in 0..MaxRuns
    BY <1>1, TunHelperBounds DEF LaunchEngine, FailStart, Types, TypeOK, At, Engine,
       Steps, Owning, Afters
  <2>2. holds'[h] \in BOOLEAN /\ alive'[h] \in BOOLEAN
    BY <1>1 DEF LaunchEngine, Types, TypeOK
  <2>3. journal'[h] \in [phase : Phases, luid : Luids \cup {NoLuid}]
    BY <1>1 DEF LaunchEngine, Types, TypeOK, Phases
  <2>4. /\ toHelper'[h] \in {NoFrame} \cup [kind : Requests, id : Ids]
        /\ toParent'[h] \in {NoFrame} \cup [kind : Answers, id : Nat]
                             \cup [kind : {"started"}, id : Nat, run : 0..MaxRuns]
    BY <1>1 DEF LaunchEngine, Types
  <2> QED
    BY <2>1, <2>2, <2>3, <2>4 DEF TypesOf
<1>4. Launched(h)' /\ Engine(h)' /\ Evidence(h)' /\ AfterCleanup(h)' /\ (holds'[h] => directory[h])
  BY <1>1, Numbers DEF LaunchEngine, FailStart, Types, TypeOK, OneDirectory, At,
     Launched, Engine, Evidence, AfterCleanup, Owning
<1>5. Pipe(h)' /\ Wanted(h)'
  BY <1>1 DEF LaunchEngine, FailStart, Types, TypeOK, At, Pipe, Wanted, Asked, Accepts,
     Gone, Working, Ending
<1>6. Known(h)' /\ Told(h)'
  BY <1>1 DEF LaunchEngine, FailStart, Types, TypeOK, At, Known, Told, Settled, Past,
     Before, Mine
<1> QED
  BY <1>2, <1>3, <1>4, <1>5, <1>6, LocalInv DEF At

\* The journal says that the engine runs, and names no adapter yet.
LEMMA MarkRunningInv ==
  ASSUME Inv, NEW h \in Helpers, MarkRunning(h)
  PROVE  Inv'
<1>1. Types /\ At(h) /\ OneDirectory
  BY DEF Inv
<1>2. Local(h)
  BY <1>1 DEF MarkRunning, CleanUp, Local, Only, Types, TypeOK
<1>3. TypesOf(h)'
  BY <1>1 DEF MarkRunning, CleanUp, TypesOf, Types, TypeOK, Steps, Owning, Phases,
     Afters
<1>4. Launched(h)' /\ Engine(h)' /\ Evidence(h)' /\ AfterCleanup(h)' /\ (holds'[h] => directory[h])
  BY <1>1 DEF MarkRunning, CleanUp, Types, TypeOK, OneDirectory, At, Launched, Engine,
     Evidence, AfterCleanup, Owning
<1>5. Pipe(h)' /\ Wanted(h)'
  BY <1>1 DEF MarkRunning, CleanUp, Types, TypeOK, At, Pipe, Wanted, Asked, Accepts,
     Gone, Working, Ending
<1>6. Known(h)' /\ Told(h)'
  BY <1>1 DEF MarkRunning, CleanUp, Types, TypeOK, At, Known, Told, Settled, Past, Mine
<1> QED
  BY <1>2, <1>3, <1>4, <1>5, <1>6, LocalInv DEF At

\* The journal names the adapter that was found, which can only be this engine's.
LEMMA FindAdapterInv ==
  ASSUME Inv, NEW h \in Helpers, FindAdapter(h)
  PROVE  Inv'
<1>1. Types /\ At(h) /\ OneDirectory
  BY DEF Inv
<1>2. Local(h)
  BY <1>1 DEF FindAdapter, CleanUp, Local, Only, Types, TypeOK
<1>3. TypesOf(h)'
  BY <1>1 DEF FindAdapter, CleanUp, TypesOf, Types, TypeOK, Steps, Owning, Phases,
     Afters
<1>4. Launched(h)' /\ Engine(h)' /\ Evidence(h)' /\ AfterCleanup(h)' /\ (holds'[h] => directory[h])
  BY <1>1 DEF FindAdapter, CleanUp, Types, TypeOK, OneDirectory, At, Launched, Engine,
     Evidence, AfterCleanup, Owning
<1>5. Pipe(h)' /\ Wanted(h)'
  BY <1>1 DEF FindAdapter, CleanUp, Types, TypeOK, At, Pipe, Wanted, Asked, Accepts,
     Gone, Working, Ending
<1>6. Known(h)' /\ Told(h)'
  BY <1>1 DEF FindAdapter, CleanUp, Types, TypeOK, At, Known, Told, Settled, Past, Mine
<1> QED
  BY <1>2, <1>3, <1>4, <1>5, <1>6, LocalInv DEF At

\* The routes found are those through the adapter that the journal names.
LEMMA FindRoutesInv ==
  ASSUME Inv, NEW h \in Helpers, FindRoutes(h)
  PROVE  Inv'
<1>1. Types /\ At(h) /\ OneDirectory
  BY DEF Inv
<1>2. Local(h)
  BY <1>1 DEF FindRoutes, CleanUp, Local, Only, Types, TypeOK
<1>3. TypesOf(h)'
  BY <1>1 DEF FindRoutes, CleanUp, TypesOf, Types, TypeOK, Steps, Owning, Phases, Afters
<1>4. Launched(h)' /\ Engine(h)' /\ Evidence(h)' /\ AfterCleanup(h)' /\ (holds'[h] => directory[h])
  BY <1>1 DEF FindRoutes, CleanUp, Types, TypeOK, OneDirectory, At, Launched, Engine,
     Evidence, AfterCleanup, Owning
<1>5. Pipe(h)' /\ Wanted(h)'
  BY <1>1 DEF FindRoutes, CleanUp, Types, TypeOK, At, Pipe, Wanted, Asked, Accepts,
     Gone, Working, Ending
<1>6. Known(h)' /\ Told(h)'
  BY <1>1 DEF FindRoutes, CleanUp, Types, TypeOK, At, Known, Told, Settled, Past, Mine
<1> QED
  BY <1>2, <1>3, <1>4, <1>5, <1>6, LocalInv DEF At

\* The answer names the run the helper owns, while the application waits for it.
LEMMA TellStartedInv ==
  ASSUME Inv, NEW h \in Helpers, TellStarted(h)
  PROVE  Inv'
<1>1. Types /\ At(h) /\ OneDirectory
  BY DEF Inv
<1>2. Local(h)
  BY <1>1 DEF TellStarted, CleanUp, Local, Only, Types, TypeOK
<1>3. TypesOf(h)'
  BY <1>1 DEF TellStarted, Started, CleanUp, TypesOf, Types, TypeOK, Steps, Owning,
     Afters
<1>4. Launched(h)' /\ Engine(h)' /\ Evidence(h)' /\ AfterCleanup(h)' /\ (holds'[h] => directory[h])
  BY <1>1 DEF TellStarted, CleanUp, Types, TypeOK, OneDirectory, At, Launched, Engine,
     Evidence, AfterCleanup, Owning
<1>5. Pipe(h)' /\ Wanted(h)'
  BY <1>1 DEF TellStarted, Started, ParentLost, Types, TypeOK, At, Pipe, Wanted, Asked,
     Accepts, Gone, Working, Ending
<1>6. Known(h)' /\ Told(h)'
  BY <1>1 DEF TellStarted, Started, ParentLost, Types, TypeOK, At, Known, Told, Settled,
     Mine
<1> QED
  BY <1>2, <1>3, <1>4, <1>5, <1>6, LocalInv DEF At

\* A status leaves the engine as it is; its answer has the number of the request.
LEMMA ServeStatusInv ==
  ASSUME Inv, NEW h \in Helpers, ServeStatus(h)
  PROVE  Inv'
<1>1. Types /\ At(h) /\ OneDirectory
  BY DEF Inv
<1>2. Local(h)
  BY <1>1 DEF ServeStatus, CleanUp, Local, Only, Types, TypeOK
<1>3. TypesOf(h)'
  BY <1>1, Numbers DEF ServeStatus, StatusKinds, Frame, CleanUp, TypesOf, Types, TypeOK,
     Steps, Owning, Answers, Afters
<1>4. Launched(h)' /\ Engine(h)' /\ Evidence(h)' /\ AfterCleanup(h)' /\ (holds'[h] => directory[h])
  BY <1>1 DEF ServeStatus, Reading, CleanUp, Types, TypeOK, OneDirectory, At, Launched,
     Engine, Evidence, AfterCleanup, Owning
<1>5. Pipe(h)' /\ Wanted(h)'
  BY <1>1, Numbers DEF ServeStatus, Reading, StatusKinds, Frame, CleanUp, Types, TypeOK,
     At, Pipe, Wanted, Asked, Working, Ending
<1>6. Known(h)' /\ Told(h)'
  BY <1>1, Numbers DEF ServeStatus, Reading, StatusKinds, Frame, CleanUp, Types, TypeOK,
     At, Pipe, Known, Told, Settled, Mine
<1> QED
  BY <1>2, <1>3, <1>4, <1>5, <1>6, LocalInv DEF At

\* A stop or a restart begins a cleanup of the engine the application knows of.
LEMMA ServeCommandInv ==
  ASSUME Inv, NEW h \in Helpers, ServeCommand(h)
  PROVE  Inv'
<1>1. Types /\ At(h) /\ OneDirectory
  BY DEF Inv
<1>2. Local(h)
  BY <1>1 DEF ServeCommand, CleanUp, Local, Only, Types, TypeOK
<1>3. TypesOf(h)'
  BY <1>1, Numbers DEF ServeCommand, CleanUp, TypesOf, Types, TypeOK, Steps, Owning,
     Afters
<1>4. Launched(h)' /\ Engine(h)' /\ Evidence(h)' /\ AfterCleanup(h)' /\ (holds'[h] => directory[h])
  BY <1>1 DEF ServeCommand, Reading, CleanUp, Types, OneDirectory, At, Launched, Engine,
     Evidence, AfterCleanup, Owning
<1>5. Pipe(h)' /\ Wanted(h)'
  BY <1>1, Numbers DEF ServeCommand, CleanUp, Types, TypeOK, At, Pipe, Wanted, Asked,
     Working
<1>6. Known(h)' /\ Told(h)'
  BY <1>1, Numbers DEF ServeCommand, Reading, CleanUp, Types, At, Pipe, Evidence, Known,
     Told, Settled, Mine
<1> QED
  BY <1>2, <1>3, <1>4, <1>5, <1>6, LocalInv DEF At

\* The pipe is closed, or a frame is out of order: the cleanup owes nobody an answer.
LEMMA ServeLostInv ==
  ASSUME Inv, NEW h \in Helpers, ServeLost(h)
  PROVE  Inv'
<1>1. Types /\ At(h) /\ OneDirectory
  BY DEF Inv
<1>2. Local(h)
  BY <1>1 DEF ServeLost, CleanUp, Local, Only, Types, TypeOK
<1>3. TypesOf(h)'
  BY <1>1 DEF ServeLost, CleanUp, TypesOf, Types, TypeOK, Steps, Owning, Afters
<1>4. Launched(h)' /\ Engine(h)' /\ Evidence(h)' /\ AfterCleanup(h)' /\ (holds'[h] => directory[h])
  BY <1>1 DEF ServeLost, CleanUp, Types, OneDirectory, At, Launched, Engine, Evidence,
     AfterCleanup, Owning
<1>5. Pipe(h)' /\ Wanted(h)'
  BY <1>1 DEF ServeLost, ParentLost, At, Pipe, Wanted, Accepts, Gone
<1>6. Known(h)' /\ Told(h)'
  BY <1>1, Numbers DEF ServeLost, ParentLost, CleanUp, Types, At, Pipe, Known, Told,
     Settled, Mine
<1> QED
  BY <1>2, <1>3, <1>4, <1>5, <1>6, LocalInv DEF At

\* The engine is stopped while the journal is still there, and before the answer.
LEMMA StopEngineInv ==
  ASSUME Inv, NEW h \in Helpers, StopEngine(h)
  PROVE  Inv'
<1>1. Types /\ At(h) /\ OneDirectory
  BY DEF Inv
<1>2. Local(h)
  BY <1>1 DEF StopEngine, Local, Only, Types, TypeOK
<1>3. TypesOf(h)'
  <2>1. /\ pc'[h] \in Steps /\ last'[h] \in Nat /\ after'[h] \in Afters
        /\ run'[h] \in 0..MaxRuns
    BY <1>1 DEF StopEngine, Worse, Types, TypeOK, Steps, Owning, Afters
  <2>2. holds'[h] \in BOOLEAN /\ alive'[h] \in BOOLEAN
    BY <1>1 DEF StopEngine, Types, TypeOK
  <2>3. journal'[h] \in [phase : Phases, luid : Luids \cup {NoLuid}]
    BY <1>1 DEF StopEngine, Types, TypeOK, Phases
  <2>4. /\ toHelper'[h] \in {NoFrame} \cup [kind : Requests, id : Ids]
        /\ toParent'[h] \in {NoFrame} \cup [kind : Answers, id : Nat]
                             \cup [kind : {"started"}, id : Nat, run : 0..MaxRuns]
    BY <1>1 DEF StopEngine, Types
  <2> QED
    BY <2>1, <2>2, <2>3, <2>4 DEF TypesOf
<1>4. Launched(h)' /\ Engine(h)' /\ Evidence(h)' /\ AfterCleanup(h)' /\ (holds'[h] => directory[h])
  BY <1>1 DEF StopEngine, Worse, Types, TypeOK, OneDirectory, At, Launched, Engine,
     Evidence, AfterCleanup, Owning
<1>5. Pipe(h)' /\ Wanted(h)'
  BY <1>1 DEF StopEngine, Worse, Types, TypeOK, At, Pipe, Wanted, Asked, Mine, Accepts,
     Gone, Working, Ending
<1>6. Known(h)' /\ Told(h)'
  BY <1>1 DEF StopEngine, Worse, Types, TypeOK, At, Known, Told, Settled, Past, Mine
<1> QED
  BY <1>2, <1>3, <1>4, <1>5, <1>6, LocalInv DEF At

\* A mark of conflict is a journal too, and a failed one leaves what was there.
LEMMA MarkConflictInv ==
  ASSUME Inv, NEW h \in Helpers, MarkConflict(h)
  PROVE  Inv'
<1>1. Types /\ At(h) /\ OneDirectory
  BY DEF Inv
<1>2. Local(h)
  BY <1>1 DEF MarkConflict, Local, Only, Types, TypeOK
<1>3. TypesOf(h)'
  <2>1. /\ pc'[h] \in Steps /\ last'[h] \in Nat /\ after'[h] \in Afters
        /\ run'[h] \in 0..MaxRuns
    BY <1>1 DEF MarkConflict, Types, TypeOK, Steps, Owning, Afters
  <2>2. holds'[h] \in BOOLEAN /\ alive'[h] \in BOOLEAN
    BY <1>1 DEF MarkConflict, Types, TypeOK
  <2>3. journal'[h] \in [phase : Phases, luid : Luids \cup {NoLuid}]
    BY <1>1 DEF MarkConflict, Conflict, Types, TypeOK, Phases
  <2>4. /\ toHelper'[h] \in {NoFrame} \cup [kind : Requests, id : Ids]
        /\ toParent'[h] \in {NoFrame} \cup [kind : Answers, id : Nat]
                             \cup [kind : {"started"}, id : Nat, run : 0..MaxRuns]
    BY <1>1 DEF MarkConflict, Types
  <2> QED
    BY <2>1, <2>2, <2>3, <2>4 DEF TypesOf
<1>4. Launched(h)' /\ Engine(h)' /\ Evidence(h)' /\ AfterCleanup(h)' /\ (holds'[h] => directory[h])
  BY <1>1 DEF MarkConflict, Conflict, Types, TypeOK, OneDirectory, At, Launched, Engine,
     Evidence, AfterCleanup, Owning
<1>5. Pipe(h)' /\ Wanted(h)'
  BY <1>1 DEF MarkConflict, Conflict, Types, TypeOK, At, Pipe, Wanted, Asked, Mine, Accepts,
     Gone, Working, Ending
<1>6. Known(h)' /\ Told(h)'
  BY <1>1 DEF MarkConflict, Conflict, Types, TypeOK, At, Known, Told, Settled, Past, Mine
<1> QED
  BY <1>2, <1>3, <1>4, <1>5, <1>6, LocalInv DEF At

\* What a failed stop left of the engine goes before the answer.
LEMMA DropEngineInv ==
  ASSUME Inv, NEW h \in Helpers, DropEngine(h)
  PROVE  Inv'
<1>1. Types /\ At(h) /\ OneDirectory
  BY DEF Inv
<1>2. Local(h)
  BY <1>1 DEF DropEngine, Local, Only, Types, TypeOK
<1>3. TypesOf(h)'
  <2>1. /\ pc'[h] \in Steps /\ last'[h] \in Nat /\ after'[h] \in Afters
        /\ run'[h] \in 0..MaxRuns
    BY <1>1 DEF DropEngine, Types, TypeOK, Steps, Afters
  <2>2. holds'[h] \in BOOLEAN /\ alive'[h] \in BOOLEAN
    BY <1>1 DEF DropEngine, Types, TypeOK
  <2>3. journal'[h] \in [phase : Phases, luid : Luids \cup {NoLuid}]
    BY <1>1 DEF DropEngine, Types, TypeOK, Phases
  <2>4. /\ toHelper'[h] \in {NoFrame} \cup [kind : Requests, id : Ids]
        /\ toParent'[h] \in {NoFrame} \cup [kind : Answers, id : Nat]
                             \cup [kind : {"started"}, id : Nat, run : 0..MaxRuns]
    BY <1>1 DEF DropEngine, Types
  <2> QED
    BY <2>1, <2>2, <2>3, <2>4 DEF TypesOf
<1>4. Launched(h)' /\ Engine(h)' /\ Evidence(h)' /\ AfterCleanup(h)' /\ (holds'[h] => directory[h])
  BY <1>1 DEF DropEngine, Types, TypeOK, OneDirectory, At, Launched, Engine,
     Evidence, AfterCleanup, Owning
<1>5. Pipe(h)' /\ Wanted(h)'
  BY <1>1 DEF DropEngine, Types, TypeOK, At, Pipe, Wanted, Asked, Mine, Accepts,
     Gone, Working, Ending
<1>6. Known(h)' /\ Told(h)'
  BY <1>1 DEF DropEngine, Types, TypeOK, At, AfterCleanup, Known, Told, Settled, Mine
<1> QED
  BY <1>2, <1>3, <1>4, <1>5, <1>6, LocalInv DEF At

\* The journal goes only with the adapter and the routes.
LEMMA VerifyInv ==
  ASSUME Inv, NEW h \in Helpers, Verify(h)
  PROVE  Inv'
<1>1. Types /\ At(h) /\ OneDirectory
  BY DEF Inv
<1>2. Local(h)
  BY <1>1 DEF Verify, Local, Only, Types, TypeOK
<1>3. TypesOf(h)'
  BY <1>1 DEF Verify, Conflict, NoJournal, Worse, TypesOf, Types, TypeOK, Steps, Phases,
     Afters
<1>4. Launched(h)' /\ Engine(h)' /\ Evidence(h)' /\ AfterCleanup(h)' /\ (holds'[h] => directory[h])
  BY <1>1, Numbers DEF Verify, CleanupComplete, Conflict, NoJournal, Worse, Types,
     TypeOK, At, Launched, Engine, Evidence, AfterCleanup, Owning
<1>5. Pipe(h)' /\ Wanted(h)'
  BY <1>1 DEF Verify, Worse, Types, TypeOK, At, Pipe, Wanted, Asked, Mine, Accepts,
     Gone, Working, Ending
<1>6. Known(h)' /\ Told(h)'
  <2>1. /\ pc[h] = "verify" /\ Known(h) /\ AfterCleanup(h)
        /\ UNCHANGED <<open, child, call, run, routes>> /\ pc'[h] = "answer"
    BY <1>1 DEF Verify, Types, TypeOK, At
  <2>2. ASSUME CleanupComplete(h), after'[h] = after[h] PROVE Known(h)'
    BY <1>1, <2>1, <2>2, Numbers DEF CleanupComplete, Known, Past, Before, Mine
  <2>3. ASSUME after'[h] = Worse(h) PROVE Known(h)'
    BY <2>1, <2>3 DEF Worse, Known
  <2>4. Known(h)'
    BY <1>1, <2>2, <2>3 DEF Verify, Types
  <2>5. Told(h)'
    BY <1>1 DEF Verify, At, Told, Settled, Mine
  <2> QED
    BY <2>4, <2>5
<1> QED
  BY <1>2, <1>3, <1>4, <1>5, <1>6, LocalInv DEF At

\* What the cleanup found is told as it was found.
LEMMA TellOutcomeInv ==
  ASSUME Inv, NEW h \in Helpers, TellOutcome(h)
  PROVE  Inv'
<1>1. Types /\ At(h) /\ OneDirectory
  BY DEF Inv
<1>2. Local(h)
  BY <1>1 DEF TellOutcome, Local, Only, Types, TypeOK
<1>3. TypesOf(h)'
  BY <1>1 DEF TellOutcome, AnswerKind, Frame, TypesOf, Types, TypeOK, At, Steps,
     AfterCleanup, Answers, Afters
<1>4. Launched(h)' /\ Engine(h)' /\ Evidence(h)' /\ AfterCleanup(h)' /\ (holds'[h] => directory[h])
  BY <1>1 DEF TellOutcome, StaysFor, Types, TypeOK, OneDirectory, At, Launched, Engine,
     Evidence, AfterCleanup, Owning
<1>5. Pipe(h)' /\ Wanted(h)'
  <2>1. Pipe(h)'
    BY <1>1 DEF TellOutcome, AnswerKind, Frame, Types, TypeOK, At, Afters, Pipe, Wanted,
       Asked, Mine, Accepts, Gone, Working, Ending
  <2>2. Wanted(h)'
    BY <1>1 DEF TellOutcome, AnswerKind, Frame, Types, TypeOK, At, Afters, Pipe, Wanted,
       Asked, Mine, Accepts, Gone, Working, Ending
  <2> QED
    BY <2>1, <2>2
<1>6. Known(h)' /\ Told(h)'
  BY <1>1 DEF TellOutcome, AnswerKind, StaysFor, Frame, Types, TypeOK, At, AfterCleanup,
     Afters, Known, Told, Settled, Before, Mine
<1> QED
  BY <1>2, <1>3, <1>4, <1>5, <1>6, LocalInv DEF At

\* A helper that leaves keeps no directory; its journal stays as it is.
LEMMA LeaveInv ==
  ASSUME Inv, NEW h \in Helpers, Leave(h)
  PROVE  Inv'
<1>1. Types /\ At(h) /\ OneDirectory
  BY DEF Inv
<1>2. Local(h)
  BY <1>1 DEF Leave, Exit, Local, Only, Types, TypeOK
<1>3. TypesOf(h)'
  BY <1>1 DEF Leave, Exit, TypesOf, Types, TypeOK, Steps, Afters
<1>4. Launched(h)' /\ Engine(h)' /\ Evidence(h)' /\ AfterCleanup(h)' /\ (holds'[h] => directory[h])
  BY <1>1 DEF Leave, Exit, Types, TypeOK, At, Launched, Engine, Evidence, AfterCleanup,
     Owning
<1>5. Pipe(h)' /\ Wanted(h)'
  BY <1>1, Numbers DEF Leave, Exit, Types, At, Pipe, Wanted, Asked, Mine, Working,
     Ending
<1>6. Known(h)' /\ Told(h)'
  BY <1>1 DEF Leave, Exit, At, Known, Told, Settled, Mine
<1> QED
  BY <1>2, <1>3, <1>4, <1>5, <1>6, LocalInv DEF At

\* Without an engine a helper still answers, or starts one that was asked for.
LEMMA IdleRequestInv ==
  ASSUME Inv, NEW h \in Helpers, IdleRequest(h)
  PROVE  Inv'
<1>1. Types /\ At(h) /\ OneDirectory
  BY DEF Inv
<1>2. Local(h)
  BY <1>1 DEF IdleRequest, Local, Only, Types, TypeOK
<1>3. TypesOf(h)'
  BY <1>1, Numbers DEF IdleRequest, Reading, Frame, TypesOf, Types, TypeOK, Steps,
     Answers
<1>4. Launched(h)' /\ Engine(h)' /\ Evidence(h)' /\ AfterCleanup(h)' /\ (holds'[h] => directory[h])
  BY <1>1 DEF IdleRequest, Reading, OneDirectory, At, Launched, Engine, Evidence,
     AfterCleanup, Owning
<1>5. Pipe(h)' /\ Wanted(h)'
  BY <1>1, Numbers DEF IdleRequest, Reading, Frame, Types, TypeOK, At, Pipe, Wanted,
     Asked, Working, Ending
<1>6. Known(h)' /\ Told(h)'
  BY <1>1 DEF IdleRequest, Reading, Frame, Types, TypeOK, At, Evidence, Known, Told,
     Settled, Before, Mine
<1> QED
  BY <1>2, <1>3, <1>4, <1>5, <1>6, LocalInv DEF At

\* Without an engine and without a pipe there is nothing to clean up.
LEMMA IdleLostInv ==
  ASSUME Inv, NEW h \in Helpers, IdleLost(h)
  PROVE  Inv'
<1>1. Types /\ At(h) /\ OneDirectory
  BY DEF Inv
<1>2. Local(h)
  BY <1>1 DEF IdleLost, Exit, Local, Only, Types, TypeOK
<1>3. TypesOf(h)'
  BY <1>1 DEF IdleLost, Exit, TypesOf, Types, TypeOK, Steps, Afters
<1>4. Launched(h)' /\ Engine(h)' /\ Evidence(h)' /\ AfterCleanup(h)' /\ (holds'[h] => directory[h])
  BY <1>1 DEF IdleLost, Exit, Types, TypeOK, At, Launched, Engine, Evidence,
     AfterCleanup, Owning
<1>5. Pipe(h)' /\ Wanted(h)'
  BY <1>1 DEF IdleLost, ParentLost, Exit, Types, At, Pipe, Wanted, Gone
<1>6. Known(h)' /\ Told(h)'
  BY <1>1 DEF IdleLost, Exit, Types, TypeOK, At, Known, Told, Settled, Mine
<1> QED
  BY <1>2, <1>3, <1>4, <1>5, <1>6, LocalInv DEF At

\* A helper that dies leaves its journal, and takes its engine with it.
LEMMA HelperDiesInv ==
  ASSUME Inv, NEW h \in Helpers, HelperDies(h)
  PROVE  Inv'
<1>1. Types /\ At(h) /\ OneDirectory
  BY DEF Inv
<1>2. Local(h)
  BY <1>1 DEF HelperDies, Exit, Local, Only, Types, TypeOK
<1>3. TypesOf(h)'
  BY <1>1 DEF HelperDies, Exit, TypesOf, Types, TypeOK, Steps, Phases, Afters
<1>4. Launched(h)' /\ Engine(h)' /\ Evidence(h)' /\ AfterCleanup(h)' /\ (holds'[h] => directory[h])
  BY <1>1 DEF HelperDies, Exit, Types, TypeOK, At, Launched, Engine, Evidence,
     AfterCleanup, Owning
<1>5. Pipe(h)' /\ Wanted(h)'
  BY <1>1, Numbers DEF HelperDies, Exit, Types, TypeOK, At, Pipe, Wanted, Asked, Mine,
     Working, Ending
<1>6. Known(h)' /\ Told(h)'
  BY <1>1 DEF HelperDies, Exit, Torn, Types, TypeOK, At, Known, Told, Settled, Mine
<1> QED
  BY <1>2, <1>3, <1>4, <1>5, <1>6, LocalInv DEF At

\* An engine that dies leaves what its helper owns as it was.
LEMMA EngineDiesInv ==
  ASSUME Inv, NEW h \in Helpers, EngineDies(h)
  PROVE  Inv'
<1>1. Types /\ At(h) /\ OneDirectory
  BY DEF Inv
<1>2. Local(h)
  BY <1>1 DEF EngineDies, Local, Only, Types, TypeOK
<1>3. TypesOf(h)'
  BY <1>1 DEF EngineDies, TypesOf, Types, TypeOK
<1>4. Launched(h)' /\ Engine(h)' /\ Evidence(h)' /\ AfterCleanup(h)' /\ (holds'[h] => directory[h])
  BY <1>1 DEF EngineDies, OneDirectory, At, Launched, Engine, Evidence, AfterCleanup
<1>5. Pipe(h)' /\ Wanted(h)'
  BY <1>1 DEF EngineDies, At, Pipe, Wanted, Asked, Mine, Accepts, Gone
<1>6. Known(h)' /\ Told(h)'
  BY <1>1 DEF EngineDies, At, Known, Told, Settled, Past, Before, Mine
<1> QED
  BY <1>2, <1>3, <1>4, <1>5, <1>6, LocalInv DEF At

-----------------------------------------------------------------------------
(* Steps of the application *)

\* A start that failed, or was not answered: its session is dropped.
LEMMA DropStartInv ==
  ASSUME Inv, up, call # NoCall, call.does = "start", Close(call.h), DropSession(call.h),
         call' = NoCall, UNCHANGED <<up, boots, toHelper, helper, journal, network>>
  PROVE  Inv'
<1>1. PICK h \in Helpers : h = call.h
  BY DEF Inv, Types, TypeOK
<1>2. Types /\ Session /\ OneDirectory /\ \A g \in Helpers : At(g)
  BY DEF Inv
<1>3. child = NoChild /\ child' = NoChild /\ call' = NoCall
  BY <1>2 DEF Session, DropSession
<1>4. /\ open' \in [Helpers -> BOOLEAN] /\ directory' \in [Helpers -> BOOLEAN]
      /\ recovery' \in BOOLEAN
  BY <1>2 DEF Close, DropSession, Types, TypeOK
<1>5. Types'
  <2>1. toParent' \in [Helpers -> {NoFrame} \cup [kind : Answers, id : Nat]
                                 \cup [kind : {"started"}, id : Nat, run : 0..MaxRuns]]
    BY <1>2 DEF Close, Types
  <2> QED
    BY <1>2, <1>3, <1>4, <2>1 DEF Types, TypeOK
<1>6. \A g \in Helpers : ~open'[g] /\ toParent'[g] = NoFrame
  BY <1>2 DEF Close, Types, TypeOK, Session, At, Pipe, Asked, Mine
<1>7. \A g \in Helpers : /\ directory'[g] => directory[g] /\ recovery'
                         /\ holds[g] /\ directory[g] => directory'[g]
  BY <1>2 DEF DropSession, RemovesDirectory, Types, TypeOK
<1>8. Session' /\ OneDirectory'
  BY <1>2, <1>3, <1>6, <1>7 DEF Session, OneDirectory, Asked, Mine
<1>9. ASSUME NEW g \in Helpers PROVE At(g)'
  BY <1>2, <1>3, <1>6, <1>7 DEF At, Launched, Engine, Evidence, AfterCleanup, Pipe,
     Wanted, Known, Told, Mine, Accepts, Gone, NoFrame
<1> QED
  BY <1>5, <1>8, <1>9 DEF Inv

\* A start that was answered makes the session of the engine in the answer.
LEMMA StartAnsweredInv ==
  ASSUME Inv, StartAnswered
  PROVE  Inv'
<1>1. Types /\ Session /\ OneDirectory /\ \A g \in Helpers : At(g)
  BY DEF Inv
<1>2. PICK h \in Helpers : h = call.h
  BY DEF StartAnswered, Waits, NoCall, Inv, Types, TypeOK
<1>3. /\ up /\ call # NoCall /\ call.does = "start" /\ child = NoChild /\ call.id = 2 /\ open[h]
      /\ toParent[h] # NoFrame /\ Asked(h)
  BY <1>1, <1>2 DEF StartAnswered, Waits, Matches, Answer, NoCall, Session, Asked
<1>4. CASE toParent[h].kind = "started"
  <2>1. /\ child' = [h |-> h, run |-> toParent[h].run, request |-> 2, stopped |-> FALSE]
        /\ toParent' = [toParent EXCEPT ![h] = NoFrame] /\ call' = NoCall
        /\ UNCHANGED <<up, boots, open, directory, recovery, toHelper, helper, journal, network>>
    BY <1>2, <1>4 DEF StartAnswered, Answer, Read
  <2>2. toParent[h].run = run[h] /\ pc[h] \in {"serve", "gone"} /\ run[h] \in 0..MaxRuns
    BY <1>1, <1>4 DEF At, Told, Types, TypeOK
  <2>3. /\ child' \in [h : Helpers, run : 0..MaxRuns, request : Ids, stopped : BOOLEAN]
        /\ child' # NoChild
    <3>1. 2 \in Ids
      BY TunHelperBounds DEF Ids
    <3>2. child' \in [h : Helpers, run : 0..MaxRuns, request : Ids, stopped : BOOLEAN]
      BY <2>1, <2>2, <3>1
    <3> QED
      BY <3>2, Absent
  <2>4. Types'
    <3>1. toParent' \in [Helpers -> {NoFrame} \cup [kind : Answers, id : Nat]
                                   \cup [kind : {"started"}, id : Nat, run : 0..MaxRuns]]
      BY <1>1, <2>1 DEF Types
    <3> QED
      BY <1>1, <2>1, <2>3 DEF Types, TypeOK
  <2>5. Session' /\ OneDirectory'
    BY <1>1, <1>3, <2>1, <2>3 DEF Session, OneDirectory, Asked, Mine
  <2>6. ASSUME NEW g \in Helpers PROVE At(g)'
    <3>1. At(g)
      BY <1>1
    <3>2. CASE g = h
      <4>1. toParent'[h] = NoFrame /\ last[h] <= 2 /\ toHelper[h] = NoFrame /\ Mine(h)' /\ ~Asked(h)'
        BY <1>1, <1>3, <2>1, <2>3 DEF At, Pipe, Types, Asked, Mine
      <4> QED
        BY <1>1, <2>1, <2>2, <3>2, <4>1 DEF At, Launched, Engine, Evidence,
           AfterCleanup, Pipe, Wanted, Known, Told, Working, Ending, NoFrame
    <3>3. CASE g # h
      <4>1. toParent'[g] = toParent[g] /\ ~open[g] /\ ~Mine(g)'
        BY <1>1, <1>3, <2>1, <3>3 DEF Session, Asked, Mine
      <4> QED
        BY <1>1, <2>1, <4>1 DEF At, Launched, Engine, Evidence, AfterCleanup, Pipe,
           Wanted, Known, Told, Accepts, Gone, NoFrame
    <3> QED
      BY <3>2, <3>3
  <2> QED
    BY <2>4, <2>5, <2>6 DEF Inv
<1>5. CASE toParent[h].kind # "started"
  BY <1>2, <1>3, <1>5, DropStartInv DEF StartAnswered, Answer
<1> QED
  BY <1>4, <1>5

\* A status and a restart that was answered change the engine that is known of.
LEMMA AskAnsweredInv ==
  ASSUME Inv, AskAnswered
  PROVE  Inv'
<1>1. Types /\ Session /\ OneDirectory /\ \A g \in Helpers : At(g)
  BY DEF Inv
<1>2. PICK h \in Helpers : h = call.h
  BY DEF AskAnswered, Waits, NoCall, Inv, Types, TypeOK
<1>3. /\ up /\ call # NoCall /\ call.does # "start" /\ child # NoChild /\ open[h]
      /\ child.h = h /\ child.request = call.id /\ ~child.stopped
      /\ toParent[h] # NoFrame /\ Asked(h) /\ Mine(h)
  BY <1>1, <1>2 DEF AskAnswered, Waits, Matches, Answer, NoCall, Session, Asked, Mine
<1>4. /\ toParent' = [toParent EXCEPT ![h] = NoFrame] /\ call' = NoCall
      /\ child' = IF toParent[h].kind = "started" THEN [child EXCEPT !.run = toParent[h].run] ELSE child
      /\ recovery' \in BOOLEAN /\ (recovery => recovery')
      /\ UNCHANGED <<up, boots, open, toHelper, helper, files, network>>
  BY <1>2 DEF AskAnswered, Answer, Read
<1>5. toParent[h].kind = "started" => toParent[h].run = run[h] /\ pc[h] \in {"serve", "gone"}
  BY <1>1 DEF At, Told
<1>6. /\ child' \in [h : Helpers, run : 0..MaxRuns, request : Ids, stopped : BOOLEAN]
      /\ child' # NoChild /\ child'.h = h /\ child'.request = child.request /\ ~child'.stopped
      /\ child'.run = IF toParent[h].kind = "started" THEN run[h] ELSE child.run
  <2>1. child \in [h : Helpers, run : 0..MaxRuns, request : Ids, stopped : BOOLEAN]
    BY <1>1, <1>3 DEF Types, TypeOK
  <2>2. child' \in [h : Helpers, run : 0..MaxRuns, request : Ids, stopped : BOOLEAN]
    BY <1>1, <1>4, <1>5, <2>1 DEF Types, TypeOK
  <2> QED
    BY <1>3, <1>4, <1>5, <2>2, Absent
<1>7. Types'
  <2>1. toParent' \in [Helpers -> {NoFrame} \cup [kind : Answers, id : Nat]
                                 \cup [kind : {"started"}, id : Nat, run : 0..MaxRuns]]
    BY <1>1, <1>4 DEF Types
  <2> QED
    BY <1>1, <1>4, <1>6 DEF Types, TypeOK
<1>8. Session' /\ OneDirectory'
  BY <1>1, <1>3, <1>4, <1>6 DEF Session, OneDirectory, Asked, Mine
<1>9. ASSUME NEW g \in Helpers PROVE At(g)'
  <2>1. At(g)
    BY <1>1
  <2>2. CASE g = h
    <3>1. /\ toParent'[h] = NoFrame /\ last[h] <= child'.request /\ toHelper[h] = NoFrame
          /\ Mine(h)' /\ ~Asked(h)' /\ NoFrame.kind = "none"
      BY <1>1, <1>3, <1>4, <1>6 DEF At, Pipe, Types, Asked, Mine, NoFrame
    <3> QED
      BY <1>3, <1>4, <2>1, <2>2, <3>1 DEF At, Launched, Engine, Evidence, AfterCleanup,
         Pipe, Wanted, Known, Told, Before, Working
  <2>3. CASE g # h
    <3>1. /\ toParent'[g] = toParent[g] /\ ~open[g] /\ ~Mine(g)' /\ ~Mine(g)
      BY <1>1, <1>3, <1>4, <2>3 DEF Session, Asked, Mine
    <3> QED
      BY <1>1, <1>4, <3>1 DEF At, Launched, Engine, Evidence, AfterCleanup, Pipe,
         Wanted, Known, Told, Accepts, Gone, NoFrame
  <2> QED
    BY <2>2, <2>3
<1> QED
  BY <1>7, <1>8, <1>9 DEF Inv

\* A stop that was confirmed leaves nothing of the engine; any other asks for recovery.
LEMMA StopAnsweredInv ==
  ASSUME Inv, StopAnswered
  PROVE  Inv'
<1>0. call.does = "stop"
  BY DEF StopAnswered, Waits
<1>1. Types /\ Session /\ OneDirectory /\ \A g \in Helpers : At(g)
  BY DEF Inv
<1>2. PICK h \in Helpers : h = call.h
  BY DEF StopAnswered, Waits, NoCall, Inv, Types, TypeOK
<1>3. /\ up /\ call # NoCall /\ call.does # "start" /\ child # NoChild /\ open[h]
      /\ child.h = h /\ child.request = call.id /\ ~child.stopped
      /\ toParent[h] # NoFrame /\ Asked(h) /\ Mine(h)
  BY <1>1, <1>2 DEF StopAnswered, Waits, Matches, Answer, NoCall, Session, Asked, Mine
<1>4. /\ toParent' = [toParent EXCEPT ![h] = NoFrame] /\ call' = NoCall
      /\ recovery' \in BOOLEAN /\ (recovery => recovery')
      /\ UNCHANGED <<up, boots, toHelper, helper, files, network>>
  BY <1>1, <1>2 DEF StopAnswered, Read, Close, Types, TypeOK
<1>5. \/ /\ toParent[h].kind = "stopped" /\ Settled(h)
         /\ child' = [child EXCEPT !.stopped = TRUE] /\ open' = [open EXCEPT ![h] = FALSE]
      \/ child' = child /\ open' = open
  BY <1>1, <1>2, <1>3 DEF StopAnswered, Answer, Close, At, Told
<1>6. /\ child' \in [h : Helpers, run : 0..MaxRuns, request : Ids, stopped : BOOLEAN]
      /\ child' # NoChild /\ child'.h = h /\ child'.request = child.request
      /\ child'.run = child.run
      /\ child'.stopped => Settled(h) /\ ~open'[h]
  <2>1. child \in [h : Helpers, run : 0..MaxRuns, request : Ids, stopped : BOOLEAN]
    BY <1>1, <1>3 DEF Types, TypeOK
  <2>2. child' \in [h : Helpers, run : 0..MaxRuns, request : Ids, stopped : BOOLEAN]
    BY <1>5, <2>1
  <2> QED
    BY <1>1, <1>3, <1>5, Absent DEF Types, TypeOK
<1>7. Types'
  <2>1. toParent' \in [Helpers -> {NoFrame} \cup [kind : Answers, id : Nat]
                                 \cup [kind : {"started"}, id : Nat, run : 0..MaxRuns]]
    BY <1>1, <1>4 DEF Types
  <2>2. open' \in [Helpers -> BOOLEAN]
    BY <1>1, <1>5 DEF Types, TypeOK
  <2> QED
    BY <1>1, <1>4, <1>6, <2>2 DEF Types, TypeOK
<1>8. Session' /\ OneDirectory'
  BY <1>1, <1>3, <1>4, <1>5, <1>6 DEF Session, OneDirectory, Asked, Mine, Types, TypeOK
<1>9. ASSUME NEW g \in Helpers PROVE At(g)'
  <2>1. At(g)
    BY <1>1
  <2>2. CASE g = h
    <3>1. /\ toParent'[h] = NoFrame /\ last[h] <= child'.request /\ toHelper[h] = NoFrame
          /\ Mine(h)' /\ ~Asked(h)' /\ NoFrame.kind = "none"
      BY <1>1, <1>3, <1>4, <1>6 DEF At, Pipe, Types, Asked, Mine, NoFrame
    <3>2. (open'[h] => open[h]) /\ (child'.stopped => Settled(h)')
      BY <1>4, <1>5, <1>6 DEF Settled
    <3>7. Wanted(h)' /\ toParent[h].kind # "started"
      BY <1>0, <1>3, <1>4, <2>1, <2>2, <3>1 DEF At, Wanted
    <3>3. Known(h)'
      BY <3>7, <1>3, <1>4, <1>6, <2>1, <2>2 DEF At, Known, Past, Before
    <3>4. Pipe(h)'
      BY <1>3, <1>4, <2>1, <2>2, <3>1 DEF At, Pipe
    <3>5. Told(h)'
      BY <3>1, <3>2 DEF Told
    <3>6. Launched(h)'
      BY <1>3, <1>4, <2>1, <2>2 DEF At, Launched
    <3> QED
      BY <1>4, <2>1, <2>2, <3>3, <3>4, <3>5, <3>6, <3>7 DEF At, Engine, Evidence,
         AfterCleanup
  <2>3. CASE g # h
    <3>1. /\ toParent'[g] = toParent[g] /\ ~open[g] /\ ~open'[g] /\ ~Mine(g)' /\ ~Mine(g)
      BY <1>1, <1>3, <1>4, <1>5, <2>3 DEF Types, TypeOK, Session, Asked, Mine
    <3> QED
      BY <1>1, <1>4, <3>1 DEF At, Launched, Engine, Evidence, AfterCleanup, Pipe,
         Wanted, Known, Told, Accepts, Gone, NoFrame
  <2> QED
    BY <2>2, <2>3
<1> QED
  BY <1>7, <1>8, <1>9 DEF Inv

\* Without an answer the pipe is closed: a start drops its session, a stop asks for recovery.
LEMMA NoAnswerInv ==
  ASSUME Inv, NoAnswer
  PROVE  Inv'
<1>1. Types /\ Session /\ OneDirectory /\ \A g \in Helpers : At(g)
  BY DEF Inv
<1>2. CASE call.does = "start"
  BY <1>2, DropStartInv DEF NoAnswer
<1>3. CASE call.does # "start"
  <2>1. PICK h \in Helpers : h = call.h
    BY DEF NoAnswer, Inv, Types, TypeOK
  <2>2. /\ up /\ call # NoCall /\ child # NoChild /\ open[h] /\ child.h = h /\ ~child.stopped
    BY <1>1, <1>3, <2>1 DEF NoAnswer, Session
  <2>3. /\ toParent' = [toParent EXCEPT ![h] = NoFrame] /\ open' = [open EXCEPT ![h] = FALSE]
        /\ call' = NoCall /\ child' = child /\ recovery' \in BOOLEAN /\ (recovery => recovery')
        /\ UNCHANGED <<up, boots, toHelper, helper, files, network>>
    BY <1>1, <1>3, <2>1 DEF NoAnswer, Close, Types, TypeOK
  <2>4. \A g \in Helpers : ~open'[g] /\ toParent'[g] = NoFrame
    BY <1>1, <2>2, <2>3 DEF Types, TypeOK, Session, At, Pipe, Asked, Mine
  <2>5. Types'
    <3>1. toParent' \in [Helpers -> {NoFrame} \cup [kind : Answers, id : Nat]
                                   \cup [kind : {"started"}, id : Nat, run : 0..MaxRuns]]
      BY <1>1, <2>3 DEF Types
    <3>2. open' \in [Helpers -> BOOLEAN]
      BY <1>1, <2>3 DEF Types, TypeOK
    <3> QED
      BY <1>1, <2>3 DEF Types, TypeOK
  <2>6. Session' /\ OneDirectory'
    BY <1>1, <2>2, <2>3 DEF Session, OneDirectory, Asked, Mine
  <2>7. ASSUME NEW g \in Helpers PROVE At(g)'
    BY <1>1, <2>3, <2>4 DEF At, Launched, Engine, Evidence, AfterCleanup, Pipe, Wanted,
       Known, Told, Settled, Mine, Accepts, Gone, NoFrame
  <2> QED
    BY <2>5, <2>6, <2>7 DEF Inv
<1> QED
  BY <1>2, <1>3

\* A helper is launched only without a session, and then it has the only directory.
LEMMA LaunchInv ==
  ASSUME Inv, NEW h \in Helpers, Launch(h)
  PROVE  Inv'
<1>1. Types /\ Session /\ OneDirectory /\ \A g \in Helpers : At(g)
  BY DEF Inv
<1>2. /\ up /\ child = NoChild /\ call = NoCall /\ pc[h] = "off"
      /\ call' = [does |-> "start", h |-> h, id |-> 2]
      /\ open' = [open EXCEPT ![h] = TRUE] /\ directory' = [directory EXCEPT ![h] = TRUE]
      /\ pc' = [pc EXCEPT ![h] = "hello"]
      /\ toHelper' = [toHelper EXCEPT ![h] = [kind |-> "start", id |-> 2]]
      /\ UNCHANGED <<application, child, toParent, last, after, holds, journal, network>>
  BY DEF Launch, Frame
<1>3. \A g \in Helpers : ~directory[g] /\ ~open[g] /\ toParent[g] = NoFrame
  BY <1>1 DEF Launch, OneDirectory, Session, At, Pipe
<1>4. call' \in [does : Requests, h : Helpers, id : Ids] /\ call' # NoCall
  <2>1. 2 \in Ids
    BY TunHelperBounds DEF Ids
  <2>2. call' \in [does : Requests, h : Helpers, id : Ids]
    BY <1>2, <2>1 DEF Requests
  <2> QED
    BY <2>2, Absent
<1>5. Types'
  <2>1. toHelper' \in [Helpers -> {NoFrame} \cup [kind : Requests, id : Ids]]
    BY <1>1, <1>2, TunHelperBounds DEF Types, Ids, Requests
  <2>2. open' \in [Helpers -> BOOLEAN] /\ directory' \in [Helpers -> BOOLEAN]
    BY <1>1, <1>2 DEF Types, TypeOK
  <2>3. pc' \in [Helpers -> Steps]
    BY <1>1, <1>2 DEF Types, TypeOK, Steps
  <2> QED
    BY <1>1, <1>2, <1>4, <2>3 DEF Types, TypeOK
<1>6. Session' /\ OneDirectory'
  BY <1>1, <1>2, <1>3, <1>4 DEF Session, OneDirectory, Asked, Mine, Types, TypeOK
<1>7. ASSUME NEW g \in Helpers PROVE At(g)'
  <2>1. At(g) /\ ~Mine(g) /\ ~Mine(g)'
    BY <1>1, <1>2 DEF Mine
  <2>2. CASE g = h
    <3>1. /\ pc'[h] = "hello" /\ toHelper'[h] = [kind |-> "start", id |-> 2] /\ toParent'[h] = NoFrame
          /\ Asked(h)' /\ last'[h] = 0
      BY <1>1, <1>2, <1>3, <1>4 DEF Types, TypeOK, Asked, At, Launched
    <3> QED
      BY <1>2, <2>1, <2>2, <3>1 DEF At, Launched, Engine, Evidence, AfterCleanup, Pipe,
         Wanted, Known, Told, Accepts, Working, Ending, Owning
  <2>3. CASE g # h
    <3>1. /\ pc'[g] = pc[g] /\ toHelper'[g] = toHelper[g] /\ toParent'[g] = NoFrame
          /\ ~open'[g] /\ ~directory'[g]
      BY <1>2, <1>3, <2>3
    <3> QED
      BY <1>2, <2>1, <3>1 DEF At, Launched, Engine, Evidence, AfterCleanup, Pipe,
         Wanted, Known, Told, Accepts, Gone
  <2> QED
    BY <2>2, <2>3
<1> QED
  BY <1>5, <1>6, <1>7 DEF Inv

\* A request has a number above all that the helper accepted, and no other is on its way.
LEMMA SendInv ==
  ASSUME Inv, NEW does \in {"status", "restart", "stop"}, Calls, ~child.stopped,
         child.request < MaxRequests, Send(does)
  PROVE  Inv'
<1>1. Types /\ Session /\ OneDirectory /\ \A g \in Helpers : At(g)
  BY DEF Inv
<1>2. PICK h \in Helpers : h = child.h
  BY DEF Calls, Inv, Types, TypeOK
<1>3. up /\ child # NoChild /\ call = NoCall /\ Mine(h)
  BY <1>2 DEF Calls, Mine
<1>4. child \in [h : Helpers, run : 0..MaxRuns, request : Ids, stopped : BOOLEAN]
  BY <1>1, <1>3 DEF Types, TypeOK
<1>5. NextRequest \in Ids /\ child.request \in Nat /\ NextRequest = child.request + 1
  BY <1>4, TunHelperBounds DEF NextRequest, Ids
<1>6. /\ child' \in [h : Helpers, run : 0..MaxRuns, request : Ids, stopped : BOOLEAN]
      /\ child' # NoChild /\ child'.h = h /\ child'.request = NextRequest
      /\ child'.run = child.run /\ ~child'.stopped
  <2>1. child' = [child EXCEPT !.request = NextRequest]
    BY DEF Send
  <2>2. child' \in [h : Helpers, run : 0..MaxRuns, request : Ids, stopped : BOOLEAN]
    BY <1>4, <1>5, <2>1
  <2> QED
    BY <1>2, <2>1, <2>2, Absent
<1>7. \A g \in Helpers : toParent[g] = NoFrame /\ (open[g] => g = h /\ toHelper[g] = NoFrame)
  BY <1>1, <1>3 DEF Session, At, Pipe, Asked, Mine
<1>8. CASE open[h] /\ ~Gone(h)
  <2>1. /\ toHelper' = [toHelper EXCEPT ![h] = [kind |-> does, id |-> NextRequest]]
        /\ call' = [does |-> does, h |-> h, id |-> NextRequest]
        /\ UNCHANGED <<up, boots, recovery, open, toParent, helper, files, network>>
    BY <1>2, <1>8 DEF Send, Frame
  <2>2. call' \in [does : Requests, h : Helpers, id : Ids] /\ call' # NoCall
    <3>1. call' \in [does : Requests, h : Helpers, id : Ids]
      BY <1>5, <2>1 DEF Requests
    <3> QED
      BY <3>1, Absent
  <2>3. Types'
    <3>1. toHelper' \in [Helpers -> {NoFrame} \cup [kind : Requests, id : Ids]]
      BY <1>1, <1>5, <2>1 DEF Types, Requests
    <3> QED
      BY <1>1, <1>6, <2>1 DEF Types, TypeOK, Requests
  <2>4. Session' /\ OneDirectory'
    BY <1>1, <1>6, <1>8, <2>1 DEF Session, OneDirectory, Asked, Mine
  <2>5. ASSUME NEW g \in Helpers PROVE At(g)'
    <3>1. At(g) /\ NoFrame.kind = "none" /\ toParent'[g] = NoFrame
      BY <1>1, <1>7, <2>1 DEF NoFrame
    <3>2. CASE g = h
      <4>1. toHelper'[h] = [kind |-> does, id |-> NextRequest] /\ Asked(h)' /\ Mine(h)' /\ ~Asked(h)
        BY <1>1, <1>3, <1>6, <2>1, <2>2 DEF Types, Asked, Mine
      <4>2. /\ last[h] \in Nat /\ last[h] <= child.request /\ pc[h] \notin (Working \ Ending)
            /\ (pc[h] \in Ending => after[h] = "lost")
        BY <1>1, <1>3, <1>8, <4>1 DEF Types, TypeOK, At, Pipe, Working
      <4> QED
        BY <1>3, <1>5, <1>6, <2>1, <3>1, <3>2, <4>1, <4>2 DEF At, Launched, Engine,
           Evidence, AfterCleanup, Pipe, Wanted, Known, Told, Past, Before, Accepts
    <3>3. CASE g # h
      <4>1. ~open[g] /\ toHelper'[g] = toHelper[g] /\ ~Mine(g)' /\ ~Mine(g)
        BY <1>2, <1>6, <1>7, <2>1, <3>3 DEF Mine
      <4> QED
        BY <2>1, <3>1, <4>1 DEF At, Launched, Engine, Evidence, AfterCleanup, Pipe,
           Wanted, Known, Told, Accepts, Gone
    <3> QED
      BY <3>2, <3>3
  <2> QED
    BY <2>3, <2>4, <2>5 DEF Inv
<1>9. CASE ~(open[h] /\ ~Gone(h))
  <2>1. /\ call' = NoCall /\ recovery' \in BOOLEAN /\ (recovery => recovery')
        /\ open' = [open EXCEPT ![h] = FALSE] /\ toParent' = [toParent EXCEPT ![h] = NoFrame]
        /\ UNCHANGED <<up, boots, toHelper, helper, files, network>>
    BY <1>2, <1>3, <1>9 DEF Send, Close
  <2>2. \A g \in Helpers : ~open'[g] /\ toParent'[g] = NoFrame
    BY <1>1, <1>7, <2>1 DEF Types, TypeOK
  <2>3. Types'
    <3>1. toParent' \in [Helpers -> {NoFrame} \cup [kind : Answers, id : Nat]
                                   \cup [kind : {"started"}, id : Nat, run : 0..MaxRuns]]
      BY <1>1, <2>1 DEF Types
    <3>2. open' \in [Helpers -> BOOLEAN]
      BY <1>1, <2>1 DEF Types, TypeOK
    <3> QED
      BY <1>1, <1>6, <2>1 DEF Types, TypeOK
  <2>4. Session' /\ OneDirectory'
    BY <1>1, <1>3, <1>6, <2>1 DEF Session, OneDirectory, Asked, Mine
  <2>5. ASSUME NEW g \in Helpers PROVE At(g)'
    BY <1>1, <1>3, <1>6, <2>1, <2>2 DEF At, Launched, Engine, Evidence, AfterCleanup,
       Pipe, Wanted, Known, Told, Settled, Asked, Mine, Accepts, Gone
  <2> QED
    BY <2>3, <2>4, <2>5 DEF Inv
<1> QED
  BY <1>8, <1>9

\* What a recovery does: all directories go, when no helper keeps one and there is no
\* adapter, or none does.
LEMMA ReconcileInv ==
  ASSUME Inv, child = NoChild, call = NoCall, Reconcile, up' \in BOOLEAN, boots' \in 0..MaxBoots,
         UNCHANGED <<parent, pipe, helper, network>>
  PROVE  Inv'
<1>1. Types /\ Session /\ OneDirectory /\ \A g \in Helpers : At(g)
  BY DEF Inv
<1>2. \A g \in Helpers : ~open[g] /\ toParent[g] = NoFrame /\ ~Mine(g)
  BY <1>1 DEF Session, At, Pipe, Asked, Mine
<1>3. CASE Recoverable
  <2>1. /\ recovery' = FALSE /\ directory' = [h \in Helpers |-> FALSE]
        /\ journal' = [h \in Helpers |-> IF directory[h] THEN NoJournal ELSE journal[h]]
    BY <1>3 DEF Reconcile
  <2>2. \A g \in Helpers : directory[g] => adapter = NoAdapter /\ ~holds[g]
    BY <1>3 DEF Recoverable, Unleased
  <2>3. \A g \in Helpers : ~directory'[g] /\ ~holds[g]
    BY <1>1, <2>1, <2>2 DEF OneDirectory
  <2>4. Types'
    <3>1. journal' \in [Helpers -> [phase : Phases, luid : Luids \cup {NoLuid}]]
      BY <1>1, <2>1 DEF Types, TypeOK, NoJournal, Phases
    <3>2. directory' \in [Helpers -> BOOLEAN]
      BY <2>1, Zenon
    <3> QED
      BY <1>1, <2>1, <3>1 DEF Types, TypeOK
  <2>5. Session' /\ OneDirectory'
    BY <1>1, <2>3 DEF Session, OneDirectory, Asked, Mine
  <2>6. ASSUME NEW g \in Helpers PROVE At(g)'
    <3>1. At(g) /\ ~directory'[g] /\ ~holds[g] /\ NoFrame.kind = "none"
      BY <1>1, <2>3 DEF NoFrame
    <3>2. journal'[g] = journal[g] \/ (journal'[g] = NoJournal /\ adapter = NoAdapter)
      BY <2>1, <2>2
    <3>3. Evidence(g)'
      BY <3>1, <3>2, Numbers, <1>1 DEF At, Engine, Evidence, NoJournal, Owning
    <3> QED
      BY <3>1, <3>2, <3>3 DEF At, Launched, Engine, AfterCleanup, Pipe, Wanted, Known,
         Told, Mine, Asked, Accepts, Gone, NoJournal
  <2> QED
    BY <2>4, <2>5, <2>6 DEF Inv
<1>4. CASE ~Recoverable
  <2>1. recovery' = TRUE /\ UNCHANGED files
    BY <1>4 DEF Reconcile
  <2>2. Types' /\ Session' /\ OneDirectory'
    BY <1>1, <2>1 DEF Types, TypeOK, Session, OneDirectory, Asked, Mine
  <2>3. ASSUME NEW g \in Helpers PROVE At(g)'
    BY <1>1, <2>1 DEF At, Launched, Engine, Evidence, AfterCleanup, Pipe, Wanted, Known,
       Told, Mine, Asked, Accepts, Gone
  <2> QED
    BY <2>2, <2>3 DEF Inv
<1> QED
  BY <1>3, <1>4

\* A recovery, when it is asked for and when the application starts again.
LEMMA RecoveryInv ==
  ASSUME Inv, RetryRecovery \/ Boot
  PROVE  Inv'
<1>1. CASE RetryRecovery
  BY <1>1, ReconcileInv DEF RetryRecovery, Inv, Types, TypeOK
<1>2. CASE Boot
  <2>1. child = NoChild /\ call = NoCall /\ up' \in BOOLEAN /\ boots' \in 0..MaxBoots
    BY <1>2, TunHelperBounds DEF Boot, Inv, Session, Types, TypeOK
  <2> QED
    BY <1>2, <2>1, ReconcileInv DEF Boot
<1> QED
  BY <1>1, <1>2

-----------------------------------------------------------------------------
(* Steps that only touch what the application knows, and the network *)

\* When the application lets go of h, what is left of At(h) is about h alone: most parts
\* speak of an open pipe or of a session.
LEMMA ReleaseInv ==
  ASSUME Inv, Release
  PROVE  Inv'
<1>1. Types /\ Session /\ OneDirectory /\ \A g \in Helpers : At(g)
  BY DEF Inv
<1>2. PICK h \in Helpers : h = child.h
  BY DEF Release, Calls, Inv, Types, TypeOK
<1>3. /\ up /\ call = NoCall /\ child' = NoChild /\ recovery' \in BOOLEAN
      /\ directory' \in [Helpers -> BOOLEAN]
      /\ UNCHANGED <<up, boots, call, open, pipe, helper, journal, network>>
  BY <1>1 DEF Release, Calls, DropSession, Types, TypeOK
<1>4. \A g \in Helpers : /\ directory'[g] => directory[g] /\ recovery'
                         /\ holds[g] /\ directory[g] => directory'[g]
                         /\ ~open[g]
  BY <1>1 DEF Release, Calls, DropSession, RemovesDirectory, Types, TypeOK, Session,
     Asked, Mine
<1>5. Types' /\ Session' /\ OneDirectory'
  BY <1>1, <1>3, <1>4 DEF Types, TypeOK, Session, OneDirectory, Asked, Mine
<1>6. ASSUME NEW g \in Helpers PROVE At(g)'
  <2>1. At(g) /\ toParent[g] = NoFrame /\ NoFrame.kind = "none"
    BY <1>1, <1>4, Numbers DEF At, Pipe
  <2>2. ~Mine(g)' /\ ~open'[g]
    BY <1>3, <1>4 DEF Mine
  <2> QED
    BY <1>3, <1>4, <2>1, <2>2 DEF At, Launched, Engine, Evidence, AfterCleanup, Pipe,
       Wanted, Known, Told, Accepts, Gone
<1> QED
  BY <1>5, <1>6 DEF Inv

\* The application does not wait for ever for a helper to leave.
LEMMA ExitTimesOutInv ==
  ASSUME Inv, ExitTimesOut
  PROVE  Inv'
<1>1. Types' /\ Session' /\ OneDirectory'
  BY DEF ExitTimesOut, Inv, Types, TypeOK, Session, OneDirectory, Asked, Mine
<1>2. ASSUME NEW g \in Helpers PROVE At(g)'
  BY DEF ExitTimesOut, Inv, At, Launched, Engine, Evidence, AfterCleanup, Pipe, Wanted,
     Known, Told, Settled, Asked, Mine, Accepts, Gone
<1> QED
  BY <1>1, <1>2 DEF Inv

\* With the application its pipes are closed; the helpers find out.
LEMMA ApplicationDiesInv ==
  ASSUME Inv, ApplicationDies
  PROVE  Inv'
<1>1. Types /\ Session /\ OneDirectory /\ \A g \in Helpers : At(g)
  BY DEF Inv
<1>2. /\ open' \in [Helpers -> BOOLEAN]
      /\ toParent' \in [Helpers -> {NoFrame} \cup [kind : Answers, id : Nat]
                                   \cup [kind : {"started"}, id : Nat, run : 0..MaxRuns]]
  BY Zenon DEF ApplicationDies
<1>3. Types' /\ Session' /\ OneDirectory'
  BY <1>1 DEF ApplicationDies, Types, TypeOK, Session, OneDirectory, Asked, Mine
<1>4. ASSUME NEW g \in Helpers PROVE At(g)'
  <2>1. At(g) /\ ~open'[g] /\ toParent'[g] = NoFrame /\ ~Mine(g)' /\ NoFrame.kind = "none"
    BY <1>1, Numbers DEF ApplicationDies, Mine
  <2> QED
    BY <2>1 DEF ApplicationDies, At, Launched, Engine, Evidence, AfterCleanup, Pipe,
       Wanted, Known, Told, Accepts, Gone
<1> QED
  BY <1>3, <1>4 DEF Inv

\* Adapters and routes come only while an engine runs, and go at any time.
LEMMA NetworkInv ==
  ASSUME Inv, AdapterGoes \/ RoutesGo
              \/ \E h \in Helpers : AdapterAppears(h) \/ RoutesAppear(h)
  PROVE  Inv'
<1>1. Types /\ Session /\ OneDirectory /\ \A g \in Helpers : At(g)
  BY DEF Inv
<1>2. UNCHANGED <<application, parent, pipe, helper, files, run, alive>>
  BY DEF AdapterGoes, RoutesGo, AdapterAppears, RoutesAppear
<1>3. \/ adapter' = adapter \/ adapter' = NoAdapter
      \/ \E h \in Helpers : alive[h] /\ run[h] >= 1 /\ adapter = NoAdapter /\ adapter' = <<h, run[h]>>
  BY <1>1 DEF AdapterGoes, RoutesGo, AdapterAppears, RoutesAppear, At, Engine
<1>4. /\ routes' \subseteq routes \cup {adapter}
      /\ \A l \in routes' \ routes : \E h \in Helpers : alive[h] /\ l = <<h, run[h]>> /\ run[h] >= 1
  BY <1>1 DEF AdapterGoes, RoutesGo, AdapterAppears, RoutesAppear, At, Engine
<1>5. Types' /\ Session' /\ OneDirectory'
  <2>1. adapter' \in Luids \cup {NoAdapter} /\ routes' \subseteq Luids
    BY <1>1, <1>3, <1>4 DEF Types, TypeOK, Luids
  <2> QED
    BY <1>1, <1>2, <2>1 DEF Types, TypeOK, Session, OneDirectory, Asked, Mine
<1>6. ASSUME NEW g \in Helpers PROVE At(g)'
  <2>1. At(g)
    BY <1>1
  <2>2. Launched(g)' /\ AfterCleanup(g)' /\ Pipe(g)' /\ Wanted(g)'
    BY <1>2, <2>1 DEF At, Launched, AfterCleanup, Pipe, Wanted, Asked, Mine, Accepts,
       Gone
  <2>3. Engine(g)' /\ Evidence(g)'
    BY <1>1, <1>2, <1>3, Numbers DEF At, Engine, Evidence, OneDirectory, Owning
  <2>4. Known(g)' /\ Told(g)'
    BY <1>1, <1>2, <1>4 DEF At, Engine, Known, Told, Settled, Past, Before, Mine,
       Owning, Types, TypeOK
  <2> QED
    BY <2>2, <2>3, <2>4 DEF At
<1> QED
  BY <1>5, <1>6 DEF Inv

-----------------------------------------------------------------------------
(* The theorems *)

\* One lemma for each step of the application, the helpers and the network.
LEMMA StepInv == Inv /\ [Next]_vars => Inv'
<1> SUFFICES ASSUME Inv, [Next]_vars PROVE Inv'
  OBVIOUS
<1>1. ASSUME NEW h \in Helpers, HelperStep(h) PROVE Inv'
  BY <1>1, HelloInv, PreflightInv, PrepareInv, LaunchEngineInv, MarkRunningInv,
     FindAdapterInv, FindRoutesInv, TellStartedInv, ServeStatusInv, ServeCommandInv,
     ServeLostInv, StopEngineInv, MarkConflictInv, DropEngineInv, VerifyInv,
     TellOutcomeInv, LeaveInv, IdleRequestInv, IdleLostInv DEF HelperStep
<1>2. CASE Application
  <2>1. ASSUME NEW does \in {"status", "restart"}, Ask(does) PROVE Inv'
    BY <2>1, SendInv DEF Ask
  <2>2. CASE AskStop
    BY <2>2, SendInv DEF AskStop
  <2> QED
    BY <1>2, <2>1, <2>2, LaunchInv, StartAnsweredInv, AskAnsweredInv, StopAnsweredInv,
       NoAnswerInv, ReleaseInv, ExitTimesOutInv, RecoveryInv DEF Application
<1>3. CASE Surroundings
  BY <1>3, ApplicationDiesInv, RecoveryInv, NetworkInv, HelperDiesInv, EngineDiesInv DEF
     Surroundings
<1>4. CASE UNCHANGED vars
  <2>1. Types' /\ Session' /\ OneDirectory'
    BY <1>4 DEF vars, Inv, Types, TypeOK, Session, OneDirectory, Asked, Mine
  <2>2. ASSUME NEW h \in Helpers PROVE At(h)'
    BY <1>4 DEF vars, Inv, At, Launched, Engine, Evidence, AfterCleanup, Pipe, Wanted,
       Known, Told, Settled, Past, Before, Asked, Mine, Accepts, Gone
  <2> QED
    BY <2>1, <2>2 DEF Inv
<1> QED
  BY <1>1, <1>2, <1>3, <1>4 DEF Next

\* The invariant, of which the properties below are consequences.
THEOREM Invariance == Spec => []Inv
<1>1. Init => Inv
  BY InitInv
<1>2. Inv /\ [Next]_vars => Inv'
  BY StepInv
<1> QED
  BY <1>1, <1>2, PTL DEF Spec

\* Every variable has its type.
THEOREM TypeCorrect == Spec => []TypeOK
<1>1. Inv => TypeOK
  BY DEF Inv, Types
<1> QED
  BY <1>1, Invariance, PTL

\* However many sessions were abandoned, killed and recovered, two of them never have
\* an engine or an adapter at once.
THEOREM OneTunnelAtATime == Spec => []OneTunnel
<1>1. Inv => OneTunnel
  <2> SUFFICES ASSUME Inv, NEW g \in Helpers, NEW h \in Helpers, alive[h]
               PROVE  /\ g # h => ~alive[g]
                      /\ adapter # NoAdapter => adapter = <<h, run[h]>>
    BY DEF OneTunnel
  <2>1. \A k \in Helpers : alive[k] => directory[k]
    BY DEF Inv, OneDirectory, At, Engine
  <2> QED
    BY DEF Inv, OneDirectory, At, Engine
<1> QED
  BY <1>1, Invariance, PTL

\* An engine that runs and an adapter that is there have the journal of their session,
\* whoever died in between.
THEOREM EvidenceRemains == Spec => []ResidueHasEvidence
<1>1. Inv => ResidueHasEvidence
  BY DEF Inv, At, Engine, Evidence, ResidueHasEvidence
<1> QED
  BY <1>1, Invariance, PTL

\* A stop that was confirmed has left no engine, adapter, route or journal.
THEOREM StopIsTruthful == Spec => []TruthfulStop
<1>1. Inv => TruthfulStop
  <2> SUFFICES ASSUME Inv, child # NoChild, child.stopped
               PROVE  /\ ~alive[child.h] /\ journal[child.h].phase = "none"
                      /\ \A r \in 1..MaxRuns : adapter # <<child.h, r>>
                      /\ <<child.h, child.run>> \notin routes
    BY DEF TruthfulStop
  <2>1. child.h \in Helpers /\ Mine(child.h)
    BY DEF Inv, Types, TypeOK, Mine
  <2>2. At(child.h) /\ Settled(child.h)
    BY <2>1 DEF Inv, At, Told
  <2> QED
    BY <2>2 DEF At, Engine, Evidence, Settled
<1> QED
  BY <1>1, Invariance, PTL

\* Neither end of a pipe meets a frame out of order.
THEOREM FramesInOrder == Spec => []FramesMatch
<1>1. Inv => FramesMatch
  BY DEF Inv, At, Pipe, FramesMatch, Asked
<1> QED
  BY <1>1, Invariance, PTL

=============================================================================
