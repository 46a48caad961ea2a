--------------------------- MODULE EngineProcess ----------------------------
(***************************************************************************)
(* One engine, from its check to its end: VerifiedEngineLauncher and        *)
(* RealManagedChild (engine_runtime.rs) over a suspended process in a Job   *)
(* Object that kills what it contains when its last handle closes           *)
(* (windows_process.rs).  The owner, RouteDeck or its elevated helper, may  *)
(* be killed between any two steps; every call of Windows may fail; other   *)
(* programs change the engine's sealed files whenever no handle guards them.*)
(*                                                                         *)
(* How those files come and go is the module SessionDirectory; the          *)
(* configuration is guarded by SessionConfig throughout.                    *)
(***************************************************************************)
VARIABLES
    owner,      \* "alive", or "killed" with all its handles closed
    launch,     \* where VerifiedEngineLauncher or RealManagedChild is
    process,    \* the latest process of the engine
    brood,      \* the processes it started run
    job,        \* its Job Object: "none", "made" without it, "holds", "closed"
    files,      \* the sealed engine, as sealed or changed
    held        \* who guards the files: the check, what it prepared, the run

vars == <<owner, launch, process, brood, job, files, held>>

Uses == {"check", "run"}
Steps == {"created", "suspended", "up"}

\* <<use, step>> of a launch, or between and after them.
Launches == (Uses \X Steps) \cup
            {<<"sealed", "">>, <<"checked", "">>, <<"prepared", "">>, <<"stopped", "">>,
             <<"failed", "">>}
Use == launch[1]
To(a, b) == launch' = <<a, b>>

Runs == process = "running"

Init ==
    /\ owner = "alive" /\ launch = <<"sealed", "">> /\ process = "none" /\ brood = FALSE
    /\ job = "none" /\ files = "sealed" /\ held = {}

-----------------------------------------------------------------------------
(* What Windows does *)

\* TerminateProcess, TerminateJobObject: nothing of it runs again.
Ended(p) == IF p \in {"none", "ended"} THEN p ELSE "ending"

\* The last handle of the job closes.
CloseJob ==
    /\ job' = IF job = "none" THEN "none" ELSE "closed"
    /\ IF job = "holds" THEN process' = Ended(process) /\ brood' = FALSE
       ELSE UNCHANGED <<process, brood>>

\* The launcher or the child is dropped with its guards, a process on the way; whether
\* TerminateProcess ends one outside its job is not looked at.
DropAll ==
    /\ To("failed", "") /\ held' = {} /\ job' = IF job = "none" THEN "none" ELSE "closed"
    /\ process' \in {Ended(process)} \cup IF job = "holds" THEN {} ELSE {process}
    /\ brood' = (brood /\ job # "holds")

-----------------------------------------------------------------------------
(* VerifiedEngineLauncher *)

\* verify_for_launch: every file is the one that was sealed.
Verified == files = "sealed"

From(use) == launch = <<(IF use = "check" THEN "sealed" ELSE "prepared"), "">>

\* create_suspended_engine: with everything else made, the files are verified under
\* handles that guard them from then on, and the process is created.
Create(use) ==
    /\ From(use) /\ UNCHANGED <<owner, files>>
    /\ \/ /\ Verified /\ held' = held \cup {use}
          /\ process' = "suspended" /\ job' = "made" /\ brood' = FALSE /\ To(use, "created")
       \/ DropAll

\* Slip: a process that cannot be assigned to the job is started all the same.
AssignIfPossible ==
    /\ launch \in Uses \X {"created"} /\ To(Use, "suspended")
    /\ job' \in {"made", "holds"}
    /\ UNCHANGED <<owner, process, brood, files, held>>

\* It joins the job before it runs, or is ended.
Assign ==
    /\ launch \in Uses \X {"created"} /\ UNCHANGED <<owner, files>>
    /\ \/ job' = "holds" /\ To(Use, "suspended") /\ UNCHANGED <<process, brood, held>>
       \/ DropAll

\* resume; a run no longer needs the guards of what was prepared.
Resume ==
    /\ launch \in Uses \X {"suspended"} /\ UNCHANGED <<owner, files>>
    /\ \/ /\ process' = "running" /\ To(Use, "up")
          /\ held' = IF Use = "run" THEN held \ {"prepared"} ELSE held
          /\ UNCHANGED <<brood, job>>
       \/ DropAll

\* check: the process exits or is timed out; a refused configuration, an answer that
\* does not come or a tree that does not end is an error, and all is dropped.
Checked ==
    /\ launch = <<"check", "up">> /\ UNCHANGED <<owner, files>>
    /\ \/ process = "ended" /\ CloseJob /\ held' = held \ {"check"} /\ To("checked", "")
       \/ DropAll

\* The files again, after nobody guarded them; then they wait for start.
Prepare ==
    /\ launch = <<"checked", "">> /\ UNCHANGED <<owner, files>>
    /\ \/ Verified /\ held' = {"prepared"} /\ To("prepared", "")
          /\ UNCHANGED <<process, brood, job>>
       \/ DropAll

-----------------------------------------------------------------------------
(* RealManagedChild *)

\* stop: all ended and waited for, not waited for long enough, or refused; after an
\* error it may be repeated.
Stop ==
    /\ launch = <<"run", "up">> /\ UNCHANGED <<owner, files, held>>
    /\ \/ process' = "ended" /\ brood' = FALSE /\ job' = "closed" /\ To("stopped", "")
       \/ Runs /\ process' = "ending" /\ brood' = FALSE /\ UNCHANGED <<job, launch>>
       \/ UNCHANGED <<process, brood, job, launch>>

\* What was prepared, or the child, is dropped.
Drop == launch \in {<<"prepared", "">>, <<"run", "up">>, <<"stopped", "">>} /\ DropAll
        /\ UNCHANGED <<owner, files>>

\* RealityProcessPair: a sidecar that died is stopped, and checked and started from a
\* new copy.
Again ==
    /\ launch = <<"stopped", "">> /\ To("sealed", "") /\ files' = "sealed" /\ held' = {}
    /\ UNCHANGED <<owner, process, brood, job>>

-----------------------------------------------------------------------------
(* Everything else *)

Spawn ==
    /\ Runs /\ brood' = TRUE /\ UNCHANGED <<owner, launch, process, job, files, held>>

\* The engine exits by itself, or Windows is done with ending it.
Exit ==
    /\ process \in {"running", "ending"} /\ process' = "ended"
    /\ UNCHANGED <<owner, launch, brood, job, files, held>>

Change ==
    /\ held = {} /\ files = "sealed" /\ files' = "changed"
    /\ UNCHANGED <<owner, launch, process, brood, job, held>>

Kill ==
    /\ owner = "alive" /\ owner' = "killed" /\ held' = {} /\ CloseJob
    /\ UNCHANGED <<launch, files>>

Alive ==
    /\ owner = "alive"
    /\ \/ \E use \in Uses : Create(use)
       \/ Assign \/ Resume \/ Checked \/ Prepare \/ Stop \/ Again \/ Drop

Next == Alive \/ Spawn \/ Exit \/ Change \/ Kill

Spec == Init /\ [][Next]_vars

-----------------------------------------------------------------------------
(* Properties *)

TypeOK ==
    /\ owner \in {"alive", "killed"} /\ launch \in Launches
    /\ process \in {"none", "suspended", "running", "ending", "ended"}
    /\ brood \in BOOLEAN /\ job \in {"none", "made", "holds", "closed"}
    /\ files \in {"sealed", "changed"} /\ held \subseteq {"check", "prepared", "run"}

\* An engine and what it started run only for a living owner, from the files that
\* were sealed and under guard, and for no check or stop that has succeeded and no
\* launch that has failed: wherever the owner is killed and whichever call fails
\* (create_suspended_engine, check, start, terminate_tree, KillOnCloseJob).
EngineIsContained ==
    Runs \/ brood => owner = "alive" /\ launch \in Uses \X {"up"}
                     /\ files = "sealed" /\ held # {}
=============================================================================
