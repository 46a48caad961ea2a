-------------------------- MODULE SessionDirectory --------------------------
(***************************************************************************)
(* The private directory of a session: how SessionConfig and SealedEngine   *)
(* make it and take it down (engine_runtime.rs), the directory the elevated *)
(* helper nests in it with its journal (tun_helper.rs), and the cleanup of  *)
(* what a killed process left (session_recovery.rs, and the older rules of  *)
(* inspect_stale_tun_candidate).                                            *)
(*                                                                         *)
(* An owner writes, renames and removes one file at a time and may be killed*)
(* between any two of these steps, as may the cleanup; a removal may fail.  *)
(* Files are whole or partly written; digests and identities are those of   *)
(* the whole file.  Adapters, routes and the engine's process are those of  *)
(* TunHelper: here their probes let a cleanup go on or not.                 *)
(*                                                                         *)
(* A REALITY pair has a second directory beside "outer" (_sidecar_config),  *)
(* made and removed by the same steps and inspected on its own by the       *)
(* recovery; it nests no helper and no journal, and is not a home here.     *)
(***************************************************************************)
EXTENDS Naturals, FiniteSets

CONSTANTS
    EngineFiles,    \* the execution files of an engine
    MaxForeign      \* bounds the files other programs put there

Homes == {"outer", "nested"}        \* the session of the application, of its helper
Engine(h) == IF h = "outer" THEN "engine.outer" ELSE "engine.nested"
Engines == {Engine(h) : h \in Homes}
Directories == Homes \cup Engines
Children(d) ==
    CASE d = "outer" -> {"nested", "engine.outer"}
      [] d = "nested" -> {"engine.nested"}
      [] OTHER -> {}

Config(h) == <<h, "config.json">>
Temporary(h) == <<h, "config.tmp">>
Marker(h) == <<h, "session-owner.json">>
Journal == <<"outer", "tun-journal.json">>
Foreign(d) == <<d, "foreign">>

Itself(d) == <<d, "itself">>      \* the directory among what a plan removes

Nothing == [kind |-> "none", left |-> {}]

VARIABLES
    dirs,       \* directories that exist
    disk,       \* files that exist, with their directories
    part,       \* those of them not wholly written
    at,         \* where the owner of each session is, or "gone"
    starting,   \* the helper starts, and holds the application's config
    plan,       \* CleanupPlan: what the cleanup has yet to remove, or Nothing
    torn,       \* history: an owner ended between the first write of config.tmp and
                \* its whole marker, while it undid a creation, or inside a write of the
                \* journal or of an engine file; or an undo left something
    foreign     \* history: the files of other programs

vars == <<dirs, disk, part, at, starting, plan, torn, foreign>>

In(d) == {f \in disk : f[1] = d}
Empty(d) == In(d) = {} /\ Children(d) \cap dirs = {}

\* Nothing, or what a version before the markers left behind.
Init ==
    /\ \/ dirs = {} /\ disk = {}
       \/ dirs = Homes /\ disk = {Config("outer"), Config("nested"), Journal}
    /\ part = {} /\ at = [h \in Homes |-> "gone"] /\ starting = FALSE
    /\ plan = Nothing /\ torn = FALSE /\ foreign = {}

Goto(h, step) == at' = [at EXCEPT ![h] = step]
Files == <<disk, part>>
Rest == <<starting, plan, torn, foreign>>

-----------------------------------------------------------------------------
(* SessionConfig::create *)

\* The application needs an empty root (reconcile_stale_sessions), the helper
\* the config of a living application, which it holds until it has started.
Make(h) ==
    /\ at[h] = "gone" /\ plan = Nothing
    /\ IF h = "outer" THEN dirs = {} ELSE at["outer"] \in {"made", "up"} /\ "nested" \notin dirs
    /\ dirs' = dirs \cup {h} /\ Goto(h, "new")
    /\ starting' = (starting \/ h = "nested")
    /\ UNCHANGED <<disk, part, plan, torn, foreign>>

Add(f) == disk' = disk \cup {f}
Written(f) == part' = part \ {f} /\ UNCHANGED disk

\* create_session_config and write_marker.
Create(h) ==
    /\ \/ at[h] = "new" /\ Goto(h, "tmp") /\ Add(Temporary(h)) /\ part' = part \cup {Temporary(h)}
       \/ at[h] = "tmp" /\ Temporary(h) \in part /\ Goto(h, "tmp") /\ Written(Temporary(h))
       \/ /\ at[h] = "tmp" /\ Temporary(h) \notin part /\ Goto(h, "moved")
          /\ disk' = (disk \ {Temporary(h)}) \cup {Config(h)} /\ UNCHANGED part
       \/ at[h] = "moved" /\ Goto(h, "marking") /\ Add(Marker(h)) /\ part' = part \cup {Marker(h)}
       \/ at[h] = "marking" /\ Goto(h, "made") /\ Written(Marker(h))
       \/ at[h] \in {"new", "tmp", "moved", "marking"} /\ Goto(h, "undo") /\ UNCHANGED Files
    /\ UNCHANGED <<dirs, Rest>>

Remove(f) == disk' = disk \ {f} /\ part' = part \ {f}

\* The session is over: a helper that ends holds nothing.
Left(h) == Goto(h, "gone") /\ starting' = (starting /\ h = "outer")

\* cleanup_session_directory: file by file, in the order the directory lists them.
Undo(h) ==
    /\ at[h] = "undo"
    /\ \/ \E f \in In(h) \ foreign : Remove(f) /\ UNCHANGED <<dirs, at, starting, torn>>
       \/ Empty(h) /\ dirs' = dirs \ {h} /\ Left(h) /\ UNCHANGED <<Files, torn>>
       \/ Left(h) /\ torn' = (torn \/ ~Empty(h)) /\ UNCHANGED <<dirs, Files>>
    /\ UNCHANGED <<plan, foreign>>

-----------------------------------------------------------------------------
(* SealedEngine *)

\* SealedEngine::create and copy_verified_file: the files one after the other.
Seal(h) ==
    LET d == Engine(h)
        copied == {f[2] : f \in In(d)}
    IN /\ \/ /\ at[h] = "made" /\ d \notin dirs
             /\ dirs' = dirs \cup {d} /\ Goto(h, "sealing") /\ UNCHANGED Files
          \/ /\ at[h] = "sealing" /\ part \cap In(d) = {}
             /\ \E name \in EngineFiles \ copied :
                    Add(<<d, name>>) /\ part' = part \cup {<<d, name>>}
             /\ UNCHANGED <<dirs, at>>
          \/ /\ at[h] = "sealing" /\ \E f \in part \cap In(d) : Written(f)
             /\ UNCHANGED <<dirs, at>>
          \/ /\ at[h] = "sealing" /\ part \cap In(d) = {} /\ EngineFiles \subseteq copied
             /\ Goto(h, IF h = "outer" THEN "up" ELSE "sealed")
             /\ UNCHANGED <<dirs, Files>>
          \/ at[h] = "sealing" /\ Goto(h, "unsealing") /\ UNCHANGED <<dirs, Files>>
       /\ UNCHANGED Rest

\* cleanup_owned_engine_directory, then the session is dropped; whatever goes
\* wrong is left where it is.
Unseal(h) ==
    LET d == Engine(h)
    IN /\ at[h] = "unsealing"
       /\ \/ /\ d \in dirs /\ \E f \in In(d) \ foreign : Remove(f)
             /\ UNCHANGED <<dirs, at, torn>>
          \/ /\ d \in dirs /\ Empty(d) /\ dirs' = dirs \ {d} /\ UNCHANGED <<Files, at, torn>>
          \/ /\ Goto(h, "closing") /\ torn' = (torn \/ part \cap In(d) # {})
             /\ UNCHANGED <<dirs, Files>>
       /\ UNCHANGED <<starting, plan, foreign>>

-----------------------------------------------------------------------------
(* The journal of the helper *)

\* start_engine_session creates it for a sealed engine and then rewrites it in
\* place (write_journal).
WriteJournal ==
    /\ \/ /\ at["nested"] = "sealed" /\ Journal \notin disk
          /\ Goto("nested", "first") /\ Add(Journal) /\ part' = part \cup {Journal}
          /\ UNCHANGED starting
       \/ /\ at["nested"] = "first" /\ Goto("nested", "up") /\ Written(Journal)
          /\ starting' = FALSE
       \/ /\ at["nested"] = "up" /\ Goto("nested", "rewriting")
          /\ part' = part \cup {Journal} /\ UNCHANGED <<disk, starting>>
       \/ /\ at["nested"] = "rewriting" /\ Goto("nested", "up") /\ Written(Journal)
          /\ UNCHANGED starting
    /\ UNCHANGED <<dirs, plan, torn, foreign>>

\* with_tun_cleanup: a verified cleanup removes the journal, any other keeps it.
\* The application may drop its session before its helper is done.
Stop(h) ==
    /\ at[h] \in {"made", "up"} \/ (h = "nested" /\ at[h] = "sealed")
    /\ Goto(h, "unsealing")
    /\ \/ h = "nested" /\ at[h] = "up" /\ Remove(Journal)
       \/ UNCHANGED Files
    /\ UNCHANGED <<dirs, Rest>>

-----------------------------------------------------------------------------
(* Drop for SessionConfig: nothing it fails to remove stops it *)

Held(f) == starting /\ f = Config("outer")

Drop(h) ==
    /\ \/ /\ at[h] = "closing" /\ Goto(h, "evidence")
          /\ IF Config(h) \in disk /\ ~Held(Config(h))
             THEN Remove(Config(h)) \/ UNCHANGED Files ELSE UNCHANGED Files
          /\ UNCHANGED <<dirs, starting>>
       \/ /\ at[h] = "evidence" /\ In(h) \subseteq {Marker(h)} /\ Children(h) \cap dirs = {}
          /\ Goto(h, "marker") /\ UNCHANGED <<dirs, Files, starting>>
       \/ /\ at[h] = "evidence" /\ ~(In(h) \subseteq {Marker(h)} /\ Children(h) \cap dirs = {})
          /\ Goto(h, "directory") /\ UNCHANGED <<dirs, Files, starting>>
       \/ /\ at[h] = "marker" /\ Goto(h, "directory")
          /\ Remove(Marker(h)) \/ UNCHANGED Files
          /\ UNCHANGED <<dirs, starting>>
       \/ /\ at[h] = "directory" /\ Left(h) /\ UNCHANGED Files
          /\ \/ Empty(h) /\ dirs' = dirs \ {h}
             \/ UNCHANGED dirs
    /\ UNCHANGED <<plan, torn, foreign>>

-----------------------------------------------------------------------------
(* CleanupPlan, and the rules of older versions *)

\* Handles that deny DELETE: a session's directory until it is dropped, and the
\* config the helper holds.
Leased(h) == at[h] \notin {"gone", "closing", "evidence", "marker", "directory"}
Leases == starting \/ \E h \in Homes : Leased(h)

Whole(d, names) == \A f \in In(d) : f \notin part /\ f[2] \in names

\* CleanupPlan::engine
EngineKnown(d) == d \in dirs => Whole(d, EngineFiles)

Names(h) == {f[2] : f \in {Config(h), Marker(h)} \cup (IF h = "outer" THEN {Journal} ELSE {})}

\* CleanupPlan::session
Known(h) ==
    \/ Empty(h)
    \/ Marker(h) \in disk /\ Whole(h, Names(h)) /\ EngineKnown(Engine(h))

Marked == Known("outer") /\ ("nested" \in dirs => Known("nested"))

\* inspect_stale_tun_candidate
Legacy ==
    /\ Journal \in disk /\ Marker("outer") \notin disk
    /\ Whole("outer", {Config("outer")[2], Journal[2]})
    /\ Whole("nested", {Config("nested")[2]})
    /\ dirs \cap Engines = {}

Acceptable == Marked \/ Legacy

\* reconcile_stale_sessions_with_probes: all is inspected before anything is removed.
Inspect ==
    /\ at["outer"] = "gone" /\ plan = Nothing /\ "outer" \in dirs
    /\ ~Leases /\ Acceptable
    /\ plan' = [kind |-> IF Marked THEN "marked" ELSE "legacy",
                left |-> disk \cup {Itself(d) : d \in dirs}]
    /\ UNCHANGED <<dirs, disk, part, at, starting, torn, foreign>>

\* Slip: a marker goes with the other files.
RankAsFile(x) ==
    CASE x = Itself("outer") -> 5 [] x = Itself("nested") -> 3 [] x \in {Itself(d) : d \in Engines} -> 1 [] OTHER -> 0

\* The order of remove and of remove_stale_tun_candidate.
Rank(x) ==
    IF plan.kind = "legacy"
    THEN CASE x = Config("nested") -> 0 [] x = Itself("nested") -> 1 [] x = Config("outer") -> 2
           [] x = Journal -> 3 [] OTHER -> 4
    ELSE CASE x = Itself("outer") -> 5 [] x = Marker("outer") -> 4 [] x = Itself("nested") -> 3
           [] x = Marker("nested") -> 2 [] x \in {Itself(d) : d \in Engines} -> 1 [] OTHER -> 0

Cleanup ==
    \E x \in plan.left :
        /\ \A y \in plan.left : Rank(x) <= Rank(y)
        /\ IF x[2] = "itself"
           THEN x[1] \in dirs /\ Empty(x[1]) /\ dirs' = dirs \ {x[1]} /\ UNCHANGED Files
           ELSE x \in disk /\ Remove(x) /\ UNCHANGED dirs
        /\ plan' = IF plan.left = {x} THEN Nothing ELSE [plan EXCEPT !.left = @ \ {x}]
        /\ UNCHANGED <<at, starting, torn, foreign>>

\* A removal fails, or the process is killed.
GiveUp ==
    /\ plan # Nothing /\ plan' = Nothing
    /\ UNCHANGED <<dirs, disk, part, at, starting, torn, foreign>>

-----------------------------------------------------------------------------
\* A process is killed: its handles are gone, its files are as they are.
Kill(h) ==
    /\ at[h] # "gone" /\ Left(h)
    /\ torn' = \/ torn
               \/ at[h] \in {"tmp", "moved", "marking", "undo", "first", "rewriting"}
               \/ part \cap In(Engine(h)) # {}
    /\ UNCHANGED <<dirs, disk, part, plan, foreign>>

\* Another program puts a file there.
PutForeign ==
    /\ Cardinality(foreign) < MaxForeign
    /\ \E d \in dirs : foreign' = foreign \cup {Foreign(d)} /\ Add(Foreign(d))
    /\ UNCHANGED <<dirs, part, at, starting, plan, torn>>

Next ==
    \/ \E h \in Homes : Make(h) \/ Create(h) \/ Undo(h) \/ Seal(h) \/ Unseal(h) \/ Stop(h)
                        \/ Drop(h) \/ Kill(h)
    \/ WriteJournal \/ Inspect \/ Cleanup \/ GiveUp \/ PutForeign

Spec == Init /\ [][Next]_vars

-----------------------------------------------------------------------------
(* Properties *)

TypeOK ==
    /\ dirs \subseteq Directories /\ part \subseteq disk /\ foreign \subseteq Directories \X {"foreign"}
    /\ \A f \in disk : f[1] \in dirs
    /\ plan.kind \in {"none", "marked", "legacy"} /\ (plan.kind = "none") = (plan.left = {})

\* What a killed application, helper or cleanup leaves can be cleaned up by the
\* next one, however far each of them got, except where `torn` is set: what a kill
\* leaves there, a whole config without its marker too, the recovery refuses and
\* keeps; other programs' files stay; and a session in use, the
\* helper's too when its application is dead, keeps every file
\* (CleanupPlan::inspect and remove, Drop for SessionConfig).
CleanupIsSafe ==
    /\ (\A h \in Homes : at[h] = "gone") /\ ~torn /\ foreign = {} /\ "outer" \in dirs => Acceptable
    /\ foreign \subseteq disk
    /\ at["nested"] \in {"up", "rewriting"} =>
           {Config("nested"), Marker("nested"), Journal} \subseteq disk
    /\ at["outer"] = "up" => {Config("outer"), Marker("outer")} \subseteq disk
=============================================================================
