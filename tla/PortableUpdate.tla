--------------------------- MODULE PortableUpdate ---------------------------
(***************************************************************************)
(* Replacing a portable installation by the next release                   *)
(* (portable_update.rs): the GUI downloads and unpacks a release beside    *)
(* its data, an updater copied out of the installation waits for the GUI   *)
(* to exit, moves the old folder away and the new one in its place.        *)
(* Threads of the GUI, updaters and the user run in any order, and either  *)
(* program may be killed between two of its steps.                         *)
(*                                                                         *)
(* A folder is the release its files are from, whether all of them are     *)
(* there as signed (whole), whether anyone has changed one since (edited), *)
(* whether there is a file of somebody else (stray), and the marker that   *)
(* keeps an incomplete installation from starting.  A release is its       *)
(* number.  Windows does not let a file be written while a program that    *)
(* verified it keeps it open, nor a folder be moved while a program runs   *)
(* from it.                                                                *)
(***************************************************************************)
EXTENDS Naturals, FiniteSets

CONSTANTS
    Tokens,     \* stagings: bounds the downloads of a behaviour
    Releases,   \* 1..n: the releases that will be published
    MaxEdits    \* bounds the changes others make to the folders

NoFolder == [there |-> FALSE]
Folder(release) ==
    [there |-> TRUE, release |-> release, whole |-> TRUE, edited |-> FALSE, stray |-> FALSE,
     marker |-> FALSE]
Partial(release) == [Folder(release) EXCEPT !.whole = FALSE]

NoReady == [token |-> "none", release |-> 0]
NoDownload == [at |-> "none", release |-> 0]
NoUpdater == [at |-> "none", orphan |-> FALSE, current |-> 0, next |-> 0]

VARIABLES
    target,     \* the installation
    payload,    \* per token: the unpacked release, in the stage
    incoming,   \* per token: its copy beside the installation
    previous,   \* per token: where the old installation was moved
    latest,     \* the release GitHub calls the latest
    gui,        \* "off", "on", "launching" an updater or "leaving"
    running,    \* CARGO_PKG_VERSION of the GUI
    phase,      \* PortableUpdateStatus.phase
    ready,      \* CoordinatorState.ready
    downloads,  \* per token: the thread that stages it
    updaters,   \* per token: the updater process
    edits

disk == <<target, payload, incoming, previous, edits>>
coordinator == <<phase, ready>>
vars == <<disk, latest, gui, running, coordinator, downloads, updaters>>

UpdaterSteps ==
    <<"auth", "waiting", "verify", "copy", "verifyNew", "markNew", "markOld", "recheck", "moveOld",
      "verifyOld", "moveNew", "verifyInstalled", "unmark", "start">>

Init ==
    /\ target = Folder(1) /\ latest = 1 /\ edits = 0
    /\ payload = [t \in Tokens |-> NoFolder] /\ incoming = payload /\ previous = payload
    /\ gui = "off" /\ running = 0 /\ phase = "idle" /\ ready = NoReady
    /\ downloads = [t \in Tokens |-> NoDownload]
    /\ updaters = [t \in Tokens |-> NoUpdater]

\* verify_tree: exactly the files of the signed manifest, byte for byte.
Verified(folder, release, marker) ==
    /\ folder.there /\ folder.release = release /\ folder.whole /\ ~folder.edited
    /\ ~folder.stray /\ folder.marker = marker

-----------------------------------------------------------------------------
(* The GUI *)

Publish == latest + 1 \in Releases /\ latest' = latest + 1
           /\ UNCHANGED <<disk, gui, running, coordinator, downloads, updaters>>

\* PortableUpdater::new, in a process without the threads of the one before.
NewGui ==
    /\ gui' = "on" /\ running' = target.release
    /\ phase' = "idle" /\ ready' = NoReady
    /\ downloads' = [t \in Tokens |-> IF downloads[t].at = "none" THEN NoDownload
                                       ELSE [downloads[t] EXCEPT !.at = "over"]]

\* main: a marked installation shows the repair notice and ends.
Start ==
    /\ gui = "off" /\ target.there /\ ~target.marker
    /\ NewGui
    /\ UNCHANGED <<disk, latest, updaters>>

\* It leaves, or is killed: its threads end, its updaters are orphans.
Quit ==
    /\ gui # "off" /\ gui' = "off"
    /\ updaters' = [t \in Tokens |-> [updaters[t] EXCEPT !.orphan = TRUE]]
    /\ UNCHANGED <<disk, latest, running, coordinator, downloads>>

\* stage_app_update and PortableUpdater::stage; the check may be a minute old.
Stage ==
    /\ gui # "off" /\ phase \notin {"downloading", "installing"}
    /\ \E release \in running + 1 .. latest :
        IF ready # NoReady /\ ready.release = release
        THEN phase' = "ready" /\ UNCHANGED <<ready, downloads>>
        ELSE /\ phase' = "downloading" /\ ready' = NoReady
             /\ \E t \in Tokens :
                 /\ downloads[t] = NoDownload
                 /\ downloads' = [downloads EXCEPT ![t] = [at |-> "verify", release |-> release]]
    /\ UNCHANGED <<disk, latest, gui, running, updaters>>

DownloadFailed(t) ==
    /\ phase' = "error" /\ downloads' = [downloads EXCEPT ![t].at = "over"] /\ UNCHANGED ready

\* download: the installation must be the release it says it is.
VerifyCurrent(t) ==
    /\ gui # "off" /\ downloads[t].at = "verify"
    /\ \/ /\ Verified(target, running, FALSE)
          /\ downloads' = [downloads EXCEPT ![t].at = "fetch"] /\ UNCHANGED coordinator
       \/ DownloadFailed(t)
    /\ UNCHANGED <<disk, latest, gui, running, updaters>>

\* Slip: the unpacked files are not checked.
FetchUnchecked(t) ==
    /\ gui # "off" /\ downloads[t].at = "fetch"
    /\ \/ /\ \E folder \in {Folder(downloads[t].release), Partial(downloads[t].release)} :
               payload' = [payload EXCEPT ![t] = folder]
          /\ phase' = "ready" /\ ready' = [token |-> t, release |-> downloads[t].release]
          /\ downloads' = [downloads EXCEPT ![t].at = "over"]
       \/ UNCHANGED payload /\ DownloadFailed(t)
    /\ UNCHANGED <<target, incoming, previous, edits, latest, gui, running, updaters>>

\* download and extract_bundle: whatever is not as signed is an error, and
\* stays where it is.  The thread reports to whatever status there is by now.
Fetch(t) ==
    /\ gui # "off" /\ downloads[t].at = "fetch"
    /\ \/ /\ payload' = [payload EXCEPT ![t] = Folder(downloads[t].release)]
          /\ phase' = "ready" /\ ready' = [token |-> t, release |-> downloads[t].release]
          /\ downloads' = [downloads EXCEPT ![t].at = "over"]
       \/ payload' = [payload EXCEPT ![t] = Partial(downloads[t].release)] /\ DownloadFailed(t)
       \/ UNCHANGED payload /\ DownloadFailed(t)
    /\ UNCHANGED <<target, incoming, previous, edits, latest, gui, running, updaters>>

\* install_app_update up to the launch: the connection is down (the gate), the
\* installation and the payload are verified, the updater is started.
Install ==
    /\ gui = "on"
    /\ IF /\ ready # NoReady
          /\ Verified(target, running, FALSE) /\ Verified(payload[ready.token], ready.release, FALSE)
       THEN /\ gui' = "launching" /\ phase' = "installing"
            /\ updaters' = [updaters EXCEPT ![ready.token] =
                                [at |-> "auth", orphan |-> FALSE, current |-> running,
                                 next |-> ready.release]]
       ELSE phase' = "error" /\ UNCHANGED <<gui, updaters>>
    /\ UNCHANGED <<disk, latest, running, ready, downloads>>

\* launch: the updater answered in five seconds, and the GUI leaves; or it is
\* cancelled, even if it answers now.
Launched(t) ==
    /\ updaters[t].at # "none" /\ ~updaters[t].orphan
    /\ \A u \in Tokens \ {t} : updaters[u].orphan \/ updaters[u].at \in {"none", "over"}

Acknowledged(t) ==
    /\ gui = "launching" /\ Launched(t) /\ updaters[t].at = "waiting"
    /\ gui' = "leaving"
    /\ UNCHANGED <<disk, latest, running, coordinator, downloads, updaters>>

Cancel(t) ==
    /\ gui = "launching" /\ Launched(t)
    /\ gui' = "on" /\ phase' = "error" /\ updaters' = [updaters EXCEPT ![t].at = "over"]
    /\ UNCHANGED <<disk, latest, running, ready, downloads>>

-----------------------------------------------------------------------------
(* The updater *)

At(t, step) == updaters[t].at = step
Over(t) == updaters' = [updaters EXCEPT ![t].at = "over"]
Go(t, step) == updaters' = [updaters EXCEPT ![t].at = step]

\* Files that a program keeps open since it verified them.
Leased(place, t) ==
    CASE place = "payload" ->
            At(t, "copy") \/ At(t, "verifyNew") \/ At(t, "markNew") \/ At(t, "markOld")
            \/ At(t, "recheck") \/ At(t, "moveOld") \/ At(t, "verifyOld") \/ At(t, "moveNew")
            \/ At(t, "verifyInstalled") \/ At(t, "unmark")
      [] place = "incoming" ->
            At(t, "markNew") \/ At(t, "markOld") \/ At(t, "recheck") \/ At(t, "moveOld")
            \/ At(t, "verifyOld") \/ At(t, "moveNew")
      [] place = "target" ->
            At(t, "copy") \/ At(t, "verifyNew") \/ At(t, "markNew") \/ At(t, "markOld")
            \/ At(t, "recheck") \/ At(t, "moveOld") \/ At(t, "unmark")
      [] OTHER -> FALSE

\* run: the parent is alive, the installation and the stage are as signed.
Authenticate(t) ==
    /\ At(t, "auth")
    /\ IF /\ ~updaters[t].orphan /\ Verified(target, updaters[t].current, FALSE)
          /\ Verified(payload[t], updaters[t].next, FALSE)
       THEN Go(t, "waiting") ELSE Over(t)
    /\ UNCHANGED <<disk, latest, gui, running, coordinator, downloads>>

\* A GUI that is started meanwhile is not the parent, but stands in the way of
\* the lease the move needs.
ParentExited(t) ==
    /\ At(t, "waiting") /\ updaters[t].orphan
    /\ Go(t, "verify")
    /\ UNCHANGED <<disk, latest, gui, running, coordinator, downloads>>

\* replace_bundle, step by step; a step whose check fails ends the updater.
Step(t, from, check, to) ==
    /\ At(t, from)
    /\ IF check THEN Go(t, to) ELSE Over(t)
    /\ UNCHANGED <<latest, gui, running, coordinator, downloads>>

VerifyBoth(t) ==
    /\ Step(t, "verify",
            /\ updaters[t].next > updaters[t].current /\ gui = "off"
            /\ Verified(target, updaters[t].current, FALSE)
            /\ Verified(payload[t], updaters[t].next, FALSE)
            /\ ~incoming[t].there /\ ~previous[t].there, "copy")
    /\ UNCHANGED disk

Copy(t) ==
    /\ At(t, "copy")
    /\ \/ incoming' = [incoming EXCEPT ![t] = Partial(updaters[t].next)] /\ Over(t)
       \/ incoming' = [incoming EXCEPT ![t] = Folder(updaters[t].next)] /\ Go(t, "verifyNew")
    /\ UNCHANGED <<target, payload, previous, edits, latest, gui, running, coordinator, downloads>>

VerifyNew(t) ==
    Step(t, "verifyNew", Verified(incoming[t], updaters[t].next, FALSE), "markNew") /\ UNCHANGED disk

MarkNew(t) ==
    /\ Step(t, "markNew", TRUE, "markOld")
    /\ incoming' = [incoming EXCEPT ![t].marker = TRUE]
    /\ UNCHANGED <<target, payload, previous, edits>>

\* create_new: two updaters do not mark the same folder.
MarkOld(t) ==
    /\ Step(t, "markOld", target.there /\ ~target.marker, "recheck")
    /\ target' = IF target.there THEN [target EXCEPT !.marker = TRUE] ELSE target
    /\ UNCHANGED <<payload, incoming, previous, edits>>

Recheck(t) ==
    Step(t, "recheck", target.there /\ ~target.stray, "moveOld") /\ UNCHANGED disk

\* Slip: the old installation is taken apart in place.
RemoveOld(t) ==
    /\ At(t, "moveOld")
    /\ \/ /\ gui = "off" /\ target.there /\ target' = NoFolder /\ UNCHANGED previous
          /\ Go(t, "moveNew")
       \/ Over(t) /\ UNCHANGED <<target, previous>>
    /\ UNCHANGED <<payload, incoming, edits, latest, gui, running, coordinator, downloads>>

\* A move fails while a program runs from the folder.
MoveOld(t) ==
    /\ At(t, "moveOld")
    /\ \/ /\ gui = "off" /\ target.there /\ ~previous[t].there
          /\ previous' = [previous EXCEPT ![t] = target] /\ target' = NoFolder
          /\ Go(t, "verifyOld")
       \/ Over(t) /\ UNCHANGED <<target, previous>>
    /\ UNCHANGED <<payload, incoming, edits, latest, gui, running, coordinator, downloads>>

VerifyOld(t) ==
    Step(t, "verifyOld", Verified(previous[t], updaters[t].current, TRUE), "moveNew") /\ UNCHANGED disk

MoveNew(t) ==
    /\ At(t, "moveNew")
    /\ \/ /\ ~target.there
          /\ target' = incoming[t] /\ incoming' = [incoming EXCEPT ![t] = NoFolder]
          /\ Go(t, "verifyInstalled")
       \/ Over(t) /\ UNCHANGED <<target, incoming>>
    /\ UNCHANGED <<payload, previous, edits, latest, gui, running, coordinator, downloads>>

\* Slip: the files are not checked again after the move.
TrustMoved(t) == Step(t, "verifyInstalled", target.there, "unmark") /\ UNCHANGED disk

VerifyInstalled(t) ==
    Step(t, "verifyInstalled", Verified(target, updaters[t].next, TRUE), "unmark") /\ UNCHANGED disk

Unmark(t) ==
    /\ Step(t, "unmark", TRUE, "start")
    /\ target' = [target EXCEPT !.marker = FALSE]
    /\ UNCHANGED <<payload, incoming, previous, edits>>

\* run: verified once more, then started.
StartInstalled(t) ==
    /\ At(t, "start") /\ Over(t)
    /\ IF Verified(target, updaters[t].next, FALSE) /\ gui = "off"
       THEN NewGui ELSE UNCHANGED <<gui, running, coordinator, downloads>>
    /\ UNCHANGED <<disk, latest>>

\* Killed, or its 60 seconds of waiting are over.
Killed(t) ==
    /\ updaters[t].at \notin {"none", "over"} /\ Over(t)
    /\ UNCHANGED <<disk, latest, gui, running, coordinator, downloads>>

-----------------------------------------------------------------------------
(* Others *)

Changed(folder, edit) == IF edit THEN [folder EXCEPT !.edited = TRUE] ELSE [folder EXCEPT !.stray = TRUE]

\* Someone changes a file that is not held open, or adds one anywhere.
Change(place, t, edit) ==
    /\ edits < MaxEdits /\ edits' = edits + 1
    /\ edit => \A u \in Tokens : (u = t \/ place = "target") => ~Leased(place, u)
    /\ CASE place = "target" ->
                /\ target.there /\ target' = Changed(target, edit)
                /\ UNCHANGED <<payload, incoming, previous>>
         [] place = "payload" ->
                /\ payload[t].there /\ payload' = [payload EXCEPT ![t] = Changed(@, edit)]
                /\ UNCHANGED <<target, incoming, previous>>
         [] place = "incoming" ->
                /\ incoming[t].there /\ incoming' = [incoming EXCEPT ![t] = Changed(@, edit)]
                /\ UNCHANGED <<target, payload, previous>>
         [] place = "previous" ->
                /\ previous[t].there /\ previous' = [previous EXCEPT ![t] = Changed(@, edit)]
                /\ UNCHANGED <<target, payload, incoming>>
    /\ UNCHANGED <<latest, gui, running, coordinator, downloads, updaters>>

Updater(t) ==
    \/ Authenticate(t) \/ ParentExited(t) \/ VerifyBoth(t) \/ Copy(t) \/ VerifyNew(t) \/ MarkNew(t)
    \/ MarkOld(t) \/ Recheck(t) \/ MoveOld(t) \/ VerifyOld(t) \/ MoveNew(t) \/ VerifyInstalled(t)
    \/ Unmark(t) \/ StartInstalled(t) \/ Killed(t)

Next ==
    \/ Publish \/ Start \/ Quit \/ Stage \/ Install
    \/ \E t \in Tokens :
        \/ VerifyCurrent(t) \/ Fetch(t) \/ Acknowledged(t) \/ Cancel(t) \/ Updater(t)
        \/ \E place \in {"target", "payload", "incoming", "previous"}, edit \in BOOLEAN :
            Change(place, t, edit)

Spec == Init /\ [][Next]_vars

-----------------------------------------------------------------------------
(* Properties *)

TypeOK ==
    /\ gui \in {"off", "on", "launching", "leaving"}
    /\ phase \in {"idle", "downloading", "ready", "installing", "error"}
    /\ \A t \in Tokens : updaters[t].at \in {"none", "over"} \cup {UpdaterSteps[i] : i \in DOMAIN UpdaterSteps}

\* An installation without the marker, the only kind that starts, is one whole
\* release, at least as new as the one that was there; what others changed while
\* it was being put together never becomes startable (replace_bundle).
InstalledIsWhole ==
    [][(target # target' /\ target'.there /\ ~target'.marker) =>
        /\ target'.whole
        /\ target'.edited => target.there /\ ~target.marker
        /\ target.there => target'.release >= target.release]_vars

\* Whenever there is no installation that starts, a release is still there
\* complete, marked in its place or in the previous folder of an update: an
\* updater killed anywhere leaves what a repair needs (replace_bundle).
OldReleaseKept ==
    ~(target.there /\ ~target.marker) =>
        \E f \in {target} \cup {previous[t] : t \in Tokens} : f.there /\ f.whole

\* What the status calls ready was staged whole by this GUI, and is newer than it
\* (stage, the thread it starts, prepare_install).
ReadyIsStaged ==
    gui = "on" /\ phase = "ready" =>
        ready # NoReady /\ payload[ready.token].there /\ payload[ready.token].whole
        /\ ready.release > running
=============================================================================
