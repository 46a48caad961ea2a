----------------------------- MODULE PartsProofs -----------------------------
(***************************************************************************)
(* What the run of MCParts shows of the server switch, the update check,    *)
(* the portable update, the engine processes, the session directory and the *)
(* UI controller, for every value of the constants, and the types of all    *)
(* parts.  The session directory and the UI controller have modules of      *)
(* proofs of their own, whose results are taken over to the instances of    *)
(* MCParts; Provisioning's is extended.                                     *)
(***************************************************************************)
EXTENDS MCParts, ProvisioningProofs, TLAPS

DirectoryProofs == INSTANCE SessionDirectoryProofs
UiProofs == INSTANCE UiControllerProofs WITH Nodes <- Servers

-----------------------------------------------------------------------------
(* The server switch *)

\* The steps of a switch before the selector is turned, and while it may be turned.
Trial == {"own", "put.candidate", "get.candidate", "prove.candidate"}
Turn  == {"get.selected", "prove.selected", "put.back", "get.back"}

Sessions  == [current : Switch!Targets, uncertain : BOOLEAN, sustained : BOOLEAN,
              phase : {"ready", "degraded"}, error : {"none", "process", "other"}]
Exchanges == [step : {"idle", "put.selected"} \cup Trial \cup Turn, index : 0..TargetCount,
              owned : BOOLEAN, proved : BOOLEAN]

SwitchInv ==
    /\ core \in {"live", "dead"} /\ selected \in Switch!Targets /\ candidate \in Switch!Targets
    /\ session \in Sessions /\ exchange \in Exchanges
    /\ (exchange.step = "idle") = (exchange.index = Switch!NoIndex)
    /\ exchange.step \in Turn \cup {"put.selected"} => exchange.proved
    /\ session.uncertain => session.phase = "degraded" /\ exchange.step = "idle"
    /\ core = "live" /\ ~session.uncertain /\ selected # session.current =>
          exchange.step \in Turn /\ selected = exchange.index
    /\ core = "live" /\ exchange.step = "prove.selected" => selected = exchange.index

LEMMA Indices ==
    /\ Switch!NoIndex \in 0..TargetCount /\ Switch!NoIndex \notin Switch!Targets
    /\ Switch!Targets \subseteq 0..TargetCount /\ Switch!Initial \in Switch!Targets
    /\ Switch!Idle \in Exchanges
    /\ Switch!Idle.step = "idle" /\ Switch!Idle.index = Switch!NoIndex
    /\ \A i \in 0..TargetCount : i # Switch!NoIndex => i \in Switch!Targets
  BY TargetsAssumption DEF Switch!NoIndex, Switch!Targets, Switch!Initial, Switch!Idle, Exchanges

LEMMA SwitchInit == Switch!Init => SwitchInv
  BY Indices DEF SwitchInv, Switch!Init, Sessions, Trial, Turn

LEMMA FailInv ==
  ASSUME SwitchInv, NEW owned \in BOOLEAN, NEW uncertain \in BOOLEAN, Switch!Fail(owned, uncertain),
         UNCHANGED core, selected' \in Switch!Targets, candidate' \in Switch!Targets,
         core = "live" /\ ~uncertain => selected' = session.current
  PROVE  SwitchInv'
<1>1. exchange' = Switch!Idle /\ exchange' \in Exchanges
  BY Indices DEF Switch!Fail
<1>2. /\ session' \in Sessions /\ session'.uncertain = uncertain
      /\ session'.current = session.current /\ (uncertain => session'.phase = "degraded")
  BY DEF Switch!Fail, Switch!Degraded, Switch!Errors, Sessions, SwitchInv
<1> QED
  BY <1>1, <1>2, Indices DEF SwitchInv, Turn

LEMMA SwitchStep ==
  ASSUME SwitchInv, Switch!Next
  PROVE  SwitchInv'
<1> USE Indices DEF Switch!selectors, Switch!bounds, Switch!At, Switch!Step
<1>1. CASE Switch!Ask
  <2>1. PICK i \in Switch!Targets : exchange' = [Switch!Idle EXCEPT !.step = "own", !.index = i]
    BY <1>1 DEF Switch!Ask
  <2>2. exchange' \in Exchanges /\ exchange'.step = "own" /\ exchange'.index = i
    BY <2>1 DEF Exchanges, Trial
  <2> QED
    BY <1>1, <2>2 DEF Switch!Ask, SwitchInv, Turn
<1>2. CASE Switch!Own
  <2>1. CASE Switch!Fail(FALSE, FALSE)
    BY <1>2, <2>1, FailInv DEF Switch!Own, SwitchInv, Turn
  <2>2. CASE exchange' = [exchange EXCEPT !.step = "put.candidate", !.owned = TRUE]
             /\ UNCHANGED session
    BY <1>2, <2>2 DEF Switch!Own, SwitchInv, Trial, Turn, Exchanges
  <2> QED
    BY <1>2, <2>1, <2>2 DEF Switch!Own
<1>3. CASE Switch!Candidate
  <2>0. candidate' \in Switch!Targets
    BY <1>3 DEF Switch!Candidate, Switch!Put, SwitchInv, Exchanges
  <2>1. CASE Switch!Fail(TRUE, FALSE)
    BY <1>3, <2>0, <2>1, FailInv DEF Switch!Candidate, SwitchInv, Turn
  <2>2. CASE Switch!Step("get.candidate") /\ UNCHANGED session
    BY <1>3, <2>0, <2>2 DEF Switch!Candidate, SwitchInv, Trial, Turn, Exchanges
  <2>3. CASE Switch!Step("prove.candidate") /\ UNCHANGED session
    BY <1>3, <2>0, <2>3 DEF Switch!Candidate, SwitchInv, Trial, Turn, Exchanges
  <2>4. CASE exchange' = [exchange EXCEPT !.step = "put.selected", !.proved = TRUE]
             /\ UNCHANGED session
    BY <1>3, <2>0, <2>4 DEF Switch!Candidate, SwitchInv, Trial, Turn, Exchanges
  <2> QED
    BY <1>3, <2>1, <2>2, <2>3, <2>4 DEF Switch!Candidate
<1>4. CASE Switch!Select
  BY <1>4 DEF Switch!Select, Switch!Put, Switch!Read, Trial, Turn, SwitchInv, Exchanges
<1>5. CASE Switch!Prove
  <2>1. CASE core = "live" /\ Switch!Selected
    BY <1>5, <2>1 DEF Switch!Prove, Switch!Selected, Turn, SwitchInv, Sessions, Exchanges
  <2>2. CASE UNCHANGED session /\ \E owned \in BOOLEAN :
                exchange' = [exchange EXCEPT !.step = "put.back", !.owned = owned]
    BY <1>5, <2>2 DEF Switch!Prove, Turn, Trial, SwitchInv, Exchanges
  <2> QED
    BY <1>5, <2>1, <2>2 DEF Switch!Prove
<1>6. CASE Switch!Rollback
  <2>1. CASE Switch!At("put.back")
    BY <1>6, <2>1 DEF Switch!Rollback, Switch!Put, Trial, Turn, SwitchInv, Sessions, Exchanges
  <2>2. CASE Switch!At("get.back")
    <3>1. PICK now \in Switch!Read(selected) : Switch!Fail(exchange.owned, now # session.current)
      BY <1>6, <2>2 DEF Switch!Rollback
    <3>2. core = "live" /\ now = session.current => selected = session.current
      BY <3>1 DEF Switch!Read, SwitchInv, Sessions
    <3> QED
      BY <1>6, <2>2, <3>1, <3>2, FailInv DEF Switch!Rollback, SwitchInv, Exchanges
  <2> QED
    BY <1>6, <2>1, <2>2 DEF Switch!Rollback
<1>7. CASE Switch!Monitor
  BY <1>7 DEF Switch!Monitor, SwitchInv, Switch!Degraded, Switch!Errors, Sessions
<1>8. CASE Switch!Restart
  <2>1. CASE core' = "live" /\ selected' = session.current /\ candidate' = Switch!Initial
             /\ session' = [session EXCEPT !.sustained = FALSE]
    BY <1>8, <2>1 DEF Switch!Restart, SwitchInv, Sessions
  <2>2. CASE core' \in {"dead", core} /\ UNCHANGED <<selected, candidate>>
             /\ \E error \in Switch!Errors : session' = Switch!Degraded(session, error)
    BY <1>8, <2>2 DEF Switch!Restart, SwitchInv, Sessions, Switch!Degraded, Switch!Errors
  <2> QED
    BY <1>8, <2>1, <2>2 DEF Switch!Restart
<1>9. CASE Switch!Die
  BY <1>9 DEF Switch!Die, SwitchInv
<1> QED
  BY <1>1, <1>2, <1>3, <1>4, <1>5, <1>6, <1>7, <1>8, <1>9 DEF Switch!Next

-----------------------------------------------------------------------------
(* The update check *)

\* The steps of a command before it has its release, and all its steps.
Asking == {"asked", "woken", "waiting", "fetching"}
CommandSteps == Asking \cup {"idle", "done", "returned", "polling", "polled"}

\* Whoever waits, waits for the one fetch that runs; a command that has not its
\* release yet has not staged it.
Fetching ==
    /\ thread \in [Checks!Threads -> CommandSteps]
    /\ answer = [t \in Checks!Threads |-> answer[t]]
    /\ checking \in BOOLEAN
    /\ \A t \in Checks!Threads :
          /\ thread[t] \in {"waiting", "fetching"} => checking
          /\ thread[t] \in Asking => answer[t].status # "staged"
          /\ \A u \in Checks!Threads : thread[t] = "fetching" /\ thread[u] = "fetching" => t = u
    /\ checking => \E t \in Checks!Threads : thread[t] = "fetching"

\* A poll is the stage command's or that of the timer, which is set; a download
\* that is shown has one of them.
Polling ==
    /\ page = [status |-> page.status, latest |-> page.latest, quiet |-> page.quiet,
               phase |-> page.phase, version |-> page.version, timer |-> page.timer,
               polling |-> page.polling, seen |-> page.seen]
    /\ page.timer \in BOOLEAN /\ page.polling \in {"timer", "stage", Checks!Nobody}
    /\ page.polling = "timer" => page.timer
    /\ page.polling = "stage" => thread["stage"] = "polling"
    /\ page.phase = "downloading" =>
          thread["stage"] # "idle" \/ page.timer \/ page.polling # Checks!Nobody

ChecksInv == Fetching /\ Polling

LEMMA ChecksInit == Checks!Init => ChecksInv
<1> SUFFICES ASSUME Checks!Init PROVE ChecksInv
  OBVIOUS
<1> USE DEF Checks!Init, Checks!Threads
<1>1. Fetching
  BY DEF Fetching, Checks!NoResult, Checks!Result, CommandSteps, Asking
<1>2. Polling
  BY DEF Polling, Checks!NewPage, Checks!Nobody
<1> QED
  BY <1>1, <1>2 DEF ChecksInv

LEMMA ChecksStep ==
  ASSUME ChecksInv, Checks!Next
  PROVE  ChecksInv'
<1> USE DEF Checks!Goto, Checks!checker, ChecksInv
<1>1. ASSUME NEW t \in Checks!Threads, Checks!Look(t) PROVE ChecksInv'
  <2>1. Fetching'
    <3>1. CASE fresh /\ thread' = [thread EXCEPT ![t] = "done"] /\ UNCHANGED checking
      BY <1>1, <3>1 DEF Checks!Look, Fetching, Asking, CommandSteps
    <3>2. CASE ~checking /\ checking' = TRUE /\ thread' = [thread EXCEPT ![t] = "fetching"]
               /\ UNCHANGED answer
      BY <1>1, <3>2 DEF Checks!Look, Fetching, Asking, CommandSteps
    <3>3. CASE checking /\ thread' = [thread EXCEPT ![t] = "waiting"]
               /\ UNCHANGED <<checking, answer>>
      BY <1>1, <3>3 DEF Checks!Look, Fetching, Asking, CommandSteps
    <3> QED
      BY <1>1, <3>1, <3>2, <3>3 DEF Checks!Look
  <2>2. Polling'
    BY <1>1 DEF Checks!Look, Polling, Fetching, Checks!Threads
  <2> QED
    BY <2>1, <2>2
<1>2. ASSUME NEW t \in Checks!Threads, Checks!Fetch(t) PROVE ChecksInv'
  <2>1. PICK result : thread[t] = "fetching" /\ checking' = FALSE
             /\ answer' = [answer EXCEPT ![t] = result]
             /\ thread' = [u \in Checks!Threads |-> IF u = t THEN "done"
                            ELSE IF thread[u] = "waiting" THEN "woken" ELSE thread[u]]
             /\ page' = page
    BY <1>2 DEF Checks!Fetch, Checks!FetchEnds, Checks!Store
  <2>2. Fetching'
    BY <2>1 DEF Fetching, Asking, CommandSteps
  <2>3. Polling'
    BY <2>1 DEF Polling, Fetching, Checks!Threads
  <2> QED
    BY <2>2, <2>3
<1>3. ASSUME NEW t \in Checks!Threads, Checks!Stage(t) PROVE ChecksInv'
  <2>1. /\ thread[t] = "done"
        /\ thread' = thread \/ thread' = [thread EXCEPT ![t] = "returned"]
        /\ page' = page /\ checking' = checking
        /\ \E r : answer' = [answer EXCEPT ![t] = r]
    BY <1>3 DEF Checks!Stage, Fetching, Checks!Threads
  <2>2. Fetching'
    BY <2>1 DEF Fetching, Asking, CommandSteps
  <2>3. Polling'
    BY <2>1 DEF Polling, Fetching, Checks!Threads
  <2> QED
    BY <2>2, <2>3
<1>4. CASE Checks!Pass
  <2>1. Fetching'
    BY <1>4 DEF Checks!Pass, Fetching, Asking, CommandSteps
  <2>2. Polling'
    BY <1>4 DEF Checks!Pass, Polling, Fetching, Checks!Threads
  <2> QED
    BY <2>1, <2>2
<1>5. ASSUME NEW quiet \in BOOLEAN, Checks!Check(quiet) PROVE ChecksInv'
  <2>1. Fetching'
    BY <1>5 DEF Checks!Check, Checks!Ask, Checks!NoResult, Checks!Result, Fetching, Asking,
                CommandSteps, Checks!Threads
  <2>2. Polling'
    BY <1>5 DEF Checks!Check, Checks!Ask, Polling, Fetching, Checks!Threads
  <2> QED
    BY <2>1, <2>2
\* The check's thread is done, and perhaps the stage command starts.
<1>6. ASSUME NEW p, NEW rest, Checks!Download(p, rest), UNCHANGED checking,
             rest = thread \/ (thread["check"] = "done" /\ rest = [thread EXCEPT !["check"] = "idle"]),
             p = [page EXCEPT !.status = p.status, !.latest = p.latest]
      PROVE  ChecksInv'
  <2>1. rest \in [Checks!Threads -> CommandSteps] /\ rest["stage"] = thread["stage"]
        /\ \A t \in Checks!Threads : rest[t] # thread[t] => rest[t] = "idle" /\ thread[t] = "done"
    BY <1>6, ZenonT(60) DEF Fetching, Checks!Threads, CommandSteps
  <2>2. CASE page' = p /\ thread' = rest /\ UNCHANGED answer
    <3>1. Fetching'
      BY <1>6, <2>1, <2>2 DEF Fetching, Asking
    <3>2. Polling'
      BY <1>6, <2>1, <2>2 DEF Polling
    <3> QED
      BY <3>1, <3>2
  <2>3. CASE /\ rest["stage"] = "idle"
             /\ page' = [p EXCEPT !.phase = "downloading", !.version = p.latest]
             /\ thread' = [rest EXCEPT !["stage"] = "asked"]
             /\ answer' = [answer EXCEPT !["stage"] = Checks!NoResult]
    <3>1. Fetching'
      BY <1>6, <2>1, <2>3
         DEF Fetching, Asking, CommandSteps, Checks!NoResult, Checks!Result, Checks!Threads
    <3>2. Polling'
      BY <1>6, <2>1, <2>3 DEF Polling, Checks!Threads
    <3> QED
      BY <3>1, <3>2
  <2> QED
    BY <1>6, <2>2, <2>3 DEF Checks!Download
<1>7. CASE Checks!Checked
  <2> DEFINE r == answer["check"]
             p == [page EXCEPT !.status = Checks!Shown(r),
                               !.latest = IF r.status = "error" THEN <<1, 9>> ELSE r.latest]
             rest == [thread EXCEPT !["check"] = "idle"]
  <2>1. p = [page EXCEPT !.status = p.status, !.latest = p.latest]
    BY DEF Polling
  <2>2. thread["check"] = "done" /\ UNCHANGED checking
    BY <1>7 DEF Checks!Checked
  <2>3. CASE Checks!Download(p, rest)
    BY <1>6, <2>1, <2>2, <2>3
  <2>4. CASE page' = p /\ thread' = rest /\ UNCHANGED answer
    <3>1. Fetching'
      BY <2>2, <2>4 DEF Fetching, Asking, CommandSteps, Checks!Threads
    <3>2. Polling'
      BY <2>2, <2>4 DEF Polling, Fetching, Checks!Threads
    <3> QED
      BY <3>1, <3>2
  <2> QED
    BY <1>7, <2>3, <2>4 DEF Checks!Checked
<1>8. CASE Checks!Repeat
  <2>1. page = [page EXCEPT !.status = page.status, !.latest = page.latest]
    BY DEF Polling
  <2>2. Checks!Download(page, thread) /\ UNCHANGED checking
    BY <1>8 DEF Checks!Repeat
  <2> QED
    BY <1>6, <2>1, <2>2
<1>9. CASE Checks!Staged
  <2>1. Fetching'
    BY <1>9, ZenonT(60) DEF Checks!Staged, Fetching, Asking, CommandSteps, Checks!Threads
  <2>2. Polling'
    BY <1>9 DEF Checks!Staged, Checks!StartPoll, Checks!Nobody, Polling, Fetching, Checks!Threads
  <2> QED
    BY <2>1, <2>2
<1>10. CASE Checks!Polled
  <2>1. Fetching'
    <3>1. CASE thread' = thread
      BY <1>10, <3>1 DEF Checks!Polled, Fetching
    <3>2. CASE page.polling = "stage" /\ thread' = [thread EXCEPT !["stage"] = "polled"]
      BY <1>10, <3>2 DEF Checks!Polled, Polling, Fetching, Asking, CommandSteps, Checks!Threads
    <3> QED
      BY <1>10, <3>1, <3>2 DEF Checks!Polled
  <2>2. PICK phase0 : page' = [page EXCEPT !.phase = phase0, !.polling = Checks!Nobody,
                                           !.timer = @ /\ phase0 = "downloading"]
    BY <1>10 DEF Checks!Polled
  <2>3. page.polling = "stage" => thread'["stage"] = "polled"
    BY <1>10 DEF Checks!Polled, Fetching, Checks!Threads
  <2>4. page.polling = "timer" /\ phase0 = "downloading" => page'.timer
    BY <2>2 DEF Polling
  <2>5. Polling'
    BY <1>10, <2>2, <2>3, <2>4 DEF Checks!Polled, Checks!Nobody, Polling
  <2> QED
    BY <2>1, <2>5
<1>11. CASE Checks!Tick \/ Checks!Install \/ Checks!DownloadEnds
  <2>1. Fetching'
    BY <1>11 DEF Checks!Tick, Checks!Install, Checks!DownloadEnds, Fetching
  <2>2. Polling'
    BY <1>11
       DEF Checks!Tick, Checks!Install, Checks!DownloadEnds, Checks!StartPoll, Checks!Nobody,
           Polling
  <2> QED
    BY <2>1, <2>2
<1>12. CASE Checks!Reload
  <2>1. Fetching'
    BY <1>12
       DEF Checks!Reload, Checks!NoResult, Checks!Result, Fetching, Asking, CommandSteps,
           Checks!Threads
  <2>2. Polling'
    BY <1>12 DEF Checks!Reload, Checks!NewPage, Checks!Nobody, Polling
  <2> QED
    BY <2>1, <2>2
<1> QED
  BY <1>1, <1>2, <1>3, <1>4, <1>5, <1>7, <1>8, <1>9, <1>10, <1>11, <1>12 DEF Checks!Next

LEMMA ChecksHold == ChecksInv => Checks!EveryWaitEnds
  BY DEF ChecksInv, Fetching, Polling, Checks!EveryWaitEnds

-----------------------------------------------------------------------------
(* The portable update *)

\* A folder that is there or not; the steps of an updater at which its copy is marked, and
\* those only one updater can be at.
Folders == {Update!NoFolder} \cup
           [there : {TRUE}, release : Nat, whole : BOOLEAN, edited : BOOLEAN, stray : BOOLEAN,
            marker : BOOLEAN]
Prepared == {"markOld", "recheck", "moveOld", "verifyOld", "moveNew"}
Turning  == {"recheck", "moveOld", "verifyOld", "moveNew", "verifyInstalled", "unmark"}
UpdaterPlaces == Prepared \cup Turning \cup
                 {"none", "auth", "waiting", "verify", "copy", "verifyNew", "markNew", "start",
                  "over"}

\* Whoever marked the installation has it for himself until it is unmarked.
Replacing ==
    /\ \A t \in Tokens :
          /\ updaters[t].at \in Prepared \cup {"markNew"} => incoming[t].there /\ incoming[t].whole
          /\ updaters[t].at \in Prepared => incoming[t].marker
          /\ updaters[t].at \in Turning =>
                IF updaters[t].at \in {"verifyOld", "moveNew"} THEN ~target.there
                ELSE target.there /\ target.marker
          /\ updaters[t].at = "unmark" => ~target.edited
    /\ \A t, u \in Tokens : updaters[t].at \in Turning /\ updaters[u].at \in Turning => t = u

\* Every folder an installation was, is or will be is whole, and one is there.
Kept ==
    /\ target.there => target.whole
    /\ ~target.there => \E t \in Tokens : previous[t].there /\ previous[t].whole

\* What is ready came of a download that is over, and is newer than the GUI.
Staged ==
    /\ \A t \in Tokens : downloads[t].at \in {"verify", "fetch"} => downloads[t].release > running
    /\ ready # Update!NoReady =>
          /\ ready.token \in Tokens /\ downloads[ready.token].at = "over"
          /\ payload[ready.token].there /\ payload[ready.token].whole
          /\ ready.release > running
    /\ phase = "ready" => ready # Update!NoReady

\* What the proof needs to know of the values.
Updaters == [at : UpdaterPlaces, orphan : BOOLEAN, current : Nat, next : Nat]

UpdateTypes ==
    /\ target \in Folders /\ payload \in [Tokens -> Folders]
    /\ incoming \in [Tokens -> Folders] /\ previous \in [Tokens -> Folders]
    /\ latest \in Nat /\ running \in Nat /\ gui \in {"off", "on", "launching", "leaving"}
    /\ phase \in {"idle", "downloading", "ready", "installing", "error"}
    /\ downloads \in [Tokens -> [at : {"none", "verify", "fetch", "over"}, release : Nat]]
    /\ updaters \in [Tokens -> Updaters]
    /\ ready = [token |-> ready.token, release |-> ready.release] /\ ready.release \in Nat

UpdateInv == UpdateTypes /\ Replacing /\ Kept /\ Staged

\* What becomes of a folder that is marked, unmarked or changed by others.
LEMMA FolderFacts ==
    /\ Update!NoFolder \in Folders /\ ~Update!NoFolder.there
    /\ \A n \in Nat : /\ Update!Folder(n) \in Folders /\ Update!Partial(n) \in Folders
                      /\ Update!Folder(n).there /\ Update!Folder(n).whole
    /\ \A f \in Folders : f.there \in BOOLEAN /\ (f.there => f.release \in Nat)
<1>0. Update!NoFolder.there = FALSE
  BY DEF Update!NoFolder
<1>1. /\ Update!NoFolder \in Folders /\ ~Update!NoFolder.there
      /\ \A f \in Folders : f.there \in BOOLEAN /\ (f.there => f.release \in Nat)
  BY <1>0 DEF Folders
<1>2. ASSUME NEW n \in Nat
      PROVE  Update!Folder(n) \in Folders /\ Update!Folder(n).there /\ Update!Folder(n).whole
  BY DEF Folders, Update!Folder
<1>3. ASSUME NEW n \in Nat PROVE Update!Partial(n) \in Folders
  BY DEF Folders, Update!Folder, Update!Partial
<1> QED
  BY <1>1, <1>2, <1>3

LEMMA MarkFacts ==
  ASSUME NEW f \in Folders, f.there, NEW m \in BOOLEAN, NEW g, g = [f EXCEPT !.marker = m]
  PROVE  /\ g \in Folders /\ g.there /\ g.whole = f.whole /\ g.release = f.release
         /\ g.edited = f.edited /\ g.marker = m
<1>1. f \in [there : {TRUE}, release : Nat, whole : BOOLEAN, edited : BOOLEAN, stray : BOOLEAN,
             marker : BOOLEAN]
  BY FolderFacts DEF Folders
<1> QED
  BY <1>1 DEF Folders

LEMMA ChangeFacts ==
  ASSUME NEW f \in Folders, f.there, NEW edit \in BOOLEAN, NEW g, g = Update!Changed(f, edit)
  PROVE  /\ g \in Folders /\ g.there /\ g.whole = f.whole /\ g.release = f.release
         /\ g.marker = f.marker /\ (~edit => g.edited = f.edited)
  BY DEF Folders, Update!NoFolder, Update!Changed

\* An updater goes to its next step.
LEMMA Moves ==
  ASSUME updaters \in [Tokens -> Updaters], NEW t \in Tokens, NEW to \in UpdaterPlaces,
         updaters' = [updaters EXCEPT ![t].at = to]
  PROVE  /\ updaters' \in [Tokens -> Updaters] /\ updaters'[t].at = to
         /\ \A u \in Tokens \ {t} : updaters'[u] = updaters[u]
  BY DEF Updaters

LEMMA UpdateInit == Update!Init => UpdateInv
<1> SUFFICES ASSUME Update!Init PROVE UpdateInv
  OBVIOUS
<1>1. UpdateTypes
  <2>1. Update!NoUpdater \in Updaters
    BY DEF Update!NoUpdater, Updaters, UpdaterPlaces
  <2> QED
    BY <2>1, FolderFacts DEF Update!Init, UpdateTypes, Update!NoReady, Update!NoDownload
<1>2. Replacing
  BY DEF Update!Init, Replacing, Update!NoUpdater, Prepared, Turning
<1>3. Kept /\ Staged
  BY FolderFacts DEF Update!Init, Kept, Staged, Update!NoDownload, Update!Folder
<1> QED
  BY <1>1, <1>2, <1>3 DEF UpdateInv

\* The steps of the GUI: none changes the installation.
LEMMA GuiInv ==
  ASSUME UpdateInv,
         \/ Update!Publish \/ Update!Start \/ Update!Quit \/ Update!Stage \/ Update!Install
         \/ \E t \in Tokens : \/ Update!VerifyCurrent(t) \/ Update!Fetch(t)
                              \/ Update!Acknowledged(t) \/ Update!Cancel(t)
  PROVE  UpdateInv'
<1> USE DEF UpdateInv, Update!disk, Update!coordinator
<1>1. CASE Update!Publish
  BY <1>1 DEF Update!Publish, UpdateTypes, Replacing, Kept, Staged
<1>2. CASE Update!Start
  <2>1. target.release \in Nat
    BY <1>2, FolderFacts DEF Update!Start, UpdateTypes
  <2> QED
    BY <1>2, <2>1 DEF Update!Start, Update!NewGui, Update!NoReady, Update!NoDownload, UpdateTypes,
       Replacing, Kept, Staged
<1>3. CASE Update!Quit
  <2>1. /\ gui' = "off" /\ updaters' = [t \in Tokens |-> [updaters[t] EXCEPT !.orphan = TRUE]]
        /\ UNCHANGED <<Update!disk, latest, running, Update!coordinator, downloads>>
    BY <1>3 DEF Update!Quit
  <2>2. updaters' \in [Tokens -> Updaters] /\ \A t \in Tokens : updaters'[t].at = updaters[t].at
    BY <2>1 DEF UpdateTypes, Updaters
  <2> QED
    BY <2>1, <2>2 DEF UpdateTypes, Replacing, Kept, Staged
<1>4. CASE Update!Stage
  <2>1. PICK release \in running + 1 .. latest :
          IF ready # Update!NoReady /\ ready.release = release
          THEN phase' = "ready" /\ UNCHANGED <<ready, downloads>>
          ELSE /\ phase' = "downloading" /\ ready' = Update!NoReady
               /\ \E t \in Tokens :
                   /\ downloads[t] = Update!NoDownload
                   /\ downloads' = [downloads EXCEPT ![t] = [at |-> "verify", release |-> release]]
    BY <1>4 DEF Update!Stage
  <2>2. release \in Nat /\ release > running
    BY <2>1 DEF UpdateTypes
  <2>3. UNCHANGED <<Update!disk, latest, gui, running, updaters>>
    BY <1>4 DEF Update!Stage
  <2>4. CASE UNCHANGED <<ready, downloads>> /\ phase' = "ready" /\ ready # Update!NoReady
    BY <2>3, <2>4 DEF UpdateTypes, Replacing, Kept, Staged
  <2>5. ASSUME phase' = "downloading", ready' = Update!NoReady, NEW t \in Tokens,
               downloads' = [downloads EXCEPT ![t] = [at |-> "verify", release |-> release]]
        PROVE  UpdateInv'
    <3>1. UpdateTypes'
      BY <2>2, <2>3, <2>5 DEF UpdateTypes, Update!NoReady
    <3>2. Staged'
      BY <2>2, <2>3, <2>5 DEF UpdateTypes, Staged
    <3> QED
      BY <2>3, <3>1, <3>2 DEF Replacing, Kept
  <2> QED
    BY <2>1, <2>4, <2>5
<1>5. CASE Update!Install
  <2>1. CASE phase' = "error" /\ UNCHANGED <<gui, updaters>>
    BY <1>5, <2>1 DEF Update!Install, UpdateTypes, Replacing, Kept, Staged
  <2>2. CASE /\ ready # Update!NoReady /\ gui' = "launching" /\ phase' = "installing"
             /\ updaters' = [updaters EXCEPT ![ready.token] =
                                [at |-> "auth", orphan |-> FALSE, current |-> running,
                                 next |-> ready.release]]
    <3>1. ready.token \in Tokens /\ UNCHANGED <<Update!disk, latest, running, ready, downloads>>
      BY <1>5, <2>2 DEF Update!Install, Staged
    <3>2. UpdateTypes'
      BY <2>2, <3>1 DEF UpdateTypes, Updaters, UpdaterPlaces
    <3>3. /\ updaters'[ready.token].at = "auth"
          /\ \A u \in Tokens \ {ready.token} : updaters'[u] = updaters[u]
      BY <2>2, <3>1 DEF UpdateTypes
    <3>4. Replacing'
      BY <3>1, <3>3 DEF Replacing, Prepared, Turning
    <3> QED
      BY <2>2, <3>1, <3>2, <3>4 DEF Kept, Staged
  <2> QED
    BY <1>5, <2>1, <2>2 DEF Update!Install
<1>6. ASSUME NEW t \in Tokens, Update!VerifyCurrent(t) PROVE UpdateInv'
  <2>1. PICK next \in {"fetch", "over"} :
          /\ downloads' = [downloads EXCEPT ![t].at = next]
          /\ phase' = phase \/ phase' = "error"
    BY <1>6 DEF Update!VerifyCurrent, Update!DownloadFailed
  <2>2. /\ UNCHANGED <<Update!disk, latest, gui, running, updaters, ready>>
        /\ downloads[t].at = "verify"
    BY <1>6 DEF Update!VerifyCurrent, Update!DownloadFailed
  <2>3. UpdateTypes'
    BY <2>1, <2>2 DEF UpdateTypes
  <2>4. Staged'
    BY <2>1, <2>2 DEF UpdateTypes, Staged
  <2> QED
    BY <2>2, <2>3, <2>4 DEF Replacing, Kept
<1>7. ASSUME NEW t \in Tokens, Update!Fetch(t) PROVE UpdateInv'
  <2>1. /\ UNCHANGED <<target, incoming, previous, edits, latest, gui, running, updaters>>
        /\ downloads[t].at = "fetch" /\ downloads' = [downloads EXCEPT ![t].at = "over"]
        /\ downloads[t].release \in Nat /\ downloads[t].release > running
    BY <1>7 DEF Update!Fetch, Update!DownloadFailed, UpdateTypes, Staged
  <2>2. Replacing' /\ Kept'
    BY <2>1 DEF Replacing, Kept
  <2>3. CASE /\ payload' = [payload EXCEPT ![t] = Update!Folder(downloads[t].release)]
             /\ phase' = "ready" /\ ready' = [token |-> t, release |-> downloads[t].release]
    <3>1. UpdateTypes'
      BY <2>1, <2>3, FolderFacts DEF UpdateTypes
    <3>2. payload'[t].there /\ payload'[t].whole
      BY <2>1, <2>3, FolderFacts DEF UpdateTypes
    <3>3. ready' # Update!NoReady
      BY <2>1, <2>3 DEF Update!NoReady, UpdateTypes
    <3>4. Staged'
      BY <2>1, <2>3, <3>2, <3>3 DEF UpdateTypes, Staged
    <3> QED
      BY <2>2, <3>1, <3>4
  <2>4. CASE /\ \/ payload' = [payload EXCEPT ![t] = Update!Partial(downloads[t].release)]
                \/ UNCHANGED payload
             /\ phase' = "error" /\ UNCHANGED ready
    <3>1. UpdateTypes'
      BY <2>1, <2>4, FolderFacts DEF UpdateTypes
    <3>2. \A u \in Tokens \ {t} : payload'[u] = payload[u] /\ downloads'[u] = downloads[u]
      BY <2>1, <2>4 DEF UpdateTypes
    <3>3. downloads'[t].at = "over"
      BY <2>1 DEF UpdateTypes
    <3>4. Staged'
      BY <2>1, <2>4, <3>2, <3>3 DEF Staged
    <3> QED
      BY <2>2, <3>1, <3>4
  <2> QED
    BY <1>7, <2>3, <2>4 DEF Update!Fetch, Update!DownloadFailed
<1>8. ASSUME NEW t \in Tokens, Update!Acknowledged(t) PROVE UpdateInv'
  BY <1>8 DEF Update!Acknowledged, UpdateTypes, Replacing, Kept, Staged
<1>9. ASSUME NEW t \in Tokens, Update!Cancel(t) PROVE UpdateInv'
  <2>1. /\ gui' = "on" /\ phase' = "error" /\ updaters' = [updaters EXCEPT ![t].at = "over"]
        /\ UNCHANGED <<Update!disk, latest, running, ready, downloads>>
    BY <1>9 DEF Update!Cancel
  <2>2. /\ updaters' \in [Tokens -> Updaters] /\ updaters'[t].at = "over"
        /\ \A u \in Tokens \ {t} : updaters'[u] = updaters[u]
    BY <2>1, Moves DEF UpdateTypes, UpdaterPlaces
  <2> QED
    BY <2>1, <2>2 DEF UpdateTypes, Replacing, Kept, Staged, Prepared, Turning
<1> QED
  BY <1>1, <1>2, <1>3, <1>4, <1>5, <1>6, <1>7, <1>8, <1>9

\* What a step may make of the installation.
Sound == target # target' /\ target'.there /\ ~target'.marker =>
            /\ target'.whole
            /\ target'.edited => target.there /\ ~target.marker
            /\ target.there => target'.release >= target.release

\* The steps of an updater.
LEMMA UpdaterInv ==
  ASSUME UpdateInv, NEW t \in Tokens, Update!Updater(t)
  PROVE  UpdateInv' /\ Sound
<1> USE DEF UpdateInv, Update!disk, Update!coordinator, Update!At, Update!Go, Update!Over
<1>0. ASSUME NEW to \in UpdaterPlaces, updaters' = [updaters EXCEPT ![t].at = to]
      PROVE  /\ updaters' \in [Tokens -> Updaters] /\ updaters'[t].at = to
             /\ \A u \in Tokens \ {t} : updaters'[u] = updaters[u]
  BY <1>0, Moves DEF UpdateTypes
<1>o. "over" \in UpdaterPlaces /\ "over" \notin Turning \cup Prepared \cup {"markNew", "unmark"}
  BY DEF UpdaterPlaces, Turning, Prepared
\* The steps that change no folder.
<1>1. ASSUME UNCHANGED <<Update!disk, latest, gui, running, Update!coordinator, downloads>>,
             NEW to \in UpdaterPlaces, updaters' = [updaters EXCEPT ![t].at = to],
             \/ to \notin Turning \cup Prepared \cup {"markNew"}
             \/ to = "markNew" /\ incoming[t].there /\ incoming[t].whole
             \/ updaters[t].at = "recheck" /\ to = "moveOld"
             \/ updaters[t].at = "verifyOld" /\ to = "moveNew"
             \/ updaters[t].at = "verifyInstalled" /\ to = "unmark" /\ ~target.edited
      PROVE  UpdateInv' /\ Sound
  <2>1. /\ updaters' \in [Tokens -> Updaters] /\ updaters'[t].at = to
        /\ \A u \in Tokens \ {t} : updaters'[u] = updaters[u]
    BY <1>0, <1>1
  <2>2. UpdateTypes' /\ Kept' /\ Staged' /\ Sound
    BY <1>1, <2>1 DEF UpdateTypes, Kept, Staged, Sound
  <2>3. Replacing'
    BY <1>1, <2>1 DEF Replacing, Prepared, Turning
  <2> QED
    BY <2>2, <2>3
<1>2. CASE \/ Update!Authenticate(t) \/ Update!ParentExited(t) \/ Update!VerifyBoth(t)
           \/ Update!VerifyNew(t) \/ Update!Recheck(t) \/ Update!VerifyOld(t)
           \/ Update!VerifyInstalled(t) \/ Update!Killed(t)
  <2>1. UNCHANGED <<Update!disk, latest, gui, running, Update!coordinator, downloads>>
    BY <1>2 DEF Update!Authenticate, Update!ParentExited, Update!VerifyBoth, Update!Killed,
       Update!VerifyNew, Update!Recheck, Update!VerifyOld, Update!VerifyInstalled, Update!Step
  <2>2. CASE updaters' = [updaters EXCEPT ![t].at = "over"]
    BY <1>1, <1>o, <2>1, <2>2
  <2>3. CASE updaters' = [updaters EXCEPT ![t].at = "waiting"]
    BY <1>1, <2>1, <2>3 DEF UpdaterPlaces, Turning, Prepared
  <2>4. CASE updaters' = [updaters EXCEPT ![t].at = "verify"]
    BY <1>1, <2>1, <2>4 DEF UpdaterPlaces, Turning, Prepared
  <2>5. CASE updaters' = [updaters EXCEPT ![t].at = "copy"]
    BY <1>1, <2>1, <2>5 DEF UpdaterPlaces, Turning, Prepared
  <2>6. CASE Update!VerifyNew(t) /\ updaters' = [updaters EXCEPT ![t].at = "markNew"]
             /\ Update!Verified(incoming[t], updaters[t].next, FALSE)
    BY <1>1, <2>1, <2>6 DEF UpdaterPlaces, Update!Verified
  <2>7. CASE Update!Recheck(t) /\ updaters' = [updaters EXCEPT ![t].at = "moveOld"]
    BY <1>1, <2>1, <2>7 DEF UpdaterPlaces, Prepared, Update!Recheck, Update!Step
  <2>8. CASE Update!VerifyOld(t) /\ updaters' = [updaters EXCEPT ![t].at = "moveNew"]
    BY <1>1, <2>1, <2>8 DEF UpdaterPlaces, Prepared, Update!VerifyOld, Update!Step
  <2>9. CASE Update!VerifyInstalled(t) /\ updaters' = [updaters EXCEPT ![t].at = "unmark"]
             /\ Update!Verified(target, updaters[t].next, TRUE)
    BY <1>1, <2>1, <2>9 DEF UpdaterPlaces, Turning, Update!VerifyInstalled, Update!Step,
       Update!Verified
  <2> QED
    BY <1>2, <2>2, <2>3, <2>4, <2>5, <2>6, <2>7, <2>8, <2>9
    DEF Update!Authenticate, Update!ParentExited, Update!VerifyBoth, Update!Killed,
        Update!VerifyNew, Update!Recheck, Update!VerifyOld, Update!VerifyInstalled, Update!Step
<1>3. CASE Update!Copy(t)
  <2>1. PICK to \in {"over", "verifyNew"}, f \in Folders :
          incoming' = [incoming EXCEPT ![t] = f] /\ updaters' = [updaters EXCEPT ![t].at = to]
    BY <1>3, FolderFacts DEF Update!Copy, UpdateTypes, Updaters
  <2>2. UNCHANGED <<target, payload, previous, edits, latest, gui, running, phase, ready,
                       downloads>>
    BY <1>3 DEF Update!Copy
  <2>3. /\ updaters' \in [Tokens -> Updaters] /\ updaters'[t].at = to
        /\ \A u \in Tokens \ {t} : updaters'[u] = updaters[u]
    BY <1>0, <2>1 DEF UpdaterPlaces
  <2>4. \A u \in Tokens \ {t} : incoming'[u] = incoming[u]
    BY <2>1 DEF UpdateTypes
  <2>5. UpdateTypes' /\ Kept' /\ Staged' /\ Sound
    BY <2>1, <2>2, <2>3 DEF UpdateTypes, Kept, Staged, Sound
  <2>6. Replacing'
    BY <2>1, <2>2, <2>3, <2>4 DEF Replacing, Prepared, Turning
  <2> QED
    BY <2>5, <2>6
<1>4. CASE Update!MarkNew(t)
  <2>1. /\ updaters[t].at = "markNew" /\ updaters' = [updaters EXCEPT ![t].at = "markOld"]
        /\ incoming' = [incoming EXCEPT ![t].marker = TRUE]
        /\ UNCHANGED <<target, payload, previous, edits, latest, gui, running, phase, ready,
                       downloads>>
    BY <1>4 DEF Update!MarkNew, Update!Step
  <2>2. incoming[t] \in Folders /\ incoming[t].there /\ incoming[t].whole
    BY <2>1 DEF UpdateTypes, Replacing
  <2>3. /\ updaters' \in [Tokens -> Updaters] /\ updaters'[t].at = "markOld"
        /\ \A u \in Tokens \ {t} : updaters'[u] = updaters[u]
    BY <1>0, <2>1 DEF UpdaterPlaces, Prepared
  <2>4. incoming'[t] = [incoming[t] EXCEPT !.marker = TRUE]
    BY <2>1 DEF UpdateTypes
  <2>5. incoming'[t] \in Folders /\ incoming'[t].there /\ incoming'[t].whole /\ incoming'[t].marker
    BY <2>2, <2>4, MarkFacts
  <2>6. \A u \in Tokens \ {t} : incoming'[u] = incoming[u]
    BY <2>1 DEF UpdateTypes
  <2>7. incoming' \in [Tokens -> Folders]
    BY <2>1, <2>5, <2>4 DEF UpdateTypes
  <2>8. UpdateTypes' /\ Kept' /\ Staged' /\ Sound
    BY <2>1, <2>3, <2>7 DEF UpdateTypes, Kept, Staged, Sound
  <2>9. Replacing'
    BY <2>1, <2>3, <2>5, <2>6 DEF Replacing, Prepared, Turning
  <2> QED
    BY <2>8, <2>9
<1>5. CASE Update!MarkOld(t)
  <2>1. /\ updaters[t].at = "markOld"
        /\ UNCHANGED <<payload, incoming, previous, edits, latest, gui, running, phase, ready,
                       downloads>>
        /\ updaters' = [updaters EXCEPT ![t].at =
                           IF target.there /\ ~target.marker THEN "recheck" ELSE "over"]
        /\ target' = IF target.there THEN [target EXCEPT !.marker = TRUE] ELSE target
    BY <1>5 DEF Update!MarkOld, Update!Step
  <2>2. /\ target' \in Folders /\ target'.there = target.there
        /\ target.there => target'.marker /\ target'.whole = target.whole
                          /\ target'.edited = target.edited
    BY <2>1, MarkFacts DEF UpdateTypes
  <2>3. UpdateTypes'
    BY <2>1, <2>2, Moves, <1>o DEF UpdateTypes, UpdaterPlaces, Turning
  <2>4. Kept' /\ Staged' /\ Sound
    BY <2>1, <2>2 DEF Kept, Staged, Sound
  <2>5. CASE target.there /\ ~target.marker
    <3>1. /\ updaters'[t].at = "recheck"
          /\ \A u \in Tokens \ {t} : updaters'[u] = updaters[u]
      BY <2>1, <2>5, <1>0 DEF UpdaterPlaces, Turning
    <3>2. \A u \in Tokens : updaters[u].at \notin Turning
      BY <2>5 DEF Replacing
    <3>3. Replacing'
      BY <2>1, <2>2, <2>5, <3>1, <3>2 DEF Replacing, Prepared, Turning
    <3> QED
      BY <2>3, <2>4, <3>3
  <2>6. CASE ~(target.there /\ ~target.marker)
    <3>1. /\ updaters'[t].at = "over"
          /\ \A u \in Tokens \ {t} : updaters'[u] = updaters[u]
      BY <2>1, <2>6, <1>0, <1>o
    <3>2. Replacing'
      BY <2>1, <2>2, <2>6, <3>1 DEF Replacing, Prepared, Turning
    <3> QED
      BY <2>3, <2>4, <3>2
  <2> QED
    BY <2>5, <2>6
<1>6. CASE Update!MoveOld(t)
  <2>1. /\ updaters[t].at = "moveOld"
        /\ UNCHANGED <<payload, incoming, edits, latest, gui, running, phase, ready, downloads>>
    BY <1>6 DEF Update!MoveOld
  <2>2. CASE updaters' = [updaters EXCEPT ![t].at = "over"] /\ UNCHANGED <<target, previous>>
    BY <1>1, <1>o, <2>1, <2>2
  <2>3. CASE /\ target.there /\ ~previous[t].there
             /\ previous' = [previous EXCEPT ![t] = target] /\ target' = Update!NoFolder
             /\ updaters' = [updaters EXCEPT ![t].at = "verifyOld"]
    <3>1. /\ updaters' \in [Tokens -> Updaters] /\ updaters'[t].at = "verifyOld"
          /\ \A u \in Tokens \ {t} : updaters'[u] = updaters[u]
      BY <1>0, <2>3 DEF UpdaterPlaces, Turning
    <3>2. previous' \in [Tokens -> Folders] /\ previous'[t] = target
      BY <2>3 DEF UpdateTypes
    <3>3. UpdateTypes' /\ Kept' /\ Staged' /\ Sound
      BY <2>1, <2>3, <3>1, <3>2, FolderFacts DEF UpdateTypes, Kept, Staged, Sound
    <3>4. \A u \in Tokens \ {t} : updaters[u].at \notin Turning
      BY <2>1 DEF Replacing, Turning
    <3>5. Replacing'
      BY <2>1, <2>3, <3>1, <3>4, FolderFacts DEF Replacing, Prepared, Turning
    <3> QED
      BY <3>3, <3>5
  <2> QED
    BY <1>6, <2>2, <2>3 DEF Update!MoveOld
<1>7. CASE Update!MoveNew(t)
  <2>1. /\ updaters[t].at = "moveNew"
        /\ UNCHANGED <<payload, previous, edits, latest, gui, running, phase, ready, downloads>>
    BY <1>7 DEF Update!MoveNew
  <2>2. CASE updaters' = [updaters EXCEPT ![t].at = "over"] /\ UNCHANGED <<target, incoming>>
    BY <1>1, <1>o, <2>1, <2>2
  <2>3. CASE /\ ~target.there /\ target' = incoming[t]
             /\ incoming' = [incoming EXCEPT ![t] = Update!NoFolder]
             /\ updaters' = [updaters EXCEPT ![t].at = "verifyInstalled"]
    <3>1. /\ updaters' \in [Tokens -> Updaters] /\ updaters'[t].at = "verifyInstalled"
          /\ \A u \in Tokens \ {t} : updaters'[u] = updaters[u]
      BY <1>0, <2>3 DEF UpdaterPlaces, Turning
    <3>2. target' \in Folders /\ target'.there /\ target'.whole /\ target'.marker
      BY <2>1, <2>3 DEF UpdateTypes, Replacing, Prepared
    <3>3. incoming' \in [Tokens -> Folders] /\ \A u \in Tokens \ {t} : incoming'[u] = incoming[u]
      BY <2>3, FolderFacts DEF UpdateTypes
    <3>4. UpdateTypes' /\ Kept' /\ Staged' /\ Sound
      BY <2>1, <3>1, <3>2, <3>3 DEF UpdateTypes, Kept, Staged, Sound
    <3>5. \A u \in Tokens \ {t} : updaters[u].at \notin Turning
      BY <2>1 DEF Replacing, Turning
    <3>6. Replacing'
      BY <2>1, <3>1, <3>2, <3>3, <3>5 DEF Replacing, Prepared, Turning
    <3> QED
      BY <3>4, <3>6
  <2> QED
    BY <1>7, <2>2, <2>3 DEF Update!MoveNew
<1>8. CASE Update!Unmark(t)
  <2>1. /\ updaters[t].at = "unmark" /\ target' = [target EXCEPT !.marker = FALSE]
        /\ updaters' = [updaters EXCEPT ![t].at = "start"]
        /\ UNCHANGED <<payload, incoming, previous, edits, latest, gui, running, phase, ready,
                       downloads>>
    BY <1>8 DEF Update!Unmark, Update!Step
  <2>2. /\ target \in Folders /\ target.there /\ ~target.edited /\ target.whole
        /\ target.release \in Nat
    BY <2>1, FolderFacts DEF UpdateTypes, Replacing, Kept, Turning
  <2>3. /\ target' \in Folders /\ target'.there /\ target'.whole /\ target'.edited = target.edited
        /\ target'.release = target.release
    BY <2>1, <2>2, MarkFacts
  <2>4. /\ updaters' \in [Tokens -> Updaters] /\ updaters'[t].at = "start"
        /\ \A u \in Tokens \ {t} : updaters'[u] = updaters[u]
    BY <1>0, <2>1 DEF UpdaterPlaces
  <2>5. UpdateTypes' /\ Kept' /\ Staged' /\ Sound
    BY <2>1, <2>2, <2>3, <2>4 DEF UpdateTypes, Kept, Staged, Sound
  <2>6. \A u \in Tokens \ {t} : updaters[u].at \notin Turning
    BY <2>1 DEF Replacing, Turning
  <2>7. Replacing'
    BY <2>1, <2>4, <2>6 DEF Replacing, Prepared, Turning
  <2> QED
    BY <2>5, <2>7
<1>9. CASE Update!StartInstalled(t)
  <2>1. updaters' = [updaters EXCEPT ![t].at = "over"] /\ UNCHANGED <<Update!disk, latest>>
    BY <1>9 DEF Update!StartInstalled
  <2>2. CASE UNCHANGED <<gui, running, Update!coordinator, downloads>>
    BY <1>1, <1>o, <2>1, <2>2
  <2>3. CASE target.there /\ Update!NewGui
    <3>1. /\ updaters' \in [Tokens -> Updaters] /\ updaters'[t].at = "over"
          /\ \A u \in Tokens \ {t} : updaters'[u] = updaters[u]
      BY <1>0, <1>o, <2>1
    <3>2. Replacing' /\ Kept' /\ Sound
      BY <1>o, <2>1, <3>1 DEF Replacing, Kept, Sound
    <3>3. UpdateTypes' /\ Staged'
      BY <2>1, <2>3, <3>1, FolderFacts DEF Update!NewGui, Update!NoReady, Update!NoDownload,
         UpdateTypes, Staged
    <3> QED
      BY <3>2, <3>3
  <2> QED
    BY <1>9, <2>2, <2>3 DEF Update!StartInstalled, Update!Verified
<1> QED
  BY <1>2, <1>3, <1>4, <1>5, <1>6, <1>7, <1>8, <1>9 DEF Update!Updater

\* What others change is neither the release of a folder nor whether it is whole.
LEMMA ChangeInv ==
  ASSUME UpdateInv, NEW t \in Tokens, NEW edit \in BOOLEAN,
         NEW place \in {"target", "payload", "incoming", "previous"}, Update!Change(place, t, edit)
  PROVE  UpdateInv' /\ Sound
<1> USE DEF UpdateInv, Update!coordinator
<1>0. UNCHANGED <<latest, gui, running, phase, ready, downloads, updaters>>
  BY DEF Update!Change
<1>1. CASE place = "target"
  <2>1. /\ target.there /\ target' = Update!Changed(target, edit)
        /\ UNCHANGED <<payload, incoming, previous>>
        /\ edit => \A u \in Tokens : updaters[u].at # "unmark"
    BY <1>1 DEF Update!Change, Update!Leased, Update!At
  <2>2. /\ target' \in Folders /\ target'.there /\ target'.whole = target.whole
        /\ target'.release = target.release /\ target'.marker = target.marker
        /\ ~edit => target'.edited = target.edited
    BY <2>1, ChangeFacts DEF UpdateTypes
  <2>3. UpdateTypes' /\ Kept' /\ Staged'
    BY <1>0, <2>1, <2>2 DEF UpdateTypes, Kept, Staged
  <2>4. Replacing'
    BY <1>0, <2>1, <2>2 DEF Replacing, Turning
  <2>5. Sound
    BY <2>1, <2>2, FolderFacts DEF UpdateTypes, Kept, Sound
  <2> QED
    BY <2>3, <2>4, <2>5
<1>2. CASE place = "payload"
  <2>1. /\ payload[t].there /\ payload' = [payload EXCEPT ![t] = Update!Changed(payload[t], edit)]
        /\ UNCHANGED <<target, incoming, previous>>
    BY <1>2 DEF Update!Change
  <2>2. /\ payload' \in [Tokens -> Folders] /\ payload'[t].there
        /\ payload'[t].whole = payload[t].whole
        /\ \A u \in Tokens \ {t} : payload'[u] = payload[u]
    BY <2>1, ChangeFacts DEF UpdateTypes
  <2>3. UpdateTypes' /\ Kept' /\ Replacing' /\ Sound
    BY <1>0, <2>1, <2>2 DEF UpdateTypes, Kept, Replacing, Sound
  <2>4. Staged'
    BY <1>0, <2>1, <2>2 DEF Staged
  <2> QED
    BY <2>3, <2>4
<1>3. CASE place = "incoming"
  <2>1. /\ incoming[t].there
        /\ incoming' = [incoming EXCEPT ![t] = Update!Changed(incoming[t], edit)]
        /\ UNCHANGED <<target, payload, previous>>
    BY <1>3 DEF Update!Change
  <2>2. /\ incoming' \in [Tokens -> Folders] /\ incoming'[t].there
        /\ incoming'[t].whole = incoming[t].whole /\ incoming'[t].marker = incoming[t].marker
        /\ \A u \in Tokens \ {t} : incoming'[u] = incoming[u]
    BY <2>1, ChangeFacts DEF UpdateTypes
  <2>3. UpdateTypes' /\ Kept' /\ Staged' /\ Sound
    BY <1>0, <2>1, <2>2 DEF UpdateTypes, Kept, Staged, Sound
  <2>4. Replacing'
    BY <1>0, <2>1, <2>2 DEF Replacing
  <2> QED
    BY <2>3, <2>4
<1>4. CASE place = "previous"
  <2>1. /\ previous[t].there
        /\ previous' = [previous EXCEPT ![t] = Update!Changed(previous[t], edit)]
        /\ UNCHANGED <<target, payload, incoming>>
    BY <1>4 DEF Update!Change
  <2>2. /\ previous' \in [Tokens -> Folders] /\ previous'[t].there
        /\ previous'[t].whole = previous[t].whole
        /\ \A u \in Tokens \ {t} : previous'[u] = previous[u]
    BY <2>1, ChangeFacts DEF UpdateTypes
  <2>3. UpdateTypes' /\ Staged' /\ Replacing' /\ Sound
    BY <1>0, <2>1, <2>2 DEF UpdateTypes, Staged, Replacing, Sound
  <2>4. Kept'
    BY <1>0, <2>1, <2>2 DEF Kept
  <2> QED
    BY <2>3, <2>4
<1> QED
  BY <1>1, <1>2, <1>3, <1>4

LEMMA UpdateStep ==
  ASSUME UpdateInv, Update!Next
  PROVE  UpdateInv' /\ Sound
<1>1. CASE \/ Update!Publish \/ Update!Start \/ Update!Quit \/ Update!Stage \/ Update!Install
           \/ \E t \in Tokens : \/ Update!VerifyCurrent(t) \/ Update!Fetch(t)
                                \/ Update!Acknowledged(t) \/ Update!Cancel(t)
  <2>1. target' = target
    BY <1>1 DEF Update!Publish, Update!Start, Update!Quit, Update!Stage, Update!Install,
       Update!VerifyCurrent, Update!Fetch, Update!Acknowledged, Update!Cancel, Update!disk
  <2> QED
    BY <1>1, <2>1, GuiInv DEF Sound
<1>2. CASE \E t \in Tokens : Update!Updater(t)
  BY <1>2, UpdaterInv
<1>3. CASE \E t \in Tokens, edit \in BOOLEAN,
             place \in {"target", "payload", "incoming", "previous"} : Update!Change(place, t, edit)
  BY <1>3, ChangeInv
<1> QED
  BY <1>1, <1>2, <1>3 DEF Update!Next

LEMMA UpdateHolds == UpdateInv => Update!ReadyIsStaged /\ Update!OldReleaseKept
  BY DEF UpdateInv, Kept, Staged, UpdateTypes, Update!ReadyIsStaged, Update!OldReleaseKept

-----------------------------------------------------------------------------
(* The session directory: the instance of a module with proofs says the     *)
(* same as the instance of the module itself                               *)

LEMMA DirectoryInit == Directory!Init => DirectoryProofs!Init
  BY DEF Directory!Config, DirectoryProofs!Config, Directory!Homes, DirectoryProofs!Homes,
         Directory!Init, DirectoryProofs!Init, Directory!Journal, DirectoryProofs!Journal,
         Directory!Nothing, DirectoryProofs!Nothing

LEMMA DirectoryNext == Directory!Next => DirectoryProofs!Next
<1> USE DEF Directory!Add, DirectoryProofs!Add, Directory!Children, DirectoryProofs!Children,
            Directory!Config, DirectoryProofs!Config, Directory!Directories,
            DirectoryProofs!Directories, Directory!Empty, DirectoryProofs!Empty, Directory!Engine,
            DirectoryProofs!Engine, Directory!Engines, DirectoryProofs!Engines, Directory!Files,
            DirectoryProofs!Files, Directory!Foreign, DirectoryProofs!Foreign, Directory!Goto,
            DirectoryProofs!Goto, Directory!Held, DirectoryProofs!Held, Directory!Homes,
            DirectoryProofs!Homes, Directory!In, DirectoryProofs!In, Directory!Itself,
            DirectoryProofs!Itself, Directory!Journal, DirectoryProofs!Journal, Directory!Leased,
            DirectoryProofs!Leased, Directory!Leases, DirectoryProofs!Leases, Directory!Left,
            DirectoryProofs!Left, Directory!Marker, DirectoryProofs!Marker, Directory!Nothing,
            DirectoryProofs!Nothing, Directory!Remove, DirectoryProofs!Remove, Directory!Rest,
            DirectoryProofs!Rest, Directory!Temporary, DirectoryProofs!Temporary, Directory!Whole,
            DirectoryProofs!Whole, Directory!Written, DirectoryProofs!Written
<1>1. ASSUME NEW h \in Directory!Homes, Directory!Make(h) PROVE DirectoryProofs!Make(h)
  BY <1>1 DEF Directory!Make, DirectoryProofs!Make
<1>2. ASSUME NEW h \in Directory!Homes, Directory!Create(h) PROVE DirectoryProofs!Create(h)
  BY <1>2 DEF Directory!Create, DirectoryProofs!Create
<1>3. ASSUME NEW h \in Directory!Homes, Directory!Undo(h) PROVE DirectoryProofs!Undo(h)
  BY <1>3 DEF Directory!Undo, DirectoryProofs!Undo
<1>4. ASSUME NEW h \in Directory!Homes, Directory!Seal(h) PROVE DirectoryProofs!Seal(h)
  BY <1>4 DEF Directory!Seal, DirectoryProofs!Seal
<1>5. ASSUME NEW h \in Directory!Homes, Directory!Unseal(h) PROVE DirectoryProofs!Unseal(h)
  BY <1>5 DEF Directory!Unseal, DirectoryProofs!Unseal
<1>6. ASSUME NEW h \in Directory!Homes, Directory!Stop(h) PROVE DirectoryProofs!Stop(h)
  BY <1>6 DEF Directory!Drop, DirectoryProofs!Drop, Directory!Stop, DirectoryProofs!Stop
<1>7. ASSUME NEW h \in Directory!Homes, Directory!Drop(h) PROVE DirectoryProofs!Drop(h)
  BY <1>7 DEF Directory!Drop, DirectoryProofs!Drop
<1>8. ASSUME NEW h \in Directory!Homes, Directory!Kill(h) PROVE DirectoryProofs!Kill(h)
  BY <1>8 DEF Directory!Kill, DirectoryProofs!Kill
<1>9. ASSUME Directory!WriteJournal PROVE DirectoryProofs!WriteJournal
  BY <1>9 DEF Directory!WriteJournal, DirectoryProofs!WriteJournal
<1>10. ASSUME Directory!Inspect PROVE DirectoryProofs!Inspect
  BY <1>10 DEF Directory!Acceptable, DirectoryProofs!Acceptable, Directory!EngineKnown,
           DirectoryProofs!EngineKnown, Directory!Inspect, DirectoryProofs!Inspect,
           Directory!Known, DirectoryProofs!Known, Directory!Legacy, DirectoryProofs!Legacy,
           Directory!Marked, DirectoryProofs!Marked, Directory!Names, DirectoryProofs!Names
<1>11. ASSUME Directory!Cleanup PROVE DirectoryProofs!Cleanup
  BY <1>11 DEF Directory!Cleanup, DirectoryProofs!Cleanup, Directory!Rank, DirectoryProofs!Rank
<1>12. ASSUME Directory!GiveUp PROVE DirectoryProofs!GiveUp
  BY <1>12 DEF Directory!GiveUp, DirectoryProofs!GiveUp
<1>13. ASSUME Directory!PutForeign PROVE DirectoryProofs!PutForeign
  BY <1>13 DEF Directory!PutForeign, DirectoryProofs!PutForeign, Directory!Cardinality,
           DirectoryProofs!Cardinality
<1> QED
  BY <1>1, <1>2, <1>3, <1>4, <1>5, <1>6, <1>7, <1>8, <1>9, <1>10, <1>11, <1>12, <1>13 DEF
     Directory!Next, DirectoryProofs!Next

LEMMA DirectorySafe == DirectoryProofs!CleanupIsSafe => Directory!CleanupIsSafe
  BY DEF Directory!Acceptable, DirectoryProofs!Acceptable, Directory!Children,
         DirectoryProofs!Children, Directory!CleanupIsSafe, DirectoryProofs!CleanupIsSafe,
         Directory!Config, DirectoryProofs!Config, Directory!Empty, DirectoryProofs!Empty,
         Directory!Engine, DirectoryProofs!Engine, Directory!EngineKnown,
         DirectoryProofs!EngineKnown, Directory!Engines, DirectoryProofs!Engines, Directory!Homes,
         DirectoryProofs!Homes, Directory!In, DirectoryProofs!In, Directory!Journal,
         DirectoryProofs!Journal, Directory!Known, DirectoryProofs!Known, Directory!Legacy,
         DirectoryProofs!Legacy, Directory!Marked, DirectoryProofs!Marked, Directory!Marker,
         DirectoryProofs!Marker, Directory!Names, DirectoryProofs!Names, Directory!Whole,
         DirectoryProofs!Whole

LEMMA DirectoryNames == DirectoryProofs!NamesApart
  BY NamesAssumption DEF DirectoryProofs!NamesApart

-----------------------------------------------------------------------------
(* The engine processes *)

\* While a launch of a living owner is under way its files are as sealed, and it
\* guards them.
Guarded ==
    owner = "alive" /\ launch \in Process!Uses \X Process!Steps =>
        files = "sealed" /\ Process!Use \in held

\* The process is in the job before it is resumed, and stays there.
InJob == owner = "alive" /\ launch \in Process!Uses \X {"suspended", "up"} => job = "holds"

\* Nothing runs outside the launch of a living owner.
Attended == Process!Runs \/ brood => owner = "alive" /\ launch \in Process!Uses \X {"up"}

ProcessInv == Process!TypeOK /\ Guarded /\ InJob /\ Attended

USE DEF ProcessInv, Guarded, InJob, Attended, Process!TypeOK,
        Process!Runs, Process!Uses, Process!Steps, Process!Launches, Process!Use

LEMMA ProcessInit == Process!Init => ProcessInv
<1> SUFFICES ASSUME Process!Init PROVE ProcessInv
  OBVIOUS
<1>1. launch = <<"sealed", "">> /\ launch \in Process!Launches
  BY DEF Process!Init
<1>2. launch \notin Process!Uses \X Process!Steps
      /\ launch \notin Process!Uses \X {"suspended", "up"}
  BY <1>1
<1> QED
  BY <1>1, <1>2 DEF Process!Init

\* Dropping the launcher or the child ends whatever runs.
LEMMA ProcessDrop ==
  ASSUME ProcessInv, owner = "alive", Process!DropAll, UNCHANGED <<owner, files>>
  PROVE  ProcessInv'
<1>1. process' # "running" /\ brood' = FALSE
  BY DEF Process!DropAll, Process!Ended
<1>2. launch' = <<"failed", "">>
  BY DEF Process!DropAll, Process!To
<1>3. Process!TypeOK'
  BY <1>1, <1>2 DEF Process!DropAll, Process!Ended
<1>4. launch' \notin Process!Uses \X Process!Steps
      /\ launch' \notin Process!Uses \X {"suspended", "up"}
  BY <1>2
<1> QED
  BY <1>1, <1>3, <1>4

LEMMA ProcessCreate ==
  ASSUME ProcessInv, owner = "alive", NEW use \in Process!Uses, Process!Create(use)
  PROVE  ProcessInv'
<1>1. CASE Process!DropAll
  BY <1>1, ProcessDrop DEF Process!Create
<1>2. CASE ~Process!DropAll
  <2>1. launch' = <<use, "created">> /\ process' = "suspended" /\ brood' = FALSE
        /\ job' = "made" /\ files = "sealed" /\ held' = held \cup {use}
        /\ UNCHANGED <<owner, files>>
    BY <1>2 DEF Process!Create, Process!Verified, Process!To
  <2> QED
    BY <2>1
<1> QED
  BY <1>1, <1>2

LEMMA ProcessAssign ==
  ASSUME ProcessInv, owner = "alive", Process!Assign
  PROVE  ProcessInv'
<1>1. CASE Process!DropAll
  BY <1>1, ProcessDrop DEF Process!Assign
<1>2. CASE ~Process!DropAll
  <2> HIDE DEF ProcessInv, Process!Uses, Process!Use
  <2>1. PICK use \in Process!Uses : launch = <<use, "created">>
    BY DEF Process!Assign
  <2> USE DEF ProcessInv, Process!Uses, Process!Use
  <2>2. launch' = <<use, "suspended">> /\ job' = "holds"
        /\ UNCHANGED <<owner, process, brood, files, held>>
    BY <1>2, <2>1 DEF Process!Assign, Process!To
  <2>3. ~Process!Runs /\ ~brood
    BY <2>1
  <2> QED
    BY <2>1, <2>2, <2>3
<1> QED
  BY <1>1, <1>2

LEMMA ProcessResume ==
  ASSUME ProcessInv, owner = "alive", Process!Resume
  PROVE  ProcessInv'
<1>1. CASE Process!DropAll
  BY <1>1, ProcessDrop DEF Process!Resume
<1>2. CASE ~Process!DropAll
  <2> HIDE DEF ProcessInv, Process!Uses, Process!Use
  <2>1. PICK use \in Process!Uses : launch = <<use, "suspended">>
    BY DEF Process!Resume
  <2> USE DEF ProcessInv, Process!Uses, Process!Use
  <2>2. /\ launch' = <<use, "up">> /\ process' = "running"
        /\ held' = IF use = "run" THEN held \ {"prepared"} ELSE held
        /\ UNCHANGED <<owner, brood, job, files>>
    BY <1>2, <2>1 DEF Process!Resume, Process!To
  <2>3. use \in held /\ files = "sealed" /\ job = "holds"
    BY <2>1
  <2> QED
    BY <2>1, <2>2, <2>3
<1> QED
  BY <1>1, <1>2

LEMMA ProcessChecked ==
  ASSUME ProcessInv, owner = "alive", Process!Checked
  PROVE  ProcessInv'
<1>1. CASE Process!DropAll
  BY <1>1, ProcessDrop DEF Process!Checked
<1>2. CASE ~Process!DropAll
  <2>1. launch' = <<"checked", "">> /\ process = "ended" /\ Process!CloseJob
        /\ held' = held \ {"check"} /\ UNCHANGED <<owner, files>>
    BY <1>2 DEF Process!Checked, Process!To
  <2>2. job = "holds"
    BY DEF Process!Checked
  <2>3. process' = "ended" /\ brood' = FALSE /\ job' = "closed"
    BY <2>1, <2>2 DEF Process!CloseJob, Process!Ended
  <2> QED
    BY <2>1, <2>3
<1> QED
  BY <1>1, <1>2

LEMMA ProcessPrepare ==
  ASSUME ProcessInv, owner = "alive", Process!Prepare
  PROVE  ProcessInv'
<1>1. CASE Process!DropAll
  BY <1>1, ProcessDrop DEF Process!Prepare
<1>2. CASE ~Process!DropAll
  <2>1. launch' = <<"prepared", "">> /\ held' = {"prepared"}
        /\ UNCHANGED <<owner, process, brood, job, files>>
    BY <1>2 DEF Process!Prepare, Process!To
  <2>2. ~Process!Runs /\ ~brood
    BY DEF Process!Prepare
  <2> QED
    BY <2>1, <2>2
<1> QED
  BY <1>1, <1>2

LEMMA ProcessStop ==
  ASSUME ProcessInv, owner = "alive", Process!Stop
  PROVE  ProcessInv'
<1>1. launch = <<"run", "up">> /\ UNCHANGED <<owner, files, held>>
  BY DEF Process!Stop
<1>2. CASE Process!To("stopped", "") /\ process' = "ended" /\ brood' = FALSE /\ job' = "closed"
  <2>1. launch' = <<"stopped", "">> /\ launch' \in Process!Launches
    BY <1>2 DEF Process!To
  <2>2. launch' \notin Process!Uses \X Process!Steps
        /\ launch' \notin Process!Uses \X {"suspended", "up"}
    BY <2>1
  <2> QED
    BY <1>1, <1>2, <2>1, <2>2
<1>3. CASE process' = "ending" /\ brood' = FALSE /\ UNCHANGED <<job, launch>>
  BY <1>1, <1>3
<1>4. CASE UNCHANGED <<process, brood, job, launch>>
  BY <1>1, <1>4
<1> QED
  BY <1>2, <1>3, <1>4 DEF Process!Stop

LEMMA ProcessAgain ==
  ASSUME ProcessInv, owner = "alive", Process!Again
  PROVE  ProcessInv'
  BY DEF Process!Again, Process!To

\* Kill: closing the job ends what is in it, and whatever runs is.
LEMMA ProcessKill ==
  ASSUME ProcessInv, Process!Kill
  PROVE  ProcessInv'
<1>1. process' # "running" /\ brood' = FALSE
  BY DEF Process!Kill, Process!CloseJob, Process!Ended
<1>2. Process!TypeOK'
  BY <1>1 DEF Process!Kill, Process!CloseJob, Process!Ended
<1> QED
  BY <1>1, <1>2 DEF Process!Kill

LEMMA ProcessOthers ==
  ASSUME ProcessInv, Process!Spawn \/ Process!Exit \/ Process!Change
  PROVE  ProcessInv'
<1>1. CASE Process!Spawn
  BY <1>1 DEF Process!Spawn
<1>2. CASE Process!Exit
  BY <1>2 DEF Process!Exit
<1>3. CASE Process!Change
  BY <1>3 DEF Process!Change
<1> QED
  BY <1>1, <1>2, <1>3

LEMMA ProcessStep == ProcessInv /\ [Process!Next]_(Process!vars) => ProcessInv'
<1> SUFFICES ASSUME ProcessInv, [Process!Next]_(Process!vars) PROVE ProcessInv'
  OBVIOUS
<1>1. CASE Process!Alive
  <2>1. ASSUME Process!Drop PROVE ProcessInv'
    BY <1>1, <2>1, ProcessDrop DEF Process!Drop, Process!Alive
  <2> QED
    BY <1>1, <2>1, ProcessCreate, ProcessAssign, ProcessResume, ProcessChecked, ProcessPrepare,
       ProcessStop, ProcessAgain DEF Process!Alive
<1>2. CASE UNCHANGED Process!vars
  BY <1>2 DEF Process!vars
<1> QED
  BY <1>1, <1>2, ProcessOthers, ProcessKill DEF Process!Next

LEMMA ProcessContains == ProcessInv => Process!EngineIsContained
  BY DEF Process!EngineIsContained

HIDE DEF ProcessInv, Guarded, InJob, Attended, Process!TypeOK,
         Process!Runs, Process!Uses, Process!Steps, Process!Launches, Process!Use

-----------------------------------------------------------------------------
(* The UI controller *)

\* The instance that MCParts runs and the one the proofs are about are the same.
LEMMA UiInit == Ui!Init => UiProofs!Init
  BY DEF Ui!Init, UiProofs!Init, Ui!Modes, UiProofs!Modes, Ui!NoCall, UiProofs!NoCall,
         Ui!NoReply, UiProofs!NoReply, Ui!NoRuntime, UiProofs!NoRuntime, Ui!Nothing,
         UiProofs!Nothing

LEMMA UiNext == [Ui!Next]_uiVars => [UiProofs!Next]_(UiProofs!vars)
  BY Zenon DEF uiVars, Ui!Accept, UiProofs!Accept, Ui!Affected, UiProofs!Affected, Ui!AfterRefresh,
               UiProofs!AfterRefresh, Ui!AfterRemove, UiProofs!AfterRemove, Ui!AfterStart,
               UiProofs!AfterStart, Ui!AfterSwitch, UiProofs!AfterSwitch, Ui!Answer,
               UiProofs!Answer, Ui!Ask, UiProofs!Ask, Ui!Await, UiProofs!Await, Ui!Begin,
               UiProofs!Begin, Ui!Boot, UiProofs!Boot, Ui!Caught, UiProofs!Caught, Ui!Change,
               UiProofs!Change, Ui!Done, UiProofs!Done, Ui!Down, UiProofs!Down, Ui!Drift,
               UiProofs!Drift, Ui!Enqueue, UiProofs!Enqueue, Ui!HasSession,
               UiProofs!HasSession, Ui!Library, UiProofs!Library, Ui!Matches, UiProofs!Matches,
               Ui!Modes, UiProofs!Modes, Ui!Next, UiProofs!Next, Ui!NoCall, UiProofs!NoCall,
               Ui!NoReply, UiProofs!NoReply, Ui!Nothing, UiProofs!Nothing, Ui!Operation,
               UiProofs!Operation, Ui!Receive, UiProofs!Receive, Ui!Reconcile,
               UiProofs!Reconcile, Ui!Rejected, UiProofs!Rejected, Ui!Resume, UiProofs!Resume,
               Ui!Running, UiProofs!Running, Ui!Same, UiProofs!Same, Ui!Serve, UiProofs!Serve,
               Ui!ServeLibrary, UiProofs!ServeLibrary, Ui!ServeRecover, UiProofs!ServeRecover,
               Ui!ServeStart, UiProofs!ServeStart, Ui!ServeStop, UiProofs!ServeStop,
               Ui!ServeSwitch, UiProofs!ServeSwitch, Ui!Status, UiProofs!Status, Ui!Stop,
               UiProofs!Stop, Ui!Stopped, UiProofs!Stopped, Ui!Turn, UiProofs!Turn, Ui!Up,
               UiProofs!Up, Ui!User, UiProofs!User, Ui!Wanted, UiProofs!Wanted, Ui!Worse,
               UiProofs!Worse, Ui!asked, UiProofs!asked, Ui!operation, UiProofs!operation,
               Ui!vars, UiProofs!vars

LEMMA UiHolds ==
  ASSUME UiProofs!TypeOK, UiProofs!ShownIsCurrent, UiProofs!IntentHonoured
  PROVE  Ui!TypeOK /\ Ui!ShownIsCurrent /\ Ui!IntentHonoured
  BY DEF Ui!ChoiceRuns, UiProofs!ChoiceRuns, Ui!IntentHonoured, UiProofs!IntentHonoured,
         Ui!Modes, UiProofs!Modes, Ui!NoCall, UiProofs!NoCall, Ui!Nothing, UiProofs!Nothing,
         Ui!Quiet, UiProofs!Quiet, Ui!Running, UiProofs!Running, Ui!ShownIsCurrent,
         UiProofs!ShownIsCurrent, Ui!Status, UiProofs!Status, Ui!TypeOK, UiProofs!TypeOK

-----------------------------------------------------------------------------
(* All of them *)

PartsInv ==
    /\ active = "switch" => SwitchInv
    /\ active = "check" => ChecksInv
    /\ active = "update" => UpdateInv
    /\ active = "directory" => DirectoryProofs!Inv
    /\ active = "ui" => UiProofs!Inv
    /\ active = "process" => ProcessInv

LEMMA PartsBegin == PartsInit => PartsInv
<1> SUFFICES ASSUME PartsInit PROVE PartsInv
  OBVIOUS
<1>1. active = "switch" => SwitchInv
  BY SwitchInit DEF PartsInit
<1>2. active = "check" => ChecksInv
  BY ChecksInit DEF PartsInit
<1>3. active = "directory" => DirectoryProofs!Inv
  BY DirectoryInit, DirectoryProofs!InitInv DEF PartsInit
<1>4. active = "process" => ProcessInv
  BY ProcessInit DEF PartsInit
<1>5. active = "update" => UpdateInv
  BY UpdateInit DEF PartsInit
<1>6. active = "ui" => UiProofs!Inv
  BY UiInit, UiProofs!InitInv DEF PartsInit
<1> QED
  BY <1>1, <1>2, <1>3, <1>4, <1>5, <1>6 DEF PartsInv

\* A step is one of the part a behavior is about, or changes nothing of it.
LEMMA PartsStep ==
  ASSUME PartsInv, [PartsNext]_partsVars
  PROVE  PartsInv'
<1>0. active' = active
  BY DEF PartsNext, partsVars
<1>1. ASSUME active = "switch" PROVE SwitchInv'
  <2>1. CASE PartsNext
    BY <1>1, <2>1, SwitchStep DEF PartsNext, PartsInv
  <2>2. CASE UNCHANGED partsVars
    BY <1>1, <2>2 DEF partsVars, switchVars, PartsInv, SwitchInv
  <2> QED
    BY <2>1, <2>2
<1>2. ASSUME active = "check" PROVE ChecksInv'
  <2>1. CASE PartsNext
    BY <1>2, <2>1, ChecksStep DEF PartsNext, PartsInv
  <2>2. CASE UNCHANGED partsVars
    BY <1>2, <2>2 DEF partsVars, checkVars, PartsInv, ChecksInv, Fetching, Polling
  <2> QED
    BY <2>1, <2>2
<1>3. ASSUME active = "directory" PROVE DirectoryProofs!Inv'
  <2>1. DirectoryProofs!Inv
    BY <1>3 DEF PartsInv
  <2>2. Directory!Next \/ UNCHANGED directoryVars
    BY <1>3 DEF PartsNext, partsVars
  <2>3. [DirectoryProofs!Next]_(DirectoryProofs!vars)
    BY <2>2, DirectoryNext DEF DirectoryProofs!vars, directoryVars
  <2> QED
    BY <2>1, <2>3, DirectoryNames, DirectoryProofs!StepInv
<1>4. ASSUME active = "process" PROVE ProcessInv'
  <2>1. ProcessInv
    BY <1>4 DEF PartsInv
  <2>2. [Process!Next]_(Process!vars)
    BY <1>4 DEF PartsNext, partsVars, processVars, Process!vars
  <2> QED
    BY <2>1, <2>2, ProcessStep
<1>5. ASSUME active = "update" PROVE UpdateInv'
  <2>1. CASE PartsNext
    BY <1>5, <2>1, UpdateStep DEF PartsNext, PartsInv
  <2>2. CASE UNCHANGED partsVars
    BY <1>5, <2>2 DEF partsVars, updateVars, PartsInv, UpdateInv, UpdateTypes,
                          Replacing, Kept, Staged
  <2> QED
    BY <2>1, <2>2
<1>6. ASSUME active = "ui" PROVE UiProofs!Inv'
  <2>1. UiProofs!Inv
    BY <1>6 DEF PartsInv
  <2>2. [Ui!Next]_uiVars
    BY <1>6 DEF PartsNext, partsVars
  <2> QED
    BY <2>1, <2>2, UiNext, UiProofs!StepInv
<1> QED
  BY <1>0, <1>1, <1>2, <1>3, <1>4, <1>5, <1>6 DEF PartsInv

LEMMA PartsAlways == PartsSpec => []PartsInv
  BY PartsBegin, PartsStep, PTL DEF PartsSpec

\* Unless a session says it does not know, its traffic takes the server it names,
\* however many servers there are and whatever fails (switch_active_tun_server).
THEOREM SelectionTheorem == PartsSpec => []SelectionIsKnown
<1>1. PartsInv => SelectionIsKnown
  BY DEF PartsInv, SelectionIsKnown, Switch!SelectionIsKnown, SwitchInv
<1> QED
  BY <1>1, PartsAlways, PTL

\* Whoever waits for a check waits for a fetch that runs, and whoever is shown a
\* download has a command or a timer that will hear its end (UpdateService,
\* useUpdateController).
THEOREM WaitTheorem == PartsSpec => []EveryWaitEnds
<1>1. PartsInv => EveryWaitEnds
  BY ChecksHold DEF PartsInv, EveryWaitEnds
<1> QED
  BY <1>1, PartsAlways, PTL

\* The release Settings calls ready is there, whole and newer, and while no installation
\* starts, the old release or the new one is there whole, however many updaters were
\* killed wherever (PortableUpdater::stage, replace_bundle).
THEOREM ReleasesTheorem == PartsSpec => []ReleasesKept
<1>1. PartsInv => ReleasesKept
  BY UpdateHolds DEF PartsInv, ReleasesKept
<1> QED
  BY <1>1, PartsAlways, PTL

\* What becomes startable is one whole release, none that others changed meanwhile, and
\* none older than the one it replaces (replace_bundle).
THEOREM InstalledTheorem == PartsSpec => InstalledIsWhole
<1>1. PartsInv /\ [PartsNext]_partsVars => [Sound]_(Update!vars)
  <2> SUFFICES ASSUME PartsInv, [PartsNext]_partsVars, UNCHANGED Update!vars => FALSE
               PROVE  Sound
    OBVIOUS
  <2>1. ~UNCHANGED updateVars
    BY DEF Update!vars, Update!disk, Update!coordinator, updateVars
  <2>2. active = "update" /\ Update!Next
    BY <2>1 DEF PartsNext, partsVars
  <2> QED
    BY <2>2, UpdateStep DEF PartsInv
<1> QED
  BY <1>1, PartsAlways, PTL DEF PartsSpec, InstalledIsWhole, Update!InstalledIsWhole, Sound

\* What is left in the directory of a killed process can be cleaned up, and a session
\* in use and files of other programs stay (SessionConfig, CleanupPlan).
THEOREM DirectoryTheorem == PartsSpec => []CleanupIsSafe
<1>1. PartsInv => CleanupIsSafe
  BY DirectoryProofs!InvIsSafe, DirectorySafe DEF PartsInv, CleanupIsSafe
<1> QED
  BY <1>1, PartsAlways, PTL

\* Once all is in, the window shows the backend's status, and what the user wished last
\* is what runs unless his start was refused (TauriController).
THEOREM IntentTheorem == PartsSpec => []IntentHonoured
<1>1. ASSUME PartsInv, active = "ui" PROVE Ui!IntentHonoured /\ Ui!ShownIsCurrent
  <2>1. UiProofs!Inv
    BY <1>1 DEF PartsInv
  <2> QED
    BY <2>1, UiProofs!InvTyped, UiProofs!InvShows, UiProofs!InvHonours, UiHolds
<1>2. PartsInv => IntentHonoured
  BY <1>1 DEF IntentHonoured
<1> QED
  BY <1>2, PartsAlways, PTL

\* An engine runs only for a living owner that still wants it, from the files it
\* verified, and ends with its owner (ManagedProcess, JobObject).
THEOREM EngineTheorem == PartsSpec => []EngineIsContained
<1>1. PartsInv => EngineIsContained
  BY ProcessContains DEF PartsInv, EngineIsContained
<1> QED
  BY <1>1, PartsAlways, PTL

-----------------------------------------------------------------------------
(* The types of the parts *)

\* The phases of a download, what a check and a command return, and a check that is
\* shown has its command.
Downloading == {"idle", "downloading", "ready", "error"}

ChecksTyped ==
    /\ fresh \in BOOLEAN /\ cached.status # "checking" /\ download \in Downloading
    /\ \A t \in Checks!Threads : answer[t].status # "checking"
    /\ page.phase \in Downloading \cup {"installing"} /\ page.seen \in Downloading
    /\ (page.status = "checking") = (thread["check"] # "idle")
    /\ thread["check"] \in Asking \cup {"idle", "done"}

LEMMA ChecksTypedInit == Checks!Init => ChecksTyped
<1> SUFFICES ASSUME Checks!Init PROVE ChecksTyped
  OBVIOUS
<1>1. /\ fresh = FALSE /\ cached.status = "none" /\ download = "idle"
      /\ thread = [t \in Checks!Threads |-> "idle"]
      /\ \A t \in Checks!Threads : answer[t].status = "none"
  BY DEF Checks!Init, Checks!NoResult, Checks!Result
<1>2. page.phase = "idle" /\ page.seen = "idle" /\ page.status = "idle"
  BY DEF Checks!Init, Checks!NewPage
<1> QED
  BY <1>1, <1>2 DEF ChecksTyped, Downloading, Checks!Threads

LEMMA Results == \A status, version : Checks!Result(status, version).status = status
  BY DEF Checks!Result

LEMMA FetchedKinds == \A r \in Checks!Fetched : r.status # "checking"
<1>1. \A v : Checks!Parse(v).status # "checking"
  <2> TAKE v
  <2>1. PICK s \in {"error", "available", "upToDate"} : \E l : Checks!Parse(v) = Checks!Result(s, l)
    BY DEF Checks!Parse
  <2> QED
    BY <2>1, Results
<1> QED
  BY <1>1, Results DEF Checks!Fetched
LEMMA ChecksTypedStep ==
  ASSUME ChecksInv, ChecksTyped, Checks!Next
  PROVE  ChecksTyped'
<1> USE DEF Checks!Goto, Checks!checker
<1>0. /\ thread \in [Checks!Threads -> CommandSteps]
      /\ answer = [t \in Checks!Threads |-> answer[t]]
      /\ page = [status |-> page.status, latest |-> page.latest, quiet |-> page.quiet,
                 phase |-> page.phase, version |-> page.version, timer |-> page.timer,
                 polling |-> page.polling, seen |-> page.seen]
  BY DEF ChecksInv, Fetching, Polling
<1>1. ASSUME NEW t \in Checks!Threads, Checks!Look(t) PROVE ChecksTyped'
  <2>1. /\ UNCHANGED <<fresh, cached, download, page>> /\ thread[t] \in {"asked", "woken"}
        /\ \E to \in {"done", "fetching", "waiting"} : thread' = [thread EXCEPT ![t] = to]
        /\ answer' = answer \/ answer' = [answer EXCEPT ![t] = cached]
    BY <1>1 DEF Checks!Look
  <2>2. \A u \in Checks!Threads : answer'[u].status # "checking"
    BY <1>0, <2>1 DEF ChecksTyped
  <2>3. /\ (thread'["check"] # "idle") = (thread["check"] # "idle")
        /\ thread'["check"] \in Asking \cup {"idle", "done"}
    BY <1>0, <2>1 DEF ChecksTyped, Asking, Checks!Threads
  <2> QED
    BY <2>1, <2>2, <2>3 DEF ChecksTyped
<1>2. ASSUME NEW t \in Checks!Threads, Checks!Fetch(t) PROVE ChecksTyped'
  <2>1. PICK r \in Checks!Fetched :
             /\ cached' = r /\ fresh' = TRUE /\ answer' = [answer EXCEPT ![t] = r]
             /\ thread[t] = "fetching" /\ UNCHANGED <<download, page>>
             /\ thread' = [u \in Checks!Threads |-> IF u = t THEN "done"
                              ELSE IF thread[u] = "waiting" THEN "woken" ELSE thread[u]]
    BY <1>2 DEF Checks!Fetch, Checks!FetchEnds, Checks!Store
  <2>2. r.status # "checking"
    BY FetchedKinds
  <2>3. "check" \in Checks!Threads
    BY DEF Checks!Threads
  <2> QED
    BY <1>0, <2>1, <2>2, <2>3 DEF ChecksTyped, Asking
<1>3. ASSUME NEW t \in Checks!Threads, Checks!Stage(t) PROVE ChecksTyped'
  <2>1. /\ t # "check" /\ UNCHANGED <<fresh, cached, page>>
        /\ thread' = thread \/ thread' = [thread EXCEPT ![t] = "returned"]
        /\ download' \in {download, "downloading"}
        /\ \E status \in {"staged", "refused"} : \E version :
               answer' = [answer EXCEPT ![t] = Checks!Result(status, version)]
    BY <1>3 DEF Checks!Stage
  <2>2. \A u \in Checks!Threads : answer'[u].status # "checking"
    BY <1>0, <2>1, Results DEF ChecksTyped
  <2>3. thread'["check"] = thread["check"]
    BY <1>0, <2>1 DEF Checks!Threads
  <2> QED
    BY <2>1, <2>2, <2>3 DEF ChecksTyped, Downloading
<1>4. CASE Checks!Pass
  <2>1. /\ UNCHANGED <<cached, answer, download, page>> /\ fresh' \in {fresh, FALSE}
        /\ \/ thread' = thread
           \/ \E t \in Checks!Threads : thread[t] = "waiting"
                                       /\ thread' = [thread EXCEPT ![t] = "woken"]
    BY <1>4 DEF Checks!Pass
  <2> QED
    BY <1>0, <2>1 DEF ChecksTyped, Asking, Checks!Threads
<1>5. ASSUME NEW quiet \in BOOLEAN, Checks!Check(quiet) PROVE ChecksTyped'
  <2>1. /\ UNCHANGED <<fresh, cached, download>> /\ thread' = [thread EXCEPT !["check"] = "asked"]
        /\ answer' = [answer EXCEPT !["check"] = Checks!NoResult]
        /\ page' = [page EXCEPT !.status = "checking", !.quiet = quiet]
    BY <1>5 DEF Checks!Check, Checks!Ask
  <2>2. Checks!NoResult.status = "none"
    BY Results DEF Checks!NoResult
  <2>3. page'.status = "checking" /\ page'.phase = page.phase /\ page'.seen = page.seen
    BY <1>0, <2>1
  <2> QED
    BY <1>0, <2>1, <2>2, <2>3 DEF ChecksTyped, Asking, Checks!Threads
\* The check's command is done, and is shown as what it returned.
<1>6. ASSUME NEW p, NEW rest, Checks!Download(p, rest), UNCHANGED <<fresh, cached, download>>,
             NEW q, p = [page EXCEPT !.status = q, !.latest = p.latest],
             rest \in [Checks!Threads -> CommandSteps],
             rest["check"] \in Asking \cup {"idle", "done"},
             q = "checking" <=> rest["check"] # "idle"
      PROVE  ChecksTyped'
  <2>1. p.status = q /\ p.phase = page.phase /\ p.seen = page.seen
    BY <1>0, <1>6
  <2>2. CASE page' = p /\ thread' = rest /\ UNCHANGED answer
    BY <1>6, <2>1, <2>2 DEF ChecksTyped
  <2>3. CASE /\ page' = [p EXCEPT !.phase = "downloading", !.version = p.latest]
             /\ thread' = [rest EXCEPT !["stage"] = "asked"]
             /\ answer' = [answer EXCEPT !["stage"] = Checks!NoResult]
    <3>1. page'.phase = "downloading" /\ page'.status = q /\ page'.seen = page.seen
      BY <1>0, <1>6, <2>1, <2>3
    <3>2. thread'["check"] = rest["check"]
      BY <1>6, <2>3
    <3>3. Checks!NoResult.status = "none"
      BY Results DEF Checks!NoResult
    <3>4. \A t \in Checks!Threads : answer'[t].status # "checking"
      BY <1>0, <2>3, <3>3 DEF ChecksTyped
    <3> QED
      BY <1>6, <3>1, <3>2, <3>4 DEF ChecksTyped, Downloading
  <2> QED
    BY <1>6, <2>2, <2>3 DEF Checks!Download
<1>7. CASE Checks!Checked
  <2> DEFINE r == answer["check"]
             q == Checks!Shown(r)
             version == IF r.status = "error" THEN <<1, 9>> ELSE r.latest
             p == [page EXCEPT !.status = q, !.latest = version]
             rest == [thread EXCEPT !["check"] = "idle"]
  <2>1. thread["check"] = "done" /\ UNCHANGED <<fresh, cached, download>>
    BY <1>7 DEF Checks!Checked
  <2>2. q # "checking"
    BY DEF Checks!Shown, ChecksTyped, Checks!Threads
  <2>3. rest \in [Checks!Threads -> CommandSteps] /\ rest["check"] = "idle"
    BY <1>0 DEF CommandSteps, Checks!Threads
  <2>4. p.status = q /\ p.latest = version /\ p.phase = page.phase /\ p.seen = page.seen
    BY <1>0
  <2>5. CASE Checks!Download(p, rest)
    <3>1. p = [page EXCEPT !.status = q, !.latest = p.latest]
      BY <2>4
    <3>2. q = "checking" <=> rest["check"] # "idle"
      BY <2>2, <2>3
    <3>3. rest["check"] \in Asking \cup {"idle", "done"}
      BY <2>3
    <3> HIDE DEF p, q, rest
    <3> QED
      BY <1>6, <2>1, <2>3, <2>5, <3>1, <3>2, <3>3
  <2>6. CASE page' = p /\ thread' = rest /\ UNCHANGED answer
    BY <2>1, <2>2, <2>3, <2>4, <2>6 DEF ChecksTyped
  <2> QED
    BY <1>7, <2>5, <2>6 DEF Checks!Checked
<1>8. CASE Checks!Repeat
  <2>1. page = [page EXCEPT !.status = page.status, !.latest = page.latest]
    BY <1>0
  <2>2. Checks!Download(page, thread) /\ UNCHANGED <<fresh, cached, download>>
    BY <1>8 DEF Checks!Repeat
  <2>3. page.status = "checking" <=> thread["check"] # "idle"
    BY DEF ChecksTyped
  <2>4. thread["check"] \in Asking \cup {"idle", "done"}
    BY DEF ChecksTyped
  <2>5. PICK q : q = page.status
    OBVIOUS
  <2> QED
    BY <1>0, <1>6, <2>1, <2>2, <2>3, <2>4, <2>5
<1>9. CASE Checks!Staged
  <2>1. /\ UNCHANGED <<fresh, cached, answer, download>>
        /\ \E to : thread' = [thread EXCEPT !["stage"] = to]
        /\ page'.status = page.status
        /\ page'.phase \in {page.phase, "error"} /\ page'.seen \in {page.seen, download}
    BY <1>0, <1>9 DEF Checks!Staged, Checks!StartPoll
  <2>2. thread'["check"] = thread["check"]
    BY <1>0, <2>1 DEF Checks!Threads
  <2> QED
    BY <2>1, <2>2 DEF ChecksTyped, Downloading
<1>10. CASE Checks!Polled
  <2>1. /\ UNCHANGED <<fresh, cached, answer, download>>
        /\ thread' = thread \/ thread' = [thread EXCEPT !["stage"] = "polled"]
        /\ page'.status = page.status
        /\ page'.phase \in {page.seen, "error"} /\ page'.seen = page.seen
    BY <1>0, <1>10 DEF Checks!Polled
  <2>2. thread'["check"] = thread["check"]
    BY <1>0, <2>1 DEF Checks!Threads
  <2> QED
    BY <2>1, <2>2 DEF ChecksTyped, Downloading
<1>11. CASE Checks!Tick \/ Checks!Install \/ Checks!DownloadEnds
  <2>1. /\ UNCHANGED <<fresh, cached, answer, thread>> /\ page'.status = page.status
        /\ page'.phase \in {page.phase, "installing", "error"}
        /\ page'.seen \in {page.seen, download} /\ download' \in {download, "ready", "error"}
    BY <1>0, <1>11 DEF Checks!Tick, Checks!Install, Checks!DownloadEnds, Checks!StartPoll
  <2> QED
    BY <2>1 DEF ChecksTyped, Downloading
<1>12. CASE Checks!Reload
  <2>1. /\ UNCHANGED <<fresh, cached, download>> /\ page' = Checks!NewPage
        /\ thread["check"] = "idle"
        /\ \E to : thread' = [thread EXCEPT !["stage"] = "idle", !["old stage"] = to]
        /\ \E old \in {answer["stage"], Checks!NoResult} :
               answer' = [answer EXCEPT !["stage"] = Checks!NoResult, !["old stage"] = old]
    BY <1>12 DEF Checks!Reload
  <2>2. page'.status = "idle" /\ page'.phase = "idle" /\ page'.seen = "idle"
    BY <2>1 DEF Checks!NewPage
  <2>3. thread'["check"] = "idle"
    BY <1>0, <2>1 DEF Checks!Threads
  <2>4. Checks!NoResult.status = "none"
    BY Results DEF Checks!NoResult
  <2>5. \A t \in Checks!Threads : answer'[t].status # "checking"
    BY <1>0, <2>1, <2>4 DEF ChecksTyped, Checks!Threads
  <2> QED
    BY <2>1, <2>2, <2>3, <2>5 DEF ChecksTyped, Downloading
<1> QED
  BY <1>1, <1>2, <1>3, <1>4, <1>5, <1>7, <1>8, <1>9, <1>10, <1>11, <1>12 DEF Checks!Next

\* An updater is at one of its steps.
LEMMA UpdaterAt ==
  ASSUME NEW place \in UpdaterPlaces
  PROVE  place \in {"none", "over"} \cup {Update!UpdaterSteps[i] : i \in DOMAIN Update!UpdaterSteps}
<1>0. PICK steps : steps = Update!UpdaterSteps
  OBVIOUS
<1>1. DOMAIN steps = 1..14
  BY <1>0 DEF Update!UpdaterSteps
<1>2. /\ steps[1] = "auth" /\ steps[2] = "waiting" /\ steps[3] = "verify" /\ steps[4] = "copy"
      /\ steps[5] = "verifyNew" /\ steps[6] = "markNew" /\ steps[7] = "markOld"
      /\ steps[8] = "recheck" /\ steps[9] = "moveOld" /\ steps[10] = "verifyOld"
      /\ steps[11] = "moveNew" /\ steps[12] = "verifyInstalled" /\ steps[13] = "unmark"
      /\ steps[14] = "start"
  BY <1>0 DEF Update!UpdaterSteps
<1>3. place \in {"none", "over"} \/ \E i \in 1..14 : place = steps[i]
  BY <1>2 DEF UpdaterPlaces, Prepared, Turning
<1>4. CASE place \in {"none", "over"}
  BY <1>4
<1>5. ASSUME NEW i \in 1..14, place = steps[i] PROVE place \in {steps[j] : j \in DOMAIN steps}
  BY <1>1, <1>5
<1> QED
  BY <1>0, <1>3, <1>4, <1>5

LEMMA UpdateTyped == UpdateInv => Update!TypeOK
  BY UpdaterAt DEF UpdateInv, UpdateTypes, Updaters, Update!TypeOK

LEMMA ChecksTypedHolds == ChecksInv /\ ChecksTyped => Checks!TypeOK
  BY DEF ChecksInv, Fetching, ChecksTyped, Downloading, Checks!TypeOK

LEMMA UiTyped == UiProofs!TypeOK => Ui!TypeOK
  BY DEF UiProofs!TypeOK, Ui!TypeOK, UiProofs!NoCall, Ui!NoCall, UiProofs!Modes, Ui!Modes

LEMMA DirectoryTyped == DirectoryProofs!Inv => Directory!TypeOK
<1> SUFFICES ASSUME DirectoryProofs!Inv PROVE Directory!TypeOK
  OBVIOUS
<1>1. Directory!Directories = DirectoryProofs!Directories
  BY DEF Directory!Directories, DirectoryProofs!Directories, Directory!Homes,
         DirectoryProofs!Homes, Directory!Engines, DirectoryProofs!Engines, Directory!Engine,
         DirectoryProofs!Engine
<1>2. /\ dirs \subseteq DirectoryProofs!Directories /\ part \subseteq disk
      /\ foreign \subseteq DirectoryProofs!Directories \X {"foreign"}
      /\ \A f \in disk : f[1] \in dirs
  BY DEF DirectoryProofs!Inv, DirectoryProofs!Layout
<1>3. plan.kind \in {"none", "marked", "legacy"} /\ (plan.kind = "none") = (plan.left = {})
  BY DEF DirectoryProofs!Inv, DirectoryProofs!Planned
<1> QED
  BY <1>1, <1>2, <1>3 DEF Directory!TypeOK

LEMMA SwitchTyped == SwitchInv => Switch!TypeOK
  BY DEF SwitchInv, Sessions, Switch!TypeOK

\* What is proved of the parts, with the chain of Provisioning and the types.
TypedInv ==
    /\ PartsInv
    /\ active = "provisioning" => ImportInv
    /\ active # "provisioning" => ProvisioningOff
    /\ active = "check" => ChecksTyped
    /\ TypeOK

LEMMA OffTyped == ProvisioningOff => TypeOK
  BY DEF ProvisioningOff, TypeOK, Stages

LEMMA TypedBegin == PartsInit => TypedInv
<1> SUFFICES ASSUME PartsInit PROVE TypedInv
  OBVIOUS
<1>1. PartsInv
  BY PartsBegin
<1>2. active = "check" => ChecksTyped
  BY ChecksTypedInit DEF PartsInit
<1>3. CASE active = "provisioning"
  <2>1. Init
    BY <1>3 DEF PartsInit
  <2> QED
    BY <1>1, <1>2, <1>3, <2>1, ImportInit, ChainInit DEF TypedInv
<1>4. CASE active # "provisioning"
  <2>1. ProvisioningOff
    BY <1>4 DEF PartsInit
  <2> QED
    BY <1>1, <1>2, <1>4, <2>1, OffTyped DEF TypedInv
<1> QED
  BY <1>3, <1>4

LEMMA TypedStep == TypedInv /\ [PartsNext]_partsVars => TypedInv'
<1> SUFFICES ASSUME TypedInv, [PartsNext]_partsVars PROVE TypedInv'
  OBVIOUS
<1>0. active' = active
  BY DEF PartsNext, partsVars
<1>1. PartsInv'
  BY PartsStep DEF TypedInv
<1>2. ASSUME active = "check" PROVE ChecksTyped'
  <2>1. CASE Checks!Next
    BY <1>2, <2>1, ChecksTypedStep DEF TypedInv, PartsInv
  <2>2. CASE UNCHANGED checkVars
    BY <1>2, <2>2 DEF checkVars, TypedInv, ChecksTyped
  <2> QED
    BY <1>2, <2>1, <2>2 DEF PartsNext, partsVars
<1>3. CASE active = "provisioning"
  <2>1. [Next]_vars
    BY <1>3 DEF PartsNext, partsVars
  <2>2. ImportInv /\ TypeOK
    BY <1>3 DEF TypedInv
  <2>3. ImportInv' /\ TypeOK'
    BY <2>1, <2>2, ImportStep, ChainStep
  <2> QED
    BY <1>0, <1>1, <1>2, <1>3, <2>3 DEF TypedInv
<1>4. CASE active # "provisioning"
  <2>1. UNCHANGED vars
    BY <1>4 DEF PartsNext, partsVars
  <2>2. ProvisioningOff
    BY <1>4 DEF TypedInv
  <2>3. ProvisioningOff'
    BY <2>1, <2>2 DEF ProvisioningOff, vars
  <2>4. TypeOK'
    BY <2>3, OffTyped, PTL
  <2> QED
    BY <1>0, <1>1, <1>2, <1>4, <2>3, <2>4 DEF TypedInv
<1> QED
  BY <1>3, <1>4

\* Every part keeps its types, whatever its constants: a check that is shown has its
\* command (useUpdateController), a step of a switch has its server
\* (switch_active_tun_server), a command of the window its answer (enqueue), what is
\* on disk its directory (SessionConfig), a session its configuration.
THEOREM PartsTypeTheorem == PartsSpec => []PartsTypeOK
<1>1. ASSUME TypedInv PROVE PartsTypeOK
  <2>1. active = "update" => Update!TypeOK
    BY <1>1, UpdateTyped DEF TypedInv, PartsInv
  <2>2. active = "check" => Checks!TypeOK
    BY <1>1, ChecksTypedHolds DEF TypedInv, PartsInv
  <2>3. active = "ui" => Ui!TypeOK
    BY <1>1, UiProofs!InvTyped, UiTyped DEF TypedInv, PartsInv
  <2>4. active = "directory" => Directory!TypeOK
    BY <1>1, DirectoryTyped DEF TypedInv, PartsInv
  <2>5. active = "switch" => Switch!TypeOK
    BY <1>1, SwitchTyped DEF TypedInv, PartsInv
  <2>6. active = "process" => Process!TypeOK
    BY <1>1 DEF TypedInv, PartsInv, ProcessInv
  <2>7. TypeOK
    BY <1>1 DEF TypedInv
  <2> QED
    BY <2>1, <2>2, <2>3, <2>4, <2>5, <2>6, <2>7, Zenon DEF PartsTypeOK
<1>2. TypedInv => PartsTypeOK
  BY <1>1
<1> QED
  BY <1>2, TypedBegin, TypedStep, PTL DEF PartsSpec
=============================================================================
