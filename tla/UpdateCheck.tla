---------------------------- MODULE UpdateCheck -----------------------------
(***************************************************************************)
(* The check for a new release: AppUpdateChecker, whose callers share one   *)
(* fetch by a mutex and a condition variable (app_updates.rs), and          *)
(* AppUpdateMonitor, the page's part of it (src/src/appUpdates.ts), which   *)
(* checks, has the release downloaded and polls the download.               *)
(*                                                                         *)
(* The commands of the monitor, check_app_update and stage_app_update, each *)
(* run in a thread of their own, and so may those of a page that has been   *)
(* reloaded.  The download itself is PortableUpdate's: here it ends when it *)
(* likes.  A fetch that panics is not modelled: no code of it can.         *)
(***************************************************************************)
EXTENDS Naturals

CONSTANTS
    Current,    \* this build's version
    Versions    \* versions that may be published: <<number, pre-release or Final>>

Final == 9      \* orders a release after its pre-releases

\* Ord for Version.
Newer(v, w) == v[1] > w[1] \/ (v[1] = w[1] /\ v[2] > w[2])

Nobody == "nobody"
Result(status, latest) == [status |-> status, latest |-> latest]
NoResult == Result("none", Current)

\* parse_release_for_current: drafts and pre-releases are not offered.
Parse(v) ==
    IF v[2] # Final THEN Result("error", Current)
    ELSE Result(IF Newer(v, Current) THEN "available" ELSE "upToDate", v)

\* fetch_latest.
Fetched == {Parse(v) : v \in Versions} \cup {Result("noRelease", Current), Result("error", Current)}

\* The commands of the page, and one of the page before it.
Threads == {"check", "stage", "old stage"}

VARIABLES
    running,    \* UpdateState: a fetch runs
    cached,     \* its last result
    fresh,      \* THROTTLE has not passed since
    thread,     \* what each thread of a command does
    answer,     \* what it returns with
    download,   \* the phase of PortableUpdater
    page        \* AppUpdateMonitor

checker == <<running, cached, fresh>>
vars == <<checker, thread, answer, download, page>>

NewPage ==
    [status |-> "idle", latest |-> Current, quiet |-> FALSE, phase |-> "idle", version |-> Current,
     timer |-> FALSE, polling |-> Nobody, seen |-> "idle"]

Init ==
    /\ running = FALSE /\ cached = NoResult /\ fresh = FALSE
    /\ thread = [t \in Threads |-> "idle"] /\ answer = [t \in Threads |-> NoResult]
    /\ download = "idle" /\ page = NewPage

-----------------------------------------------------------------------------
(* AppUpdateChecker::check_with *)

Goto(t, step) == thread' = [thread EXCEPT ![t] = step]

\* The loop, at its start and after every wake-up, under the mutex.
Look(t) ==
    /\ thread[t] \in {"asked", "woken"}
    /\ \/ fresh /\ Goto(t, "done") /\ answer' = [answer EXCEPT ![t] = cached] /\ UNCHANGED running
       \/ ~fresh /\ ~running /\ running' = TRUE /\ Goto(t, "fetching") /\ UNCHANGED answer
       \/ ~fresh /\ running /\ Goto(t, "waiting") /\ UNCHANGED <<running, answer>>
    /\ UNCHANGED <<cached, fresh, download, page>>

Store(t, result) ==
    /\ thread[t] = "fetching"
    /\ running' = FALSE /\ cached' = result /\ fresh' = TRUE
    /\ answer' = [answer EXCEPT ![t] = result]

\* Slip: a success wakes the others, a failure does not.
FetchedQuietly(t, result) ==
    /\ Store(t, result)
    /\ thread' = [u \in Threads |-> IF u = t THEN "done"
                                    ELSE IF thread[u] = "waiting" /\ result.status # "error"
                                    THEN "woken" ELSE thread[u]]

\* The result is stored and everybody woken (notify_all).
FetchEnds(t, result) ==
    /\ Store(t, result)
    /\ thread' = [u \in Threads |-> IF u = t THEN "done"
                                    ELSE IF thread[u] = "waiting" THEN "woken" ELSE thread[u]]

Fetch(t) == \E result \in Fetched : FetchEnds(t, result) /\ UNCHANGED <<download, page>>

\* A minute passes; a wait may also end by itself.
Pass ==
    /\ \/ fresh /\ fresh' = FALSE /\ UNCHANGED thread
       \/ UNCHANGED fresh /\ \E t \in Threads : thread[t] = "waiting" /\ Goto(t, "woken")
    /\ UNCHANGED <<running, cached, answer, download, page>>

-----------------------------------------------------------------------------
(* AppUpdateMonitor *)

Busy(p) == p.phase \in {"ready", "installing", "downloading"}

Ask(t) == Goto(t, "asked") /\ answer' = [answer EXCEPT ![t] = NoResult]

\* check, by the user or (quiet) by itself.
Check(quiet) ==
    /\ thread["check"] = "idle" /\ Ask("check")
    /\ page' = [page EXCEPT !.status = "checking", !.quiet = quiet]
    /\ UNCHANGED <<checker, download>>

\* download: the command, unless one is on its way or there is nothing to do.
Download(p, others) ==
    IF others["stage"] # "idle" \/ Busy(p)
    THEN page' = p /\ thread' = others /\ UNCHANGED answer
    ELSE /\ page' = [p EXCEPT !.phase = "downloading", !.version = p.latest]
         /\ thread' = [others EXCEPT !["stage"] = "asked"]
         /\ answer' = [answer EXCEPT !["stage"] = NoResult]

\* Slip: a quiet check that fails says nothing at all.
ShownUnlessQuiet(r) == IF r.status = "error" /\ page.quiet THEN page.status ELSE r.status

\* What Settings says of a check that returned.
Shown(r) == IF r.status = "error" /\ page.quiet THEN "idle" ELSE r.status

\* The check returns; a release that is new is downloaded, but a failure is not
\* repeated by itself.
Checked ==
    /\ thread["check"] = "done"
    /\ LET r == answer["check"]
           p == [page EXCEPT !.status = Shown(r),
                             !.latest = IF r.status = "error" THEN Current ELSE r.latest]
           rest == [thread EXCEPT !["check"] = "idle"]
       IN IF r.status = "available" /\ (~page.quiet \/ page.phase # "error" \/ page.version # r.latest)
          THEN Download(p, rest)
          ELSE page' = p /\ thread' = rest /\ UNCHANGED answer
    /\ UNCHANGED <<checker, download>>

\* The user repeats the download.
Repeat == page.phase = "error" /\ Download(page, thread) /\ UNCHANGED <<checker, download>>

\* stage_app_update, once it has the release (the phases of PortableUpdater::stage).
Stage(t) ==
    /\ t \in {"stage", "old stage"} /\ thread[t] = "done" /\ answer[t].status # "staged"
    /\ \/ /\ answer[t].status = "available"
          /\ answer' = [answer EXCEPT ![t] = Result("staged", @.latest)]
          /\ download' = IF download \in {"downloading", "installing", "ready"} THEN download
                         ELSE "downloading"
          /\ IF t = "stage" THEN UNCHANGED thread ELSE Goto(t, "returned")
       \/ /\ answer' = [answer EXCEPT ![t] = Result("refused", Current)]
          /\ Goto(t, "returned") /\ UNCHANGED download
    /\ UNCHANGED <<checker, page>>

StartPoll(p, by) == [p EXCEPT !.polling = by, !.seen = download]

\* The stage command returns: the first poll, unless one is under way, or an error.
Staged ==
    /\ \/ /\ thread["stage"] = "done" /\ answer["stage"].status = "staged"
          /\ IF page.polling = Nobody
             THEN page' = StartPoll(page, "stage") /\ Goto("stage", "polling")
             ELSE page' = page /\ Goto("stage", "polled")
       \/ /\ thread["stage"] = "returned" /\ Goto("stage", "idle")
          /\ page' = [page EXCEPT !.phase = "error"]
       \/ /\ thread["stage"] = "polled" /\ Goto("stage", "idle")
          /\ page' = IF page.phase = "downloading" THEN [page EXCEPT !.timer = TRUE] ELSE page
    /\ UNCHANGED <<checker, answer, download>>

\* pollDownload: the answer to a poll, which may be lost; any but "downloading"
\* ends the polling.
Polled ==
    /\ page.polling # Nobody
    /\ \E phase \in {page.seen, "error"} :
           page' = [page EXCEPT !.phase = phase, !.polling = Nobody,
                                !.timer = @ /\ phase = "downloading"]
    /\ IF page.polling = "stage" THEN Goto("stage", "polled") ELSE UNCHANGED thread
    /\ UNCHANGED <<checker, answer, download>>

Tick ==
    /\ page.timer /\ page.polling = Nobody
    /\ page' = StartPoll(page, "timer") /\ UNCHANGED <<checker, thread, answer, download>>

\* install; RouteDeck ends if it succeeds.
Install ==
    /\ \/ page.phase = "ready" /\ page' = [page EXCEPT !.phase = "installing"] /\ UNCHANGED download
       \/ /\ page.phase = "installing" /\ page' = [page EXCEPT !.phase = "error"]
          /\ download' = "error"
    /\ UNCHANGED <<checker, thread, answer>>

\* The page is loaded again, between two checks: its command runs on, and
\* nobody awaits it.
Reload ==
    /\ thread["check"] = "idle" /\ thread["old stage"] \in {"idle", "returned"}
    /\ LET left == thread["stage"] \notin {"polling", "polled"} /\ answer["stage"].status # "staged"
       IN /\ thread' = [thread EXCEPT !["stage"] = "idle",
                             !["old stage"] = IF left THEN thread["stage"] ELSE "idle"]
          /\ answer' = [answer EXCEPT !["stage"] = NoResult,
                             !["old stage"] = IF left THEN answer["stage"] ELSE NoResult]
    /\ page' = NewPage
    /\ UNCHANGED <<checker, download>>

\* The thread of the download is done.
DownloadEnds ==
    /\ download = "downloading" /\ download' \in {"ready", "error"}
    /\ UNCHANGED <<checker, thread, answer, page>>

Next ==
    \/ \E t \in Threads : Look(t) \/ Fetch(t) \/ Stage(t)
    \/ Pass \/ (\E quiet \in BOOLEAN : Check(quiet)) \/ Checked \/ Repeat \/ Staged \/ Polled
    \/ Tick \/ Install \/ Reload \/ DownloadEnds

Spec == Init /\ [][Next]_vars

-----------------------------------------------------------------------------
(* Properties *)

TypeOK ==
    /\ running \in BOOLEAN /\ fresh \in BOOLEAN /\ cached.status # "checking"
    /\ download \in {"idle", "downloading", "ready", "error"}
    /\ page.phase \in {"idle", "downloading", "ready", "installing", "error"}
    /\ (page.status = "checking") = (thread["check"] # "idle")

\* Nobody waits for what will not come: whoever waits on the condition variable
\* waits for a fetch that runs, of which there is one at a time (check_with); and
\* while Settings shows a download, a command, a poll or a timer will learn its
\* end (download, pollDownload).
EveryWaitEnds ==
    /\ \A t \in Threads : thread[t] = "waiting" => running
    /\ running => \E t \in Threads : thread[t] = "fetching"
    /\ \A t, u \in Threads : thread[t] = "fetching" /\ thread[u] = "fetching" => t = u
    /\ page.phase = "downloading" =>
           thread["stage"] # "idle" \/ page.timer \/ page.polling # Nobody
=============================================================================
