---------------------------- MODULE ServerSwitch ----------------------------
(***************************************************************************)
(* The exchange of switch_tun_server with the running core, call by call    *)
(* (server_switch_application.rs, server_switch.rs): the core has two       *)
(* selectors, one that carries the traffic and one for a candidate.  In the *)
(* module Controller the exchange is one step with three outcomes; here are *)
(* the requests and answers that get lost in it, the core that dies in it,  *)
(* and the restart of the core by reconnect_tick.                           *)
(*                                                                         *)
(* Both mutexes are held throughout, so a restart and a probe of the        *)
(* monitor come before or after an exchange.  A request the core receives   *)
(* takes effect before the client's time is up.                            *)
(***************************************************************************)
EXTENDS Naturals

CONSTANTS
    TargetCount,    \* servers prepared for the session
    MaxExchanges,   \* bounds the switches
    MaxRestarts     \* bounds the restarts of the core

Targets == 0..(TargetCount - 1)
Initial == 0    \* the selected server comes first
NoIndex == TargetCount
Idle == [step |-> "idle", index |-> NoIndex, owned |-> FALSE, proved |-> FALSE]

VARIABLES
    core,       \* the engine is live or dead
    selected,   \* its selector of the traffic
    candidate,  \* its selector of candidate-in
    session,    \* ActiveSession: current server, uncertain, failures, status
    exchange,   \* where switch_tun_server is
    exchanges, restarts

selectors == <<selected, candidate>>
bounds == <<exchanges, restarts>>
vars == <<core, selectors, session, exchange, bounds>>

Init ==
    /\ core = "live" /\ selected = Initial /\ candidate = Initial
    /\ session = [current |-> Initial, uncertain |-> FALSE, sustained |-> FALSE,
                  phase |-> "ready", error |-> "none"]
    /\ exchange = Idle /\ exchanges = 0 /\ restarts = 0

-----------------------------------------------------------------------------
(* ClashSelectorControl *)

\* PUT: carried out and confirmed, carried out with the answer lost, or lost.
Put(selector, index, ok) ==
    IF core = "live" /\ ok THEN selector' = index
    ELSE ~ok /\ (selector' = selector \/ (core = "live" /\ selector' = index))

\* GET: the tag the selector has now, or nothing.
Read(selector) == {NoIndex} \cup (IF core = "live" THEN {selector} ELSE {})

-----------------------------------------------------------------------------
(* switch_tun_server *)

Step(s) == exchange' = [exchange EXCEPT !.step = s]
At(s) == exchange.step = s

Ask ==
    /\ At("idle") /\ exchanges < MaxExchanges /\ ~session.uncertain
    /\ exchanges' = exchanges + 1
    /\ \E i \in Targets : exchange' = [Idle EXCEPT !.step = "own", !.index = i]
    /\ UNCHANGED <<core, selectors, session, restarts>>

\* A stage reconnect_tick restarts the core for, or another.
Errors == {"process", "other"}
Degraded(s, error) == [s EXCEPT !.phase = "degraded", !.error = error]

\* A refused candidate leaves the status; lost ownership or an unknown selection
\* shows in it.
Fail(owned, uncertain) ==
    /\ exchange' = Idle
    /\ LET s == [session EXCEPT !.uncertain = uncertain]
       IN IF owned /\ ~uncertain THEN session' = s
                     ELSE \E error \in Errors : session' = Degraded(s, error)

\* The process, its listeners and the adapter are still the session's.
Own ==
    /\ At("own")
    /\ \/ core = "live" /\ exchange' = [exchange EXCEPT !.step = "put.candidate", !.owned = TRUE]
          /\ UNCHANGED session
       \/ Fail(FALSE, FALSE)
    /\ UNCHANGED <<core, selectors, bounds>>

\* The candidate is chosen, read back and proved beside the traffic.
Candidate ==
    /\ \/ /\ At("put.candidate")
          /\ \E ok \in BOOLEAN :
                /\ Put(candidate, exchange.index, ok)
                /\ IF ok THEN Step("get.candidate") /\ UNCHANGED session
                   ELSE Fail(TRUE, FALSE)
       \/ /\ At("get.candidate") /\ UNCHANGED candidate
          /\ \E now \in Read(candidate) :
                IF now = exchange.index THEN Step("prove.candidate") /\ UNCHANGED session
                ELSE Fail(TRUE, FALSE)
       \/ /\ At("prove.candidate") /\ UNCHANGED candidate
          /\ \/ core = "live" /\ UNCHANGED session
                /\ exchange' = [exchange EXCEPT !.step = "put.selected", !.proved = TRUE]
             \/ Fail(TRUE, FALSE)
    /\ UNCHANGED <<core, selected, bounds>>

\* Only then the traffic; what the core says afterwards counts, not its answer.
Select ==
    /\ \/ /\ At("put.selected") /\ \E ok \in BOOLEAN : Put(selected, exchange.index, ok)
          /\ Step("get.selected")
       \/ /\ At("get.selected") /\ UNCHANGED selected
          /\ \E now \in Read(selected) :
                Step(IF now = exchange.index THEN "prove.selected" ELSE "put.back")
    /\ UNCHANGED <<core, candidate, session, bounds>>

Selected ==
    /\ exchange' = Idle
    /\ session' = [session EXCEPT !.current = exchange.index, !.sustained = FALSE,
                                  !.phase = "ready", !.error = "none"]

\* Slip: a server that fails its proof is given up without a rollback.
ProveAndLeave ==
    /\ At("prove.selected")
    /\ (core = "live" /\ Selected) \/ \E owned \in BOOLEAN : Fail(owned, FALSE)
    /\ UNCHANGED <<core, selectors, bounds>>

\* The proof over the traffic's own route; then process and adapter once more.
Prove ==
    /\ At("prove.selected")
    /\ \/ core = "live" /\ Selected
       \/ /\ UNCHANGED session
          /\ \E owned \in BOOLEAN :
                exchange' = [exchange EXCEPT !.step = "put.back", !.owned = owned]
    /\ UNCHANGED <<core, selectors, bounds>>

\* The old server again, read back; otherwise nobody knows.
Rollback ==
    /\ \/ /\ At("put.back") /\ \E ok \in BOOLEAN : Put(selected, session.current, ok)
          /\ Step("get.back") /\ UNCHANGED session
       \/ /\ At("get.back") /\ UNCHANGED selected
          /\ \E now \in Read(selected) : Fail(exchange.owned, now # session.current)
    /\ UNCHANGED <<core, candidate, bounds>>

-----------------------------------------------------------------------------
(* Around the exchange *)

\* monitor_tick: a loss of process, capture or traffic is shown, a proof heals; an
\* uncertain session is not probed.
Monitor ==
    /\ At("idle")
    /\ \/ /\ core = "live" /\ ~session.uncertain
          /\ session' = [session EXCEPT !.phase = "ready", !.error = "none",
                                        !.sustained = FALSE]
       \/ \E sustained \in BOOLEAN, error \in Errors :
             session' = [Degraded(session, error) EXCEPT !.sustained = sustained]
    /\ UNCHANGED <<core, selectors, exchange, bounds>>

\* reconnect_tick and restart_target_config: the sealed configuration again, with
\* the current server as the default of the selector.
Restart ==
    /\ At("idle") /\ restarts < MaxRestarts /\ restarts' = restarts + 1
    /\ session.sustained \/ session.error = "process"
    /\ \/ /\ core' = "live" /\ selected' = session.current /\ candidate' = Initial
          /\ session' = [session EXCEPT !.sustained = FALSE]
       \/ /\ core' \in {"dead", core} /\ UNCHANGED selectors
          /\ \E error \in Errors : session' = Degraded(session, error)
    /\ UNCHANGED <<exchange, exchanges>>

Die ==
    /\ core = "live" /\ core' = "dead"
    /\ UNCHANGED <<selectors, session, exchange, bounds>>

Next == Ask \/ Own \/ Candidate \/ Select \/ Prove \/ Rollback \/ Monitor \/ Restart \/ Die

Spec == Init /\ [][Next]_vars

-----------------------------------------------------------------------------
(* Properties *)

TypeOK ==
    /\ core \in {"live", "dead"} /\ selected \in Targets /\ candidate \in Targets
    /\ session.current \in Targets /\ session.phase \in {"ready", "degraded"}
    /\ (exchange.step = "idle") = (exchange.index = NoIndex)

\* Unless the session says that it does not know, its traffic goes through the
\* server it names, whichever request, answer or core was lost in a switch; in
\* the middle of a switch also through the new one, but never before that was
\* proved beside it; and a session that does not know is not shown as verified
\* (switch_tun_server, reconnect_tick).
SelectionIsKnown ==
    /\ core = "live" /\ ~session.uncertain /\ selected # session.current =>
           exchange.proved /\ selected = exchange.index
    /\ session.uncertain => session.phase = "degraded"
=============================================================================
