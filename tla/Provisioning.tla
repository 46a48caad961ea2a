----------------------------- MODULE Provisioning -----------------------------
(***************************************************************************)
(* From a subscription to the configuration an engine runs: the text is    *)
(* imported, a connection to one of its servers is asked for, RouteDeck    *)
(* generates the configuration and seals it, the elevated helper reads it  *)
(* again, and starts it with the exit a restart may have chosen.           *)
(* The renderer, the application and the helper each trust only what they  *)
(* check themselves; what is right about the result is that the checks     *)
(* agree, that nothing an imported server asked for is lost on the way,    *)
(* and that traffic goes where the user said.                              *)
(*                                                                         *)
(* The generator and the helper accept more than the application asks for  *)
(* today (into_policy always says LAN direct, IPv6 on, the DNS of the      *)
(* network, and no approval is ever recorded): the module covers all that  *)
(* a ConfigRequest can say.                                                *)
(***************************************************************************)
EXTENDS ProtectedConfig

CONSTANTS
    Scenarios,      \* texts, each with the connection that will be asked for
    Connections,    \* what may arrive at the engine
    MaxNodes        \* MAX_NODES

\* What the enums of domain.rs can say (RoutePolicy, AppRouteRule, TunTrafficRule, TunStack),
\* and the ports of its listeners, held with those of the core, the candidate and the bridges
\* (PortReservations).
ASSUME RequestsAssumption ==
    \A s \in Scenarios :
        LET apps == s.request.policy.apps
            rows == s.request.mode.rules
        IN  /\ {"policy", "mode", "upstream", "vpn_dns", "http", "socks", "health"}
                \subseteq DOMAIN s.request
            /\ apps \in Seq(Range(apps)) /\ rows \in Seq(Range(rows))
            /\ \A a \in Range(apps) : a.by \in {"path", "name"} /\ a.action \in {"direct", "vpn"}
            /\ \A t \in Range(rows) :
                    t.network \in {"tcp", "udp"} /\ t.action \in {"block", "direct", "vpn"}
            /\ s.request.mode.stack \in {"system", "gvisor"}
            /\ {s.request.http, s.request.socks, s.request.health} \subseteq 0..3
\* An entry is what a parser of its format has read.
ASSUME TextsAssumption ==
    \A s \in Scenarios :
        /\ s.text.entries \in Seq(Range(s.text.entries))
        /\ \A e \in Range(s.text.entries) : WellFormed(e.q)
ASSUME ConnectionsAssumption == \A c \in Connections : c.network \in {"tcp", "udp"}

VARIABLES
    text,       \* the subscription
    library,    \* the nodes imported from it
    request,    \* ConfigRequest, but for the node and its approval
    stage,      \* how far it has come
    exits,      \* SwitchTarget: the servers of the session, the selected first
    sealed,     \* the configuration the application generated
    xray,       \* and the one of its sidecar
    launched    \* what the engine was started with

vars == <<text, library, request, stage, exits, sealed, xray, launched>>

Stages == {"source", "library", "generated", "refused", "accepted", "rejected", "running"}

TypeOK ==
    /\ stage \in Stages
    /\ \A i \in DOMAIN library : library[i].kind \in {"vless", "hysteria2", "naive"}
    /\ \A k \in DOMAIN exits : exits[k].server \in DOMAIN library
    /\ (sealed = NoConfig) <=> stage \in {"source", "library", "refused"}
    /\ (launched = NoConfig) <=> stage # "running"

Init ==
    /\ \E s \in Scenarios : text = s.text /\ request = s.request
    /\ library = <<>> /\ stage = "source" /\ exits = <<>>
    /\ sealed = NoConfig /\ xray = NoConfig /\ launched = NoConfig

ImportText ==
    /\ stage = "source"
    /\ library' = Import(text, MaxNodes)
    /\ stage' = IF library' = <<>> THEN "refused" ELSE "library"
    /\ UNCHANGED <<text, request, exits, sealed, xray, launched>>

\* The generator takes an approval recorded for some node, not always this one.
RequestFor(i, approval) == ("node" :> library[i]) @@ ("approval" :> approval) @@ request

Refuse == stage' = "refused" /\ UNCHANGED <<text, library, request, exits, sealed, xray, launched>>

\* start_locked, local or system proxy: one server, with its own sidecar.
StartProxy ==
    /\ stage = "library" /\ request.mode.kind # "tun"
    /\ \E i \in DOMAIN library, approval \in {NoApproval} \cup {Approval(n) : n \in Range(library)} :
        LET r == RequestFor(i, approval)
            config == ExitConfig(r, library[i], BridgePort(1))
        IN  IF config = NoConfig THEN Refuse
            ELSE /\ stage' = "generated" /\ sealed' = config
                 /\ exits' = <<[server |-> i, node |-> library[i], port |-> BridgePort(1),
                                config |-> config]>>
                 /\ xray' = IF IsReality(library[i])
                            THEN XrayConfig(library[i], BridgePort(1), NoUpstream) ELSE NoConfig
                 /\ UNCHANGED <<text, library, request, launched>>

\* start_locked, TUN: prepare_switchable_tun.
StartTun ==
    /\ stage = "library" /\ request.mode.kind = "tun"
    /\ \E i \in DOMAIN library, approval \in {NoApproval} \cup {Approval(n) : n \in Range(library)} :
        LET r == RequestFor(i, approval)
            usable == Exits(r, library, i)
        IN  IF usable = <<>> \/ usable[1].server # i \/ Len(usable) > MaxSwitchNodes THEN Refuse
            ELSE /\ stage' = "generated" /\ exits' = usable
                 /\ sealed' = SwitchConfig(r, usable, [port |-> 4, secret |-> "ok"], 5)
                 /\ xray' = SwitchXray(r, usable)
                 /\ UNCHANGED <<text, library, request, launched>>

\* Without TUN the application starts what it generated; with it the helper
\* validates the sealed file first.
Check ==
    /\ stage = "generated"
    /\ stage' = IF \/ request.mode.kind # "tun"
                   \/ Accepted(sealed, request.upstream.alias, request.upstream.dns)
                THEN "accepted" ELSE "rejected"
    /\ UNCHANGED <<text, library, request, exits, sealed, xray, launched>>

\* start_engine_session, the first time and after a restart.
Launch ==
    /\ stage = "accepted"
    /\ \E index \in 0..Len(exits) :
        /\ launched' = RestartTarget(sealed, index)
        /\ launched' # NoConfig
    /\ stage' = "running"
    /\ UNCHANGED <<text, library, request, exits, sealed, xray>>

Next == ImportText \/ StartProxy \/ StartTun \/ Check \/ Launch
Spec == Init /\ [][Next]_vars

-----------------------------------------------------------------------------
(* What the engine does with a configuration (sing-box) *)

RuleMatches(rule, c) ==
    /\ "inbound" \in DOMAIN rule => c.inbound \in Range(rule["inbound"])
    /\ "network" \in DOMAIN rule => c.network \in Range(rule["network"])
    /\ "port" \in DOMAIN rule => c.port = rule["port"]
    /\ "ip_cidr" \in DOMAIN rule => c.own
    /\ "ip_version" \in DOMAIN rule => c.ipv6
    /\ "ip_is_private" \in DOMAIN rule => c.private
    /\ "process_path" \in DOMAIN rule => c.path \in Range(rule["process_path"])
    /\ "process_path_regex" \in DOMAIN rule => c.name \in Range(rule["process_path_regex"])

\* What a rule does with the connections it matches.
Effect(rule) == IF rule["action"] = "route" THEN rule["outbound"] ELSE rule["action"]

\* The first rule that matches decides, and the default when none does.
Verdict(rules, default, c) ==
    LET matching == {i \in DOMAIN rules : RuleMatches(rules[i], c)}
    IN  IF matching = {} THEN default ELSE Effect(rules[Min(matching)])
Decide(config, c) == Verdict(config.route["rules"], config.route["final"], c)

-----------------------------------------------------------------------------
(* Properties *)

\* The helper accepts every configuration the application seals: no connection
\* dies at the elevation boundary, whatever was imported and asked for, and
\* every exit it could restart with is there (validate_tun_config_for_upstream
\* against generate_config and combine_configs).
GeneratedIsAccepted ==
    /\ stage # "rejected"
    /\ stage = "accepted" /\ Switches(sealed) =>
        \A i \in 1..Len(exits) - 1 : RestartTarget(sealed, i) # NoConfig

Leaves(d) == d \in {"direct", "selected", "candidate"}
UserTraffic == {c \in Connections : c.inbound \notin {"health-in", "candidate-in"}}
FirstAction(rows, places) == IF places = {} THEN "none" ELSE rows[Min(places)].action
FirstRule(rules, c) ==
    FirstAction(rules, {i \in DOMAIN rules : rules[i].network = c.network /\ rules[i].port = c.port})
AppAction(by, c) ==
    LET apps == request.policy.apps
    IN FirstAction(apps, {i \in DOMAIN apps :
            apps[i].by = by /\ IF by = "path" THEN apps[i].path = c.path ELSE apps[i].name = c.name})

\* Probes prove the exit they name and nothing else.
ProbesStay(config) ==
    \A c \in Connections :
        /\ c.inbound = "health-in" => Decide(config, c) = "selected"
        /\ c.inbound = "candidate-in" /\ Switches(config) => Decide(config, c) = "candidate"

\* No application or LAN rule lets out what was forbidden.
NothingForbiddenLeaves(config) ==
    \A c \in UserTraffic :
        /\ ~request.policy.ipv6 /\ c.ipv6 => ~Leaves(Decide(config, c))
        /\ request.mode.kind = "tun" /\ c.inbound = "tun-in" =>
            /\ c.own \/ c.port = 53 => ~Leaves(Decide(config, c))
            /\ FirstRule(request.mode.rules, c) = "block" => ~Leaves(Decide(config, c))

\* A path names an application better than its file name, in whatever order
\* the user entered them; private networks and the default come last.
ApplicationsGoWhereSaid(config) ==
    \A c \in UserTraffic :
        LET d == Decide(config, c)
            byPath == AppAction("path", c)
            byName == AppAction("name", c)
        IN  Leaves(d) /\ (request.mode.kind # "tun" \/ c.inbound # "tun-in"
                           \/ FirstRule(request.mode.rules, c) = "none") =>
            d = OutboundOf(CASE byPath # "none" -> byPath
                             [] byPath = "none" /\ byName # "none" -> byName
                             [] byPath = "none" /\ byName = "none" ->
                                    IF c.private /\ request.policy.lan = "direct" THEN "direct"
                                    ELSE request.policy.default)

\* The engine of a session, restarted or not, sends every connection where the
\* user's routing says, and a probe nowhere but through the exit it is to prove
\* (generate_config's rule order, combine_configs' insertion).
TrafficFollowsPolicy ==
    stage = "running" =>
        /\ ProbesStay(launched) /\ NothingForbiddenLeaves(launched)
        /\ ApplicationsGoWhereSaid(launched)

\* What the source of a server asked for, read from its own fields.
Asked(format, e) ==
    LET q == e.q
        secured == CASE format = "link" -> e.type # "vless" \/ Security(q) # "none"
                     [] format = "json" -> Enabled(q, "tls", "tls.enabled")
                     [] format = "clash" -> e.type # "vless" \/ IsTrue(q, "tls")
                                            \/ "reality-opts" \in DOMAIN q
    IN  [tls |-> secured,
         reality |-> IF \/ Given(q, {"pbk", "sid", "spx", "reality-opts"})
                        \/ RealityEnabled(q)
                     THEN Field(q, "sid", Field(q, "reality-opts.short-id",
                                                Field(q, "tls.reality.short_id", "empty")))
                     ELSE "",
         insecure |-> secured /\ \/ IsTrue(q, "insecure") \/ IsTrue(q, "tls.insecure")
                                 \/ IsTrue(q, "skip-cert-verify"),
         pins |-> Given(q, {"tls.certificate_public_key_sha256", "pinSHA256"}),
         ech |-> "ech" \in DOMAIN q \/ (EchEnabled(q) /\ "tls.ech.config" \in DOMAIN q),
         obfs |-> Filled(q, "obfs") # "",
         vision |-> Filled(q, "flow") # ""]

\* What the engines of a session were told about its k-th exit.  A bridged one
\* is what the sidecar does with the port the engine hands it to.
XrayExit(port) ==
    LET in == CHOOSE i \in DOMAIN xray.inbounds : xray.inbounds[i].port = port
        routed == {i \in DOMAIN xray.rules : xray.rules[i].inbound = xray.inbounds[in].tag}
    IN IF routed = {} THEN xray.outbounds[1]
       ELSE First(xray.outbounds, xray.rules[Min(routed)].outbound)

Told(k) ==
    LET o == sealed.outbounds[IF Switches(sealed) THEN k + 3 ELSE 1]
    IN  IF o["type"] # "socks"
        THEN [tls |-> "tls.enabled" \in DOMAIN o, reality |-> Field(o, "tls.reality.short_id", ""),
              insecure |-> "tls.insecure" \in DOMAIN o,
              pins |-> "tls.certificate_public_key_sha256" \in DOMAIN o,
              ech |-> "tls.ech.config" \in DOMAIN o,
              obfs |-> "obfs.password" \in DOMAIN o, vision |-> "flow" \in DOMAIN o]
        ELSE [tls |-> TRUE, reality |-> XrayExit(o["bridge_port"])["shortId"], insecure |-> FALSE,
              pins |-> FALSE, ech |-> FALSE, obfs |-> FALSE,
              vision |-> "flow" \in DOMAIN XrayExit(o["bridge_port"])]

AcceptedEntries ==
    Picked(text.entries, {i \in DOMAIN text.entries : Parse(Detected(text), text.entries[i]) # Rejected})

\* No engine is ever told less, or other, about the security of a server than
\* the subscription said: a field that cannot be honoured refuses the server
\* (strict_query, strict_keys, the TLS and REALITY checks of the parsers, the
\* generators and the sidecar).
ImportKeepsSecurity ==
    stage = "generated" =>
        \A k \in DOMAIN exits :
            Told(k) = Asked(Detected(text), AcceptedEntries[exits[k].server])
=============================================================================
