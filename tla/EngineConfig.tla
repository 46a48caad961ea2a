----------------------------- MODULE EngineConfig -----------------------------
(***************************************************************************)
(* The configurations RouteDeck gives its engines: the one sing-box reads  *)
(* (config.rs), with the checks its generator makes of its own work, the   *)
(* one Xray reads for a VLESS REALITY server (xray_config.rs), and the     *)
(* library of exits a TUN session can switch between (server_switch.rs,    *)
(* server_switch_application.rs).                                          *)
(*                                                                         *)
(* A JSON object with optional fields is a function from the names of the  *)
(* fields it has; the fields of a nested object have dotted names.         *)
(***************************************************************************)
EXTENDS NodeImport

CONSTANTS
    MaxTrafficRules,    \* 32
    MaxAppRules,        \* MAX_APP_RULES
    NodeTags            \* node_tag: the name of every exit of a session

\* A limit is a count (MAX_APP_RULES).
ASSUME LimitsAssumption == MaxAppRules \in Nat

NoConfig == [error |-> TRUE]

\* A field that is there only when its value is.
Opt(k, v) == IF v = "" THEN <<>> ELSE k :> v
When(b, f) == IF b THEN f ELSE <<>>

-----------------------------------------------------------------------------
(* Requests *)

NoUpstream == [alias |-> "", dns |-> ""]
NoApproval == <<>>

\* validated_tun_interface_alias and the DNS server of the physical network.
UpstreamFits(u) == u.alias \notin {"", "bad", "RouteDeck"} /\ u.dns # "bad"

Private(address, family) == address.family = family /\ address.private
\* canonical_tun_prefix: the host part of an address is masked out.
CanonicalPrefix(address) == [family |-> address.family, net |-> address.net]

TrafficRulesFit(rules) ==
    Len(rules) <= MaxTrafficRules /\ \A i \in DOMAIN rules : rules[i].port \notin {0, 53}

\* RoutePolicy::validate: one rule per path and one per file name.
PolicyFits(policy) ==
    /\ Len(policy.apps) <= MaxAppRules
    /\ \A i \in DOMAIN policy.apps :
        /\ policy.apps[i].path # "bad"
        /\ policy.apps[i].by = "name" => policy.apps[i].name # "bad"
    /\ \A i, j \in DOMAIN policy.apps :
        LET a == policy.apps[i]  b == policy.apps[j]
        IN (a.by = b.by /\ IF a.by = "path" THEN a.path = b.path ELSE a.name = b.name) => i = j

Ports(r) == <<r.http, r.socks, r.health>>

RequestFits(r) ==
    /\ RequiresInsecureApproval(r.node) => r.approval = Approval(r.node)
    /\ 0 \notin Range(Ports(r)) /\ IsInjective(Ports(r))
    /\ PolicyFits(r.policy)
    /\ r.mode.kind = "local" =>
        r.policy.default = "vpn" /\ r.policy.apps = <<>> /\ r.policy.lan = "follow"
    /\ IF r.mode.kind = "tun"
       THEN /\ r.upstream # NoUpstream /\ UpstreamFits(r.upstream)
            /\ Private(r.mode.ipv4, 4) /\ TrafficRulesFit(r.mode.rules)
            /\ r.policy.ipv6 => Private(r.mode.ipv6, 6)
       ELSE r.upstream = NoUpstream
    /\ r.vpn_dns # "bad"

-----------------------------------------------------------------------------
(* The exit of a node *)

TlsValue(t) ==
    ("tls.enabled" :> "true") @@ Opt("tls.server_name", t.sni)
    @@ When(t.insecure, "tls.insecure" :> "true") @@ Opt("tls.alpn", t.alpn)
    @@ Opt("tls.certificate_public_key_sha256", t.pins) @@ Opt("tls.utls.fingerprint", t.utls)
    @@ When(t.reality # "", ("tls.reality.public_key" :> t.reality) @@ ("tls.reality.short_id" :> t.sid))
    @@ Opt("tls.ech.config", t.ech)

TransportValue(t) ==
    When(t.type # "tcp", "transport.type" :> t.type) @@ Opt("transport.path", t.path)
    @@ Opt("transport.headers.Host", t.host) @@ Opt("transport.service_name", t.service)

Outbound(type) == ("type" :> type) @@ ("tag" :> "selected")

VlessOutbound(n) ==
    Outbound("vless") @@ ("server" :> n.server) @@ ("server_port" :> n.port) @@ ("uuid" :> n.user)
    @@ Opt("flow", n.flow) @@ Opt("packet_encoding", n.packet) @@ TransportValue(n.transport)
    @@ When(n.tls.enabled, TlsValue(n.tls))

HysteriaOutbound(n) ==
    Outbound("hysteria2") @@ ("server" :> n.server) @@ ("password" :> n.user)
    @@ Opt("server_port", n.port) @@ Opt("server_ports", n.ports) @@ Opt("hop_interval", n.hop)
    @@ When(n.obfs # "", ("obfs.type" :> "salamander") @@ ("obfs.password" :> n.obfs))
    @@ TlsValue(n.tls)

NaiveOutbound(n, udp_over_tcp) ==
    Outbound("naive") @@ ("server" :> n.server) @@ ("server_port" :> n.port)
    @@ When(n.pass # "", ("username" :> n.user) @@ ("password" :> n.pass))
    @@ Opt("extra_headers", n.headers) @@ When(n.quic, "quic" :> "true") @@ TlsValue(n.tls)
    @@ When(udp_over_tcp, ("udp_over_tcp.enabled" :> "true") @@ ("udp_over_tcp.version" :> "2"))

\* Slip: the certificate pins of a Hysteria2 server stay behind.
PinlessOutbound(n, udp_over_tcp) ==
    CASE n.kind = "vless" -> VlessOutbound(n)
      [] n.kind = "hysteria2" ->
            HysteriaOutbound([n EXCEPT !.tls.pins = ""])
      [] n.kind = "naive" -> NaiveOutbound(n, udp_over_tcp)

SelectedOutbound(n, udp_over_tcp) ==
    CASE n.kind = "vless" -> VlessOutbound(n)
      [] n.kind = "hysteria2" -> HysteriaOutbound(n)
      [] n.kind = "naive" -> NaiveOutbound(n, udp_over_tcp)

Loopback == "127.0.0.1"
SocksBridge(port) ==
    Outbound("socks") @@ ("server" :> Loopback) @@ ("bridge_port" :> port) @@ ("version" :> "5")

-----------------------------------------------------------------------------
(* Rules, in the order sing-box tries them *)

RouteTo(outbound) == ("action" :> "route") @@ ("outbound" :> outbound)
Reject == "action" :> "reject"
OnInbound(tag) == "inbound" :> <<tag>>

HealthRule == OnInbound("health-in") @@ RouteTo("selected")
TunDnsHijackRule ==
    OnInbound("tun-in") @@ ("network" :> <<"tcp", "udp">>) @@ ("port" :> 53)
    @@ ("action" :> "hijack-dns")
OwnPrefixGuard(prefixes) ==
    OnInbound("tun-in") @@ ("ip_cidr" :> prefixes) @@ Reject @@ ("method" :> "drop")
Ipv6Guard == ("ip_version" :> 6) @@ Reject
LanRule == ("ip_is_private" :> "true") @@ RouteTo("direct")

\* default_outbound, action_outbound
OutboundOf(action) == IF action = "direct" THEN "direct" ELSE "selected"

TrafficRule(t) ==
    OnInbound("tun-in") @@ ("network" :> <<t.network>>) @@ ("port" :> t.port)
    @@ IF t.action = "block" THEN Reject @@ ("method" :> "default") @@ ("no_drop" :> "true")
                             ELSE RouteTo(OutboundOf(t.action))

AppRule(a) ==
    RouteTo(OutboundOf(a.action))
    @@ IF a.by = "path" THEN "process_path" :> <<a.path>> ELSE "process_path_regex" :> <<a.name>>

\* Slip: the rules stay in the order of the rows of the UI.
AppRulesAsListed(apps) == [i \in DOMAIN apps |-> AppRule(apps[i])]

\* sort_by_key is stable: every path rule before every name rule.
AppsBy(apps, by) == Picked(apps, {i \in DOMAIN apps : apps[i].by = by})
SortedApps(apps) == AppsBy(apps, "path") \o AppsBy(apps, "name")
AppRules(apps) == [i \in DOMAIN SortedApps(apps) |-> AppRule(SortedApps(apps)[i])]

LaterRules(r, prefixes) ==
    (IF r.mode.kind = "tun" THEN <<TunDnsHijackRule, OwnPrefixGuard(prefixes)>> ELSE <<>>)
    \o (IF r.policy.ipv6 THEN <<>> ELSE <<Ipv6Guard>>)
    \o (IF r.mode.kind = "tun"
        THEN [i \in DOMAIN r.mode.rules |-> TrafficRule(r.mode.rules[i])] ELSE <<>>)
    \o AppRules(r.policy.apps)
    \o (IF r.policy.lan = "direct" THEN <<LanRule>> ELSE <<>>)
Rules(r, prefixes) == <<HealthRule>> \o LaterRules(r, prefixes)

-----------------------------------------------------------------------------
(* generate_config_with_selected *)

TunAddresses(r) == <<r.mode.ipv4>> \o (IF r.policy.ipv6 THEN <<r.mode.ipv6>> ELSE <<>>)
OwnPrefixes(r) == [i \in DOMAIN TunAddresses(r) |-> CanonicalPrefix(TunAddresses(r)[i])]

Listener(type, tag, port) ==
    ("type" :> type) @@ ("tag" :> tag) @@ ("listen" :> Loopback) @@ ("listen_port" :> port)
Authenticated == "users" :> "routedeck-health"

TunInbound(r) ==
    ("type" :> "tun") @@ ("tag" :> "tun-in") @@ ("interface_name" :> "RouteDeck")
    @@ ("address" :> TunAddresses(r)) @@ ("auto_route" :> "true") @@ ("strict_route" :> "true")
    @@ ("stack" :> r.mode.stack)

Inbounds(r) ==
    <<Listener("http", "http-in", r.http), Listener("socks", "socks-in", r.socks),
      Listener("http", "health-in", r.health) @@ Authenticated>>
    \o (IF r.mode.kind = "tun" THEN <<TunInbound(r)>> ELSE <<>>)

BootstrapDns(r, bridged) ==
    ("tag" :> "bootstrap")
    @@ IF r.upstream.dns # ""
       THEN ("type" :> "tcp") @@ ("server" :> r.upstream.dns) @@ ("server_port" :> "53")
            @@ ("bind_interface" :> r.upstream.alias)
       ELSE ("type" :> "local") @@ When(bridged, Opt("bind_interface", r.upstream.alias))

RemoteDns(r) ==
    ("type" :> "https") @@ ("tag" :> "remote-dns") @@ ("server" :> r.vpn_dns)
    @@ ("server_port" :> "443") @@ ("path" :> "ok") @@ ("tls.enabled" :> "true")
    @@ ("tls.server_name" :> "ok") @@ ("detour" :> "selected")

ThroughVpn(r) == r.policy.dns = "vpn"

Root(r, exit, bridged) ==
    [dns |-> [servers |-> <<BootstrapDns(r, bridged)>>
                            \o (IF ThroughVpn(r) THEN <<RemoteDns(r)>> ELSE <<>>),
              final |-> IF ThroughVpn(r) THEN "remote-dns" ELSE "bootstrap"],
     inbounds |-> Inbounds(r),
     outbounds |-> <<exit @@ When(ThroughVpn(r), "domain_resolver" :> "bootstrap"),
                     ("type" :> "direct") @@ ("tag" :> "direct")
                        @@ When(bridged, Opt("bind_interface", r.upstream.alias))>>,
     route |-> ("rules" :> Rules(r, OwnPrefixes(r))) @@ ("final" :> OutboundOf(r.policy.default))
                @@ ("default_domain_resolver" :> "bootstrap")
                @@ When(~bridged, Opt("default_interface", r.upstream.alias))]

Tagged(list, tag) == {i \in DOMAIN list : Field(list[i], "tag", "") = tag}
Has(list, tag) == Tagged(list, tag) # {}
First(list, tag) == list[Min(Tagged(list, tag))]
MentionsHealth(rule) == "health-in" \in Range(Field(rule, "inbound", <<>>))

\* validate_no_direct_health
NoDirectHealth(c) ==
    /\ Has(c.outbounds, "selected") /\ First(c.outbounds, "selected")["type"] \notin {"direct", "block"}
    /\ Has(c.inbounds, "health-in") /\ "users" \in DOMAIN First(c.inbounds, "health-in")
    /\ First(c.inbounds, "health-in")["listen"] = Loopback
    /\ c.route["rules"] # <<>>
    /\ LET first == Head(c.route["rules"])
       IN MentionsHealth(first) /\ first["action"] = "route" /\ Field(first, "outbound", "") = "selected"
    /\ \A i \in 2..Len(c.route["rules"]) : ~MentionsHealth(c.route["rules"][i])

\* validate_tun_dns_hijack, validate_tun_own_prefix_guard
DnsHijacked(c) == Len(c.route["rules"]) >= 2 /\ c.route["rules"][2] = TunDnsHijackRule
OwnPrefixesGuarded(c, prefixes) ==
    /\ Has(c.inbounds, "tun-in")
    /\ LET addresses == First(c.inbounds, "tun-in")["address"]
       IN [i \in DOMAIN addresses |-> CanonicalPrefix(addresses[i])] = prefixes
    /\ DnsHijacked(c)
    /\ Len(c.route["rules"]) >= 3
    /\ LET guard == c.route["rules"][3]
       IN /\ Field(guard, "inbound", <<>>) = <<"tun-in">> /\ Field(guard, "ip_cidr", <<>>) = prefixes
          /\ guard["action"] = "reject" /\ Field(guard, "method", "") = "drop"
          /\ "outbound" \notin DOMAIN guard

\* validate_tun_upstream_binding
UpstreamBound(c, alias, bridged) ==
    LET selected == First(c.outbounds, "selected")
        direct == First(c.outbounds, "direct")
        bootstrap == First(c.dns.servers, "bootstrap")
        bound(o) == Field(o, "bind_interface", "")
    IN  /\ bound(selected) = ""
        /\ IF bridged
           THEN /\ selected["type"] = "socks" /\ selected["server"] = Loopback
                /\ "default_interface" \notin DOMAIN c.route
                /\ bound(direct) = alias /\ bound(bootstrap) = alias
           ELSE /\ Field(c.route, "default_interface", "") = alias /\ bound(direct) = ""
                /\ bound(bootstrap) = "" \/ (bootstrap["type"] = "tcp" /\ bound(bootstrap) = alias)

Generated(r, exit, bridged) ==
    LET c == Root(r, exit, bridged)
    IN  IF /\ RequestFits(r) /\ (ThroughVpn(r) => r.vpn_dns # "")
           /\ NoDirectHealth(c)
           /\ r.mode.kind = "tun" =>
                OwnPrefixesGuarded(c, OwnPrefixes(r)) /\ UpstreamBound(c, r.upstream.alias, bridged)
        THEN c ELSE NoConfig

\* generate_config, and generate_socks_bridge_config for a REALITY server.
IsReality(n) == n.kind = "vless" /\ n.tls.reality # ""
Generate(r) == Generated(r, SelectedOutbound(r.node, r.udp_over_tcp), FALSE)
GenerateBridge(r, port) ==
    IF IsReality(r.node) /\ port # 0 THEN Generated(r, SocksBridge(port), TRUE) ELSE NoConfig

-----------------------------------------------------------------------------
(* generate_xray_bridge_config *)

XrayFits(n, port, upstream) ==
    /\ port # 0 /\ (upstream = NoUpstream \/ UpstreamFits(upstream))
    /\ IsReality(n) /\ n.tls.enabled
    /\ ~n.tls.insecure /\ {n.tls.alpn, n.tls.pins, n.tls.ech} = {""}

XrayOutbound(n, upstream) ==
    ("type" :> "vless") @@ ("tag" :> "selected") @@ ("server" :> n.server) @@ ("port" :> n.port)
    @@ ("id" :> n.user) @@ Opt("flow", n.flow) @@ Opt("packetEncoding", n.packet)
    @@ ("security" :> "reality")
    @@ ("serverName" :> IF n.tls.sni = "" THEN n.server ELSE n.tls.sni)
    @@ ("fingerprint" :> IF n.tls.utls = "" THEN "chrome" ELSE n.tls.utls)
    @@ ("publicKey" :> n.tls.reality) @@ ("shortId" :> n.tls.sid) @@ ("spiderX" :> n.tls.spider)
    @@ ("network" :> IF n.transport.type = "tcp" THEN "raw" ELSE n.transport.type)
    @@ Opt("path", n.transport.path) @@ Opt("Host", n.transport.host)
    @@ Opt("serviceName", n.transport.service) @@ Opt("interface", upstream.alias)

XrayConfig(n, port, upstream) ==
    IF XrayFits(n, port, upstream)
    THEN [inbounds |-> <<[port |-> port, tag |-> "bridge-in"]>>,
          outbounds |-> <<XrayOutbound(n, upstream)>>, rules |-> <<>>]
    ELSE NoConfig

-----------------------------------------------------------------------------
(* The exits of a TUN session *)

NodeTag(i) == NodeTags[i]
Tags(n) == [i \in 1..n |-> NodeTag(i)]
Selector(tag, n) ==
    ("type" :> "selector") @@ ("tag" :> tag) @@ ("outbounds" :> Tags(n)) @@ ("default" :> NodeTag(1))

BoundDirect(alias) == ("type" :> "direct") @@ ("tag" :> "direct") @@ ("bind_interface" :> alias)
CandidateRule == OnInbound("candidate-in") @@ RouteTo("candidate")
CandidateInbound(port) == Listener("http", "candidate-in", port) @@ Authenticated

\* The exit of a single-server configuration, bound unless it is a bridge.
BoundExit(c, i, alias) ==
    (("tag" :> NodeTag(i)) @@ c.outbounds[1])
    @@ When(c.outbounds[1]["type"] # "socks", "bind_interface" :> alias)
\* `@@` keeps the value on its left.
Retag(o, tag) == ("tag" :> tag) @@ o
Without(f, k) == Restrict(f, DOMAIN f \ {k})
BindDns(c, alias) ==
    [c EXCEPT !.dns.servers[1] = ("bind_interface" :> alias) @@ @]

\* The rule of the candidate comes after that of the health check.
Inserted(rules, rule) == <<Head(rules), rule>> \o Tail(rules)

\* combine_configs: everything but the exits is taken from the first.
CombineConfigs(configs, control, candidate, alias) ==
    LET base == BindDns(configs[1], alias)
        n == Len(configs)
    IN  [dns |-> base.dns,
         inbounds |-> Append(base.inbounds, CandidateInbound(candidate)),
         outbounds |-> <<Selector("selected", n), Selector("candidate", n), BoundDirect(alias)>>
                        \o [i \in 1..n |-> BoundExit(configs[i], i, alias)],
         route |-> ("rules" :> Inserted(base.route["rules"], CandidateRule))
                    @@ Without(base.route, "default_interface"),
         control |-> control]

\* prepare_switchable_tun: the selected server first, then the library in its
\* order; a server no configuration can be made for is left out.
SwitchOrder(library, selected) ==
    [k \in DOMAIN library |-> IF k = 1 THEN selected ELSE IF k <= selected THEN k - 1 ELSE k]

ExitConfig(r, n, port) ==
    LET q == [r EXCEPT !.node = n]
    IN  IF ~IsReality(n) THEN Generate(q)
        ELSE IF XrayConfig(n, port, r.upstream) = NoConfig THEN NoConfig
        ELSE GenerateBridge(q, port)

\* Every bridge has a port of its own, after the five listeners.
BridgePort(i) == 10 + i
Exit(r, library, i, port) ==
    [server |-> i, node |-> library[i], port |-> port, config |-> ExitConfig(r, library[i], port)]
Exits(r, library, selected) ==
    LET all == [k \in DOMAIN library |->
                    Exit(r, library, SwitchOrder(library, selected)[k], BridgePort(k))]
    IN Picked(all, {k \in DOMAIN all : all[k].config # NoConfig})

SwitchConfig(r, exits, control, candidate) ==
    CombineConfigs([i \in DOMAIN exits |-> exits[i].config], control, candidate, r.upstream.alias)

\* One Xray serves every REALITY exit, by inbound tag.
SwitchXray(r, exits) ==
    LET bridged == Picked([i \in DOMAIN exits |-> <<i, exits[i]>>],
                          {i \in DOMAIN exits : IsReality(exits[i].node)})
    IN  [inbounds |-> [k \in DOMAIN bridged |->
                        [port |-> bridged[k][2].port, tag |-> NodeTag(bridged[k][1])]],
         outbounds |-> [k \in DOMAIN bridged |->
                        Retag(XrayOutbound(bridged[k][2].node, r.upstream), NodeTag(bridged[k][1]))],
         rules |-> [k \in DOMAIN bridged |->
                        [inbound |-> NodeTag(bridged[k][1]), outbound |-> NodeTag(bridged[k][1])]]]
=============================================================================
