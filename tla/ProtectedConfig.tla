---------------------------- MODULE ProtectedConfig ----------------------------
(***************************************************************************)
(* What the elevated helper lets its engine run (tun_helper.rs): the       *)
(* configuration it was handed is taken apart into one configuration per   *)
(* exit (server_switch.rs) and each must be one RouteDeck would have       *)
(* generated, down to the names of its fields.  A restart may only choose  *)
(* another exit of the same configuration.                                 *)
(***************************************************************************)
EXTENDS EngineConfig

CONSTANT MaxSwitchNodes     \* MAX_SWITCH_NODES

\* Every exit has a name of its own (node_tag), and none that RouteDeck uses otherwise.
ASSUME TagsAssumption ==
    /\ MaxSwitchNodes \in Nat /\ NodeTags \in Seq(Range(NodeTags)) /\ Len(NodeTags) >= MaxSwitchNodes
    /\ IsInjective(NodeTags) /\ Range(NodeTags) \cap {"selected", "candidate", "direct"} = {}

-----------------------------------------------------------------------------
(* The closed field graph (validate_generated_config_fields) *)

TlsFields ==
    {"tls.enabled", "tls.insecure", "tls.server_name", "tls.alpn",
     "tls.certificate_public_key_sha256", "tls.utls.fingerprint", "tls.reality.public_key",
     "tls.reality.short_id", "tls.ech.config"}
CommonFields == {"type", "tag", "server", "domain_resolver"}
OutboundFields(type) ==
    CASE type = "direct" -> {"type", "tag", "bind_interface"}
      [] type = "socks" -> CommonFields \cup {"version", "bridge_port"}
      [] type = "vless" ->
            CommonFields \cup TlsFields \cup
            {"uuid", "flow", "packet_encoding", "server_port", "transport.type", "transport.path",
             "transport.headers.Host", "transport.service_name"}
      [] type = "hysteria2" ->
            CommonFields \cup TlsFields \cup
            {"password", "hop_interval", "server_ports", "server_port", "obfs.type",
             "obfs.password"}
      [] type = "naive" ->
            CommonFields \cup TlsFields \cup
            {"username", "password", "quic", "server_port", "extra_headers",
             "udp_over_tcp.enabled", "udp_over_tcp.version"}
      [] OTHER -> {}

OutboundInSchema(o) ==
    /\ o["type"] \in {"direct", "socks", "vless", "hysteria2", "naive"}
    /\ DOMAIN o \subseteq OutboundFields(o["type"])
    /\ Field(o, "server_port", "ok") = "ok" /\ Field(o, "bridge_port", 1) > 0
    /\ Field(o, "obfs.type", "salamander") = "salamander"
    /\ Field(o, "udp_over_tcp.enabled", "true") = "true"
    /\ Field(o, "udp_over_tcp.version", "2") = "2"
    /\ CASE Field(o, "transport.type", "") = "ws" -> "transport.service_name" \notin DOMAIN o
         [] Field(o, "transport.type", "") = "grpc" ->
                DOMAIN o \cap {"transport.path", "transport.headers.Host"} = {}
         [] OTHER -> Field(o, "transport.type", "") = ""

DnsInSchema(server) ==
    CASE Field(server, "tag", "") = "bootstrap" ->
            /\ DOMAIN server \subseteq {"type", "tag", "bind_interface", "server", "server_port"}
            /\ server["type"] \in {"local", "tcp"}
      [] Field(server, "tag", "") = "remote-dns" ->
            /\ DOMAIN server \subseteq {"type", "tag", "server", "path", "detour", "server_port"}
                                       \cup TlsFields
            /\ server["type"] = "https"
      [] OTHER -> FALSE

InboundInSchema(i) ==
    CASE i["type"] = "tun" ->
            DOMAIN i \subseteq {"type", "tag", "interface_name", "stack", "auto_route",
                                "strict_route", "address"}
      [] i["type"] \in {"http", "socks"} ->
            /\ DOMAIN i \subseteq {"type", "tag", "listen", "listen_port", "users"}
            /\ i["listen_port"] > 0
      [] OTHER -> FALSE

RuleInSchema(rule) ==
    CASE rule["action"] = "route" ->
            DOMAIN rule \subseteq {"action", "outbound", "ip_is_private", "inbound", "process_path",
                                   "process_path_regex", "network", "port"}
      [] rule["action"] = "hijack-dns" ->
            DOMAIN rule \subseteq {"action", "inbound", "network", "port"}
      [] rule["action"] = "reject" ->
            /\ DOMAIN rule \subseteq {"action", "method", "no_drop", "inbound", "ip_cidr", "network",
                                      "port", "ip_version"}
            /\ Field(rule, "method", "drop") \in {"drop", "default"}
            /\ Field(rule, "ip_version", 6) = 6
      [] OTHER -> FALSE

FieldsInSchema(c) ==
    /\ DOMAIN c = {"dns", "inbounds", "outbounds", "route"}
    /\ \A i \in DOMAIN c.dns.servers : DnsInSchema(c.dns.servers[i])
    /\ \A i \in DOMAIN c.inbounds : InboundInSchema(c.inbounds[i])
    /\ \A i \in DOMAIN c.outbounds : OutboundInSchema(c.outbounds[i])
    /\ DOMAIN c.route \subseteq {"final", "default_domain_resolver", "default_interface", "rules"}
    /\ \A i \in DOMAIN c.route["rules"] : RuleInSchema(c.route["rules"][i])

-----------------------------------------------------------------------------
(* validate_tun_config_for_upstream, for one exit *)

TunInbounds(c) == {i \in DOMAIN c.inbounds : c.inbounds[i]["type"] = "tun"}
TheTun(c) == c.inbounds[CHOOSE i \in TunInbounds(c) : TRUE]
Families(c) == {a.family : a \in Range(TheTun(c)["address"])}

InboundsAccepted(c) ==
    /\ c.inbounds # <<>> /\ Len(c.inbounds) <= 8 /\ Cardinality(TunInbounds(c)) = 1
    /\ LET tun == TheTun(c)
       IN /\ tun["tag"] = "tun-in" /\ tun["interface_name"] = "RouteDeck"
          /\ {tun["auto_route"], tun["strict_route"]} = {"true"} /\ tun["stack"] \in {"system", "gvisor"}
          /\ Len(tun["address"]) \in 1..2
    /\ \A i \in DOMAIN c.inbounds :
        c.inbounds[i]["type"] # "tun" => c.inbounds[i]["listen"] = Loopback

ExpectedPrefixes(c) ==
    LET addresses == TheTun(c)["address"]
    IN [i \in DOMAIN addresses |-> CanonicalPrefix(addresses[i])]

BootstrapAccepted(bootstrap, alias, dns) ==
    IF dns = "" THEN bootstrap["type"] = "local"
    ELSE /\ bootstrap["type"] = "tcp" /\ Field(bootstrap, "server", "") = dns
         /\ Field(bootstrap, "server_port", "") = "53"
         /\ Field(bootstrap, "bind_interface", "") = alias

UpstreamAccepted(c, alias, dns) ==
    LET selected == First(c.outbounds, "selected")
        direct == First(c.outbounds, "direct")
        bootstrap == First(c.dns.servers, "bootstrap")
        bound(o) == Field(o, "bind_interface", "")
    IN  /\ Len(c.outbounds) = 2 /\ Has(c.outbounds, "selected") /\ Has(c.outbounds, "direct")
        /\ direct["type"] = "direct" /\ Has(c.dns.servers, "bootstrap")
        /\ BootstrapAccepted(bootstrap, alias, dns) /\ bound(selected) = ""
        /\ IF selected["type"] = "socks"
           THEN /\ "default_interface" \notin DOMAIN c.route /\ selected["server"] = Loopback
                /\ bound(direct) = alias /\ (dns # "" \/ bound(bootstrap) = alias)
           ELSE /\ Field(c.route, "default_interface", "") = alias
                /\ bound(direct) = "" /\ (dns # "" \/ bound(bootstrap) = "")

\* validate_tun_traffic_rules: the three fixed rules, the guard of a session
\* without IPv6, then only traffic rules, application rules and the LAN rule.
IsTrafficRule(rule) ==
    /\ Len(Field(rule, "network", <<>>)) = 1 /\ rule["network"][1] \in {"tcp", "udp"}
    /\ Field(rule, "port", 0) \notin {0, 53}
    /\ \E action \in {"block", "direct", "vpn"} :
        rule = TrafficRule([network |-> rule["network"][1], port |-> rule["port"],
                            action |-> action])
IsAppRule(rule) ==
    /\ Cardinality(DOMAIN rule) = 3 /\ rule["action"] = "route"
    /\ Field(rule, "outbound", "") \in {"direct", "selected"}
    /\ LET paths == Field(rule, "process_path_regex", Field(rule, "process_path", <<>>))
       IN Len(paths) = 1 /\ paths[1] # "bad"
Candidate(rule) == DOMAIN rule \cap {"port", "network"} # {}
NamesProcess(rule) == DOMAIN rule \cap {"process_path", "process_path_regex"} # {}

RulesAccepted(c) ==
    LET rules == c.route["rules"]
        from == IF 6 \in Families(c) THEN 4 ELSE 5
    IN  /\ Len(rules) >= 3 /\ Field(c.route, "final", "") \in {"direct", "selected"}
        /\ Field(c.route, "default_domain_resolver", "") = "bootstrap"
        /\ (6 \notin Families(c)) <=> (Len(rules) >= 4 /\ rules[4] = Ipv6Guard)
        /\ \E t \in from..Len(rules) + 1, a \in from..Len(rules) + 1 :
            /\ t <= a /\ t - from <= MaxTrafficRules /\ a - t <= MaxAppRules
            /\ \A i \in from..t - 1 : Candidate(rules[i]) /\ IsTrafficRule(rules[i])
            /\ \A i \in t..a - 1 :
                ~Candidate(rules[i]) /\ NamesProcess(rules[i]) /\ IsAppRule(rules[i])
            /\ \/ a = Len(rules) + 1
               \/ a = Len(rules) /\ rules[a] = LanRule

SingleAccepted(c, alias, dns) ==
    /\ FieldsInSchema(c) /\ InboundsAccepted(c) /\ UpstreamAccepted(c, alias, dns)
    /\ DnsHijacked(c) /\ OwnPrefixesGuarded(c, ExpectedPrefixes(c)) /\ RulesAccepted(c)

-----------------------------------------------------------------------------
(* split_config and single_config *)

Switches(c) == "control" \in DOMAIN c
ExitCount(c) == Len(c.outbounds) - 3
Listeners(c) == {i \in DOMAIN c.inbounds : c.inbounds[i]["type"] # "tun"}
Bridges(c) == {i \in 4..Len(c.outbounds) : c.outbounds[i]["type"] = "socks"}

\* Nothing listens on the port of another: the core's control, the inbounds, the bridges.
PortsApart(c) ==
    LET listen(i) == c.inbounds[i]["listen_port"]
        bridge(i) == c.outbounds[i]["bridge_port"]
    IN  /\ \A i, k \in Listeners(c) : listen(i) = listen(k) => i = k
        /\ \A i, k \in Bridges(c) : bridge(i) = bridge(k) => i = k
        /\ \A i \in Listeners(c) : listen(i) # c.control.port
        /\ \A k \in Bridges(c) : bridge(k) # c.control.port /\ \A i \in Listeners(c) : listen(i) # bridge(k)

ExitAccepted(o, i, alias) ==
    /\ o["tag"] = NodeTag(i) /\ o["type"] \in {"vless", "hysteria2", "naive", "socks"}
    /\ IF o["type"] = "socks" THEN "bind_interface" \notin DOMAIN o
                              ELSE Field(o, "bind_interface", "") = alias

SplitAccepted(c, alias) ==
    LET n == ExitCount(c)
    IN  /\ c.control.port # 0 /\ c.control.secret = "ok"
        /\ n \in 1..MaxSwitchNodes
        /\ c.outbounds[1] = Selector("selected", n) /\ c.outbounds[2] = Selector("candidate", n)
        /\ c.outbounds[3] = BoundDirect(alias)
        /\ "default_interface" \notin DOMAIN c.route
        /\ Field(c.dns.servers[1], "bind_interface", "") = alias
        /\ Len(c.inbounds) = 5 /\ Has(c.inbounds, "health-in")
        /\ c.inbounds[5]["listen_port"] > 0
        /\ PortsApart(c)
        /\ c.inbounds[5] = CandidateInbound(c.inbounds[5]["listen_port"])
        /\ Len(c.route["rules"]) >= 2 /\ c.route["rules"][2] = CandidateRule
        /\ \A i \in 1..n : ExitAccepted(c.outbounds[i + 3], i, alias)

SingleConfigWith(dns, c, i, alias) ==
    LET o == c.outbounds[i + 3]
        bridged == o["type"] = "socks"
    IN  [dns |-> dns,
         inbounds |-> SubSeq(c.inbounds, 1, 4),
         outbounds |-> <<Retag(Without(o, "bind_interface"), "selected"),
                         ("type" :> "direct") @@ ("tag" :> "direct")
                            @@ When(bridged, "bind_interface" :> alias)>>,
         route |-> ("rules" :> <<Head(c.route["rules"])>> \o Tail(Tail(c.route["rules"]))) @@ c.route
                    @@ When(~bridged, "default_interface" :> alias)]

\* Slip: the DNS binding of the whole session is left on for a native exit.
SingleConfigBoundDns(c, i, alias) == SingleConfigWith(c.dns, c, i, alias)

\* The configuration of exit i alone; what split_config took out is put back.
SingleConfig(c, i, alias) ==
    LET native == c.outbounds[i + 3]["type"] # "socks"
        local == c.dns.servers[1]["type"] = "local"
    IN  SingleConfigWith(IF native /\ local
                         THEN [c.dns EXCEPT !.servers[1] = Without(@, "bind_interface")] ELSE c.dns,
                         c, i, alias)

\* validate_tun_config_for_upstream
Accepted(c, alias, dns) ==
    IF Switches(c)
    THEN /\ SplitAccepted(c, alias)
         /\ \A i \in 1..ExitCount(c) :
            NoDirectHealth(SingleConfig(c, i, alias)) /\ SingleAccepted(SingleConfig(c, i, alias), alias, dns)
    ELSE SingleAccepted(c, alias, dns)

\* restart_target_config: index 0 is the configuration as it was sealed.
RestartTarget(c, index) ==
    IF index = 0 THEN c
    ELSE IF ~Switches(c) \/ index >= ExitCount(c) THEN NoConfig
    ELSE [c EXCEPT !.outbounds[1] = ("default" :> NodeTag(index + 1)) @@ @]
=============================================================================
