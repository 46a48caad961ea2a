--------------------------- MODULE MCProvisioning ---------------------------
(***************************************************************************)
(* Provisioning on two families of scenarios: one server written in every  *)
(* way a format has, three departures from the plain form at a time, for a *)
(* fixed connection; and fixed libraries for every routing policy, mode    *)
(* and DNS setting.                                                        *)
(***************************************************************************)
EXTENDS Provisioning

MCNodeTags == <<"node-0", "node-1", "node-2">>

-----------------------------------------------------------------------------
(* Entries: a plain form, and the departures from it *)

Set(k, values) == {k :> v : v \in values}
Security3 ==
    {("security" :> "tls"), ("security" :> "reality") @@ ("pbk" :> "ok"), "security" :> "bad"}
LinkCommon ==
    Set("sni", {"ok", "bad"}) \cup Set("insecure", {"true", "yes"}) \cup Set("alpn", {"ok"})
    \cup Set("fp", {"ok"}) \cup Set("frag", {"empty", "bad"}) \cup Set("urlPath", {"ok"})
    \cup Set("unknown", {"ok"}) \cup Set("line", {"bad"})
JsonTls(base) ==
    {base, base @@ ("tls.enabled" :> "false"), base @@ ("tls.insecure" :> "true"),
     base @@ ("tls.certificate_public_key_sha256" :> "ok"),
     base @@ ("tls.server_name" :> "ok") @@ ("tls.alpn" :> "ok"),
     base @@ ("tls.utls" :> "ok") @@ ("tls.utls.fingerprint" :> "ok"),
     base @@ ("tls.ech" :> "ok") @@ ("tls.ech.config" :> "ok"),
     base @@ ("tls.ech" :> "ok") @@ ("tls.ech.enabled" :> "false") @@ ("tls.ech.config" :> "ok"),
     base @@ ("tls.reality" :> "ok") @@ ("tls.reality.public_key" :> "ok")
          @@ ("tls.reality.short_id" :> "ok"),
     base @@ ("tls.reality" :> "ok") @@ ("tls.reality.enabled" :> "false")}
Transports(prefix) ==
    {(prefix :> "ok") @@ ((prefix \o ".type") :> "ws"),
     (prefix :> "ok") @@ ((prefix \o ".type") :> "ws") @@ ((prefix \o ".host") :> "ok"),
     (prefix :> "ok") @@ ((prefix \o ".type") :> "grpc") @@ ((prefix \o ".service_name") :> "ok"),
     (prefix :> "ok") @@ ((prefix \o ".type") :> "tcp") @@ ((prefix \o ".path") :> "ok")}

Form(format, type) ==
    CASE format = "link" /\ type = "vless" ->
            [plain |-> ("user" :> "ok") @@ ("host" :> "ok") @@ ("port" :> "ok"),
             more |-> LinkCommon \cup Security3
                \cup Set("flow", {"vision", "bad"}) \cup Set("sid", {"ok"}) \cup Set("spx", {"ok"})
                \cup Set("packetEncoding", {"xudp"}) \cup Set("path", {"ok"})
                \cup {"type" :> "ws", ("type" :> "grpc") @@ ("serviceName" :> "ok")}]
      [] format = "link" /\ type = "hysteria2" ->
            [plain |-> ("user" :> "ok") @@ ("host" :> "ok"),
             more |-> LinkCommon \cup Set("ports", {"ok", "bad"}) \cup Set("port", {"ok"})
                \cup Set("pinSHA256", {"ok"}) \cup Set("ech", {"ok"})
                \cup Set("security", {"tls", "none"}) \cup Set("obfs-password", {"ok"})
                \cup Set("obfs", {"salamander", "empty"})]
      [] format = "link" /\ type = "naive" ->
            [plain |-> ("user" :> "ok") @@ ("pass" :> "ok") @@ ("host" :> "ok"),
             more |-> LinkCommon \cup Set("scheme", {"quic"}) \cup Set("user", {"empty"})
                \cup Set("extra-headers", {"ok", "bad"}) \cup Set("port", {"ok"})]
      [] format = "json" /\ type = "vless" ->
            [plain |-> ("server" :> "ok") @@ ("server_port" :> "ok") @@ ("uuid" :> "ok"),
             more |-> JsonTls("tls" :> "ok") \cup Transports("transport")
                \cup Set("flow", {"vision", "bad"}) \cup Set("packet_encoding", {"xudp"})
                \cup Set("tag", {"empty"}) \cup Set("unknown", {"ok"})]
      [] format = "json" /\ type = "hysteria2" ->
            [plain |-> ("server" :> "ok") @@ ("server_port" :> "ok") @@ ("password" :> "ok")
                       @@ ("tls" :> "ok"),
             more |-> JsonTls("tls" :> "ok")
                \cup {("obfs" :> "ok") @@ ("obfs.type" :> "salamander")
                        @@ ("obfs.password" :> "ok")}
                \cup Set("hop_interval", {"ok", "bad"}) \cup Set("server_ports", {"ok"})
                \cup Set("unknown", {"ok"})]
      [] format = "json" /\ type = "naive" ->
            [plain |-> ("server" :> "ok") @@ ("server_port" :> "ok") @@ ("tls" :> "ok")
                       @@ ("username" :> "ok") @@ ("password" :> "ok"),
             more |-> JsonTls("tls" :> "ok") \cup Set("quic", {"true"})
                \cup Set("extra_headers", {"ok"}) \cup Set("password", {"empty"})]
      [] format = "clash" /\ type = "vless" ->
            [plain |-> ("name" :> "ok") @@ ("server" :> "ok") @@ ("port" :> "ok")
                       @@ ("uuid" :> "ok"),
             more |-> Set("tls", {"true", "false"}) \cup Set("servername", {"ok"})
                \cup Set("skip-cert-verify", {"true"}) \cup Set("alpn", {"ok"})
                \cup Set("client-fingerprint", {"ok"})
                \cup {("reality-opts" :> "ok") @@ ("reality-opts.public-key" :> "ok"),
                      ("reality-opts" :> "ok") @@ ("reality-opts.public-key" :> "ok")
                        @@ ("reality-opts.short-id" :> "ok"),
                      ("network" :> "ws") @@ ("ws-opts" :> "ok") @@ ("ws-opts.host" :> "ok"),
                      ("network" :> "grpc") @@ ("grpc-opts" :> "ok")}
                \cup Set("flow", {"vision", "bad"}) \cup Set("packet-encoding", {"packetaddr"})
                \cup Set("unknown", {"ok"})]
      [] format = "clash" /\ type = "hysteria2" ->
            [plain |-> ("name" :> "ok") @@ ("server" :> "ok") @@ ("password" :> "ok")
                       @@ ("port" :> "ok"),
             more |-> Set("ports", {"ok"}) \cup Set("sni", {"ok"}) \cup Set("alpn", {"ok"})
                \cup Set("skip-cert-verify", {"true"}) \cup Set("hop-interval", {"ok"})
                \cup Set("obfs", {"salamander", "empty"}) \cup Set("obfs-password", {"ok"})
                \cup Set("unknown", {"ok"})]

Kinds ==
    {<<"link", "vless">>, <<"link", "hysteria2">>, <<"link", "naive">>, <<"json", "vless">>,
     <<"json", "hysteria2">>, <<"json", "naive">>, <<"clash", "vless">>, <<"clash", "hysteria2">>}
Written(kind) ==
    LET form == Form(kind[1], kind[2])
    IN {form.plain} \cup {a @@ b @@ c @@ form.plain : a, b, c \in form.more}

Text(format, entries) ==
    [braces |-> format = "json", proxies |-> format = "clash", links |-> format = "link",
     decodes |-> format = "base64", entries |-> entries]

-----------------------------------------------------------------------------
(* Requests *)

App(by, path, name, action) == [by |-> by, path |-> path, name |-> name, action |-> action]
Rule(network, port, action) == [network |-> network, port |-> port, action |-> action]
Address(family, net) == [family |-> family, net |-> net, private |-> TRUE, host |-> "1"]
Policy(default, apps, lan, ipv6, dns) ==
    [default |-> default, apps |-> apps, lan |-> lan, ipv6 |-> ipv6, dns |-> dns]
Mode(kind, stack, rules) ==
    [kind |-> kind, stack |-> stack, rules |-> rules, ipv4 |-> Address(4, "tun4"),
     ipv6 |-> Address(6, "tun6")]
PhysicalNetwork(dns) == [alias |-> "Ethernet", dns |-> dns]
Request(policy, mode, upstream) ==
    [policy |-> policy, mode |-> mode, http |-> 1, socks |-> 2, health |-> 3,
     upstream |-> upstream, udp_over_tcp |-> FALSE,
     vpn_dns |-> IF policy.dns = "vpn" THEN "ok" ELSE ""]

Plain == Policy("vpn", <<>>, "direct", TRUE, "current")
TunRequest(dns) == Request(Plain, Mode("tun", "system", <<>>), PhysicalNetwork(dns))

\* One request of the application for every text; the DNS server of the physical
\* network is known or not.
WrittenScenarios ==
    UNION {{[text |-> Text(k[1], <<[type |-> k[2], q |-> q]>>), request |-> TunRequest(dns)] :
                q \in Written(k), dns \in {"", "ok"}} : k \in Kinds}

-----------------------------------------------------------------------------

Entry(type, q) == [type |-> type, q |-> q]
NativeEntry == Entry("hysteria2", ("user" :> "ok") @@ ("host" :> "ok"))
RealityEntry(sid) ==
    Entry("vless", ("user" :> "ok") @@ ("host" :> "ok") @@ ("port" :> "ok")
                    @@ ("security" :> "reality") @@ ("pbk" :> "ok") @@ ("sid" :> sid))
InsecureEntry == Entry("hysteria2", ("user" :> "ok") @@ ("host" :> "ok") @@ ("insecure" :> "true"))
Libraries ==
    {Text("link", <<NativeEntry, RealityEntry("s1"), RealityEntry("s2")>>),
     Text("base64", <<InsecureEntry, RealityEntry("s1"), NativeEntry>>)}

ByPath(action) == App("path", "p1", "", action)
ByName(action) == App("name", "p2", "n1", action)
AppLists ==
    {<<>>} \cup {<<ByName(a), ByPath(b)>> : a, b \in {"direct", "vpn"}}
    \cup {<<ByPath("direct"), ByPath("vpn")>>, <<ByPath("direct")>>}
TrafficLists ==
    {<<>>, <<Rule("udp", 443, "block"), Rule("udp", 443, "direct"), Rule("tcp", 80, "direct")>>,
     <<Rule("tcp", 53, "direct")>>}

PolicyScenarios ==
    {[text |-> t,
      request |-> Request(Policy(default, apps, lan, ipv6, dns), Mode(kind, stack, rules),
                          IF kind = "tun" THEN PhysicalNetwork(resolver) ELSE NoUpstream)] :
        t \in Libraries, default \in {"direct", "vpn"}, apps \in AppLists,
        lan \in {"direct", "follow"}, ipv6 \in BOOLEAN, dns \in {"vpn", "current"},
        kind \in {"local", "proxy", "tun"}, stack \in {"system"}, rules \in TrafficLists,
        resolver \in {"", "ok"}}

MCScenarios == WrittenScenarios \cup PolicyScenarios

Connection(inbound, network, port, ipv6, private, own, path, name) ==
    [inbound |-> inbound, network |-> network, port |-> port, ipv6 |-> ipv6,
     private |-> private, own |-> own, path |-> path, name |-> name]
MCConnections ==
    {Connection(i, n, p, six, to \in {"own", "lan"}, to = "own", "p1", f) :
        i \in {"http-in", "socks-in", "health-in", "candidate-in", "tun-in"},
        n \in {"tcp", "udp"}, p \in {53, 80, 443}, six \in BOOLEAN,
        to \in {"own", "lan", "internet"}, f \in {"n1"}}
    \cup {Connection("tun-in", n, 443, FALSE, FALSE, FALSE, "p3", f) :
            n \in {"tcp", "udp"}, f \in {"n1", "n3"}}
=============================================================================
