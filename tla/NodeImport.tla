------------------------------ MODULE NodeImport ------------------------------
(***************************************************************************)
(* What RouteDeck makes of one server of a subscription (subscription.rs): *)
(* a share link, a sing-box outbound or a Clash proxy becomes a Node       *)
(* (domain.rs) or is rejected.                                             *)
(*                                                                         *)
(* An entry is a function from the names of its fields to what stands in   *)
(* them.  A value is "ok", "empty" or "bad" (refused wherever it is used), *)
(* or the word the parser compares with; a nested object has a dotted      *)
(* name per field.  The parts of a link before its query are the fields    *)
(* user, pass, host, port, frag and urlPath; "ports" holds a comma or      *)
(* range expression of a Hysteria2 authority.                              *)
(***************************************************************************)
EXTENDS Naturals, Sequences, FiniteSetsExt

\* A function of one field, and one with the fields of two, as in module TLC, whose
\* own the provers do not know.
Single(k, v) == [x \in {k} |-> v]
k :> v == Single(k, v)
Merged(f, g) == [x \in DOMAIN f \cup DOMAIN g |-> IF x \in DOMAIN f THEN f[x] ELSE g[x]]
f @@ g == Merged(f, g)

\* Iterator::filter: what stands at some places of a list, in the order of the list.
InOrder(places) ==
    CHOOSE order \in [1..Cardinality(places) -> places] :
        Range(order) = places /\ \A j, k \in DOMAIN order : j < k => order[j] < order[k]
Picked(list, places) == [k \in 1..Cardinality(places) |-> list[InOrder(places)[k]]]

Rejected == [kind |-> "rejected"]

Field(q, k, default) == IF k \in DOMAIN q THEN q[k] ELSE default
\* query.get(k).filter(not empty)
Filled(q, k) == LET v == Field(q, k, "empty") IN IF v = "empty" THEN "" ELSE v
Given(q, keys) == DOMAIN q \cap keys # {}
\* A Boolean field: "true" or "false" as the format writes them.
Boolean(q, k) == Field(q, k, "false") \in {"true", "false"}
IsTrue(q, k) == Field(q, k, "false") = "true"

-----------------------------------------------------------------------------
(* Nodes (domain.rs) *)

TlsOff == [enabled |-> FALSE, sni |-> "", insecure |-> FALSE, alpn |-> "", pins |-> "",
           ech |-> "", utls |-> "", reality |-> "", sid |-> "", spider |-> ""]
TlsOn == [TlsOff EXCEPT !.enabled = TRUE]

TlsValid(t) ==
    /\ t.enabled \/ t = TlsOff
    /\ {t.sni, t.alpn, t.utls} \subseteq {"", "ok"}
    /\ "bad" \notin {t.pins, t.ech, t.reality, t.sid, t.spider}

Tcp == [type |-> "tcp", path |-> "", host |-> "", service |-> ""]
Ws(path, host) == [Tcp EXCEPT !.type = "ws", !.path = path, !.host = host]
Grpc(service) == [Tcp EXCEPT !.type = "grpc", !.service = service]
TransportValid(t) ==
    /\ t.type = "ws" => t.path = "ok" /\ t.host \in {"", "ok"}
    /\ t.service # "bad"

\* Fields a protocol does not have stay "".
AnyNode == [kind |-> "vless", server |-> "ok", name |-> "ok", port |-> "ok", ports |-> "",
            user |-> "ok", pass |-> "", flow |-> "", packet |-> "", transport |-> Tcp,
            hop |-> "", obfs |-> "", quic |-> FALSE, headers |-> "", tls |-> TlsOff]

ProtocolValid(n) ==
    /\ TlsValid(n.tls)
    /\ n.kind = "vless" =>
        /\ n.flow # "" => n.tls.enabled /\ n.transport = Tcp
        /\ TransportValid(n.transport)
    /\ n.kind # "vless" => n.tls.enabled
    /\ n.kind = "hysteria2" => n.hop # "bad"
    /\ n.kind = "naive" => n.headers \in {"", "ok"}

\* Node::create.
Create(n) ==
    IF {n.server, n.name, n.user} = {"ok"} /\ n.port \in {"ok", ""} /\ n.ports # "bad"
         /\ n.pass # "bad" /\ n.obfs # "bad" /\ ProtocolValid(n)
    THEN n ELSE Rejected

NodeTls(n) == IF n.kind = "vless" /\ ~n.tls.enabled THEN TlsOff ELSE n.tls
RequiresInsecureApproval(n) == NodeTls(n).insecure

\* What a node is matched by when its source is refreshed: no credential, no pin.
\* The only obfuscation there is has the code of none at all.
UpdateKey(n) ==
    <<n.kind, n.server, n.name, n.port, n.ports, n.flow, n.packet, n.transport, n.hop,
      n.quic, n.headers,
      <<n.tls.enabled, n.tls.sni, n.tls.insecure, n.tls.alpn, n.tls.utls, n.tls.reality # "">> >>

\* InsecureApproval: bound to the key and to everything TLS is asked to do.
Approval(n) == <<UpdateKey(n), NodeTls(n)>>

-----------------------------------------------------------------------------
(* Share links *)

\* "line" stands for the text of the link: its length, escapes and control codes.
AuthorityKeys == {"line", "scheme", "user", "pass", "host", "port", "ports", "frag", "urlPath"}
VlessQuery ==
    {"security", "encryption", "flow", "type", "sni", "insecure", "alpn", "fp", "pbk", "sid",
     "spx", "packetEncoding", "host?", "path", "serviceName"}
HysteriaQuery ==
    {"obfs", "obfs-password", "sni", "insecure", "alpn", "fp", "security", "ech", "pinSHA256"}
NaiveQuery == {"extra-headers"}

\* parse_share_link's own checks, require_authority_only, strict_query and host.
LinkFits(q, query) ==
    /\ Field(q, "line", "ok") = "ok"
    /\ DOMAIN q \subseteq AuthorityKeys \cup query
    /\ "urlPath" \notin DOMAIN q /\ "host" \in DOMAIN q

\* The fragment, or "VLESS host:port".
DisplayName(q) == IF Filled(q, "frag") = "" THEN "ok" ELSE q["frag"]

TlsFromQuery(q) ==
    [TlsOn EXCEPT !.sni = Filled(q, "sni"), !.insecure = IsTrue(q, "insecure"),
                  !.alpn = Field(q, "alpn", ""), !.ech = Filled(q, "ech"),
                  !.utls = Filled(q, "fp")]

TransportFits(q) ==
    CASE Field(q, "type", "tcp") \in {"empty", "tcp"} -> ~Given(q, {"host?", "path", "serviceName"})
      [] Field(q, "type", "tcp") = "ws" -> "serviceName" \notin DOMAIN q
      [] Field(q, "type", "tcp") = "grpc" -> ~Given(q, {"host?", "path"})
      [] OTHER -> FALSE

TransportOf(q) ==
    CASE Field(q, "type", "tcp") = "ws" ->
            Ws(IF Filled(q, "path") = "" THEN "ok" ELSE q["path"], Filled(q, "host?"))
      [] Field(q, "type", "tcp") = "grpc" ->
            Grpc(LET s == Field(q, "serviceName", "empty") IN IF s = "empty" THEN "" ELSE s)
      [] OTHER -> Tcp

Security(q) == Field(q, "security", "none")

SecurityFits(q) ==
    CASE Security(q) = "none" -> ~Given(q, {"sni", "alpn", "fp", "pbk", "sid", "spx"})
      [] Security(q) = "tls" ->
            /\ ~Given(q, {"pbk", "sid", "spx"})
            /\ Boolean(q, "insecure") /\ TlsValid(TlsFromQuery(q))
      [] Security(q) = "reality" ->
            /\ Boolean(q, "insecure") /\ TlsValid(TlsFromQuery(q))
            /\ Filled(q, "pbk") # ""
      [] OTHER -> FALSE

SecurityOf(q) ==
    CASE Security(q) = "none" -> TlsOff
      [] Security(q) = "tls" -> TlsFromQuery(q)
      [] OTHER -> [TlsFromQuery(q) EXCEPT !.reality = q["pbk"], !.sid = Field(q, "sid", "empty"),
                                          !.spider = Field(q, "spx", "")]

\* "" is an absent flow or packet encoding, "bad" one the parser does not know.
FlowFits(q) == Field(q, "flow", "empty") \in {"empty", "vision"}
PacketFits(q, k) == Field(q, k, "empty") \in {"empty", "packetaddr", "xudp"}

VlessUrl(q) ==
    IF /\ LinkFits(q, VlessQuery) /\ Field(q, "user", "bad") = "ok" /\ "pass" \notin DOMAIN q
       /\ "port" \in DOMAIN q /\ "ports" \notin DOMAIN q
       /\ Field(q, "encryption", "none") \in {"empty", "none"}
       /\ TransportFits(q) /\ FlowFits(q) /\ SecurityFits(q) /\ PacketFits(q, "packetEncoding")
    THEN Create([AnyNode EXCEPT
            !.server = q["host"], !.port = q["port"], !.name = DisplayName(q),
            !.flow = Filled(q, "flow"), !.packet = Filled(q, "packetEncoding"),
            !.transport = TransportOf(q), !.tls = SecurityOf(q)])
    ELSE Rejected

HysteriaUrl(q) ==
    IF /\ LinkFits(q, HysteriaQuery) /\ Given(q, {"user", "pass"})
       /\ Field(q, "security", "tls") = "tls" /\ ~Given(q, {"pinSHA256", "ech"})
       /\ Filled(q, "obfs") \in {"", "salamander"}
       /\ Filled(q, "obfs") # "" => Filled(q, "obfs-password") # ""
       /\ "obfs-password" \in DOMAIN q => Filled(q, "obfs") # ""
       /\ Boolean(q, "insecure") /\ TlsValid(TlsFromQuery(q))
    THEN Create([AnyNode EXCEPT
            !.kind = "hysteria2", !.server = q["host"], !.name = DisplayName(q),
            !.port = IF "ports" \in DOMAIN q THEN "" ELSE Field(q, "port", "ok"),
            !.ports = Field(q, "ports", ""),
            !.user = IF "bad" \in {Field(q, "user", "ok"), Field(q, "pass", "ok")}
                     THEN "bad" ELSE "ok",
            !.obfs = Filled(q, "obfs-password"),
            !.tls = [TlsFromQuery(q) EXCEPT !.utls = ""]])
    ELSE Rejected

NaiveUrl(q) ==
    IF /\ LinkFits(q, NaiveQuery) /\ "ports" \notin DOMAIN q
       /\ (Filled(q, "user") = "") <=> ("pass" \notin DOMAIN q)
    THEN Create([AnyNode EXCEPT
            !.kind = "naive", !.server = q["host"], !.port = Field(q, "port", "ok"),
            !.name = DisplayName(q), !.user = Field(q, "user", "ok"),
            !.pass = Field(q, "pass", ""),
            !.quic = Field(q, "scheme", "https") = "quic",
            !.headers = Field(q, "extra-headers", ""), !.tls = [TlsOn EXCEPT !.sni = q["host"]]])
    ELSE Rejected

-----------------------------------------------------------------------------
(* sing-box outbounds *)

JsonTlsKeys ==
    {"tls", "tls.enabled", "tls.server_name", "tls.insecure", "tls.alpn",
     "tls.certificate_public_key_sha256", "tls.utls", "tls.utls.enabled", "tls.utls.fingerprint",
     "tls.reality", "tls.reality.enabled", "tls.reality.public_key", "tls.reality.short_id",
     "tls.ech", "tls.ech.enabled", "tls.ech.config"}
JsonVlessKeys ==
    {"tag", "server", "server_port", "uuid", "flow", "packet_encoding", "transport",
     "transport.type", "transport.path", "transport.host", "transport.service_name"}
JsonHysteriaKeys ==
    {"tag", "server", "server_port", "server_ports", "hop_interval", "password", "obfs",
     "obfs.type", "obfs.password"}
JsonNaiveKeys ==
    {"tag", "server", "server_port", "username", "password", "extra_headers", "quic"}

\* required_str
Required(q, k) == Filled(q, k) # ""
\* A nested object that is there and not switched off.
Enabled(q, k, switch) == k \in DOMAIN q /\ Field(q, switch, "true") = "true"
UtlsEnabled(q) == Enabled(q, "tls.utls", "tls.utls.enabled")
RealityEnabled(q) == Enabled(q, "tls.reality", "tls.reality.enabled")
EchEnabled(q) == Enabled(q, "tls.ech", "tls.ech.enabled")

JsonTlsOf(q) ==
    IF "tls" \notin DOMAIN q THEN TlsOff
    ELSE [enabled |-> Field(q, "tls.enabled", "true") = "true",
          sni |-> Field(q, "tls.server_name", ""), insecure |-> IsTrue(q, "tls.insecure"),
          alpn |-> Field(q, "tls.alpn", ""),
          pins |-> Field(q, "tls.certificate_public_key_sha256", ""),
          utls |-> IF UtlsEnabled(q) THEN q["tls.utls.fingerprint"] ELSE "",
          reality |-> IF RealityEnabled(q) THEN q["tls.reality.public_key"] ELSE "",
          sid |-> IF RealityEnabled(q) THEN q["tls.reality.short_id"] ELSE "",
          spider |-> "",
          ech |-> IF EchEnabled(q) THEN Field(q, "tls.ech.config", "") ELSE ""]

JsonTlsFits(q, allow_reality, required) ==
    /\ required => "tls" \in DOMAIN q
    /\ \A k \in {"tls.insecure", "tls.utls.enabled", "tls.reality.enabled", "tls.ech.enabled",
                  "tls.enabled"} : Boolean(q, k)
    /\ UtlsEnabled(q) => Required(q, "tls.utls.fingerprint")
    /\ "tls.reality" \in DOMAIN q => allow_reality
    /\ RealityEnabled(q) =>
        Required(q, "tls.reality.public_key") /\ "tls.reality.short_id" \in DOMAIN q
    /\ TlsValid(JsonTlsOf(q))
    /\ required => JsonTlsOf(q).enabled

JsonTransportFits(q) ==
    "transport" \in DOMAIN q =>
        CASE Field(q, "transport.type", "") = "tcp" ->
                ~Given(q, {"transport.path", "transport.host", "transport.service_name"})
          [] Field(q, "transport.type", "") = "ws" ->
                /\ "transport.service_name" \notin DOMAIN q
                /\ "transport.host" \in DOMAIN q => Required(q, "transport.host")
          [] Field(q, "transport.type", "") = "grpc" ->
                ~Given(q, {"transport.path", "transport.host"})
          [] OTHER -> FALSE

JsonTransportOf(q) ==
    CASE Field(q, "transport.type", "tcp") = "ws" ->
            Ws(IF Filled(q, "transport.path") = "" THEN "ok" ELSE q["transport.path"],
               Field(q, "transport.host", ""))
      [] Field(q, "transport.type", "tcp") = "grpc" -> Grpc(Filled(q, "transport.service_name"))
      [] OTHER -> Tcp

\* json_name
JsonName(q) == IF Filled(q, "tag") = "" THEN "ok" ELSE q["tag"]

JsonVless(q) ==
    IF /\ DOMAIN q \subseteq JsonVlessKeys \cup JsonTlsKeys
       /\ Required(q, "server") /\ Field(q, "server_port", "bad") = "ok"
       /\ Field(q, "uuid", "bad") = "ok"
       /\ FlowFits(q) /\ PacketFits(q, "packet_encoding")
       /\ JsonTlsFits(q, TRUE, FALSE) /\ JsonTransportFits(q)
    THEN Create([AnyNode EXCEPT
            !.server = q["server"], !.name = JsonName(q), !.flow = Filled(q, "flow"),
            !.packet = Filled(q, "packet_encoding"), !.transport = JsonTransportOf(q),
            !.tls = JsonTlsOf(q)])
    ELSE Rejected

JsonHysteria(q) ==
    IF /\ DOMAIN q \subseteq JsonHysteriaKeys \cup JsonTlsKeys
       /\ Required(q, "server") /\ Required(q, "password")
       /\ ("server_port" \in DOMAIN q) # ("server_ports" \in DOMAIN q)
       /\ {Field(q, "server_port", "ok"), Field(q, "server_ports", "ok"),
           Field(q, "hop_interval", "ok")} = {"ok"}
       /\ "obfs" \in DOMAIN q =>
            Field(q, "obfs.type", "") = "salamander" /\ Required(q, "obfs.password")
       /\ JsonTlsFits(q, FALSE, FALSE)
    THEN Create([AnyNode EXCEPT
            !.kind = "hysteria2", !.server = q["server"], !.name = JsonName(q),
            !.port = Field(q, "server_port", ""), !.ports = Field(q, "server_ports", ""),
            !.hop = Field(q, "hop_interval", ""), !.user = q["password"],
            !.obfs = Field(q, "obfs.password", ""), !.tls = JsonTlsOf(q)])
    ELSE Rejected

JsonNaive(q) ==
    IF /\ DOMAIN q \subseteq JsonNaiveKeys \cup JsonTlsKeys
       /\ Required(q, "server") /\ Field(q, "server_port", "bad") = "ok"
       /\ ("username" \in DOMAIN q) <=> ("password" \in DOMAIN q)
       /\ "empty" \notin {Field(q, "username", "ok"), Field(q, "password", "ok")}
       /\ Field(q, "extra_headers", "ok") = "ok" /\ Boolean(q, "quic")
       /\ JsonTlsFits(q, FALSE, TRUE)
       /\ LET t == JsonTlsOf(q)
          IN ~t.insecure /\ {t.alpn, t.pins, t.utls, t.reality} = {""}
    THEN Create([AnyNode EXCEPT
            !.kind = "naive", !.server = q["server"], !.name = JsonName(q),
            !.user = Field(q, "username", "ok"), !.pass = Field(q, "password", ""),
            !.quic = IsTrue(q, "quic"), !.headers = Field(q, "extra_headers", ""),
            !.tls = JsonTlsOf(q)])
    ELSE Rejected

-----------------------------------------------------------------------------
(* Clash proxies *)

ClashVlessKeys ==
    {"name", "server", "port", "uuid", "network", "tls", "servername", "skip-cert-verify", "alpn",
     "client-fingerprint", "reality-opts", "reality-opts.public-key", "reality-opts.short-id",
     "ws-opts", "ws-opts.path", "ws-opts.host", "grpc-opts", "grpc-opts.grpc-service-name",
     "packet-encoding", "flow"}
ClashHysteriaKeys ==
    {"name", "server", "port", "ports", "password", "obfs", "obfs-password", "sni",
     "skip-cert-verify", "alpn", "hop-interval"}

Network(q) == Field(q, "network", "tcp")

ClashTransportFits(q) ==
    CASE Network(q) = "tcp" -> ~Given(q, {"ws-opts", "grpc-opts"})
      [] Network(q) = "ws" ->
            /\ "grpc-opts" \notin DOMAIN q /\ "ws-opts" \in DOMAIN q
            /\ "ws-opts.host" \in DOMAIN q => Required(q, "ws-opts.host")
      [] Network(q) = "grpc" -> "ws-opts" \notin DOMAIN q
      [] OTHER -> FALSE

ClashTransportOf(q) ==
    CASE Network(q) = "ws" -> Ws(Field(q, "ws-opts.path", "ok"), Field(q, "ws-opts.host", ""))
      [] Network(q) = "grpc" -> Grpc(Filled(q, "grpc-opts.grpc-service-name"))
      [] OTHER -> Tcp

ClashVless(q) ==
    IF /\ DOMAIN q \subseteq ClashVlessKeys
       /\ Required(q, "name") /\ Required(q, "server") /\ Field(q, "port", "bad") = "ok"
       /\ Field(q, "uuid", "bad") = "ok" /\ ClashTransportFits(q)
       /\ FlowFits(q) /\ PacketFits(q, "packet-encoding")
       /\ "reality-opts" \in DOMAIN q => Required(q, "reality-opts.public-key")
       /\ Boolean(q, "tls") /\ Boolean(q, "skip-cert-verify")
       /\ Field(q, "alpn", "ok") = "ok"
    THEN Create([AnyNode EXCEPT
            !.server = q["server"], !.name = q["name"], !.flow = Filled(q, "flow"),
            !.packet = Filled(q, "packet-encoding"), !.transport = ClashTransportOf(q),
            !.tls = [TlsOff EXCEPT
                !.enabled = IsTrue(q, "tls") \/ "reality-opts" \in DOMAIN q,
                !.sni = Field(q, "servername", ""), !.insecure = IsTrue(q, "skip-cert-verify"),
                !.alpn = Field(q, "alpn", ""), !.utls = Field(q, "client-fingerprint", ""),
                !.reality = Field(q, "reality-opts.public-key", ""),
                !.sid = IF "reality-opts" \in DOMAIN q
                        THEN Field(q, "reality-opts.short-id", "empty") ELSE ""]])
    ELSE Rejected

ClashHysteria(q) ==
    IF /\ DOMAIN q \subseteq ClashHysteriaKeys
       /\ Required(q, "name") /\ Required(q, "server") /\ Required(q, "password")
       /\ Given(q, {"port", "ports"})
       /\ {Field(q, "port", "ok"), Field(q, "ports", "ok"), Field(q, "hop-interval", "ok"),
           Field(q, "alpn", "ok")} = {"ok"}
       /\ Filled(q, "obfs") \in {"", "salamander"}
       /\ IF Filled(q, "obfs") = "" THEN "obfs-password" \notin DOMAIN q
                                   ELSE Required(q, "obfs-password")
       /\ Boolean(q, "skip-cert-verify")
    THEN Create([AnyNode EXCEPT
            !.kind = "hysteria2", !.server = q["server"], !.name = q["name"],
            !.port = IF "ports" \in DOMAIN q THEN "" ELSE q["port"],
            !.ports = Field(q, "ports", ""), !.hop = Field(q, "hop-interval", ""),
            !.user = q["password"], !.obfs = Field(q, "obfs-password", ""),
            !.tls = [TlsOn EXCEPT !.sni = Field(q, "sni", ""),
                        !.insecure = IsTrue(q, "skip-cert-verify"), !.alpn = Field(q, "alpn", "")]])
    ELSE Rejected

-----------------------------------------------------------------------------
(* Subscriptions *)

\* A field that is there has a value, and the fields of an object stand in it.
Within(q, object, fields) == Given(q, fields) => Field(q, object, "") = "ok"
WellFormed(q) ==
    /\ \A k \in DOMAIN q : q[k] # ""
    /\ Within(q, "tls", JsonTlsKeys \ {"tls"})
    /\ Within(q, "tls.reality", {"tls.reality.public_key", "tls.reality.short_id"})
    /\ Within(q, "tls.ech", {"tls.ech.config"})
    /\ Within(q, "obfs", {"obfs.type", "obfs.password"})
    /\ Within(q, "reality-opts", {"reality-opts.public-key", "reality-opts.short-id"})

\* parse_share_link, parse_json_outbound and the proxies of a Clash file.
Parse(format, e) ==
    CASE e.type = "vless" /\ format = "link" -> VlessUrl(e.q)
      [] e.type = "vless" /\ format = "json" -> JsonVless(e.q)
      [] e.type = "vless" /\ format = "clash" -> ClashVless(e.q)
      [] e.type = "hysteria2" /\ format = "link" -> HysteriaUrl(e.q)
      [] e.type = "hysteria2" /\ format = "json" -> JsonHysteria(e.q)
      [] e.type = "hysteria2" /\ format = "clash" -> ClashHysteria(e.q)
      [] e.type = "naive" /\ format = "link" -> NaiveUrl(e.q)
      [] e.type = "naive" /\ format = "json" -> JsonNaive(e.q)
      [] OTHER -> Rejected

\* What import_subscription takes a text for: the first character, a line
\* "proxies:", a line with a known scheme, and what one base64 decoding gives.
Detected(text) ==
    CASE text.braces -> "json"
      [] ~text.braces /\ text.proxies -> "clash"
      [] ~text.braces /\ ~text.proxies /\ text.links -> "link"
      [] ~text.braces /\ ~text.proxies /\ ~text.links /\ text.decodes -> "link"
      [] OTHER -> "unknown"

\* import_lines, import_json, import_clash_yaml and finish_report: the nodes, in
\* the order of the source; <<>> when the import is refused.
Import(text, max_nodes) ==
    IF Detected(text) = "unknown" \/ Len(text.entries) > max_nodes THEN <<>>
    ELSE LET parsed == [i \in DOMAIN text.entries |-> Parse(Detected(text), text.entries[i])]
         IN Picked(parsed, {i \in DOMAIN parsed : parsed[i] # Rejected})
=============================================================================
