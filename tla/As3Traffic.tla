----------------------------- MODULE As3Traffic ------------------------------
(***************************************************************************)
(* The classes of src/lib/map_as3.js that handle traffic: monitors, pools  *)
(* and their nodes, profiles, certificates and TLS.                        *)
(***************************************************************************)
EXTENDS As3Objects

(* An iRule, and the file that an iFile is read from.                      *)
iRule(x) == Plain(x, "ltm rule")

iFile(x) ==
    LET file == Part(Here(x), "-ifile")
    IN  IF Is(x, "bigip") THEN {Object(x, "ltm ifile", Here(x), {})}
        ELSE {Loaded(Object(x, "sys file ifile", file, {}), FileOfPath(Here(x), "upload")),
              Object(x, "ltm ifile", Here(x), {file})}

-----------------------------------------------------------------------------
(* Monitors.  x.type is the monitorType.  Certificates are told by name    *)
(* and, if there is one, have a key; a script is a file of its own.        *)
MonitorType(x) == IF x.type = "icmp" THEN "gateway-icmp" ELSE x.type

Monitor(x) ==
    LET script == Part(Here(x), "-script")
        certs  == UNION {{Crt(p), Key(p)} : p \in Use(x, "clientCertificate")}
        usesTLS == x.type \in {"https", "http2", "sip"}
    IN  When(x.type = "external" /\ Is(x, "script"),
             {Loaded(Object(x, "sys file external-monitor", script, {}), FileOfPath(Here(x), "upload"))})
        \cup {Typed(Object(x, "ltm monitor", Here(x),
                           UsesBut(x, {"clientCertificate"})
                           \cup When(usesTLS, certs)
                           \cup When(x.type = "external" /\ Is(x, "script"), {script})), MonitorType(x))}

(* A node has only the ICMP monitors of its pool's member.                 *)
NodeMonitors(decl, monitors) ==
    {p \in monitors : Exists(decl, p) /\ Item(decl, p).type = "icmp"}

-----------------------------------------------------------------------------
(* Nodes and pools.  A pool has members, a set of [by, share, nodes,       *)
(* monitors]: 'static', 'fqdn', 'bigip' or another discovery, whether      *)
(* shareNodes, and the names of its nodes.                                 *)

(* Shared nodes are in /Common, others in the tenant; those of Common are  *)
(* in /Common/Shared.                                                      *)
NodePath(x, member, node) ==
    IF member.share THEN Path("Common", "", node, "")
    ELSE Path(x.tenant, IF x.tenant = "Common" THEN "Shared" ELSE "", node, "")

Node(decl, x, member, node) ==
    Object(x, "ltm node", NodePath(x, member, node), NodeMonitors(decl, member.monitors))

FQDN_Node(decl, x, member, node) == Typed(Node(decl, x, member, node), "fqdn")

TaskPath(x) == Path(x.tenant, "", x.name, "~task")

(* The task that finds the members, of which each pool that it feeds has   *)
(* none of its own.                                                        *)
Task(x, resources) == Object(x, "mgmt shared service-discovery task", TaskPath(x), resources)

SdRequired(x) == \E m \in x.members : m.by \notin {"static", "fqdn", "bigip"}

addressDiscovery(decl, x, m) ==
    CASE m.by = "static" -> {Node(decl, x, m, node) : node \in m.nodes}
      [] m.by = "fqdn"   -> {FQDN_Node(decl, x, m, node) : node \in m.nodes}
      [] OTHER           -> {}

Address_Discovery(x) == {Task(x, Uses(x))}

Pool(decl, x) ==
    UNION {addressDiscovery(decl, x, m) : m \in x.members}
    \cup When(\E m \in x.members : SdRequired(x) /\ m.by # "use", {Task(x, {Here(x)})})
    \cup {LET own   == When(~SdRequired(x), {m \in x.members : m.by # "bigip"})
              nodes == UNION {{NodePath(x, m, node) : node \in m.nodes} : m \in own}
          IN  Of(Object(x, "ltm pool", Here(x), Uses(x) \cup nodes \cup UNION {m.monitors : m \in own}),
                 nodes)}

-----------------------------------------------------------------------------
(* Certificates: a file for each of its parts that is not on the device    *)
(* already; the names of the others are replaced wherever they are.        *)
Uploaded(x, cmd, path, refs) == Loaded(Object(x, cmd, path, refs), FileOfPath(path, "upload"))

Certificate(x) ==
    When(Is(x, "bundle"), {Uploaded(x, "sys file ssl-cert", Here(x), {})})
    \cup When(Is(x, "certificate") /\ ~Is(x, "bigipCertificate"),
              {Uploaded(x, "sys file ssl-cert", Crt(Here(x)),
                        Use(x, "staplerOCSP") \cup {Crt(p) : p \in Use(x, "issuerCertificate")})})
    \cup When(Is(x, "chainCA") /\ ~Is(x, "bigipChainCA"),
              {Uploaded(x, "sys file ssl-cert", Bundle(Here(x)), {})})
    \cup When(Is(x, "privateKey") /\ ~Is(x, "bigipPrivateKey"),
              {Uploaded(x, "sys file ssl-key", Key(Here(x)), {})})

CA_Bundle(x) == Certificate(x)

(* Those names, and that of a key that is not declared if no item of the   *)
(* request declares one.                                                   *)
PathUpdates(x) ==
    When(Is(x, "bigipCertificate"), {Crt(Here(x))})
    \cup When(Is(x, "bigipChainCA"), {Bundle(Here(x))})
    \cup When(Is(x, "bigipPrivateKey"), {Key(Here(x))})

Replaced(decl) ==
    LET certificates == {x \in decl : x.class \in {"Certificate", "CA_Bundle"}}
        paths == UNION {PathUpdates(x) : x \in certificates}
    IN  IF \E p \in paths : p.part = <<".key">> THEN paths
        ELSE paths \cup {Key(Here(x)) : x \in {y \in certificates : Is(y, "bigipCertificate")}}

Certificate_Validator_OCSP(decl, x) ==
    {Object(x, "sys crypto cert-validator ocsp", Here(x),
            UsesBut(x, {"signingCertificate"})
            \cup UNION {CertificateRefs(decl, p) : p \in Use(x, "signingCertificate")})}

-----------------------------------------------------------------------------
(* TLS *)

TLS_Client(decl, x) ==
    LET certificates == Use(x, "clientCertificate") \cup Use(x, "c3dCertificateAuthority")
    IN  {Object(x, "ltm profile server-ssl", Here(x),
                UsesBut(x, {"clientCertificate", "c3dCertificateAuthority"})
                \cup UNION {CertificateRefs(decl, p) : p \in certificates})}
        \cup When(Is(x, "ldapStartTLS"),
                  {Object(x, "ltm profile server-ldap", LdapProfile(Here(x), "serverside"), {})})

(* The profiles that a TLS_Server creates.                                 *)
ServerNames(x) ==
    [i \in DOMAIN x.certificates |->
        LET j == IF Is(x, "hybrid") THEN 1 ELSE i
        IN  IF Is(x, "certificateNames")
            THEN Path(x.tenant, x.app, x.certificates[j].item, "")
            ELSE Part(Here(x), Numbered(j))]

TLS_Server(decl, x) ==
    {Object(x, "ltm profile client-ssl", path,
            Uses(x) \cup UNION {CertificateRefs(decl, x.certificates[i])
                                : i \in {j \in DOMAIN x.certificates : ServerNames(x)[j] = path}})
     : path \in {ServerNames(x)[i] : i \in DOMAIN x.certificates}}
    \cup When(Is(x, "ldapStartTLS"),
              {Object(x, "ltm profile client-ldap", LdapProfile(Here(x), "clientside"), {})})
    \cup When(Is(x, "smtpsStartTLS"),
              {Object(x, "ltm profile smtps", SmtpsProfile(Here(x)), {})})

-----------------------------------------------------------------------------
(* Profiles *)

WebSocketProfile(x)    == Generated(x, "f5_appsvcs", x.masking)
ProxyConnectProfile(x) == Generated(x, x.name, "_proxyConnect")

(* The deprecated webSocketsEnabled has a profile per masking.             *)
HTTP_Profile(x) ==
    {Object(x, "ltm profile http", Here(x), UsesBut(x, {"profileWebSocket"}))}
    \cup When(Is(x, "webSocketsEnabled") /\ "profileWebSocket" \notin DOMAIN x.uses,
              {Object(x, "ltm profile websocket", WebSocketProfile(x), {})})
    \cup When(Is(x, "proxyConnectEnabled"),
              {Object(x, "ltm profile http-proxy-connect", ProxyConnectProfile(x), {})})

(* A capture filter tells its virtual servers by name, in the application. *)
Analytics_Profile(x) == Plain(x, "ltm profile analytics")

(* The device's name of a persistence method.                              *)
PersistType(x) ==
    LET renamed == [d \in {"destination-address", "source-address", "tls-session-id", "sip-info"} |->
                       CASE d = "destination-address" -> "dest-addr"
                         [] d = "source-address"      -> "source-addr"
                         [] d = "tls-session-id"      -> "ssl"
                         [] d = "sip-info"            -> "sip"]
    IN  IF x.type \in DOMAIN renamed THEN renamed[x.type] ELSE x.type

Persist(x) == {Typed(object, PersistType(x)) : object \in Plain(x, "ltm persistence")}

(* DNS_Cache has a type too.                                               *)
DNS_Cache(x) == {Typed(object, x.type) : object \in Plain(x, "ltm dns cache")}
=============================================================================
