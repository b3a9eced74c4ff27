----------------------------- MODULE As3Policies -----------------------------
(***************************************************************************)
(* The other classes of src/lib/map_as3.js: those that are one object of   *)
(* the item's name, in the order of the file, and those that are more or   *)
(* are elsewhere: security, access and data groups, GSLB and DNS.          *)
(***************************************************************************)
EXTENDS As3Services

AlgClasses == [ALG_Log_Profile |-> "ltm alg-log-profile"]

EnforcementRuleClasses == [Enforcement_iRule |-> "pem irule"]

TrafficClasses ==
    [HTTP2_Profile |-> "ltm profile http2",
     RTSP_Profile |-> "ltm profile rtsp", SOCKS_Profile |-> "ltm profile socks",
     Statistics_Profile |-> "ltm profile statistics", WebSocket_Profile |-> "ltm profile websocket",
     HTTP_Compress |-> "ltm profile http-compression", Multiplex_Profile |-> "ltm profile one-connect"]

DnsClasses ==
    [DNS_Logging_Profile |-> "ltm profile dns-logging", DNS_Nameserver |-> "ltm dns nameserver",
     DNS_Profile |-> "ltm profile dns", DNS_TSIG_Key |-> "ltm dns tsig-key",
     DNS_Zone |-> "ltm dns zone"]

TransportClasses ==
    [TCP_Profile |-> "ltm profile tcp", UDP_Profile |-> "ltm profile udp",
     IP_Other_Profile |-> "ltm profile ipother", Radius_Profile |-> "ltm profile radius",
     Classification_Profile |-> "ltm profile classification", FIX_Profile |-> "ltm profile fix",
     L4_Profile |-> "ltm profile fastl4"]

AnalyticsClasses == [Analytics_TCP_Profile |-> "ltm profile tcp-analytics"]

EnforcementClasses ==
    [Enforcement_Diameter_Endpoint_Profile |-> "pem profile diameter-endpoint",
     Enforcement_Radius_AAA_Profile |-> "pem profile radius-aaa",
     Enforcement_Format_Script |-> "pem reporting format-script",
     Enforcement_Interception_Endpoint |-> "pem interception-endpoint",
     Enforcement_Profile |-> "pem profile spm",
     Enforcement_Subscriber_Management_Profile |-> "pem profile subscriber-mgmt",
     Enforcement_Listener |-> "pem listener", Bandwidth_Control_Policy |-> "net bwc policy"]

RoutingClasses ==
    [Endpoint_Policy |-> "ltm policy", Endpoint_Strategy |-> "ltm policy-strategy"]

InspectionClasses ==
    [Protocol_Inspection_Profile |-> "security protocol-inspection profile"]

LogClasses ==
    [Security_Log_Profile |-> "security log profile", Log_Publisher |-> "sys log-config publisher"]

ListClasses ==
    [Firewall_Port_List |-> "security firewall port-list",
     Firewall_Rule_List |-> "security firewall rule-list",
     Net_Address_List |-> "net address-list", Net_Port_List |-> "net port-list"]

NatClasses ==
    [NAT_Policy |-> "security nat policy", NAT_Source_Translation |-> "security nat source-translation"]

SubscriberClasses ==
    [Enforcement_Policy |-> "pem policy",
     Enforcement_Forwarding_Endpoint |-> "pem forwarding-endpoint",
     Enforcement_Service_Chain_Endpoint |-> "pem service-chain-endpoint"]

ProfileClasses ==
    [Traffic_Log_Profile |-> "ltm profile request-log", Rewrite_Profile |-> "ltm profile rewrite",
     HTTP_Acceleration_Profile |-> "ltm profile web-acceleration",
     SSH_Proxy_Profile |-> "security ssh profile", Stream_Profile |-> "ltm profile stream",
     FTP_Profile |-> "ltm profile ftp", PPTP_Profile |-> "ltm profile pptp",
     Service_Profile |-> "ltm profile service",
     Splitsession_Client_Profile |-> "ltm profile splitsessionclient"]

ContentClasses ==
    [SSE_Profile |-> "ltm profile sse", Connector_Profile |-> "ltm profile connector",
     TFTP_Profile |-> "ltm profile tftp", HTML_Profile |-> "ltm profile html",
     ICAP_Profile |-> "ltm profile icap", JSON_Profile |-> "ltm profile json"]

CipherClasses ==
    [Cipher_Rule |-> "ltm cipher rule", Cipher_Group |-> "ltm cipher group",
     Idle_Timeout_Policy |-> "net timer-policy",
     IP_Intelligence_Policy |-> "security ip-intelligence policy"]

BotDefenseClasses == [Bot_Defense_Profile |-> "security bot-defense profile"]

-----------------------------------------------------------------------------
(* Files that are uploaded under the name of the item alone.               *)
WAF_Policy(x) ==
    When(~Is(x, "bigipPolicy"),
         {Loaded(Object(x, "asm policy", Here(x), {}), FileOfName(Here(x), ".xml"))})

Ping_Access_Agent_Properties(x) ==
    {Loaded(Object(x, "apm aaa ping-access-properties-file", Here(x), {}),
            FileOfName(Here(x), "properties"))}

Ping_Access_Profile(decl, x) ==
    {Object(x, "apm profile ping-access", Here(x),
            ProfileRefs(decl, IF Is(x, "useHTTPS") THEN x
                              ELSE [x EXCEPT !.uses = [p \in DOMAIN @ \ {"serversslProfile"} |-> @[p]]]))}

(* The policies of APM are at the root of their tenant.                    *)
Access(x, cmd) ==
    {Loaded(Object(x, cmd, InTenant(Here(x)), {}), FileOfName(Here(x), ".tar"))}

Access_Profile(x)            == Access(x, "apm profile access")
Per_Request_Access_Policy(x) == Access(x, "apm policy access-policy")

-----------------------------------------------------------------------------
Log_Destination(x) == {Typed(object, x.type) : object \in Plain(x, "sys log-config destination")}
HTML_Rule(x)       == {Typed(object, x.type) : object \in Plain(x, "ltm html-rule")}

(* A firewall policy also makes route domains of the device enforce it.    *)
RouteDomain == Path("Common", "", "route-domain", "")

Firewall_Policy(x) ==
    Plain(x, "security firewall policy")
    \cup When(Is(x, "routeDomainEnforcement"),
              {Object(x, "net route-domain", RouteDomain, {Here(x)})})

Firewall_Address_List(x) ==
    Plain(x, "security firewall address-list") \cup When(Is(x, "discovery"), {Task(x, {Here(x)})})

(* An external data group and its file have one path; of the two objects   *)
(* the file, which is the last, is kept, and creates the data group.       *)
Data_Group(x) ==
    CASE Is(x, "internal")         -> Plain(x, "ltm data-group internal")
      [] Is(x, "externalFilePath") ->
             {Loaded(Object(x, "sys file data-group", Here(x), Uses(x)),
                     IF Is(x, "bearerToken") THEN FileOfPath(Here(x), "upload") ELSE NoFile)}
      [] OTHER                     -> Plain(x, "ltm data-group external")

DOS_Profile(x) ==
    Plain(x, "security dos profile")
    \cup When("asm" \in Provisioned /\ ~Is(x, "noBotDefense"),
              {Object(x, "security bot-defense profile", BotDefense(Here(x)), {})})

Adapt_Profile(x) ==
    LET both == {"request", "response"} \subseteq x.opts
    IN  {Object(x, IF side = "request" THEN "ltm profile request-adapt" ELSE "ltm profile response-adapt",
                Part(Here(x), IF both THEN "_" \o side ELSE ""), Uses(x))
         : side \in {"request", "response"} \cap x.opts}

-----------------------------------------------------------------------------
(* GSLB.  Servers, data centers, regions and prober pools are at the root  *)
(* of their tenant, and so are the references to them.                     *)
Global(x, cmd) == {Object(x, cmd, InTenant(Here(x)), {InTenant(p) : p \in Uses(x)})}

GSLB_Server(x) ==
    {Of(Object(x, "gtm server", InTenant(Here(x)),
               {InTenant(p) : p \in Use(x, "dataCenter") \cup Use(x, "proberPool")}
               \cup UsesBut(x, {"dataCenter", "proberPool"})),
        {Path(x.tenant, "", device, "device") : device \in x.devices})}

GSLB_Data_Center(x)     == Global(x, "gtm datacenter")
GSLB_Topology_Region(x) == {Of(o, o.refs) : o \in Global(x, "gtm region")}
GSLB_Prober_Pool(x)     == Global(x, "gtm prober-pool")

(* The records and the setting belong to the device: their paths are made  *)
(* up, and records of several items are merged.                            *)
TopologyPath == Path("Common", "", "topology", "")
SettingsPath == Path("Common", "", "global-settings", "")

GSLB_Topology_Records(x) ==
    {Object(x, "gtm global-settings load-balancing", SettingsPath, {}),
     Object(x, "gtm topology", TopologyPath, {InTenant(p) : p \in Uses(x)})}

(* A wide IP has the name of its domain, with its type as mergeByPath adds *)
(* it, since domains of two types may have one name.                       *)
DomainPath(x) == Path(x.tenant, x.app, x.domainName, x.type)

GSLB_Domain(x) == {Typed(Object(x, "gtm wideip", DomainPath(x), Uses(x)), x.type)}

(* Members of A and AAAA pools are virtual servers of a server, those of   *)
(* others domains.                                                         *)
GSLB_Pool(decl, x) ==
    {Typed(Object(x, "gtm pool", Here(x),
                  Use(x, "monitor")
                  \cup (IF x.type \in {"a", "aaaa"} THEN {InTenant(p) : p \in Use(x, "member")}
                        ELSE {DomainPath(Item(decl, p)) : p \in Use(x, "member")})), x.type)}

GSLB_iRule(x) == Plain(x, "gtm rule")

GSLB_Monitor(x) ==
    LET script == Part(Here(x), "-script")
    IN  When(Is(x, "script"),
             {Loaded(Object(x, "sys file external-monitor", script, {}), FileOfPath(Here(x), "upload"))})
        \cup {Typed(Object(x, "gtm monitor", Here(x),
                           UNION {{Crt(p), Key(p)} : p \in When(x.type \in {"https", "sip"},
                                                                Use(x, "clientCertificate"))}
                           \cup When(Is(x, "script"), {script})), x.type)}
=============================================================================
