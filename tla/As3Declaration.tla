---------------------------- MODULE As3Declaration ----------------------------
(***************************************************************************)
(* getDesiredConfig of src/lib/fetch.js: the objects that a tenant is to   *)
(* have, those that the items of its declaration become.                   *)
(*                                                                         *)
(* A declaration is a set of items of all tenants.  A configuration is a   *)
(* set of objects, of which no two have one path.                          *)
(***************************************************************************)
EXTENDS As3Policies, TLC

PlainClasses ==
    AlgClasses @@ EnforcementRuleClasses @@ TrafficClasses @@ DnsClasses @@ TransportClasses
    @@ AnalyticsClasses @@ EnforcementClasses @@ RoutingClasses @@ InspectionClasses @@ LogClasses
    @@ ListClasses @@ NatClasses @@ SubscriberClasses @@ ProfileClasses @@ ContentClasses
    @@ CipherClasses @@ BotDefenseClasses

(* mapAs3.translate[item.class] *)
translate(decl, x) ==
    CASE x.class \in DOMAIN PlainClasses       -> Plain(x, PlainClasses[x.class])
      [] x.class = "iRule"                      -> iRule(x)
      [] x.class = "iFile"                      -> iFile(x)
      [] x.class = "Monitor"                    -> Monitor(x)
      [] x.class = "Pool"                       -> Pool(decl, x)
      [] x.class = "Address_Discovery"          -> Address_Discovery(x)
      [] x.class \in {"Certificate", "CA_Bundle"} -> Certificate(x)
      [] x.class = "Certificate_Validator_OCSP" -> Certificate_Validator_OCSP(decl, x)
      [] x.class = "TLS_Client"                 -> TLS_Client(decl, x)
      [] x.class = "TLS_Server"                 -> TLS_Server(decl, x)
      [] x.class = "HTTP_Profile"               -> HTTP_Profile(x)
      [] x.class = "Analytics_Profile"          -> Analytics_Profile(x)
      [] x.class = "Persist"                    -> Persist(x)
      [] x.class = "DNS_Cache"                  -> DNS_Cache(x)
      [] x.class = "Service_Address"            -> Service_Address(x)
      [] x.class = "SNAT_Pool"                  -> SNAT_Pool(x, Here(x), x.snats)
      [] x.class = "SNAT_Translation"           -> SNAT_Translation(x)
      [] x.class = "Service_HTTP"               -> Service_HTTP(decl, x)
      [] x.class = "Service_HTTPS"              -> Service_HTTPS(decl, x)
      [] x.class \in {"Service_TCP", "Service_UDP", "Service_SCTP", "Service_L4",
                      "Service_Generic", "Service_Forwarding"} -> Service_Other(decl, x)
      [] x.class = "WAF_Policy"                 -> WAF_Policy(x)
      [] x.class = "Ping_Access_Agent_Properties" -> Ping_Access_Agent_Properties(x)
      [] x.class = "Ping_Access_Profile"        -> Ping_Access_Profile(decl, x)
      [] x.class = "Access_Profile"             -> Access_Profile(x)
      [] x.class = "Per_Request_Access_Policy"  -> Per_Request_Access_Policy(x)
      [] x.class = "Log_Destination"            -> Log_Destination(x)
      [] x.class = "HTML_Rule"                  -> HTML_Rule(x)
      [] x.class = "Firewall_Policy"            -> Firewall_Policy(x)
      [] x.class = "Firewall_Address_List"      -> Firewall_Address_List(x)
      [] x.class = "Data_Group"                 -> Data_Group(x)
      [] x.class = "DOS_Profile"                -> DOS_Profile(x)
      [] x.class = "Adapt_Profile"              -> Adapt_Profile(x)
      [] x.class = "GSLB_Server"                -> GSLB_Server(x)
      [] x.class = "GSLB_Data_Center"           -> GSLB_Data_Center(x)
      [] x.class = "GSLB_Topology_Region"       -> GSLB_Topology_Region(x)
      [] x.class = "GSLB_Prober_Pool"           -> GSLB_Prober_Pool(x)
      [] x.class = "GSLB_Topology_Records"      -> GSLB_Topology_Records(x)
      [] x.class = "GSLB_Domain"                -> GSLB_Domain(x)
      [] x.class = "GSLB_Pool"                  -> GSLB_Pool(decl, x)
      [] x.class = "GSLB_iRule"                 -> GSLB_iRule(x)
      [] x.class = "GSLB_Monitor"               -> GSLB_Monitor(x)

-----------------------------------------------------------------------------
(* The folder of an application, and the partition of a tenant that has    *)
(* any objects; /Common is there already.                                  *)
Container(cmd, tenant, app) ==
    [cmd |-> cmd, type |-> "", path |-> Path(tenant, app, "", ""), refs |-> {},
     members |-> {}, upload |-> NoFile, ver |-> 0]

Application(tenant, app) == Container("sys folder", tenant, app)

Tenant(tenant) == When(tenant # "Common", {Container("auth partition", tenant, "")})

ByPath(config, path) == CHOOSE o \in config : o.path = path
Paths(config)        == {o.path : o \in config}

(* Of the objects of one path the last is kept.                            *)
mergeByPath(objects) == {ByPath(objects, path) : path \in Paths(objects)}

(* Names of certificates that are on the device already are no objects of  *)
(* AS3, and SNAT pools have translations.                                  *)
desiredConfigPostProcessing(decl, config) ==
    LET replaced   == Replaced(decl)
        missing(o) == {p \in o.refs : o.cmd = "ltm snatpool" /\ p \notin Paths(config)}
    IN  {[o EXCEPT !.refs = @ \ replaced] : o \in config}
        \cup UNION {createDefaultSnatTranslations([tenant |-> o.path.tenant, ver |-> 0],
                                                  {p.item : p \in missing(o)}) : o \in config}

(* A tenant that is disabled or has no items has no objects.               *)
Desired(decl, tenant) ==
    LET items  == {x \in decl : x.tenant = tenant}
        config == mergeByPath(UNION {translate(decl, x) : x \in items}
                              \cup {Application(tenant, x.app) : x \in items})
    IN  desiredConfigPostProcessing(decl, config \cup When(config # {}, Tenant(tenant)))

-----------------------------------------------------------------------------
(* Properties of the translation: they are about every declaration that is *)
(* deployed (Deployment).                                                  *)

(* Whatever an object refers to is an object of the same declaration: the  *)
(* names that one class gives its objects are those that the others use.   *)
RefersToObjects(decl) ==
    LET config == Desired(decl, "T") \cup Desired(decl, "Common")
    IN  \A o \in config : o.refs \subseteq Paths(config)
=============================================================================
