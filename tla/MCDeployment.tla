---- MODULE MCDeployment ----
EXTENDS Deployment

(* Items of the tenant T, most of them in its application A.               *)
X(class, name, opts, uses, ver) ==
    [class |-> class, tenant |-> "T", app |-> "A", name |-> name, opts |-> opts, uses |-> uses, ver |-> ver]
In(x, tenant, app) == [x EXCEPT !.tenant = tenant, !.app = app]
Shared(x) == In(x, "Common", "Shared")
At(name)  == Path("T", "A", name, "")
Global_(name) == Path("Common", "Shared", name, "")
None == <<>>

(* Declarations of no items and of one, two or three versions of some.     *)
Versions(items(_)) == {{}, items(0), items(1)}

Service(uses, more, ver) ==
    X("Service_HTTP", "s", {"enable"} \cup more, uses, ver)
    @@ [addresses |-> <<[by |-> "inline", name |-> "1"]>>]
UsedBy(uses, items) == {items, items \cup {Service(uses, {}, 0)}}

Plain_ == {Versions(LAMBDA v : {X(class, "x", {}, None, v)}) : class \in DOMAIN PlainClasses}

(* A pool gains and loses members, a monitor and its users.                *)
Member(nodes) == [by |-> "static", share |-> FALSE, nodes |-> nodes, monitors |-> {}]
PoolOf(nodes, uses, ver) == X("Pool", "p", {}, uses, ver) @@ [members |-> {Member(nodes)}]
Mon(v) == X("Monitor", "m", {}, None, v) @@ [type |-> "http"]

Pools ==
    {{}, {PoolOf({"1"}, None, 0)}, {PoolOf({"1", "2"}, None, 1)},
     {PoolOf({"2"}, [monitor |-> At("m")], 1), Mon(0)},
     {PoolOf({"2"}, [monitor |-> At("m")], 1), Mon(0), Service([pool |-> At("p")], {}, 0)}}

Names ==
    {{}, {X("Pool", "p", {}, None, 0) @@ [members |-> {[Member({"n"}) EXCEPT !.by = "fqdn"]}]},
     {X("Pool", "p", {}, None, 1) @@ [members |-> {[Member({"n"}) EXCEPT !.by = "fqdn"]}]},
     {X("Pool", "p", {}, None, 0) @@ [members |-> {[Member({"n"}) EXCEPT !.by = "gce"]}]}}

(* A certificate and those that use it.                                    *)
Cert(opts, v) == X("Certificate", "c", {"certificate", "privateKey"} \cup opts, None, v)
Tls(opts, v)  == X("TLS_Server", "t", opts, None, v) @@ [certificates |-> <<At("c"), At("d")>>]
Certs(opts, v) == {Cert({"chainCA"}, v), [Cert({}, v) EXCEPT !.name = "d"], Tls(opts, 0)}

TLS ==
    {Versions(LAMBDA v : Certs(opts, v) \cup {Service([serverTLS |-> At("t")], {}, 0)})
        : opts \in SUBSET {"hybrid", "certificateNames", "ldapStartTLS"}}
    \cup {{{}, Certs({}, 0), Certs({"certificateNames"}, 0) \cup {Service([serverTLS |-> At("t")], {}, 0)}}}
    \cup {{{}, {Cert({}, 0), X("TLS_Client", "t", {}, [clientCertificate |-> At("c")], 0)},
               {Cert({"bigipPrivateKey"}, 1), X("TLS_Client", "t", {"smtpsStartTLS"}, [clientCertificate |-> At("c")], 0),
                Service([clientTLS |-> At("t")], {}, 0)}}}
    \cup {{{}, {Cert({}, 0), [Tls({}, 0) EXCEPT !.certificates = <<At("c")>>]},
               {[Cert({}, 0) EXCEPT !.name = "d"], [Tls({}, 0) EXCEPT !.certificates = <<At("d")>>]}}}
    \cup {{{}, {Cert({}, 0)},
               {[Cert({}, 0) EXCEPT !.uses = [staplerOCSP |-> At("o")]],
                X("Certificate_Validator_OCSP", "o", {}, None, 0)}}}

(* An address that a pool or a SNAT pool has, or that is declared itself.  *)
Translation_(v) == X("SNAT_Translation", "y", {}, None, v) @@ [address |-> "1"]

(* Addresses: of its own, another item, lists, and a redirect.             *)
ByUse == [Service([pool |-> At("p")], {}, 0) EXCEPT !.uses = None,
              !.addresses = <<[by |-> "use", name |-> "", use |-> Path("T", "B", "a", "")]>>]
Lists_(ver) == {X("Net_Address_List", "l", {}, None, ver),
                Service([destinationAddressList |-> At("l")], {}, ver)}
Addresses ==
    {{{}, {Service(None, {}, 0)}, {Service(None, {}, 1)}, {ByUse, In(X("Service_Address", "a", {}, None, 0), "T", "B")}},
     {{}, Lists_(0), Lists_(1)},
     {{}, {[Service(None, {"redirect80"}, 0) EXCEPT !.class = "Service_HTTPS"]},
          {[Service(None, {"selfSNAT"}, 1) EXCEPT !.class = "Service_HTTPS"]}}}

(* Items that come with objects of other names.                            *)
Http(app, opts) == In(X("HTTP_Profile", "h", opts, None, 0), "T", app) @@ [masking |-> "selective"]
Profiles ==
    {UsedBy([profileHTTP |-> Path("T", app, "h", "")], {Http(app, opts)}) \cup {{}}
        : app \in {"A", "B"}, opts \in SUBSET {"webSocketsEnabled", "proxyConnectEnabled"}}
    \cup {UsedBy([profileDOS |-> At("x")], {X("DOS_Profile", "x", opts, None, 0)}) \cup {{}}
        : opts \in {{}, {"noBotDefense"}}}
    \cup {UsedBy([policyWAF |-> At("x")], {X("WAF_Policy", "x", opts, None, v)}) \cup {{}}
        : opts \in {{}, {"bigipPolicy"}}, v \in {0, 1}}
    \cup {{{}} \cup UsedBy([profileAccess |-> At("x"), policyPerRequestAccess |-> At("y")],
                 {X("Access_Profile", "x", {}, None, v), X("Per_Request_Access_Policy", "y", {}, None, v)}) : v \in {0}}

(* Items of /Common that T uses, created before T and deleted after it.    *)
RuleOf(v)    == Shared(X("iRule", "r", {}, None, v))
MonOf(v)     == Shared(Mon(v))
PolicyOf(x)  == [x EXCEPT !.uses = [rule |-> Global_("r")]]
Commons ==
    {{{}, {Shared(X("Access_Profile", "x", {}, None, 0))}},
     {{}, {RuleOf(0)}, {RuleOf(1), Service([iRules |-> Global_("r")], {}, 0)}},
     {{}, {MonOf(0), PoolOf({"1"}, [monitor |-> Global_("m")], 0)}, {MonOf(1)}},
     {{}, {Shared(Cert({}, 0))}, {Shared(Cert({"chainCA"}, 1)),
          X("TLS_Client", "t", {}, [clientCertificate |-> Global_("c")], 0)}},
     {{}, {Shared(PoolOf({"1"}, None, 0))}, {Shared(PoolOf({"2"}, None, 0))}},
     {{}, {Shared(PoolOf({"1"}, None, 0)), PolicyOf(X("Endpoint_Policy", "x", {}, None, 0)), RuleOf(0)}},
     {{}, {Shared(Service(None, {}, 0))}, {Shared(Service(None, {}, 1))}},
     {{}, {Shared(X("Service_Address", "a", {}, None, 0))},
          {Shared(X("Service_Address", "a", {}, None, 0)),
           [ByUse EXCEPT !.addresses[1].use = Global_("a")]}}}

(* References between the items of T.                                      *)
Pair(class, opts, uses, others) ==
    {{}, others, others \cup {X(class, "x", opts, uses, 0)}}
LogTo(t, v) == X("Log_Destination", "d", {}, None, v) @@ [type |-> t]
Policies_ ==
    {Pair("Log_Publisher", {}, [destination |-> At("d")], {LogTo("remote-high-speed-log", 0)}),
     Pair("Firewall_Rule_List", {}, [source |-> At("l")], {X("Firewall_Address_List", "l", {}, None, 0)}),
     Pair("Firewall_Policy", {}, [rule |-> At("l")], {X("Firewall_Rule_List", "l", {}, None, 0)}),
     {{}, {Shared(X("Firewall_Policy", "x", {}, None, 0))},
          {Shared(X("Firewall_Policy", "x", {"routeDomainEnforcement"}, None, 0))}},
     Pair("Endpoint_Policy", {}, [pool |-> At("p")], {PoolOf({"1"}, None, 0)}),
     Pair("Enforcement_Policy", {}, [rule |-> At("l")], {X("Enforcement_iRule", "l", {}, None, 0)}),
     Pair("DNS_Zone", {}, [tsig |-> At("l")], {X("DNS_TSIG_Key", "l", {}, None, 0)}),
     Pair("Enforcement_Listener", {}, [profile |-> At("l")], {X("Enforcement_Profile", "l", {}, None, 0)}),
     Pair("Cipher_Group", {}, [rule |-> At("l")], {X("Cipher_Rule", "l", {}, None, 0)}),
     Pair("NAT_Policy", {}, [translation |-> At("l")], {X("NAT_Source_Translation", "l", {}, None, 0)}),
     Pair("HTML_Profile", {}, [rule |-> At("l")], {X("HTML_Rule", "l", {}, None, 0) @@ [type |-> "tag-remove"]}),
     Pair("Ping_Access_Profile", {"useHTTPS"}, [pingAccessProperties |-> At("l")],
          {X("Ping_Access_Agent_Properties", "l", {}, None, 0)})}
    \cup {Versions(LAMBDA v : {X("Data_Group", "x", opts, None, v)})
              : opts \in {{"internal"}, {"external"}, {"externalFilePath", "bearerToken"}}}
    \cup {Versions(LAMBDA v : {X("iFile", "x", opts, None, v)}) : opts \in {{}, {"bigip"}}}
    \cup {Versions(LAMBDA v : {X("Monitor", "x", {"script"}, None, v) @@ [type |-> "external"]}),
           Versions(LAMBDA v : {X("Analytics_Profile", "x", {}, None, v)}),
           {{}, {LogTo("remote-high-speed-log", 0)}, {LogTo("remote-syslog", 0)}},
           {{}} \cup {{X("SNAT_Pool", "x", {}, None, 0) @@ [snats |-> snats]} : snats \in {{"1"}, {"1", "2"}}},
           {{}, {X("SNAT_Pool", "x", {}, None, 0) @@ [snats |-> {"1"}],
                 Translation_(1)}},
           {{}, {PoolOf({"1"}, None, 0)}, {Translation_(1)},
                {X("SNAT_Pool", "x", {}, None, 0) @@ [snats |-> {"1"}]}},
           {{}, {Translation_(1)}, {Translation_(2)}},
           {{}, {X("Adapt_Profile", "x", {"request"}, None, 0),
                 Service([profileRequestAdapt |-> At("x")], {}, 0)}},
           {{}, {X("Idle_Timeout_Policy", "x", {}, None, 0)},
                {X("Idle_Timeout_Policy", "x", {}, None, 0), Service([policyIdleTimeout |-> At("x")], {}, 0)}}}

(* One object of each type that an item may have.                          *)
TypesOf ==
    [Monitor |-> {"dns", "ftp", "http", "https", "http2", "icmp", "inband", "ldap", "mysql", "postgresql",
                  "radius", "sip", "smtp", "tcp", "tcp-half-open", "udp"},
     Persist |-> {"cookie", "destination-address", "source-address", "hash", "msrdp", "sip-info",
                  "tls-session-id", "universal"},
     DNS_Cache |-> {"transparent", "resolver", "validating-resolver"},
     HTML_Rule |-> {"comment-raise-event", "comment-remove", "tag-append-html", "tag-prepend-html",
                    "tag-raise-event", "tag-remove", "tag-remove-attribute"},
     Log_Destination |-> {"management-port", "remote-high-speed-log", "remote-syslog", "splunk"},
     GSLB_Monitor |-> {"http", "https", "gateway-icmp", "tcp-half-open", "mysql", "ldap", "smtp", "sip",
                       "tcp", "udp", "bigip"},
     GSLB_Pool |-> {"a", "aaaa", "cname", "mx", "naptr"}]

Types ==
    UNION {{Versions(LAMBDA v : {X(class, "x", {}, None, v) @@ [type |-> type]})
                   : type \in TypesOf[class]} : class \in DOMAIN TypesOf}

(* GSLB: a domain with its pool, the server that it is on, a record of the *)
(* topology with a region.                                                 *)
G(class, name, uses, ver) == Shared(X(class, name, {}, uses, ver))
Center         == G("GSLB_Data_Center", "c", None, 0)
Server(ver)    == G("GSLB_Server", "v", [dataCenter |-> Global_("c")], ver) @@ [devices |-> {"1"}]
GPool(uses, v) == X("GSLB_Pool", "p", {}, uses, v) @@ [type |-> "a"]
Domain(uses, v) == X("GSLB_Domain", "w", {}, uses, v) @@ [type |-> "a", domainName |-> "n"]
GSLB ==
    {{{}, {Center}, {Center, Server(0)}, {Center, Server(1)}},
     {{}, {Center, Server(0), GPool([member |-> Global_("v")], 0)},
          {Center, Server(0), GPool([member |-> Global_("v")], 1), Domain([pool |-> At("p")], 0)}},
     {{}, {GPool(None, 0), Domain([pool |-> At("p")], 0)}, {GPool(None, 0), Domain([pool |-> At("p")], 1)}},
     {{}, {G("GSLB_Topology_Region", "g", None, 0)},
          {G("GSLB_Topology_Region", "g", None, 0), G("GSLB_Topology_Region", "h", [region |-> Global_("g")], 0)}},
     {{}, {G("GSLB_Topology_Records", "x", None, 0)}, {G("GSLB_Topology_Records", "x", None, 1)}},
     {{}, {Server(0), Center, G("GSLB_Prober_Pool", "x", [member |-> Global_("v")], 0)}},
     {{}, {X("GSLB_iRule", "x", {}, None, 0)}, {X("GSLB_iRule", "x", {}, None, 1)}},
     {{}, {X("GSLB_Monitor", "x", {"script"}, None, 0) @@ [type |-> "external"]},
          {X("GSLB_Monitor", "x", {"script"}, None, 1) @@ [type |-> "external"]}}}

(* Two services of one address, discovered addresses, bundles.             *)
Second(x, class) == [x EXCEPT !.name = "z", !.class = class]
OtherServices ==
    {{{}, {Service(None, {}, 0), Second(Service(None, {}, 1), class)}}
        : class \in {"Service_TCP", "Service_Forwarding"}}
    \cup {{{}, {Service(None, {}, 0), Second(Service(None, {"internal"}, 0), "Service_Generic")}},
          {{}, {X("Firewall_Address_List", "x", {"discovery"}, None, 0)},
               {X("Address_Discovery", "x", {}, None, 0)}},
          {{}, {X("CA_Bundle", "x", {"bundle"}, None, 0)}, {X("CA_Bundle", "x", {"bundle"}, None, 1)}}}

AllFamilies ==
    Plain_ \cup {Pools, Names} \cup TLS \cup Addresses \cup Profiles \cup Commons \cup Policies_ \cup GSLB
    \cup OtherServices \cup Types

(* A member of one pool is changed while another pool gains one.           *)
TwoPools ==
    {{{PoolOf({"1"}, None, 0), [PoolOf({"2"}, None, 0) EXCEPT !.name = "q"]},
      {PoolOf({"1"}, None, 1), [PoolOf({"2", "3"}, None, 0) EXCEPT !.name = "q"]}}}
====
