------------------------------- MODULE ReadBack -------------------------------
(***************************************************************************)
(* getTenantConfig of src/lib/fetch.js and src/lib/map_mcp.js: the objects *)
(* of a tenant that AS3 reads back from the device, to compare the desired *)
(* ones with.                                                              *)
(*                                                                         *)
(* Each kind of object has a path of the device's API, in the order of     *)
(* src/lib/paths.json, and a translator, in the order of map_mcp.js.  An   *)
(* object of no such kind, or one that AS3 does not take for its own, is   *)
(* one that AS3 forgets.                                                   *)
(***************************************************************************)
EXTENDS As3Declaration

(* A kind is a component with its type.                                    *)
Components(cmds)      == {<<cmd, "">> : cmd \in cmds}
OfTypes(cmd, types)   == {<<cmd, type>> : type \in types}
KindOf(o)             == <<o.cmd, o.type>>

PartitionKinds ==
    Components({"auth partition", "sys crypto cert-validator ocsp", "ltm alg-log-profile",
                "sys file data-group", "ltm data-group external", "ltm data-group internal",
                "ltm dns nameserver", "ltm profile dns-logging", "ltm dns tsig-key", "ltm dns zone"})
    \cup OfTypes("ltm html-rule",
                 {"comment-raise-event", "comment-remove", "tag-append-html", "tag-prepend-html",
                  "tag-raise-event", "tag-remove", "tag-remove-attribute"})
    \cup OfTypes("ltm dns cache", {"transparent", "resolver", "validating-resolver"})

MonitorKinds ==
    OfTypes("ltm monitor",
            {"dns", "external", "ftp", "http", "https", "http2", "gateway-icmp", "inband", "ldap",
             "mysql", "postgresql", "radius", "sip", "smtp", "tcp", "tcp-half-open", "udp"})

NodeKinds == OfTypes("ltm node", {"", "fqdn"})

PersistenceKinds ==
    OfTypes("ltm persistence",
            {"cookie", "dest-addr", "source-addr", "hash", "msrdp", "sip", "ssl", "universal"})

ApplicationProfileKinds ==
    Components({"ltm profile " \o profile : profile \in
                {"client-ldap", "client-ssl", "dns", "fix", "ftp", "json", "pptp", "service",
                 "splitsessionclient", "sse", "connector", "rtsp", "statistics", "tftp",
                 "websocket", "http-proxy-connect", "html", "http", "http2", "http-compression"}})

TransportProfileKinds ==
    Components({"ltm profile " \o profile : profile \in
                {"web-acceleration", "one-connect", "server-ldap", "server-ssl", "smtps", "socks",
                 "stream", "tcp", "udp", "sctp", "ipother", "radius", "classification", "fastl4",
                 "analytics", "tcp-analytics"}})

PoolKinds ==
    Components({"ltm profile " \o profile : profile \in
                {"request-log", "rewrite", "icap", "request-adapt", "response-adapt"}}
               \cup {"ltm policy", "ltm policy-strategy", "ltm pool"})

RuleKinds ==
    Components({"ltm rule", "ltm cipher rule", "security dos profile", "security ssh profile"})

BotDefenseKinds == Components({"security bot-defense profile", "ltm snatpool", "ltm snat-translation"})

VirtualKinds ==
    Components({"ltm traffic-matching-criteria", "ltm virtual", "ltm virtual-address",
                "net bwc policy", "net service-policy", "net timer-policy", "net address-list",
                "net port-list"})

SubscriberKinds ==
    Components({"net route-domain", "pem irule", "pem reporting format-script",
                "pem interception-endpoint", "pem listener", "pem profile diameter-endpoint",
                "pem profile radius-aaa", "pem profile spm", "pem profile subscriber-mgmt",
                "pem service-chain-endpoint", "security protocol-inspection profile",
                "security log profile"})

FileKinds ==
    Components({"sys file ssl-cert", "sys file ssl-key", "sys file external-monitor", "sys folder",
                "sys log-config publisher", "asm policy", "apm profile access",
                "apm policy access-policy", "apm aaa ping-access-properties-file",
                "apm profile ping-access", "security firewall address-list",
                "security firewall port-list", "security firewall rule-list"})
    \cup OfTypes("sys log-config destination",
                 {"management-port", "remote-high-speed-log", "remote-syslog", "splunk"})

SecurityKinds ==
    Components({"security firewall policy", "security nat policy", "security nat source-translation",
                "pem policy", "pem forwarding-endpoint", "gtm datacenter", "gtm prober-pool"})
    \cup OfTypes("gtm pool", {"a", "aaaa", "cname", "mx", "naptr"})

ServerKinds ==
    Components({"gtm server", "gtm region", "gtm topology", "gtm global-settings load-balancing"})

DomainKinds ==
    OfTypes("gtm wideip", {"a", "aaaa", "cname", "mx", "naptr"})
    \cup OfTypes("gtm monitor",
                 {"http", "https", "gateway-icmp", "tcp-half-open", "mysql", "ldap", "smtp", "sip",
                  "tcp", "udp", "external", "bigip"})
    \cup Components({"gtm rule"})

TaskKinds ==
    Components({"mgmt shared service-discovery task", "ltm cipher group", "ltm ifile",
                "sys file ifile", "security ip-intelligence policy"})

Translated ==
    PartitionKinds \cup MonitorKinds \cup NodeKinds \cup PersistenceKinds
    \cup ApplicationProfileKinds \cup TransportProfileKinds \cup PoolKinds \cup RuleKinds
    \cup BotDefenseKinds \cup VirtualKinds \cup SubscriberKinds \cup FileKinds \cup SecurityKinds
    \cup ServerKinds \cup DomainKinds \cup TaskKinds

-----------------------------------------------------------------------------
(* Paths of modules that the device does not have are not read.  The       *)
(* module of a component is mostly its first word.                         *)
Needs(cmd) ==
    CASE cmd = "ltm alg-log-profile" -> {"cgnat"}
      [] cmd \in {"ltm profile analytics", "ltm profile tcp-analytics"} -> {"avr"}
      [] cmd = "ltm profile classification" -> {"afm", "apm", "pem"}
      [] cmd \in {"asm policy", "security bot-defense profile"} -> {"asm"}
      [] cmd \in {"security firewall address-list", "security firewall port-list",
                  "security firewall rule-list", "security firewall policy", "security nat policy",
                  "security nat source-translation", "security ssh profile",
                  "security protocol-inspection profile"} -> {"afm"}
      [] cmd \in {"security log profile", "security dos profile",
                  "security ip-intelligence policy"} -> {"afm", "asm"}
      [] cmd \in {"pem policy", "pem forwarding-endpoint", "pem interception-endpoint", "pem irule",
                  "pem reporting format-script", "pem service-chain-endpoint", "pem listener",
                  "pem profile radius-aaa", "pem profile diameter-endpoint", "pem profile spm",
                  "pem profile subscriber-mgmt"} -> {"pem"}
      [] cmd \in {"gtm datacenter", "gtm pool", "gtm prober-pool", "gtm server", "gtm wideip",
                  "gtm region", "gtm rule", "gtm topology", "gtm global-settings load-balancing",
                  "gtm monitor"} -> {"gtm"}
      [] cmd \in {"apm profile access", "apm profile ping-access",
                  "apm aaa ping-access-properties-file", "apm policy access-policy"} -> {"apm"}
      [] OTHER -> {}

isOneOfProvisioned(cmd) == Needs(cmd) = {} \/ Needs(cmd) \cap Provisioned # {}

(* An address list of either kind is one of both kinds on the device: the  *)
(* one of the firewall, which is read last, is kept.  A data group of a    *)
(* file is read with its file, which is kept for the same reason.          *)
translated(o) ==
    IF o.cmd \in {"net address-list", "net port-list"} /\ "afm" \in Provisioned
    THEN [o EXCEPT !.cmd = IF @ = "net address-list" THEN "security firewall address-list"
                           ELSE "security firewall port-list"]
    ELSE o

(* What AS3 marks as its own where it shares the folder with others, by a  *)
(* description or by metadata.                                             *)
Marked == {"gtm server", "gtm datacenter", "gtm region", "gtm prober-pool", "gtm topology"}

RecordedByName == {"apm profile access", "net route-domain"}

(* Mutant of isAs3Item: AS3 knows its own by their folder alone. *)
isInFolder(o, partition, recorded) == partition # "Common" \/ o.path.app = "Shared"

(* A setting of the device is always read; the profiles of access and the  *)
(* route domains of /Common are those whose names AS3 recorded.            *)
isAs3Item(o, partition, recorded) ==
    \/ partition # "Common" \/ o.path.app = "Shared"
    \/ o.cmd \in Marked \cup {"ltm snat-translation", "gtm global-settings load-balancing"}
    \/ o.cmd \in RecordedByName /\ o.path \in recorded

getTenantConfig(device, partition, recorded) ==
    {translated(o) : o \in {p \in device : /\ p.path.tenant = partition
                                           /\ KindOf(p) \in Translated
                                           /\ isOneOfProvisioned(p.cmd)
                                           /\ isAs3Item(p, partition, recorded)}}

-----------------------------------------------------------------------------
(* The names of the profiles of access and of the route domains of Common  *)
(* that the next request is to know, recorded after Common's last pass.    *)
updateDataGroup(desired) ==
    {o.path : o \in {p \in desired : p.cmd \in RecordedByName}}
=============================================================================
