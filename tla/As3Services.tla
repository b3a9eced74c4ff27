----------------------------- MODULE As3Services -----------------------------
(***************************************************************************)
(* The services of src/lib/map_as3.js: the virtual servers of an item with *)
(* the addresses and the policies that are made for them.                  *)
(*                                                                         *)
(* A service has addresses, the sequence of its virtualAddresses: [by,     *)
(* name, use], where by is "inline", "use" or "bigip".                     *)
(***************************************************************************)
EXTENDS As3Traffic

Root(tenant) == IF tenant = "Common" THEN "Shared" ELSE ""

(* The name of a virtual address has a prefix, since AS3 tells objects by  *)
(* their paths and a node may have the address too.                        *)
AddressPath(tenant, app, name) == Path(tenant, app, name, "Service_Address-")

Service_Address(x) ==
    {Object(x, "ltm virtual-address", AddressPath(x.tenant, Root(x.tenant), x.name), Uses(x))}

(* A SNAT pool has translations of its addresses, which desired-           *)
(* ConfigPostProcessing adds unless they are declared or are in /Common.   *)
TranslationPath(tenant, address) == Path(tenant, "", address, "")

SNAT_Pool(x, path, addresses) ==
    {Object(x, "ltm snatpool", path, {TranslationPath(x.tenant, a) : a \in addresses})}

SNAT_Translation(x) ==
    {Object(x, "ltm snat-translation", TranslationPath(x.tenant, x.address), {})}

createDefaultSnatTranslations(x, addresses) ==
    {Object(x, "ltm snat-translation", TranslationPath(x.tenant, a), {}) : a \in addresses}

-----------------------------------------------------------------------------
(* Service_Core, for the virtual servers whose names are in names.         *)

NumberedNames(x) == [i \in DOMAIN x.addresses |-> Numbered(i)]
Redirects == <<"-Redirect-", "-Redirect--1-", "-Redirect--2-">>

Inline(x, i) == x.addresses[i].by = "inline"

(* The address of a virtual server: one of its own, in /Common if it is    *)
(* shared, unless it is internal or has an address list.                   *)
OwnAddress(x, i) ==
    IF Is(x, "shareAddresses") THEN AddressPath("Common", "", x.addresses[i].name)
    ELSE AddressPath(x.tenant, Root(x.tenant), x.addresses[i].name)

HasOwnAddress(x, i) ==
    Inline(x, i) /\ ~Is(x, "internal") /\ "destinationAddressList" \notin DOMAIN x.uses

Destination(x, i) ==
    CASE HasOwnAddress(x, i)         -> {OwnAddress(x, i)}
      [] x.addresses[i].by = "use"   ->
             LET use == x.addresses[i].use
             IN  {AddressPath(use.tenant, Root(use.tenant), use.item)}
      [] OTHER                       -> {}

Lists(x) == Use(x, "destinationAddressList") \cup Use(x, "virtualPort") \cup Use(x, "sourceAddress")

SelfPool(path) == Part(path, "-self")
Criteria(path) == Part(path, "_VS_TMC_OBJ")
ServicePolicy(x, timer) == Path(x.tenant, x.app, timer, "f5_appsvcs_")    \* by the hash of timer

Service_Core(decl, x, names, more) ==
    LET timers  == Use(x, "policyIdleTimeout")
        refs    == more \cup ProfileRefs(decl, [x EXCEPT !.uses =
                       [p \in DOMAIN x.uses \ {"policyIdleTimeout", "destinationAddressList",
                                               "virtualPort", "sourceAddress", "policyWAF"} |-> x.uses[p]]])
        path(i) == Part(Here(x), names[i])
        one(i)  ==
            When(HasOwnAddress(x, i), {Object(x, "ltm virtual-address", OwnAddress(x, i), {})})
            \cup When(Is(x, "selfSNAT"), SNAT_Pool(x, SelfPool(path(i)), {x.addresses[i].name}))
            \cup When(Lists(x) # {}, {Object(x, "ltm traffic-matching-criteria",
                                             Criteria(path(i)), Lists(x))})
            \cup {Object(x, "ltm virtual", path(i),
                         refs
                         \cup {ServicePolicy(x, timer) : timer \in timers}
                         \cup When(Is(x, "selfSNAT"), {SelfPool(path(i))})
                         \cup (IF Lists(x) # {} THEN {Criteria(path(i))} ELSE Destination(x, i)))}
    IN  When(Is(x, "enable"),
             {Object(x, "net service-policy", ServicePolicy(x, timer), {timer}) : timer \in timers}
             \cup UNION {one(i) : i \in DOMAIN x.addresses})

-----------------------------------------------------------------------------
(* Service_HTTP *)

WafPolicy(x) == Path(x.tenant, x.app, x.name, "_WAF_")

(* A WAF policy is attached by an LTM policy, unless it is one of the      *)
(* device.                                                                 *)
WafRefs(decl, x) == {p \in Use(x, "policyWAF") : ~Is(Item(decl, p), "bigipPolicy")}

(* The WebSocket profile of its HTTP profile, unless it has one.           *)
WebSocketRefs(decl, x) ==
    UNION {LET http == Item(decl, p)
           IN  IF "profileWebSocket" \in DOMAIN http.uses THEN Use(http, "profileWebSocket")
               ELSE When(Is(http, "webSocketsEnabled"), {WebSocketProfile(http)})
           : p \in When("profileWebSocket" \notin DOMAIN x.uses, Use(x, "profileHTTP"))}

ProxyConnectRefs(decl, x) ==
    {ProxyConnectProfile(Item(decl, p))
     : p \in {q \in Use(x, "profileHTTP") : Is(Item(decl, q), "proxyConnectEnabled")}}

BotDefense(path) == Path(path.tenant, path.app, path.item, "_botDefense")

(* The bot defense of its DOS profile, unless it has one.                  *)
BotDefenseRefs(decl, x) ==
    When("asm" \in Provisioned /\ "profileBotDefense" \notin DOMAIN x.uses,
         {BotDefense(p) : p \in {q \in Use(x, "profileDOS") : ~Is(Item(decl, q), "noBotDefense")}})

(* The per-request policy of an access profile is at the root too.         *)
AccessRefs(x) == {InTenant(p) : p \in Use(x, "policyPerRequestAccess")}

Service_HTTP(decl, x) ==
    LET waf  == Use(x, "policyWAF")
        bare == [x EXCEPT !.uses = [p \in DOMAIN @ \ {"policyPerRequestAccess"} |-> @[p]]]
    IN  When(waf # {}, {Object(x, "ltm policy", WafPolicy(x), WafRefs(decl, x))})
        \cup Service_Core(decl, bare, NumberedNames(x),
                          When(waf # {}, {WafPolicy(x)})
                          \cup WebSocketRefs(decl, x) \cup ProxyConnectRefs(decl, x)
                          \cup BotDefenseRefs(decl, x) \cup AccessRefs(x))

(* A second virtual server at port 80 redirects to the first.              *)
Redirect(x) ==
    [x EXCEPT !.opts = (@ \cap {"shareAddresses"}) \cup When(Is(x, "enable") /\ Is(x, "redirect80"), {"enable"}),
              !.uses = [p \in DOMAIN @ \cap {"profileTCP", "destinationAddressList"} |-> @[p]]]

Service_HTTPS(decl, x) ==
    Service_HTTP(decl, x) \cup Service_Core(decl, Redirect(x), Redirects, {})

(* TCP, UDP, SCTP, L4, Generic and Forwarding differ in their profiles.    *)
Service_Other(decl, x) == Service_Core(decl, x, NumberedNames(x), {})
=============================================================================
