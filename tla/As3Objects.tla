----------------------------- MODULE As3Objects ------------------------------
(***************************************************************************)
(* src/lib/map_as3.js, what its classes have in common: the objects of the *)
(* device that an item of a declaration becomes.                           *)
(*                                                                         *)
(* An item is [class, tenant, app, name, opts, uses, ver]: the facts of it *)
(* that decide which objects there are, the items that its properties      *)
(* point to (pointers to what AS3 does not manage are left out), and a     *)
(* version for everything else.  Items with more fields say so.            *)
(*                                                                         *)
(* An object is [cmd, type, path, refs, members, upload, ver]: its tmsh    *)
(* component with the type that some have, its path, the paths it refers   *)
(* to, what it has one by one (the members of a pool), and the file on the *)
(* device that it is loaded from, which has been uploaded.                 *)
(***************************************************************************)
EXTENDS Naturals, Sequences, FiniteSets

CONSTANT Provisioned    \* the modules of the device that decide on objects: "asm"

(* A path.  The name of an object is that of an item with prefixes or      *)
(* suffixes, its part; app "" stands for the root of the tenant, item ""   *)
(* for the folder itself.                                                  *)
Part(path, p) == IF p = "" THEN path ELSE [path EXCEPT !.part = Append(@, p)]
Path(tenant, app, item, p) ==
    Part([tenant |-> tenant, app |-> app, item |-> item, part |-> <<>>], p)
Here(x)        == Path(x.tenant, x.app, x.name, "")
InTenant(path) == [path EXCEPT !.app = ""]
Generated(x, item, part) == Path(x.tenant, x.app, item, part)    \* f5_appsvcs_...

Is(x, opt)  == opt \in x.opts
Use(x, p)   == IF p \in DOMAIN x.uses THEN {x.uses[p]} ELSE {}
Uses(x)     == {x.uses[p] : p \in DOMAIN x.uses}

(* The properties but those in ps, which do not become references as they are. *)
UsesBut(x, ps) == {x.uses[p] : p \in DOMAIN x.uses \ ps}

NoFile == <<>>

Object(x, cmd, path, refs) ==
    [cmd |-> cmd, type |-> "", path |-> path, refs |-> refs, members |-> {},
     upload |-> NoFile, ver |-> x.ver]

Typed(object, type)  == [object EXCEPT !.type = type]
Loaded(object, file) == [object EXCEPT !.upload = file]
Of(object, members)  == [object EXCEPT !.members = members]
When(condition, objects) == IF condition THEN objects ELSE {}

(* The names of the files that are uploaded: the path with _ for /, or the *)
(* last part of it.                                                        *)
FileOfPath(path, kind) == <<kind, path>>
FileOfName(path, kind) == <<kind, path.item>>

(* Most classes are one object of the item's name, whose references are    *)
(* those of its properties.                                                *)
Plain(x, cmd) == {Object(x, cmd, Here(x), Uses(x))}

-----------------------------------------------------------------------------
(* Certificates: name.crt, name.key and name-bundle.crt are objects of     *)
(* their own, and whoever refers to the certificate refers to them.        *)
Crt(path)    == Part(path, ".crt")
Key(path)    == Part(path, ".key")
Bundle(path) == Part(path, "-bundle.crt")

(* The item at a path of the declaration.                                  *)
Item(decl, path) == CHOOSE x \in decl : Here(x) = path
Exists(decl, path) == \E x \in decl : Here(x) = path

(* parseCertificate and genCert *)
CertificateRefs(decl, path) ==
    {Crt(path), Key(path)}
    \cup When(Exists(decl, path) /\ Is(Item(decl, path), "chainCA"), {Bundle(path)})

-----------------------------------------------------------------------------
(* The names of the client-ssl profiles of a TLS_Server: its own and its   *)
(* own numbered, or those of its certificates; one for all if hybrid.      *)
(* A TLS_Server has certificates, the paths of them in their order.        *)
Numbered(i) == <<"", "-1-", "-2-", "-3-">>[i]

(* profile(), for the services that refer to a TLS_Server.                 *)
Attached(decl, path) ==
    LET server == Item(decl, path)
        last   == IF Is(server, "hybrid") THEN 1 ELSE Len(server.certificates)
    IN  {IF Is(server, "certificateNames")
         THEN [path EXCEPT !.item = server.certificates[i].item]
         ELSE Part(path, Numbered(i)) : i \in 1..last}

(* STARTTLS has a profile for every mode of it, in the application of the  *)
(* TLS item.  A service that points to several attaches none.              *)
LdapProfile(path, side)  == Path(path.tenant, path.app, "f5_appsvcs_ldap", side)
SmtpsProfile(path)       == Path(path.tenant, path.app, "f5_appsvcs_smtps", "")

ProfileRefs(decl, x) ==
    UNION {Attached(decl, path)
           \cup When(Is(Item(decl, path), "ldapStartTLS") /\ ~Is(x, "manyTLS"),
                     {LdapProfile(path, "clientside")})
           \cup When(Is(Item(decl, path), "smtpsStartTLS") /\ ~Is(x, "manyTLS"),
                     {SmtpsProfile(path)}) : path \in Use(x, "serverTLS")}
    \cup UNION {{path} \cup When(Is(Item(decl, path), "ldapStartTLS") /\ ~Is(x, "manyTLS"),
                                 {LdapProfile(path, "serverside")})
                : path \in Use(x, "clientTLS")}
    \cup {InTenant(path) : path \in Use(x, "policyIAM") \cup Use(x, "profileAccess")}
    \cup UsesBut(x, {"serverTLS", "clientTLS", "policyIAM", "profileAccess"})
=============================================================================
