------------------------------ MODULE ConfigDiff ------------------------------
(***************************************************************************)
(* getDiff of src/lib/fetch.js and src/lib/map_cli.js: what a tenant's     *)
(* configuration on the device and the desired one differ in, and the      *)
(* tmsh commands that a difference becomes.                                *)
(*                                                                         *)
(* A diff is [kind, prop, part, old, new]: N, D or E, of the object or of  *)
(* the property prop of it; part is the member that it is about.           *)
(*                                                                         *)
(* A command is [do, object, quiet]: what it does with the object, and     *)
(* whether an error of it is caught.                                       *)
(***************************************************************************)
EXTENDS As3Declaration, SequencesExt

NoObject == Container("", "", "")
Diff(kind, prop, part, old, new) ==
    [kind |-> kind, prop |-> prop, part |-> part, old |-> old, new |-> new]

Whole(d)   == d.prop = ""
PathOf(d)  == IF d.new = NoObject THEN d.old.path ELSE d.new.path
Command(do, object) == [do |-> do, object |-> object, quiet |-> FALSE]
Quiet(command)      == [command EXCEPT !.quiet = TRUE]

-----------------------------------------------------------------------------
(* What is loaded from a file is loaded anew unless changes of the file    *)
(* are ignored, which the schema makes the default of none.                *)
Reloaded == {"asm policy", "apm aaa ping-access-properties-file",
             "apm profile access", "apm policy access-policy"}

(* References that are told one by one; others are the values of properties.*)
Keyed == {"ltm virtual", "ltm pool", "ltm policy", "sys log-config publisher", "sys file ssl-cert",
          "security firewall rule-list", "gtm pool", "gtm wideip", "gtm region"}

Others(o) == o.refs \ o.members

(* The order of a set is arbitrary: one order and its reverse are tried.   *)
InOrder(set) == FoldSet(LAMBDA x, seq : Append(seq, x), <<>>, set)
Ordered(set, backwards) == IF backwards THEN Reverse(InOrder(set)) ELSE InOrder(set)

(* Nodes and translations have properties that the others lack.            *)
Turned(o, n) == {o.cmd, n.cmd} = {"ltm node", "ltm snat-translation"}

(* A version is that of the members that stay, if there are such members.  *)
Changes(o, n) ==
    LET lost   == Others(o) \ Others(n)
        gained == Others(n) \ Others(o)
        kept   == o.members \cap n.members
    IN  When(o.type # n.type \/ o.cmd # n.cmd, {Diff("E", "command", {}, o, n)})
        \cup When(Turned(o, n), {Diff(kind, "own", {}, o, n) : kind \in {"N", "D"}})
        \cup When(o.ver # n.ver,
                  IF n.cmd = "ltm pool" /\ kept # {} THEN {Diff("E", "members", {m}, o, n) : m \in kept}
                  ELSE {Diff("E", "value", {}, o, n)})
        \cup When(lost \cup gained # {},
                  IF n.cmd \notin Keyed THEN {Diff("E", "refs", {}, o, n)}
                  ELSE When(lost # {}, {Diff("D", "refs", {}, o, n)})
                       \cup When(gained # {}, {Diff("N", "refs", {}, o, n)}))
        \cup {Diff("D", "members", {m}, o, n) : m \in o.members \ n.members}
        \cup {Diff("N", "members", {m}, o, n) : m \in n.members \ o.members}

(* Mutant of aligned: a list is what the device calls it. *)
unaligned(o, n) == o

(* The device has lists of addresses and of ports twice: what is there is  *)
(* taken for the one that is desired.                                      *)
Duplicated == {"net address-list", "security firewall address-list",
               "net port-list", "security firewall port-list"}

aligned(o, n) == IF n.cmd \in Duplicated THEN [o EXCEPT !.cmd = n.cmd] ELSE o

(* Topology records cannot be edited, and a changed setting is set once.   *)
Existing(o, n) ==
    IF \/ n.cmd \in Reloaded
       \/ n.cmd \in {"gtm topology", "gtm global-settings load-balancing"} /\ o # n
    THEN {Diff("N", "", {}, o, n)}
    ELSE Changes(o, n)

(* The differences in the order of the current objects, then the new ones: *)
(* folders are the first of them and the partition is the last.            *)
getDiff(current, desired, backwards) ==
    LET old == Ordered(current, backwards)
        new == {n \in desired : n.path \notin Paths(current)}
        ofCmd(cmd) == InOrder({n \in new : n.cmd = cmd})
        others == Ordered({n \in new : n.cmd \notin {"sys folder", "auth partition"}}, backwards)
        diffs(o) == IF o.path \notin Paths(desired) THEN {Diff("D", "", {}, o, NoObject)}
                    ELSE LET n == ByPath(desired, o.path) IN Existing(aligned(o, n), n)
    IN  FlattenSeq([i \in DOMAIN old |-> Ordered(diffs(old[i]), backwards)])
        \o [i \in DOMAIN ofCmd("sys folder") |-> Diff("N", "", {}, NoObject, ofCmd("sys folder")[i])]
        \o [i \in DOMAIN others |-> Diff("N", "", {}, NoObject, others[i])]
        \o [i \in DOMAIN ofCmd("auth partition") |->
               Diff("N", "", {}, NoObject, ofCmd("auth partition")[i])]

-----------------------------------------------------------------------------
(* The commands of a diff, and those that it has before and after the      *)
(* transaction and when the script fails.                                  *)
Commands(commands) ==
    [preTrans |-> <<>>, commands |-> commands, postTrans |-> <<>>, rollback |-> <<>>]

NoCommands == Commands(<<>>)

concatCommands(g, h) == [field \in DOMAIN g |-> g[field] \o h[field]]

Cleared(o) == [o EXCEPT !.refs = @ \cap o.members]
With(o, members) == [o EXCEPT !.members = members, !.refs = @ \cap members]
Bare(o)          == [o EXCEPT !.refs = {}]

SslFiles == {"sys file ssl-cert", "sys file ssl-key"}
Policies == {"apm profile access", "apm policy access-policy"}
Settings == {"net route-domain", "gtm global-settings load-balancing"}

tmshDelete(d, firstPassNoDelete) ==
    LET o      == d.old
        delete == Command("delete", o)
        clear  == Command("modify", [Cleared(o) EXCEPT !.refs = {}])
    IN  CASE o.cmd = "auth partition" \/ (o.cmd = "sys file data-group" /\ d.kind = "E") ->
                 IF d.kind = "D" THEN Commands(<<delete>>) ELSE NoCommands
          [] o.cmd = "ltm node" ->
                 CASE d.kind = "E" /\ d.new.cmd = "ltm snat-translation" -> Commands(<<delete>>)
                   [] d.kind = "E" -> NoCommands
                   [] d.kind = "D" /\ Whole(d) /\ o.path.tenant = "Common" /\ ~firstPassNoDelete ->
                          [NoCommands EXCEPT !.postTrans = <<Quiet(delete)>>]
                   [] OTHER -> Commands(<<delete>>)
          [] o.cmd = "ltm policy" -> Commands(<<clear, delete>>)
          [] o.cmd = "sys log-config publisher" ->
                 IF d.kind = "D" /\ Whole(d) THEN [Commands(<<clear>>) EXCEPT !.postTrans = <<delete>>]
                 ELSE Commands(<<clear, delete>>)
          [] o.cmd \in {"security firewall rule-list", "pem policy"} /\ Whole(d) /\ o.refs # {} ->
                 [Commands(<<delete>>) EXCEPT !.preTrans = <<clear>>,
                                              !.rollback = <<Quiet(Command("modify", o))>>]
          [] o.cmd = "gtm region" /\ Whole(d) /\ o.members # {} ->
                 [NoCommands EXCEPT !.preTrans = <<delete>>, !.rollback = <<Command("create", o)>>]
          [] o.cmd \in Settings -> Commands(<<Command("reset", o)>>)
          [] OTHER -> Commands(<<delete>>)

(* A pool's members are told one by one: other commands leave them out.    *)
createPool(d) ==
    LET n == d.new
        monitors == [NoCommands EXCEPT !.preTrans = <<Command("modify", Cleared(d.old))>>,
                                       !.rollback = <<Command("modify", d.old)>>]
        leave == Command("leave", With(d.old, d.part))
        undo  == Command("join", With(d.old, d.part))
    IN  CASE Whole(d)                           -> Commands(<<Command("create", n)>>)
          [] d.prop = "members" /\ d.kind = "N" -> Commands(<<Command("join", With(n, d.part))>>)
          [] d.prop = "members" /\ d.kind = "D" -> [Commands(<<leave>>) EXCEPT !.rollback = <<undo>>]
          [] d.prop = "members" /\ d.kind = "E" ->
                 [Commands(<<leave, Command("create", n)>>) EXCEPT !.rollback = <<undo>>]
          [] d.prop = "refs" -> concatCommands(monitors, Commands(<<Command("recreate", n)>>))
          [] OTHER           -> Commands(<<Command("recreate", n)>>)

(* A policy of APM is imported under its name and under a unique one, of   *)
(* which the second replaces what the tenant has (postProcess); profiles   *)
(* that it has are told before, other policies are not.                    *)
Copy(o) == [o EXCEPT !.path = Part(o.path, "_appsvcs")]

imports(d) ==
    LET copy == <<Command("import", Copy(d.new))>>
    IN  IF d.old # NoObject /\ d.new.cmd = "apm profile access" THEN copy
        ELSE <<Command("import", d.new)>> \o copy

tmshCreate(d, firstPassNoDelete) ==
    LET n      == d.new
        create == Command("create", n)
    IN  CASE n.cmd = "auth partition" /\ d.kind = "E" -> Commands(<<Command("modify", n)>>)
          [] n.cmd = "ltm node" /\ d.kind = "E" ->
                 IF n.type = "fqdn" THEN [Commands(<<create>>) EXCEPT !.preTrans = <<Command("delete", d.old)>>]
                 ELSE Commands(<<Command("modify", n)>>)
          [] n.cmd = "ltm pool" -> createPool(d)
          [] n.cmd \in SslFiles /\ (n.refs # {} \/ (d.kind = "D" /\ d.prop = "refs")) ->
                 Commands(<<Command("create", Bare(n)), Command("modify", n)>>)
          [] n.cmd = "sys file data-group" /\ d.kind = "E" ->
                 [NoCommands EXCEPT !.postTrans = <<Command("modify", n)>>]
          [] n.cmd \in Settings -> Commands(<<Command("set", n)>>)
          [] n.cmd = "asm policy" -> Commands(<<Command("load", n)>>)
          [] n.cmd = "apm aaa ping-access-properties-file" ->
                 Commands(<<IF d.old = NoObject THEN create ELSE Command("modify", n)>>)
          [] n.cmd \in Policies ->
                 IF n.path.tenant = "Common" /\ ~firstPassNoDelete THEN NoCommands ELSE Commands(imports(d))
          [] OTHER -> Commands(<<create>>)

generate(d, firstPassNoDelete) ==
    concatCommands(IF d.kind = "N" /\ Whole(d) THEN NoCommands ELSE tmshDelete(d, firstPassNoDelete),
                   IF d.kind = "D" /\ Whole(d) THEN NoCommands ELSE tmshCreate(d, firstPassNoDelete))
=============================================================================
