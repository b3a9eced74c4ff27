----------------------------- MODULE UpdateScript -----------------------------
(***************************************************************************)
(* tmshUpdateScript of src/lib/fetch.js: the script of a tenant's update,  *)
(* made of the commands of its diffs (ConfigDiff).                         *)
(*                                                                         *)
(* The commands of a diff are one string in the code, a group here.  The   *)
(* script has groups before the transaction, in it, in a second one, after *)
(* it, at its very end, and for when it fails: the catch of its errors.    *)
(***************************************************************************)
EXTENDS ConfigDiff

(* tmsh::begin_transaction is the first of trans, to which early is put    *)
(* before; what rollback has before its catch is last.  destinations are   *)
(* the addresses whose virtual server is deleted in the transaction,       *)
(* profiles those of client-ssl that there are now and are desired.        *)
NoGroups == [preTrans |-> <<>>, early |-> <<>>, trans |-> <<>>, trans2 |-> <<>>, postTrans |-> <<>>,
             last |-> <<>>, rollback |-> <<>>, destinations |-> {}, profiles |-> {}]

Sections == DOMAIN NoGroups \ {"destinations", "profiles"}

Has(g, do, cmd)    == \E i \in DOMAIN g : g[i].do = do /\ g[i].object.cmd = cmd
OnlyOf(g, Test(_)) == SelectSeq(g, Test)

insertBeforeOrAtEnd(groups, Test(_), g) ==
    LET i == SelectInSeq(groups, Test) IN IF i = 0 THEN Append(groups, g) ELSE InsertAt(groups, i, g)

insertBeforeOrAtBeginning(groups, Test(_), g) ==
    LET i == SelectInSeq(groups, Test) IN InsertAt(groups, IF i = 0 THEN 1 ELSE i, g)

AddedOnce(groups, g) == IF g = <<>> \/ Contains(groups, g) THEN groups ELSE Append(groups, g)
FirstOnce(groups, g) == IF g = <<>> \/ Contains(groups, g) THEN groups ELSE <<g>> \o groups

(* What has criteria of traffic has them instead of a destination.         *)
HasCriteria(o) == \E p \in o.refs : p.part # <<>> /\ p.part[Len(p.part)] = "_VS_TMC_OBJ"
AddressesOf(o) == {p \in o.refs : p.part = <<"Service_Address-">>}

isModifyGtmServer(g) == Has(g, "delete", "gtm server") /\ Has(g, "create", "gtm server")

(* Deleting a rule that the text of another changed rule tells.            *)
isDependentRule(path, diffs) ==
    \E i \in DOMAIN diffs : diffs[i].old.cmd = "ltm rule" /\ path \in diffs[i].old.refs

(* A new member is left to the edit of another one, which sets them all.   *)
isPoolMemberCreateRequired(d, diffs) ==
    (d.kind = "N" /\ d.prop = "members" /\ d.new.cmd = "ltm pool") =>
        ~\E i \in DOMAIN diffs : diffs[i].kind = "E" /\ diffs[i].prop = "members"
                                 /\ diffs[i].new.cmd = "ltm pool"

-----------------------------------------------------------------------------
(* Where the commands of a created or changed object are put.              *)

isVirtual(c)   == c.object.cmd = "ltm virtual" /\ c.do = "delete"
isNotVirtual(c) == ~isVirtual(c)
isNodeGroup(g) == \E i \in DOMAIN g : g[i].do = "delete" /\ g[i].object.cmd = "ltm node"
isLeaveGroup(g) == \E i \in DOMAIN g : g[i].do = "leave"
isPingAccess(g) == Has(g, "create", "apm profile ping-access")
isFolder(g)    == \E i \in DOMAIN g : g[i].do = "delete" /\ g[i].object.cmd = "sys folder"

(* Mutant of Undo: what was created is not deleted when the script fails. *)
UndoNothing(o) == <<>>

Undo(o) == <<Quiet(Command("delete", o))>>

(* Mutant of placeFile: what a certificate refers to is not told. *)
placeFileBare(s, g) == [s EXCEPT !.trans = AddedOnce(@, <<g[1]>>)]

(* The certificates and keys of a profile; its chains are one here, which  *)
(* is what they are unless it is a hybrid one.                             *)
Chains(o) == {p \in o.refs : p \in {Crt(p), Key(p), Bundle(p)}}

ClientSsl(current, desired) ==
    {[now |-> o, desired |-> ByPath(desired, o.path)] :
         o \in {p \in current : p.cmd = "ltm profile client-ssl" /\ p.path \in Paths(desired)}}

(* Before a certificate or a key is deleted the profiles whose chain names *)
(* it get the chain that is desired of them.                               *)
getUpdatedSSlProfileCommand(profiles, path) ==
    LET users == InOrder({q \in profiles : path \in Chains(q.now) /\ path # Bundle(path)})
    IN  [i \in DOMAIN users |->
            Command("repoint", [users[i].desired EXCEPT !.refs    = Chains(users[i].desired),
                                                        !.members = Chains(users[i].now)])]

(* A certificate is created without the validators and the issuers that it *)
(* refers to, which are told after the transaction.                        *)
placeFile(s, g) ==
    LET chains(c) == IF c.do = "delete" THEN getUpdatedSSlProfileCommand(s.profiles, c.object.path) ELSE <<>>
    IN  FoldLeft(LAMBDA t, c : IF c.do = "modify" THEN [t EXCEPT !.postTrans = <<<<c>>>> \o @]
                               ELSE [t EXCEPT !.trans = AddedOnce(AddedOnce(@, chains(c)), <<c>>)], s, g)

(* Mutant of placeMembers: members leave after nodes were deleted. *)
placeMembersLast(s, g) ==
    LET leave == OnlyOf(g, LAMBDA c : c.do = "leave")
        set   == [i \in DOMAIN OnlyOf(g, LAMBDA c : c.do = "create") |->
                     [OnlyOf(g, LAMBDA c : c.do = "create")[i] EXCEPT !.do = "replace"]]
    IN  [s EXCEPT !.preTrans = AddedOnce(@, leave), !.trans = AddedOnce(@, set)]

(* The members that leave a pool do so before nodes are deleted; the pool  *)
(* is then modified in the transaction.                                    *)
placeMembers(s, g) ==
    LET leave == OnlyOf(g, LAMBDA c : c.do = "leave")
        set   == [i \in DOMAIN OnlyOf(g, LAMBDA c : c.do = "create") |->
                     [OnlyOf(g, LAMBDA c : c.do = "create")[i] EXCEPT !.do = "replace"]]
    IN  [s EXCEPT !.preTrans = IF Contains(@, leave) THEN @ ELSE insertBeforeOrAtBeginning(@, isNodeGroup, leave),
                  !.trans    = AddedOnce(@, set)]

(* An address that was a node becomes a translation, or the other way: the *)
(* commands go one by one, and nothing is modified that is created.  That  *)
(* is asked without the name: of any node, or any translation.             *)
isTurned(g) == {"ltm node", "ltm snat-translation"} \subseteq {g[i].object.cmd : i \in DOMAIN g}

placeTurned(s, g) ==
    LET first(t, c)  == SelectInSeq(t, LAMBDA h : Has(h, "modify", c.object.cmd))
        created(t, c) == SelectInSeq(t, LAMBDA h : Has(h, "create", c.object.cmd)) # 0
        added(t, c)  ==
            CASE c.do = "modify" /\ created(t, c)     -> t
              [] c.do = "create" /\ first(t, c) # 0   -> AddedOnce(RemoveAt(t, first(t, c)), <<c>>)
              [] OTHER                                -> AddedOnce(t, <<c>>)
    IN  [s EXCEPT !.trans = FoldLeft(added, @, g)]

placeChange(s, d, g) ==
    LET n == d.new
        appended == [s EXCEPT !.trans = Append(@, g)]
    IN  CASE n.cmd = "asm policy" -> [s EXCEPT !.early = <<g>> \o @]
          [] n.cmd \in SslFiles   -> placeFile(s, g)
          [] n.cmd \in Policies /\ g # <<>> ->
                 [appended EXCEPT !.rollback = <<Undo(g[1].object)>> \o @]
          [] n.cmd = "gtm pool" /\ n.type \in {"a", "aaaa"} -> [s EXCEPT !.trans2 = Append(@, g)]
          [] isModifyGtmServer(g) ->
                 [s EXCEPT !.trans = AddedOnce(@, <<[g[Len(g)] EXCEPT !.do = "replace"]>>)]
          [] n.cmd = "gtm wideip" -> [s EXCEPT !.trans2 = Append(@, g)]
          [] n.cmd = "gtm topology" ->
                 [s EXCEPT !.trans2 = AddedOnce(@, <<Quiet(Command("delete", n))>>) \o <<g>>]
          [] n.cmd = "auth partition" /\ d.kind # "E" ->
                 [s EXCEPT !.preTrans = <<g>> \o @, !.rollback = Append(@, Undo(n))]
          [] n.cmd = "sys folder" ->
                 [s EXCEPT !.preTrans = Append(@, g), !.rollback = Append(@, Undo(n))]
          [] Has(g, "delete", "ltm virtual") /\ HasCriteria(n) ->
                 [s EXCEPT !.preTrans = Append(@, OnlyOf(g, isVirtual)),
                           !.trans    = Append(@, OnlyOf(g, isNotVirtual))]
          [] Has(g, "leave", "ltm pool") -> placeMembers(s, g)
          [] n.cmd = "apm aaa ping-access-properties-file" ->
                 [s EXCEPT !.trans = insertBeforeOrAtEnd(@, isPingAccess, g)]
          [] isTurned(g) -> placeTurned(s, g)
          [] OTHER -> appended

-----------------------------------------------------------------------------
(* Where the commands of an object go that is deleted, or a property of it.*)
placeDeletion(s, d, g, diffs) ==
    LET o == d.old
        appended == [s EXCEPT !.trans = Append(@, g)]
    IN  CASE o.cmd = "ltm virtual" /\ HasCriteria(o) ->
                 [s EXCEPT !.preTrans = Append(@, OnlyOf(g, isVirtual)),
                           !.trans    = Append(@, OnlyOf(g, isNotVirtual))]
          [] o.cmd = "ltm virtual" ->
                 [appended EXCEPT !.destinations = @ \cup {p.item : p \in AddressesOf(o)}]
          [] o.cmd = "ltm virtual-address" ->
                 [s EXCEPT !.postTrans = Append(@, <<g[1]>>), !.trans = Append(@, Tail(g))]
          [] o.cmd = "auth partition"            -> [s EXCEPT !.last = <<g>> \o @]
          [] o.cmd \in Policies \cup {"sys folder"} -> [s EXCEPT !.postTrans = Append(@, g)]
          [] Has(g, "leave", "ltm pool") ->
                 [s EXCEPT !.preTrans = insertBeforeOrAtEnd(@, isLeaveGroup, <<g[2]>>)]
          [] o.cmd \in SslFiles                  -> placeFile(s, g)
          [] o.cmd = "ltm policy" /\ Whole(d)    ->
                 [s EXCEPT !.trans = Append(@, <<g[1]>>), !.postTrans = <<<<g[2]>>>> \o @]
          [] o.cmd \in {"pem listener", "ltm dns zone"} -> [s EXCEPT !.preTrans = Append(@, g)]
          [] o.cmd = "ltm pool" /\ Whole(d)      ->
                 [s EXCEPT !.trans = insertBeforeOrAtEnd(@, LAMBDA h : \E i \in DOMAIN h : h[i].object.cmd = "ltm node", g)]
          [] o.cmd = "ltm rule" /\ isDependentRule(o.path, diffs) ->
                 [s EXCEPT !.trans2 = AddedOnce(@, g)]
          [] isTurned(g)                         -> placeTurned(s, g)
          [] isModifyGtmServer(g)                -> s
          [] OTHER                               -> appended

-----------------------------------------------------------------------------
(* A diff: its groups, each unless it is there.  Common's first pass only  *)
(* creates; and it deletes virtual servers and the nodes of FQDNs, those   *)
(* as members first.                                                       *)
placeFirst(s, d, g, diffs) ==
    LET o     == d.old
        pools == SelectSeq(diffs, LAMBDA e : e.kind = "D" /\ e.old.cmd = "ltm pool" /\ e.part = {o.path})
        leave == [i \in DOMAIN pools |-> <<Command("leave", With(pools[i].old, pools[i].part))>>]
    IN  CASE d.kind # "D"          -> s
          [] o.cmd = "ltm virtual" -> [s EXCEPT !.trans = Append(@, g)]
          [] o.cmd = "ltm node" /\ o.type = "fqdn" /\ Whole(d) ->
                 [s EXCEPT !.preTrans = AddedOnce(FoldLeft(AddedOnce, @, leave), g),
                           !.rollback = AddedOnce(@, <<Command("create", o)>>)]
          [] OTHER                 -> s

(* Mutant of placed: the first pass of Common deletes like the last one. *)
placedInAnyPass(s, d, g, diffs, firstPassNoDelete) ==
    IF d.kind = "D" THEN placeDeletion(s, d, g, diffs) ELSE placeChange(s, d, g)

placed(s, d, g, diffs, firstPassNoDelete) ==
    IF firstPassNoDelete /\ d.kind # "N" THEN placeFirst(s, d, g, diffs)
    ELSE IF d.kind = "D" THEN placeDeletion(s, d, g, diffs) ELSE placeChange(s, d, g)

(* The partition tells when AS3 updated it. *)
Touch(d) == <<Command("touch", Container("auth partition", PathOf(d).tenant, ""))>>

placeDiff(s, d, diffs, firstPassNoDelete) ==
    LET g     == generate(d, firstPassNoDelete)
        there == \E section \in Sections : Contains(s[section], g.commands)
        around == [s EXCEPT !.preTrans  = AddedOnce(@, g.preTrans),
                            !.rollback  = AddedOnce(@, g.rollback),
                            !.postTrans = FirstOnce(@, g.postTrans)]
    IN  CASE ~isPoolMemberCreateRequired(d, diffs) -> s
          [] there -> around
          [] OTHER -> [placed(around, d, g.commands, diffs, firstPassNoDelete)
                          EXCEPT !.trans = AddedOnce(@, Touch(d))]

-----------------------------------------------------------------------------
(* Addresses are deleted after the transaction only if it has criteria of  *)
(* traffic, and no virtual server of theirs goes in it.                    *)
updatePostTransVirtuals(s) ==
    LET isAddress(g) == Has(g, "delete", "ltm virtual-address")
        commands     == FlattenSeq(s.trans)
        recreated(p) == \E i \in DOMAIN commands :
                            /\ commands[i].do = "create"
                            /\ commands[i].object.cmd = "ltm virtual-address"
                            /\ commands[i].object.path.item = p.item
        criteria     == \E i \in DOMAIN commands :
                            \/ commands[i].object.cmd = "ltm traffic-matching-criteria"
                            \/ HasCriteria(commands[i].object)
        moved(g)     == isAddress(g) /\ LET p == g[1].object.path
                                        IN  p.item \in s.destinations \/ recreated(p) \/ ~criteria
        stays(g)     == ~moved(g)
    IN  [s EXCEPT !.trans     = @ \o SelectSeq(s.postTrans, moved),
                  !.postTrans = SelectSeq(@, stays)]

(* A pool that only gets a member is not deleted for it.                   *)
updatePools(s) ==
    [s EXCEPT !.trans = [i \in DOMAIN @ |->
        IF Has(@[i], "delete", "ltm pool") /\ Has(@[i], "join", "ltm pool") THEN <<@[i][2]>> ELSE @[i]]]

Begin  == <<Command("begin", NoObject)>>
Commit == <<Command("commit", NoObject)>>

(* The script, and its catch.                                              *)
tmshUpdateScript(desired, current, diffs, firstPassNoDelete) ==
    LET none == [NoGroups EXCEPT !.profiles = ClientSsl(current, desired)]
        s == updatePostTransVirtuals(updatePools(
                 FoldLeft(LAMBDA t, d : placeDiff(t, d, diffs, firstPassNoDelete), none, diffs)))
    IN  [script   |-> FlattenSeq(s.preTrans \o s.early) \o Begin \o FlattenSeq(s.trans) \o Commit
                      \o (IF s.trans2 = <<>> THEN <<>> ELSE Begin \o FlattenSeq(s.trans2) \o Commit)
                      \o FlattenSeq(s.postTrans \o s.last),
         rollback |-> FlattenSeq(s.rollback)]

-----------------------------------------------------------------------------
(* After all tenants: what was imported anew replaces what was there.  The *)
(* virtual servers that refer to it point to the copy meanwhile, policies  *)
(* are deleted first and attached last.                                    *)
getPostProcessAPMUpdates(updates, virtuals) ==
    LET first(cmd)  == InOrder({o \in updates : o.cmd = cmd})
        policies    == first("apm policy access-policy")
        profiles    == first("apm profile access")
        users(o)    == InOrder({v \in virtuals : o.path \in v.refs})
        point(from, to, of) ==
            [i \in DOMAIN users(of) |->
                Command("repoint", [users(of)[i] EXCEPT !.refs = {to}, !.members = {from}])]
        away(o)     == point(o.path, Copy(o).path, o) \o <<Command("delete", o), Command("copy", o)>>
        back(o)     == point(Copy(o).path, o.path, o) \o <<Command("delete", Copy(o))>>
        each(Op(_), objects) == FlattenSeq([i \in DOMAIN objects |-> Op(objects[i])])
    IN  [script   |-> each(away, policies \o profiles) \o each(back, profiles \o policies),
         rollback |-> <<>>]
=============================================================================
