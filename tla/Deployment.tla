------------------------------ MODULE Deployment ------------------------------
(***************************************************************************)
(* The deployment of a declaration: the scripts that AS3 makes of it       *)
(* (UpdateScript) are run by a device, Common twice with the tenant T      *)
(* between, as in src/lib/audit.js.                                        *)
(*                                                                         *)
(* The device is external: it runs a script command by command, or refuses *)
(* one.  In a transaction what is there is checked at each command, and    *)
(* whether all that is referred to is there when it commits; outside of    *)
(* one both at once.  What is created in the transaction that deletes it   *)
(* is changed, and keeps the members that the command leaves out.          *)
(***************************************************************************)
EXTENDS UpdateScript, ReadBack

CONSTANTS Families,     \* sets of declarations, of which one is deployed after another
          MaxFaults     \* how many commands the device refuses of itself

VARIABLES declared,     \* the declaration that was deployed, the new one, the order of keys
          device,       \* the objects on the device
          files,        \* the uploaded files: the version of each
          imported,     \* the policies of APM that are imported anew
          pass,         \* the number of the pass over the tenants
          script,       \* what is left of the pass's script, its catch, whether it committed
          staged,       \* the transaction: the device as it is to be
          recorded,     \* names of Common that AS3 recorded (getDataGroupData)
          refused,      \* the passes whose script failed
          start,        \* the device at the start of the pass
          faults

vars == <<declared, device, files, imported, pass, script, staged, recorded, refused, start, faults>>

Passes == <<[tenant |-> "Common", first |-> TRUE], [tenant |-> "T", first |-> FALSE],
            [tenant |-> "Common", first |-> FALSE], [tenant |-> "", first |-> FALSE]>>

Idle      == [todo |-> <<>>, catch |-> <<>>, running |-> FALSE, committed |-> FALSE]
NoChange  == {NoObject}     \* staged, outside of a transaction
TmshOnly(config) == {o \in config : o.cmd # "mgmt shared service-discovery task"}
Config(decl, tenant) == TmshOnly(Desired(decl, tenant))
ConfigOf(decl) == Config(decl, "Common") \cup Config(decl, "T")

DeploymentInit ==
    /\ \E family \in Families : \E before, after \in family, backwards \in BOOLEAN :
           declared = [before |-> before, after |-> after, backwards |-> backwards]
    /\ device   = ConfigOf(declared.before)
    /\ files    = <<>>
    /\ imported = {}
    /\ pass     = 1
    /\ script   = Idle
    /\ staged   = NoChange
    /\ recorded = updateDataGroup(Config(declared.before, "Common"))
    /\ refused  = {}
    /\ start    = device
    /\ faults   = 0

-----------------------------------------------------------------------------
(* The device (external).                                                  *)

InTransaction == staged # NoChange
Current       == IF InTransaction THEN staged ELSE device

FromFile(o) ==
    IF o.upload \in DOMAIN files THEN [o EXCEPT !.ver = files[o.upload]] ELSE o

(* What is deleted in a transaction is remembered until it commits.        *)
Deleted    == <<"deleted">>
There(dev) == {o \in dev : o.upload # Deleted}

Replacing(dev, o) == {p \in dev : p.path # o.path} \cup {o}
Without(dev, o)   == {p \in dev : p.path # o.path}

(* An object of which the command leaves the members out.                  *)
Keeping(o, was) == [o EXCEPT !.members = was.members, !.refs = Others(o) \cup (was.refs \cap was.members)]

Possible(c, dev) ==
    LET there == c.object.path \in Paths(There(dev))
    IN  CASE c.do \in {"create", "recreate"}  -> ~there
          [] c.do \in {"delete", "modify", "replace", "join", "repoint"} -> there
          [] c.do = "leave" -> there /\ c.object.members \subseteq ByPath(dev, c.object.path).members
          [] c.do = "copy"  -> ~there /\ Copy(c.object).path \in Paths(There(dev))
          [] c.do = "touch" -> there \/ c.object.path.tenant = "Common"
          [] OTHER          -> TRUE

Applied(c, dev) ==
    LET o   == FromFile(c.object)
        old == ByPath(dev, o.path)
    IN  CASE c.do \in {"create", "replace", "load", "set"} -> Replacing(dev, o)
          [] c.do = "recreate" -> Replacing(dev, Keeping(o, old))
          [] c.do \in {"delete", "reset"} ->
                 IF InTransaction /\ o.path \in Paths(dev) THEN Replacing(dev, [old EXCEPT !.upload = Deleted])
                 ELSE Without(dev, o)
          [] c.do = "modify"  -> Replacing(dev, Keeping(o, old))
          [] c.do = "join"    -> Replacing(dev, [old EXCEPT !.members = @ \cup o.members,
                                                            !.refs = @ \cup o.refs])
          [] c.do = "leave"   -> Replacing(dev, [old EXCEPT !.members = @ \ o.members,
                                                            !.refs = @ \ o.members])
          [] c.do = "repoint" -> Replacing(dev, [old EXCEPT !.refs = (@ \ o.members) \cup o.refs])
          [] c.do = "copy"    -> Replacing(dev, [o EXCEPT !.ver = ByPath(dev, Copy(o).path).ver])
          [] c.do = "import"  -> IF o.path \in Paths(There(dev)) THEN dev ELSE Replacing(dev, o)
          [] OTHER            -> dev

(* What an object refers to, its folder and its partition are there.       *)
Valid(dev) ==
    \A o \in dev :
        /\ o.refs \subseteq Paths(dev)
        /\ o.path.app # "" => Path(o.path.tenant, o.path.app, "", "") \in Paths(dev)
        /\ o.path.tenant # "Common" => Path(o.path.tenant, "", "", "") \in Paths(dev)

-----------------------------------------------------------------------------
(* A pass starts: the diffs of the tenant, the uploads and the script.     *)
Submitted(diffs) ==
    LET loaded == SelectSeq(diffs, LAMBDA d : d.new.upload # NoFile)
    IN  FoldLeft(LAMBDA f, d : (d.new.upload :> d.new.ver) @@ f, files, loaded)

Imports(diffs) ==
    {d.new : d \in {e \in ToSet(diffs) : \E i \in DOMAIN generate(e, TRUE).commands :
                                             generate(e, TRUE).commands[i].do = "import"}}

Scripted(s) == [todo |-> s.script, catch |-> s.rollback, running |-> TRUE, committed |-> FALSE]

Update(tenant, first) ==
    LET current == getTenantConfig(device, tenant, recorded)
        desired == Config(declared.after, tenant)
        diffs   == getDiff(current, desired, declared.backwards)
    IN  /\ files' = Submitted(diffs)
        /\ imported' = imported \cup (IF tenant = "Common" /\ ~first THEN {} ELSE Imports(diffs))
        /\ script' = IF diffs = <<>> THEN [Idle EXCEPT !.running = TRUE]
                     ELSE Scripted(tmshUpdateScript(desired, current, diffs, first))

PostProcess ==
    /\ script' = Scripted(getPostProcessAPMUpdates(imported,
                     {o \in ConfigOf(declared.after) : o.cmd = "ltm virtual"}))
    /\ UNCHANGED <<files, imported>>

Start ==
    /\ pass <= Len(Passes) /\ ~script.running
    /\ IF pass < Len(Passes) THEN Update(Passes[pass].tenant, Passes[pass].first) ELSE PostProcess
    /\ start' = device
    /\ UNCHANGED <<declared, device, pass, staged, recorded, refused, faults>>

-----------------------------------------------------------------------------
(* A command of the script.  An import takes place at once, whether or not *)
(* in a transaction.                                                       *)
Accepted(c) ==
    CASE c.do = "commit" -> Valid(There(staged))
      [] c.do = "begin"  -> TRUE
      [] OTHER           -> /\ Possible(c, Current)
                            /\ InTransaction \/ Valid(Applied(c, device))

Run ==
    LET c == Head(script.todo)
    IN  /\ script.todo # <<>>
        /\ Accepted(c)
        /\ device' = CASE c.do = "commit" -> There(staged)
                       [] ~InTransaction \/ c.do = "import" -> Applied(c, device)
                       [] OTHER -> device
        /\ staged' = CASE c.do = "begin"  -> device
                       [] c.do = "commit" -> NoChange
                       [] InTransaction   -> Applied(c, staged)
                       [] OTHER -> staged
        /\ script' = [script EXCEPT !.todo = Tail(@), !.committed = @ \/ c.do = "commit"]
        /\ UNCHANGED <<declared, files, imported, pass, recorded, refused, start, faults>>

(* An error is caught by the command, by the script, or ends its catch.    *)
Caught == IF pass \in refused THEN <<>> ELSE script.catch

Skip ==
    /\ script.todo # <<>>
    /\ Head(script.todo).quiet /\ ~Accepted(Head(script.todo))
    /\ script' = [script EXCEPT !.todo = Tail(@)]
    /\ UNCHANGED <<declared, device, files, imported, pass, staged, recorded, refused, start, faults>>

Fail ==
    /\ script' = [script EXCEPT !.todo = Caught, !.catch = <<>>]
    /\ staged' = NoChange
    /\ refused' = refused \cup {pass}
    /\ UNCHANGED <<declared, device, files, imported, pass, recorded, start>>

Error ==
    /\ script.todo # <<>>
    /\ ~Head(script.todo).quiet /\ ~Accepted(Head(script.todo))
    /\ Fail
    /\ UNCHANGED faults

(* The device has reasons of its own to refuse a command of a transaction, *)
(* or a file that it is to load.                                           *)
Refuse ==
    /\ faults < MaxFaults
    /\ script.todo # <<>> /\ pass \notin refused
    /\ InTransaction \/ Head(script.todo).do = "load"
    /\ ~Head(script.todo).quiet
    /\ Fail
    /\ faults' = faults + 1

LastOfCommon == Passes[pass].tenant = "Common" /\ ~Passes[pass].first

Finish ==
    /\ script.running /\ script.todo = <<>>
    /\ script' = Idle
    /\ pass' = pass + 1
    /\ recorded' = IF LastOfCommon THEN updateDataGroup(Config(declared.after, "Common")) ELSE recorded
    /\ UNCHANGED <<declared, device, files, imported, staged, refused, start, faults>>

Done == pass > Len(Passes) /\ UNCHANGED vars

Next == Start \/ Run \/ Skip \/ Error \/ Refuse \/ Finish \/ Done
Spec == DeploymentInit /\ [][Next]_vars

-----------------------------------------------------------------------------

(* The scripts are in an order that the device can follow: it refuses none *)
(* but for reasons of its own.                                             *)
OrderIsAccepted == refused # {} => faults > 0

(* A declaration that was deployed without an error is what the device has.*)
Converges == pass > Len(Passes) /\ refused = {} => device = ConfigOf(declared.after)

(* Deploying the same again changes nothing, but for what is always loaded *)
(* anew.                                                                   *)
Idempotent ==
    pass > Len(Passes) /\ refused = {} =>
        \A tenant \in {"Common", "T"} :
            LET diffs == getDiff(getTenantConfig(device, tenant, recorded),
                                 Config(declared.after, tenant), declared.backwards)
            IN  \A i \in DOMAIN diffs : diffs[i].new.cmd \in Reloaded

(* What the device has of AS3, whatever was refused, is read back by the   *)
(* next request, which can change it or delete it.  Excepted is what AS3   *)
(* records by name, once a script of Common was refused: the copy of an    *)
(* imported profile stays, and a name is forgotten that was not deleted.   *)
NothingIsForgotten ==
    pass > Len(Passes) =>
        \A o \in device :
            \/ o.path \in Paths(getTenantConfig(device, o.path.tenant, recorded))
            \/ o.cmd \in RecordedByName /\ refused \cap {1, 3} # {}

(* A pool of a declaration that was deployed without an error has its members. *)
PoolsHaveMembers ==
    pass > Len(Passes) /\ refused = {} =>
        \A o \in ConfigOf(declared.after) :
            o.cmd = "ltm pool" => ByPath(device, o.path).members = o.members

(* The first pass of Common deletes virtual servers, nodes, and what goes  *)
(* before or after the transaction.                                        *)
MayGoFirst == {"ltm virtual", "ltm node", "gtm region", "sys log-config publisher"}
FirstPassKeeps ==
    [][pass = 1 /\ pass \notin refused =>
           \A p \in Paths(device) \ Paths(device') : ByPath(device, p).cmd \in MayGoFirst]_vars

(* A script that failed before it committed leaves what it found, but for  *)
(* what it deletes or loads outside of the transaction, what refers to     *)
(* that and what holds it.                                                 *)
Outside(o) ==
    \/ o.cmd \in Reloaded \cup {"pem listener", "ltm dns zone", "ltm node"}
    \/ o.cmd = "ltm virtual" /\ HasCriteria(o)

Containers(o) == {Path(o.path.tenant, o.path.app, "", ""), Path(o.path.tenant, "", "", "")}

Affected ==
    UNION {Containers(o) \cup {o.path} : o \in {p \in start \cup device : Outside(p)}}
    \cup {o.path : o \in {p \in start \cup device : \E q \in start : q.path \in p.refs /\ Outside(q)}}

FailureRestores ==
    pass \in refused /\ script.todo = <<>> /\ script.running /\ ~script.committed =>
        {o \in device : o.path \notin Affected} = {o \in start : o.path \notin Affected}
=============================================================================
