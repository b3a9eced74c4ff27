----------------------------- MODULE SharedNodes -----------------------------
(***************************************************************************)
(* The nodes in /Common that the pools of several tenants share            *)
(* (shareNodes).  AS3 counts in the metadata of a node, 'references', the  *)
(* tenants that use it, so that the last one to leave deletes it.          *)
(*                                                                         *)
(* A request works on a list of the nodes that the digest of its           *)
(* declaration reads once and keeps in the one parser of the host, where   *)
(* the digest of a GET, which needs no lock, may replace it.  Its tenants  *)
(* take their counts from the list and change it, one after the other; the *)
(* transaction that changes the device comes later and may be refused.     *)
(***************************************************************************)
EXTENDS Integers, FiniteSets

CONSTANTS Tenants, Pools, Nodes,
          Foreign,       \* nodes that AS3 did not create: they have no 'references'
          MaxRequests    \* bound on the requests that follow a spoiled one

ASSUME NodesAssumption == /\ Foreign \subseteq Nodes /\ MaxRequests \in Nat
                          /\ IsFiniteSet(Tenants) /\ IsFiniteSet(Pools)

VARIABLES refs,       \* the nodes of AS3 on the device, with their 'references'
          uses,       \* the members of each tenant's pools on the device
          parser,     \* context.host.parser.nodelist
          nodeList,   \* commonConfig.nodeList of the request
          request,    \* the tenants it has left
          requests,   \* how many there have been since one was spoiled
          fits,       \* whether no update clashed with the nodes of the device
          stale,      \* whether the list was replaced by a GET, has the counts of
                      \* a tenant that was refused, or one below zero
          spoiled     \* whether a tenant was updated from such a list

vars == <<refs, uses, parser, nodeList, request, requests, fits, stale, spoiled>>

Owned == Nodes \ Foreign
NoNodes == [n \in {} |-> 0]
IsCount(f) == DOMAIN f \subseteq Owned /\ \A n \in DOMAIN f : f[n] \in Int

Counted(counts, n) == IF n \in DOMAIN counts THEN counts[n] ELSE 0

Members(pools) == (UNION {pools[p] : p \in Pools}) \cap Owned

Init ==
    /\ refs = NoNodes
    /\ uses = [t \in Tenants |-> [p \in Pools |-> {}]]
    /\ parser = NoNodes /\ nodeList = NoNodes
    /\ request = [stage |-> "idle", left |-> {}, remove |-> FALSE]
    /\ requests = 0
    /\ fits = TRUE /\ stale = FALSE /\ spoiled = FALSE

-----------------------------------------------------------------------------
(* A request *)

(* The digest lists the nodes, under the lock.  'remove' has no digest and *)
(* lists them itself.                                                      *)
Digest ==
    /\ request.stage = "idle"
    /\ spoiled => requests < MaxRequests
    /\ requests' = IF spoiled THEN requests + 1 ELSE 0
    /\ \E tenants \in (SUBSET Tenants) \ {{}} :
          \/ /\ parser' = refs /\ UNCHANGED nodeList
             /\ request' = [stage |-> "digest", left |-> tenants, remove |-> FALSE]
          \/ /\ parser' = refs /\ nodeList' = refs
             /\ request' = [stage |-> "tenants", left |-> tenants, remove |-> TRUE]
    /\ stale' = FALSE
    /\ UNCHANGED <<refs, uses, fits, spoiled>>

(* The digest of a GET: 'full' keeps the schema's defaults only and lists  *)
(* no nodes, 'expanded' lists them again.                                  *)
Get ==
    /\ request.stage = "digest"
    /\ parser' \in {NoNodes, refs}
    /\ UNCHANGED <<refs, uses, nodeList, request, requests, fits, stale, spoiled>>

Take ==
    /\ request.stage = "digest"
    /\ request' = [request EXCEPT !.stage = "tenants"]
    /\ nodeList' = parser
    /\ stale' = (parser # refs)
    /\ UNCHANGED <<refs, uses, parser, requests, fits, spoiled>>

Finished ==
    /\ request.stage = "tenants" /\ request.left = {}
    /\ request' = [request EXCEPT !.stage = "idle"]
    /\ parser' = NoNodes /\ nodeList' = NoNodes      \* never looked at again
    /\ stale' = FALSE
    /\ UNCHANGED <<refs, uses, requests, fits, spoiled>>

-----------------------------------------------------------------------------
(* A tenant.  old and new are the shared nodes of its pools on the device  *)
(* and in the declaration.                                                 *)

(* updateDesiredForCommonNodes: a node that is not in the list gets the    *)
(* count 0.                                                                *)
Listed(n) == Counted(nodeList, n)

(* tenantAddCommonNodes: those of the list are in the current              *)
(* configuration, where -1 stands for no count.                            *)
Current(old) == {n \in old \cap DOMAIN nodeList : nodeList[n] # -1}

(* maintainCommonNodes *)
Gained(old, new) == new \ Current(old)
Left(old, new)   == (old \ new) \cap DOMAIN nodeList

Holding(pools, n) == Cardinality({p \in Pools : n \in pools[p]})

(* Mutant of Shrunk: every pool that the node leaves counts. *)
ShrunkPerPool(pools, n) == nodeList[n] - Holding(pools, n)

(* updateNodes, for every pool that the node leaves: a count above zero    *)
(* puts the node among the desired ones, and the next pool finds it there. *)
Shrunk(pools, n) == IF nodeList[n] > 1 THEN nodeList[n] - 1 ELSE nodeList[n] - Holding(pools, n)

(* Mutant of Created: a count above zero does not make it a modification. *)
CreatedAlways(old, new) == Gained(old, new)

Created(old, new) == {n \in Gained(old, new) : Listed(n) + 1 <= 1}

Modified(old, new) == (Gained(old, new) \ Created(old, new))
                      \cup {n \in Left(old, new) : nodeList[n] > 1}
Deleted(old, new)  == {n \in Left(old, new) \cap Current(old) : nodeList[n] <= 1}

(* Mutant of NewList: the list keeps the nodes that no pool has any more. *)
NewListOfAll(t, want) ==
    LET old == Members(uses[t])
        new == Members(want)
    IN  [n \in DOMAIN nodeList \cup new |->
            IF n \in Gained(old, new) THEN Listed(n) + 1 ELSE Listed(n)]

(* The list after the tenant's diff.                                       *)
NewList(t, want) ==
    LET old == Members(uses[t])
        new == Members(want)
    IN  [n \in DOMAIN nodeList \cup new |->
            CASE n \in Gained(old, new) -> Listed(n) + 1
              [] n \in Left(old, new)   -> Shrunk(uses[t], n)
              [] OTHER                  -> Listed(n)]

(* The device creates what is not there, modifies and deletes what is, and *)
(* deletes no node that a pool of another tenant uses.                     *)
Fits(t, create, modify, delete) ==
    /\ create \cap DOMAIN refs = {}
    /\ modify \cup delete \subseteq DOMAIN refs
    /\ \A u \in Tenants \ {t} : Members(uses[u]) \cap delete = {}

(* One tenant of the request with the pools it is to have: its transaction *)
(* is applied as a whole, or refused for this or any other reason.         *)
Tenant(t, want) ==
    LET old    == Members(uses[t])
        new    == Members(want)
        create == Created(old, new)
        modify == Modified(old, new)
        delete == Deleted(old, new)
        list   == NewList(t, want)
    IN  /\ request.stage = "tenants" /\ t \in request.left
        /\ request.remove => new = {}
        /\ request' = [request EXCEPT !.left = @ \ {t}]
        /\ nodeList' = list
        /\ spoiled' = (spoiled \/ stale)
        /\ \/ /\ Fits(t, create, modify, delete)
              /\ uses' = [uses EXCEPT ![t] = want]
              /\ refs' = [n \in (DOMAIN refs \cup create) \ delete |->
                             IF n \in create \cup modify THEN list[n] ELSE refs[n]]
              /\ stale' = (stale \/ \E n \in DOMAIN list : list[n] < 0)
              /\ UNCHANGED fits
           \/ /\ UNCHANGED <<uses, refs>>
              /\ stale' = (stale \/ list # nodeList)
              /\ fits' = (fits /\ (spoiled' \/ Fits(t, create, modify, delete)))
        /\ UNCHANGED <<parser, requests>>

Resting ==
    /\ request.stage = "idle" /\ spoiled /\ requests = MaxRequests
    /\ UNCHANGED vars

Next ==
    \/ Digest \/ Get \/ Take \/ Finished \/ Resting
    \/ \E t \in Tenants, want \in [Pools -> SUBSET Nodes] : Tenant(t, want)

Spec == Init /\ [][Next]_vars

-----------------------------------------------------------------------------

Users(n) == {t \in Tenants : n \in Members(uses[t])}

CountsUsers ==
    /\ \A t \in Tenants : Members(uses[t]) \subseteq DOMAIN refs
    /\ \A n \in DOMAIN refs : refs[n] = Cardinality(Users(n)) /\ refs[n] > 0

(* fetch.js: "update metadata for Common nodes.  Allow delete if ref count *)
(* is going to 0".  A node that AS3 created counts the tenants that use    *)
(* it, and is gone when nobody does, whatever tenants come and go in one   *)
(* request and with several pools each.                                    *)
RefsCountUsers == ~spoiled => CountsUsers

(* From one tenant to the next, the list of the request says of the device *)
(* what the device would say of itself.                                    *)
ListTellsDevice ==
    (request.stage = "tenants" /\ ~stale /\ ~spoiled) =>
        \A n \in Owned : Counted(nodeList, n) = Counted(refs, n)

(* No update of a tenant is refused because of the counts: no existing     *)
(* node is created, no node in use is deleted.                             *)
UpdatesFit == fits

=============================================================================
