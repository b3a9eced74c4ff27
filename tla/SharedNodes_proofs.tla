-------------------------- MODULE SharedNodes_proofs --------------------------
(***************************************************************************)
(* The counts of the shared nodes, for any number of tenants, pools and    *)
(* nodes: as long as no tenant was updated from a list that a GET had      *)
(* replaced, that counts a refused tenant or that went below zero, a node  *)
(* counts the tenants that use it and no update clashes with the device.   *)
(***************************************************************************)
EXTENDS SharedNodes, FiniteSetTheorems, TLAPS

NodesTypeInv ==
    /\ IsCount(refs) /\ IsCount(parser) /\ IsCount(nodeList)
    /\ uses \in [Tenants -> [Pools -> SUBSET Nodes]]
    /\ request \in [stage : {"idle", "digest", "tenants"}, left : SUBSET Tenants,
                    remove : BOOLEAN]
    /\ fits \in BOOLEAN /\ stale \in BOOLEAN /\ spoiled \in BOOLEAN

(* What the steps preserve together: the counts are right while the list   *)
(* is, and the list is right while the tenants take their counts from it.  *)
NodesInv == NodesTypeInv /\ RefsCountUsers /\ ListTellsDevice /\ UpdatesFit

-----------------------------------------------------------------------------
(* Types *)

LEMMA MembersOwned == \A pools : Members(pools) \subseteq Owned
  BY DEF Members

LEMMA HoldingNat ==
    ASSUME NEW pools, NEW n
    PROVE  /\ Holding(pools, n) \in Nat
           /\ n \in Members(pools) => Holding(pools, n) > 0
  <1> DEFINE H == {p \in Pools : n \in pools[p]}
  <1>1. IsFiniteSet(H) /\ Cardinality(H) \in Nat
    BY FS_Subset, FS_CardinalityType, NodesAssumption, H \in SUBSET Pools
  <1>2. n \in Members(pools) => H # {}
    BY DEF Members
  <1>3. Cardinality(H) = 0 => H = {}
    BY <1>1, FS_EmptySet
  <1> QED
    BY <1>1, <1>2, <1>3 DEF Holding

LEMMA NewListTyped ==
    ASSUME NodesTypeInv, NEW t \in Tenants, NEW want
    PROVE  /\ IsCount(NewList(t, want))
           /\ DOMAIN NewList(t, want) = DOMAIN nodeList \cup Members(want)
  <1> DEFINE list == NewList(t, want)
             old  == Members(uses[t])
             new  == Members(want)
  <1>1. DOMAIN list = DOMAIN nodeList \cup new
    BY DEF NewList
  <1>2. DOMAIN list \subseteq Owned
    BY <1>1, MembersOwned DEF NodesTypeInv, IsCount
  <1>3. ASSUME NEW n \in DOMAIN list PROVE list[n] \in Int
    <2>1. Listed(n) \in Int
      BY DEF Listed, Counted, NodesTypeInv, IsCount
    <2>2. n \in Left(old, new) => Shrunk(uses[t], n) \in Int
      BY HoldingNat DEF Left, Shrunk, NodesTypeInv, IsCount
    <2>3. list[n] = CASE n \in Gained(old, new) -> Listed(n) + 1
                      [] n \in Left(old, new)   -> Shrunk(uses[t], n)
                      [] OTHER                  -> Listed(n)
      BY <1>1, <1>3 DEF NewList
    <2> HIDE DEF list, old, new
    <2> QED
      BY <2>1, <2>2, <2>3
  <1> QED
    BY <1>1, <1>2, <1>3 DEF IsCount

LEMMA NodesTypeInit == Init => NodesTypeInv
  <1> SUFFICES ASSUME Init PROVE NodesTypeInv
    OBVIOUS
  <1>1. IsCount(NoNodes)
    BY DEF IsCount, NoNodes
  <1> QED
    BY <1>1 DEF Init, NodesTypeInv

LEMMA TenantKeepsType ==
    ASSUME NodesTypeInv, NEW t \in Tenants, NEW want \in [Pools -> SUBSET Nodes],
           Tenant(t, want)
    PROVE  NodesTypeInv'
  <1> DEFINE old    == Members(uses[t])
             new    == Members(want)
             create == Created(old, new)
             modify == Modified(old, new)
             delete == Deleted(old, new)
             list   == NewList(t, want)
  <1>1. IsCount(list) /\ DOMAIN list = DOMAIN nodeList \cup new
    BY NewListTyped
  <1>2. IsCount(refs')
    <2>1. CASE UNCHANGED refs
      BY <2>1 DEF NodesTypeInv
    <2>2. CASE refs' = [n \in (DOMAIN refs \cup create) \ delete |->
                           IF n \in create \cup modify THEN list[n] ELSE refs[n]]
      <3>1. create \subseteq new /\ modify \subseteq DOMAIN list
        BY <1>1 DEF Created, Gained, Modified, Left
      <3>2. create \subseteq DOMAIN list /\ create \subseteq Owned
        BY <1>1, <3>1, MembersOwned
      <3> HIDE DEF old, new, create, modify, delete, list
      <3> QED
        BY <1>1, <2>2, <3>1, <3>2 DEF IsCount, NodesTypeInv
    <2> QED
      BY <2>1, <2>2 DEF Tenant
  <1>3. IsCount(nodeList')
    BY <1>1 DEF Tenant
  <1> QED
    BY <1>2, <1>3 DEF Tenant, NodesTypeInv

LEMMA NodesStepKeepsType == NodesTypeInv /\ [Next]_vars => NodesTypeInv'
  <1> SUFFICES ASSUME NodesTypeInv, [Next]_vars PROVE NodesTypeInv'
    OBVIOUS
  <1>1. IsCount(NoNodes)
    BY DEF IsCount, NoNodes
  <1>2. CASE Digest
    <2>1. PICK tenants \in SUBSET Tenants :
            \/ /\ parser' = refs /\ UNCHANGED nodeList
               /\ request' = [stage |-> "digest", left |-> tenants, remove |-> FALSE]
            \/ /\ parser' = refs /\ nodeList' = refs
               /\ request' = [stage |-> "tenants", left |-> tenants, remove |-> TRUE]
      BY <1>2 DEF Digest
    <2>2. request' \in [stage : {"idle", "digest", "tenants"}, left : SUBSET Tenants,
                        remove : BOOLEAN]
      <3>1. ASSUME NEW s \in {"digest", "tenants"}, NEW b \in BOOLEAN
            PROVE  [stage |-> s, left |-> tenants, remove |-> b]
                      \in [stage : {"idle", "digest", "tenants"}, left : SUBSET Tenants,
                           remove : BOOLEAN]
        OBVIOUS
      <3> QED
        BY <2>1, <3>1
    <2>3. IsCount(parser') /\ IsCount(nodeList')
      BY <2>1 DEF NodesTypeInv
    <2> QED
      BY <1>2, <2>2, <2>3 DEF Digest, NodesTypeInv
  <1>3. CASE Get
    BY <1>1, <1>3 DEF Get, NodesTypeInv
  <1>4. CASE Take
    BY <1>4 DEF Take, NodesTypeInv
  <1>5. CASE Finished
    BY <1>1, <1>5 DEF Finished, NodesTypeInv
  <1>6. ASSUME NEW t \in Tenants, NEW want \in [Pools -> SUBSET Nodes], Tenant(t, want)
        PROVE  NodesTypeInv'
    BY <1>6, TenantKeepsType
  <1>7. CASE UNCHANGED vars
    BY <1>7 DEF vars, NodesTypeInv, IsCount
  <1> QED
    BY <1>2, <1>3, <1>4, <1>5, <1>6, <1>7 DEF Next, Resting
-----------------------------------------------------------------------------
(* The counts *)

LEMMA UsersFinite ==
    \A n : IsFiniteSet(Users(n)) /\ Cardinality(Users(n)) \in Nat
  <1> SUFFICES ASSUME NEW n
               PROVE  IsFiniteSet(Users(n)) /\ Cardinality(Users(n)) \in Nat
    OBVIOUS
  <1>1. Users(n) \in SUBSET Tenants
    BY DEF Users
  <1> QED
    BY <1>1, FS_Subset, FS_CardinalityType, NodesAssumption

(* The list gives every node the number of its users, so that what the     *)
(* diff takes for the current configuration are the nodes of the tenant.   *)
LEMMA ListCountsUsers ==
    ASSUME NodesInv, request.stage = "tenants", ~stale, ~spoiled,
           NEW t \in Tenants, NEW want
    PROVE  /\ \A n \in Owned : Listed(n) = Cardinality(Users(n))
           /\ \A n \in DOMAIN nodeList : nodeList[n] = Listed(n)
           /\ \A n \in Owned : Listed(n) > 0 <=> n \in DOMAIN refs
           /\ \A n \in Members(uses[t]) :
                 n \in DOMAIN nodeList /\ n \in DOMAIN refs /\ Listed(n) > 0
           /\ Gained(Members(uses[t]), Members(want)) = Members(want) \ Members(uses[t])
           /\ Left(Members(uses[t]), Members(want)) = Members(uses[t]) \ Members(want)
           /\ Current(Members(uses[t])) = Members(uses[t])
  <1>1. \A n \in Owned : Listed(n) = Counted(refs, n)
    BY DEF NodesInv, ListTellsDevice, Listed
  <1>2. CountsUsers
    BY DEF NodesInv, RefsCountUsers
  <1>3. ASSUME NEW n \in Owned
        PROVE  /\ Listed(n) = Cardinality(Users(n))
               /\ Listed(n) > 0 <=> n \in DOMAIN refs
    <2>1. CASE n \in DOMAIN refs
      BY <1>1, <1>2, <2>1 DEF CountsUsers, Counted
    <2>2. CASE n \notin DOMAIN refs
      <3>1. Users(n) = {}
        BY <1>2, <2>2 DEF CountsUsers, Users
      <3> QED
        BY <1>1, <2>2, <3>1, FS_EmptySet DEF Counted
    <2> QED
      BY <2>1, <2>2
  <1>4. \A n \in DOMAIN nodeList : nodeList[n] = Listed(n)
    BY DEF Listed, Counted
  <1>5. ASSUME NEW n \in Members(uses[t])
        PROVE  n \in DOMAIN nodeList /\ n \in DOMAIN refs /\ Listed(n) > 0
    <2>1. n \in DOMAIN refs /\ n \in Owned
      BY <1>2, <1>5, MembersOwned DEF CountsUsers
    <2>2. Listed(n) > 0
      BY <1>3, <2>1
    <2> QED
      BY <2>1, <2>2 DEF Listed, Counted
  <1>6. Current(Members(uses[t])) = Members(uses[t])
    <2>1. ASSUME NEW n \in Members(uses[t])
          PROVE  n \in DOMAIN nodeList /\ nodeList[n] # -1
      BY <1>4, <1>5
    <2> QED
      BY <2>1 DEF Current
  <1>7. Left(Members(uses[t]), Members(want)) = Members(uses[t]) \ Members(want)
    BY <1>5 DEF Left
  <1> QED
    BY <1>3, <1>4, <1>5, <1>6, <1>7 DEF Gained

(* What a tenant creates is not there, what it modifies or deletes is, and *)
(* what it deletes it is the only one to use.                              *)
LEMMA RightListFits ==
    ASSUME NodesInv, request.stage = "tenants", ~stale, ~spoiled,
           NEW t \in Tenants, NEW want
    PROVE  LET old == Members(uses[t])
               new == Members(want)
           IN  Fits(t, Created(old, new), Modified(old, new), Deleted(old, new))
  <1> DEFINE old == Members(uses[t])
             new == Members(want)
  <1>1. /\ \A n \in Owned : Listed(n) = Cardinality(Users(n))
        /\ \A n \in DOMAIN nodeList : nodeList[n] = Listed(n)
        /\ \A n \in Owned : Listed(n) > 0 <=> n \in DOMAIN refs
        /\ \A n \in old : n \in DOMAIN nodeList /\ n \in DOMAIN refs /\ Listed(n) > 0
        /\ Gained(old, new) = new \ old
        /\ Left(old, new) = old \ new
        /\ Current(old) = old
    BY ListCountsUsers
  <1>2. old \subseteq Owned /\ new \subseteq Owned
    BY MembersOwned
  <1>3. \A n : Listed(n) \in Int
    BY DEF Listed, Counted, NodesInv, NodesTypeInv, IsCount
  <1>4. Created(old, new) \cap DOMAIN refs = {}
    BY <1>1, <1>2, <1>3 DEF Created
  <1>5. Modified(old, new) \subseteq DOMAIN refs
    BY <1>1, <1>2, <1>3 DEF Modified, Created
  <1>6. Deleted(old, new) \subseteq DOMAIN refs
    BY <1>1 DEF Deleted
  <1>7. ASSUME NEW u \in Tenants \ {t}, NEW n \in Deleted(old, new)
        PROVE  n \notin Members(uses[u])
    <2>1. n \in old /\ Listed(n) = 1
      BY <1>1, <1>3 DEF Deleted
    <2>2. Cardinality(Users(n)) = 1 /\ t \in Users(n)
      BY <1>1, <1>2, <2>1 DEF Users
    <2>3. IsFiniteSet(Users(n) \ {t}) /\ Cardinality(Users(n) \ {t}) = 0
      BY <2>2, UsersFinite, FS_RemoveElement
    <2>4. Users(n) \ {t} = {}
      BY <2>3, FS_EmptySet
    <2> QED
      BY <2>4 DEF Users
  <1> QED
    BY <1>4, <1>5, <1>6, <1>7 DEF Fits

Updated(t, want) ==
    LET old    == Members(uses[t])
        new    == Members(want)
        create == Created(old, new)
        modify == Modified(old, new)
        delete == Deleted(old, new)
        list   == NewList(t, want)
    IN  /\ nodeList' = list
        /\ uses' = [uses EXCEPT ![t] = want]
        /\ refs' = [n \in (DOMAIN refs \cup create) \ delete |->
                       IF n \in create \cup modify THEN list[n] ELSE refs[n]]
        /\ stale' = (stale \/ \E n \in DOMAIN list : list[n] < 0)

(* A tenant that is updated from a right list leaves right counts and,     *)
(* unless the list has gone below zero, a right list.                      *)
LEMMA UpdateKeepsCounts ==
    ASSUME NodesInv, request.stage = "tenants", ~stale, ~spoiled,
           NEW t \in Tenants, NEW want \in [Pools -> SUBSET Nodes],
           Updated(t, want)
    PROVE  /\ CountsUsers'
           /\ ~stale' => \A n \in Owned : Counted(nodeList', n) = Counted(refs', n)
  <1> DEFINE old    == Members(uses[t])
             new    == Members(want)
             create == Created(old, new)
             modify == Modified(old, new)
             delete == Deleted(old, new)
             list   == NewList(t, want)
  <1> USE DEF Updated
  <1>1. /\ \A n \in Owned : Listed(n) = Cardinality(Users(n))
        /\ \A n \in DOMAIN nodeList : nodeList[n] = Listed(n)
        /\ \A n \in Owned : Listed(n) > 0 <=> n \in DOMAIN refs
        /\ \A n \in old : n \in DOMAIN nodeList /\ n \in DOMAIN refs /\ Listed(n) > 0
        /\ Gained(old, new) = new \ old
        /\ Left(old, new) = old \ new
        /\ Current(old) = old
    BY ListCountsUsers
  <1>2. old \subseteq Owned /\ new \subseteq Owned /\ DOMAIN refs \subseteq Owned
    BY MembersOwned DEF NodesInv, NodesTypeInv, IsCount
  <1>3. \A n : Listed(n) \in Int
    BY DEF Listed, Counted, NodesInv, NodesTypeInv, IsCount
  <1>4. \A n \in Owned : Listed(n) = Counted(refs, n) /\ Listed(n) >= 0
    BY <1>1, UsersFinite DEF NodesInv, ListTellsDevice, Listed
  <1>5. /\ DOMAIN list = DOMAIN nodeList \cup new
        /\ \A n \in DOMAIN list : list[n] \in Int
    BY NewListTyped DEF NodesInv, IsCount
  <1>6. create = {n \in new \ old : Listed(n) = 0}
    BY <1>1, <1>2, <1>3, <1>4 DEF Created
  <1>7. modify = {n \in new \ old : Listed(n) > 0} \cup {n \in old \ new : Listed(n) > 1}
    BY <1>1, <1>2, <1>3, <1>4, <1>6 DEF Modified
  <1>8. delete = {n \in old \ new : Listed(n) = 1}
    BY <1>1, <1>3 DEF Deleted
  <1>9. ASSUME NEW n \in DOMAIN list
        PROVE  /\ n \in new \ old => list[n] = Listed(n) + 1
               /\ n \in old \ new /\ Listed(n) > 1 => list[n] = Listed(n) - 1
               /\ n \in old \ new /\ Listed(n) = 1 => list[n] <= 0
               /\ n \notin (new \ old) \cup (old \ new) => list[n] = Listed(n)
    <2>1. list[n] = CASE n \in Gained(old, new) -> Listed(n) + 1
                      [] n \in Left(old, new)   -> Shrunk(uses[t], n)
                      [] OTHER                  -> Listed(n)
      BY <1>5, <1>9 DEF NewList
    <2>2. n \in old => Shrunk(uses[t], n) = IF Listed(n) > 1 THEN Listed(n) - 1
                                            ELSE Listed(n) - Holding(uses[t], n)
      BY <1>1 DEF Shrunk
    <2>3. Holding(uses[t], n) \in Nat /\ (n \in old => Holding(uses[t], n) > 0)
      BY HoldingNat
    <2> HIDE DEF old, new, list
    <2> QED
      BY <1>1, <1>3, <2>1, <2>2, <2>3
  <1>10. /\ Members(uses'[t]) = new
         /\ \A u \in Tenants \ {t} : Members(uses'[u]) = Members(uses[u])
         /\ \A n : Users(n)' = IF n \in new THEN Users(n) \cup {t} ELSE Users(n) \ {t}
    <2>1. /\ uses'[t] = want
          /\ \A u \in Tenants \ {t} : uses'[u] = uses[u]
      BY DEF NodesInv, NodesTypeInv
    <2>2. \A n, u : u \in Users(n)' <=> u \in Tenants /\ n \in Members(uses'[u])
      BY DEF Users
    <2>3. \A n, u : u \in Users(n) <=> u \in Tenants /\ n \in Members(uses[u])
      BY DEF Users
    <2> HIDE DEF old
    <2> QED
      BY <2>1, <2>2, <2>3
  <1>11. ASSUME NEW n \in Owned
         PROVE  Cardinality(Users(n)') =
                   Listed(n) + (IF n \in new \ old THEN 1 ELSE IF n \in old \ new THEN -1 ELSE 0)
    <2>1. t \in Users(n) <=> n \in old
      BY DEF Users
    <2>2. /\ Cardinality(Users(n) \cup {t}) =
                IF t \in Users(n) THEN Cardinality(Users(n)) ELSE Cardinality(Users(n)) + 1
          /\ Cardinality(Users(n) \ {t}) =
                IF t \in Users(n) THEN Cardinality(Users(n)) - 1 ELSE Cardinality(Users(n))
      BY UsersFinite, FS_AddElement, FS_RemoveElement
    <2>3. Cardinality(Users(n)) = Listed(n) /\ Listed(n) \in Int
      BY <1>1, <1>3
    <2>4. Users(n)' = IF n \in new THEN Users(n) \cup {t} ELSE Users(n) \ {t}
      BY <1>10
    <2>5. CASE n \in new
      <3>1. Users(n)' = Users(n) \cup {t}
        BY <2>4, <2>5
      <3> HIDE DEF old, new
      <3> QED
        BY <2>1, <2>2, <2>3, <2>5, <3>1
    <2>6. CASE n \notin new
      <3>1. Users(n)' = Users(n) \ {t}
        BY <2>4, <2>6
      <3> HIDE DEF old, new
      <3> QED
        BY <2>1, <2>2, <2>3, <2>6, <3>1
    <2> QED
      BY <2>5, <2>6
  <1>12. ASSUME NEW n \in Owned
         PROVE  /\ n \in DOMAIN refs' => /\ refs'[n] = Cardinality(Users(n)')
                                         /\ refs'[n] > 0
                /\ n \notin DOMAIN refs' => Cardinality(Users(n)') = 0
    <2>1. n \in DOMAIN refs' <=> n \in (DOMAIN refs \cup create) \ delete
      OBVIOUS
    <2>2. n \in DOMAIN refs' => refs'[n] = IF n \in create \cup modify THEN list[n] ELSE refs[n]
      OBVIOUS
    <2>3. n \in DOMAIN refs => refs[n] = Listed(n)
      BY <1>4 DEF Counted
    <2>4. n \in DOMAIN refs <=> Listed(n) > 0
      BY <1>1
    <2>5. n \in create \cup modify => n \in DOMAIN list
      BY <1>1, <1>5, <1>6, <1>7
    <2>6. Listed(n) \in Int /\ Listed(n) >= 0
      BY <1>3, <1>4
    <2>7. /\ n \in create <=> n \in new \ old /\ Listed(n) = 0
          /\ n \in delete <=> n \in old \ new /\ Listed(n) = 1
          /\ n \in modify <=> \/ n \in new \ old /\ Listed(n) > 0
                              \/ n \in old \ new /\ Listed(n) > 1
      BY <1>6, <1>7, <1>8
    <2>8. n \in old => Listed(n) > 0
      BY <1>1
    <2>9. n \in create \cup modify =>
             /\ n \in new \ old => list[n] = Listed(n) + 1
             /\ n \in old \ new /\ Listed(n) > 1 => list[n] = Listed(n) - 1
      BY <1>9, <2>5
    <2> HIDE DEF old, new, create, modify, delete, list
    <2>10. CASE n \in new \ old
      BY <1>11, <2>1, <2>2, <2>4, <2>6, <2>7, <2>9, <2>10
    <2>11. CASE n \in old \ new
      BY <1>11, <2>1, <2>2, <2>4, <2>6, <2>7, <2>8, <2>9, <2>11
    <2>12. CASE n \notin (new \ old) \cup (old \ new)
      BY <1>11, <2>1, <2>2, <2>3, <2>4, <2>6, <2>7, <2>12
    <2> QED
      BY <2>10, <2>11, <2>12
  <1>13. CountsUsers'
    <2>1. DOMAIN refs' \subseteq Owned
      BY <1>2, <1>6
    <2>2. ASSUME NEW u \in Tenants, NEW n \in Members(uses'[u])
          PROVE  n \in DOMAIN refs'
      <3>1. u \in Users(n)' /\ n \in Owned
        BY <2>2, MembersOwned DEF Users
      <3>2. Cardinality(Users(n)') # 0
        BY <3>1, <1>10, UsersFinite, FS_AddElement, FS_RemoveElement, FS_EmptySet
      <3> QED
        BY <1>12, <3>1, <3>2
    <2> QED
      BY <1>12, <2>1, <2>2 DEF CountsUsers
  <1>14. ASSUME ~stale', NEW n \in Owned
         PROVE  Counted(list, n) = Counted(refs', n)
    <2>1. n \in DOMAIN list => list[n] >= 0
      <3>1. ~stale' => \A m \in DOMAIN list : ~(list[m] < 0)
        OBVIOUS
      <3> HIDE DEF list
      <3> QED
        BY <1>5, <1>14, <3>1
    <2>2. Counted(refs', n) = Cardinality(Users(n)')
      BY <1>12 DEF Counted
    <2>3. CASE n \in DOMAIN list
      <3>1. Counted(list, n) = list[n]
        BY <2>3 DEF Counted
      <3>2. n \in old => Listed(n) > 0
        BY <1>1
      <3> HIDE DEF old, new, list
      <3> QED
        BY <1>3, <1>5, <1>9, <1>11, <2>1, <2>2, <2>3, <3>1, <3>2
    <2>4. CASE n \notin DOMAIN list
      <3>1. n \notin new /\ n \notin old /\ n \notin DOMAIN nodeList
        BY <1>1, <1>5, <2>4
      <3>2. Listed(n) = 0 /\ Counted(list, n) = 0
        BY <2>4, <3>1 DEF Listed, Counted
      <3> QED
        BY <1>11, <2>2, <3>1, <3>2
    <2> QED
      BY <2>3, <2>4
  <1> QED
    BY <1>13, <1>14

-----------------------------------------------------------------------------
(* The invariant *)

LEMMA NodesInit == Init => NodesInv
  <1> SUFFICES ASSUME Init PROVE NodesInv
    OBVIOUS
  <1>1. refs = NoNodes /\ DOMAIN NoNodes = {}
    BY DEF Init, NoNodes
  <1>2. \A t \in Tenants : Members(uses[t]) = {}
    BY DEF Init, Members
  <1>3. CountsUsers
    BY <1>1, <1>2 DEF CountsUsers
  <1> QED
    BY <1>3, NodesTypeInit DEF Init, NodesInv, RefsCountUsers, ListTellsDevice, UpdatesFit

LEMMA TenantKeepsInv ==
    ASSUME NodesInv, NEW t \in Tenants, NEW want \in [Pools -> SUBSET Nodes],
           Tenant(t, want)
    PROVE  NodesInv'
  <1> DEFINE old    == Members(uses[t])
             new    == Members(want)
             create == Created(old, new)
             modify == Modified(old, new)
             delete == Deleted(old, new)
             list   == NewList(t, want)
  <1>1. NodesTypeInv'
    BY TenantKeepsType DEF NodesInv
  <1>2. /\ request.stage = "tenants"
        /\ nodeList' = list
        /\ spoiled' = (spoiled \/ stale)
        /\ \/ /\ uses' = [uses EXCEPT ![t] = want]
              /\ refs' = [n \in (DOMAIN refs \cup create) \ delete |->
                             IF n \in create \cup modify THEN list[n] ELSE refs[n]]
              /\ stale' = (stale \/ \E n \in DOMAIN list : list[n] < 0)
              /\ UNCHANGED fits
           \/ /\ UNCHANGED <<uses, refs>>
              /\ stale' = (stale \/ list # nodeList)
              /\ fits' = (fits /\ (spoiled' \/ Fits(t, create, modify, delete)))
    BY DEF Tenant
  <1>3. CASE spoiled \/ stale
    <2>1. spoiled' /\ fits'
      BY <1>2, <1>3 DEF NodesInv, UpdatesFit
    <2> QED
      BY <1>1, <2>1 DEF NodesInv, RefsCountUsers, ListTellsDevice, UpdatesFit
  <1>4. CASE ~spoiled /\ ~stale
    <2>1. Fits(t, create, modify, delete)
      BY <1>2, <1>4, RightListFits
    <2>2. fits'
      <3> HIDE DEF create, modify, delete, list
      <3> QED
        BY <1>2, <2>1 DEF NodesInv, UpdatesFit
    <2>3. CASE /\ uses' = [uses EXCEPT ![t] = want]
               /\ refs' = [n \in (DOMAIN refs \cup create) \ delete |->
                              IF n \in create \cup modify THEN list[n] ELSE refs[n]]
               /\ stale' = (stale \/ \E n \in DOMAIN list : list[n] < 0)
      <3>1. /\ CountsUsers'
            /\ ~stale' => \A n \in Owned : Counted(nodeList', n) = Counted(refs', n)
        <4>1. Updated(t, want)
          BY <1>2, <2>3 DEF Updated
        <4> QED
          BY <1>2, <1>4, <4>1, UpdateKeepsCounts
      <3> QED
        BY <1>1, <2>2, <3>1 DEF NodesInv, RefsCountUsers, ListTellsDevice, UpdatesFit
    <2>4. CASE UNCHANGED <<uses, refs>> /\ stale' = (stale \/ list # nodeList)
      <3>1. CountsUsers'
        BY <1>4, <2>4 DEF NodesInv, RefsCountUsers, CountsUsers, Users
      <3>2. ~stale' => \A n \in Owned : Counted(nodeList', n) = Counted(refs', n)
        <4>1. ~stale' => nodeList' = nodeList
          <5> HIDE DEF list
          <5> QED
            BY <1>2, <2>4
        <4>2. \A n \in Owned : Counted(nodeList, n) = Counted(refs, n)
          BY <1>2, <1>4 DEF NodesInv, ListTellsDevice
        <4> QED
          BY <2>4, <4>1, <4>2
      <3> QED
        BY <1>1, <2>2, <3>1, <3>2 DEF NodesInv, RefsCountUsers, ListTellsDevice, UpdatesFit
    <2> QED
      BY <1>2, <2>3, <2>4
  <1> QED
    BY <1>3, <1>4

LEMMA NodesStep == NodesInv /\ [Next]_vars => NodesInv'
  <1> SUFFICES ASSUME NodesInv, [Next]_vars PROVE NodesInv'
    OBVIOUS
  <1>1. NodesTypeInv'
    BY NodesStepKeepsType DEF NodesInv
  <1>2. ASSUME UNCHANGED <<refs, uses, spoiled, fits>>
        PROVE  RefsCountUsers' /\ UpdatesFit'
    BY <1>2 DEF NodesInv, RefsCountUsers, CountsUsers, Users, UpdatesFit
  <1>3. CASE Digest
    <2>1. request'.stage = "tenants" => nodeList' = refs /\ refs' = refs
      BY <1>3 DEF Digest
    <2>2. ListTellsDevice'
      BY <2>1 DEF ListTellsDevice
    <2> QED
      BY <1>1, <1>2, <1>3, <2>2 DEF Digest, NodesInv
  <1>4. CASE Get
    <2>1. ListTellsDevice'
      BY <1>4 DEF Get, ListTellsDevice
    <2> QED
      BY <1>1, <1>2, <1>4, <2>1 DEF Get, NodesInv
  <1>5. CASE Take
    <2>1. ListTellsDevice'
      BY <1>5 DEF Take, ListTellsDevice
    <2> QED
      BY <1>1, <1>2, <1>5, <2>1 DEF Take, NodesInv
  <1>6. CASE Finished
    <2>1. request'.stage = "idle"
      BY <1>6 DEF Finished, NodesInv, NodesTypeInv
    <2>2. ListTellsDevice'
      BY <2>1 DEF ListTellsDevice
    <2> QED
      BY <1>1, <1>2, <1>6, <2>2 DEF Finished, NodesInv
  <1>7. ASSUME NEW t \in Tenants, NEW want \in [Pools -> SUBSET Nodes], Tenant(t, want)
        PROVE  NodesInv'
    BY <1>7, TenantKeepsInv
  <1>8. CASE UNCHANGED vars
    <2>1. ListTellsDevice'
      BY <1>8 DEF vars, NodesInv, ListTellsDevice
    <2> QED
      BY <1>1, <1>2, <1>8, <2>1 DEF vars, NodesInv
  <1> QED
    BY <1>3, <1>4, <1>5, <1>6, <1>7, <1>8 DEF Next, Resting

LEMMA NodesInvariant == Spec => []NodesInv
  BY NodesInit, NodesStep, PTL DEF Spec

(* fetch.js: maintainCommonNodes and updateNodes.  However the tenants of  *)
(* a request share their nodes, and with however many pools each, a node   *)
(* of AS3 exists as long as a tenant uses it and counts those that do,     *)
(* unless a tenant was updated from a spoiled list.                        *)
THEOREM NodesCountTheirTenants == Spec => []RefsCountUsers
  BY NodesInvariant, PTL DEF NodesInv

(* declarationHandler.js hands one list of nodes from tenant to tenant:    *)
(* unspoiled, it says what the device would.                               *)
THEOREM TheListIsRight == Spec => []ListTellsDevice
  BY NodesInvariant, PTL DEF NodesInv

(* No update taken from an unspoiled list is refused for its counts.       *)
THEOREM NoUpdateClashes == Spec => []UpdatesFit
  BY NodesInvariant, PTL DEF NodesInv
=============================================================================
