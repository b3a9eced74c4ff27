------------------------- MODULE DeclarationHistory -------------------------
(***************************************************************************)
(* The declarations that src/lib/declarationProvider.js keeps on a BIG-IP: *)
(* one data group ____appsvcs_declaration-<stamp> for each, the stamp being*)
(* the time at which AS3 stored it.  A history is a set of entries with    *)
(* different stamps; an entry carries the declaration and its update mode. *)
(***************************************************************************)
EXTENDS Naturals, FiniteSets

(* The entry's place in the list that is sorted most-recent-first.         *)
Age(history, entry) == Cardinality({e \in history : e.stamp > entry.stamp})

HasAge(history, age) == age < Cardinality(history)

OfAge(history, age) == CHOOSE e \in history : Age(history, e) = age

(* PUT when there is a data group of the stamp, POST otherwise.            *)
Kept(history, entry) == {e \in history : e.stamp # entry.stamp} \cup {entry}

(* Mutant of Excess: the newest are deleted. *)
ExcessOfNewest(history, limit) ==
    {e \in history : Age(history, e) + limit < Cardinality(history)}

(* The list from its limit on.                                             *)
Excess(history, limit) == {e \in history : Age(history, e) >= limit}

(* What trimDeclarations leaves.  The status of a DELETE is ignored, and an*)
(* error ends the deletions: any part of the excess may remain.            *)
Trimmed(history, limit) == history \ Excess(history, limit)
TrimmedInPart(history, limit) ==
    {history \ gone : gone \in SUBSET Excess(history, limit)}
=============================================================================
