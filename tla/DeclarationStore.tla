-------------------------- MODULE DeclarationStore --------------------------
(***************************************************************************)
(* What AS3 promises of the declarations that it stores, with nothing of   *)
(* locks, of the device or of a history that is trimmed: they follow each  *)
(* other as if one request after the other took effect in a single step,   *)
(* which reads what was stored last and stores what comes of it.           *)
(*                                                                         *)
(* A tenant that is not deployed stays as it was stored.  Which ones fail  *)
(* is left open.  DeclarationFlow is shown to implement this.              *)
(***************************************************************************)
EXTENDS Naturals, Sequences

CONSTANTS Requests,     \* who may ask
          Forms,        \* Forms[r] is what request r may ask
          Tenants,
          Common,       \* the tenant that others refer to
          Nothing,      \* the content of a tenant that is not there
          Beginnings,   \* what may have been stored before
          Limit,        \* how many declarations can be deployed again
          Misread       \* whether what is stored may be read as empty

VARIABLE log            \* all that was ever stored, in order

Empty == [t \in Tenants |-> Nothing]

Last == IF log = <<>> THEN Empty ELSE log[Len(log)].decl

Named(decl) == {t \in DOMAIN decl : decl[t] # Nothing}

(* What a request may take for the last declaration.  One that misreads it *)
(* may still find Common, which it reads again for the references to it.   *)
Readings == {Last} \cup (IF Misread THEN {Empty, [Empty EXCEPT ![Common] = Last[Common]]}
                                    ELSE {})

(* What is asked of a tenant: the content that is declared, none if a      *)
(* complete declaration does not name it, or that it stays.                *)
Asked(decl, mode, previous, t) ==
    CASE t \in DOMAIN decl                          -> decl[t]
      [] t \notin DOMAIN decl /\ mode = "complete"  -> Nothing
      [] OTHER                                      -> previous[t]

(* The declaration takes effect, for the tenants that are good.            *)
Deploys(decl, mode, kept) ==
    \E previous \in Readings, good \in SUBSET Tenants :
        log' = Append(log, [decl |-> [t \in Tenants |->
                                         IF t \in good THEN Asked(decl, mode, previous, t)
                                                       ELSE previous[t]],
                            mode |-> kept])

(* A declaration, or the request to remove what is declared.               *)
Deploy(form) ==
    /\ form.action \in {"deploy", "remove"}
    /\ Deploys(form.decl, form.mode, form.mode)

(* An earlier declaration is deployed again.  Its age counts back from what*)
(* is stored now; one beyond the limit may still find one, that is older   *)
(* than it says.                                                           *)
Redeploy(form) ==
    LET age == IF form.age = 0 THEN 1 ELSE form.age
    IN /\ form.action = "redeploy"
       /\ \E i \in DOMAIN log :
             /\ IF age < Limit THEN i + age = Len(log) ELSE i + age <= Len(log)
             /\ Deploys([t \in Named(log[i].decl) |-> log[i].decl[t]],
                        IF form.mode = "original" THEN log[i].mode ELSE form.mode,
                        log[i].mode)

(* A PATCH deploys the tenants in its paths and the Common that it found.  *)
(* It looked before it had the lock, so this may be that of any earlier    *)
(* declaration, and it is deployed in the mode of that declaration.        *)
Patch(form) ==
    /\ form.action = "patch"
    /\ \/ Deploys(form.decl, "selective", "selective")
       \/ \E i \in DOMAIN log :
             LET found == {Common} \cap Named(log[i].decl)
             IN Deploys([t \in DOMAIN form.decl \cup found |->
                            IF t \in DOMAIN form.decl THEN form.decl[t] ELSE log[i].decl[t]],
                        log[i].mode, log[i].mode)

Init == log \in Beginnings

Next ==
    /\ log' # log    \* said first, for those who check that a step is one
    /\ \E r \in Requests : \E form \in Forms[r] :
          /\ ~ form.dryRun
          /\ Deploy(form) \/ Redeploy(form) \/ Patch(form)

Spec == Init /\ [][Next]_log

=============================================================================
