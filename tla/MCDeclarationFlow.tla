-------------------------- MODULE MCDeclarationFlow --------------------------
(* Small instances of DeclarationFlow: two shared objects of Common, two     *)
(* tenants with one object that refers to either, requests of two hosts.     *)
EXTENDS DeclarationFlow

MCOrder == <<"a", "b">>
MCNames == {1, 2}
MCVersions == {1, 2}
MCRef == [v \in {1, 2} |-> v]

Content(x, y) == [n \in {1, 2} |-> IF n = 1 THEN x ELSE y]
Both(common, a) == [t \in {"Common", "a"} |-> IF t = "a" THEN a ELSE common]
Just(t, content) == [u \in {t} |-> content]
All(common, a, b) == [t \in {"Common", "a", "b"} |->
                          CASE t = "Common" -> common [] t = "a" -> a [] t = "b" -> b]
Gone == Content(0, 0)

Form(action, mode, decl) ==
    [action |-> action, mode |-> mode, decl |-> decl, age |-> 1,
     dryRun |-> FALSE, expect |-> Just("a", Gone)]
NoKey(form) == [form EXCEPT !.expect = [t \in {} |-> Gone]]

Swap == NoKey(Form("deploy", "selective", Both(Content(0, 1), Content(2, 0))))
Fill == NoKey(Form("deploy", "complete", Both(Content(1, 1), Content(1, 2))))
Back == NoKey(Form("redeploy", "complete", Just("a", Gone)))
Again == NoKey(Form("redeploy", "original", Just("a", Gone)))
Patch == NoKey(Form("patch", "selective", Just("b", Content(1, 0))))
Look == NoKey(Form("retrieve", "selective", Just("a", Gone)))
Wipe == NoKey(Form("remove", "complete", [t \in {} |-> Gone]))
Trial == [Swap EXCEPT !.dryRun = TRUE]
Keyed == [Form("deploy", "selective", Both(Content(0, 1), Content(0, 2)))
             EXCEPT !.expect = Just("a", Content(2, 0))]

First == [decl |-> All(Content(1, 0), Content(1, 0), Gone), mode |-> "complete"]
Second == [decl |-> All(Content(1, 0), Content(1, 0), Content(0, 1)), mode |-> "selective"]
Third == [decl |-> All(Content(1, 1), Gone, Content(2, 1)), mode |-> "complete"]

MCBeginnings == {<<>>, <<First>>, <<First, Second>>, <<First, Second, Third>>}
MCForms == [r \in {"r1", "r2"} |->
               IF r = "r1" THEN {Swap, Fill, Back, Again, Patch, Wipe, Trial, Keyed, Look}
                           ELSE {Swap, Back, Patch}]
NoSkew == [r \in {"r1", "r2"} |-> 0]
=============================================================================
