-------------------------- MODULE MCKnowledgeGraph --------------------------
(***************************************************************************)
(* A note called "token" that other notes, or a later version of itself,   *)
(* call "tokens" or "bearer": the first two names have one matching key.   *)
(***************************************************************************)
EXTENDS KnowledgeGraph, TLC

Symmetry == Permutations(Passes)

MCNames == {"token", "tokens", "bearer"}
MCKeyOf == ("token" :> "TOKEN") @@ ("tokens" :> "TOKEN") @@ ("bearer" :> "BEARER")

MCDocumentOf == ("c1" :> "d1") @@ ("c2" :> "d2") @@ ("c3" :> "d1")
MCTitleOf == ("c1" :> "token") @@ ("c2" :> "bearer") @@ ("c3" :> "bearer")

Entity(type, name) == [type |-> type, name |-> name]

MCHeaders == {
    [title |-> "token", aliases |-> {}],
    [title |-> "token", aliases |-> {"BEARER"}],
    [title |-> "bearer", aliases |-> {}]}

MCAnswers == {
    [entities |-> {}, links |-> {}],
    [entities |-> {Entity("Document", "token")}, links |-> {}],
    [entities |-> {Entity("Component", "tokens"), Entity("Document", "bearer")},
     links |-> {<<"tokens", "bearer">>}]}

=============================================================================
