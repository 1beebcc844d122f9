----------------------------- MODULE MCGateway ------------------------------
(***************************************************************************)
(* Gateway on two purposes, one of which needs vision, and three documents:*)
(* two loadable ones that differ in models, budget, retries and            *)
(* temperature, and one whose vision fallback cannot see.                  *)
(***************************************************************************)
EXTENDS Gateway, Production, TLC

MCPurpose == {"CHITCHAT", "IMAGE_UNDERSTANDING"}

MCCapabilities ==
    [turbo |-> {"text"}, plus |-> {"text"},
     vl_max |-> {"text", "vision"}, vl_plus |-> {"text", "vision"}]

MCRequirements ==
    [CHITCHAT |-> {"text"}, IMAGE_UNDERSTANDING |-> {"text", "vision"}]

DocumentA ==
    [fault |-> "none",
     rows |-> [CHITCHAT |-> Row("turbo", "plus", 1, 0, 1),
               IMAGE_UNDERSTANDING |-> Row("vl_max", "vl_plus", 2, 1, 1)]]

DocumentB ==
    [fault |-> "none",
     rows |-> [CHITCHAT |-> Row("plus", "turbo", 2, 1, 2),
               IMAGE_UNDERSTANDING |-> Row("vl_plus", "vl_max", 1, 0, 1)]]

BlindFallback ==
    [fault |-> "none",
     rows |-> [DocumentA.rows EXCEPT !.IMAGE_UNDERSTANDING.fallback = "plus"]]

RaceDocuments == {DocumentA, DocumentB, BlindFallback}

ThreadSymmetry == Permutations(Thread)

Republished == {DocumentA, DocumentB}
=============================================================================
