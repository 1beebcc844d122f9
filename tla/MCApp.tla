-------------------------------- MODULE MCApp -------------------------------
(***************************************************************************)
(* App on one purpose, two documents that load and one that does not, and  *)
(* a single pool connection for handlers and health checks to compete for. *)
(***************************************************************************)
EXTENDS App, Production

MCCapabilities == [turbo |-> {"text"}, plus |-> {"text"}]
MCRequirements == [CHITCHAT |-> {"text"}]

Route(primary, fallback) ==
    [fault |-> "none",
     rows |-> [CHITCHAT |-> Row(primary, fallback, 1, 0, 0)]]

Documents ==
    {Route("turbo", "plus"), Route("plus", "turbo"),
     [fault |-> "yaml_syntax", rows |-> <<>>]}
=============================================================================
