------------------------ MODULE McpSessionResolverMC ------------------------
(* Three concurrent tool calls over a host that may be down twice. *)
EXTENDS McpSessionResolver
=============================================================================
