---------------------------- MODULE MCMcpSession ----------------------------
(***************************************************************************)
(* Instances of McpSession for TLC: the server's own read-only tool and a   *)
(* consequential one it does not have.                                      *)
(***************************************************************************)
EXTENDS McpSession, TLC

CONSTANTS repo_search, apply_change

Classes == repo_search :> 0 @@ apply_change :> 3
=============================================================================
