-------------------------------- MODULE MCMcp --------------------------------
(* Two connects, so that one can overlap the other under its name, one tool  *)
(* call and one disconnect, on two server names and one tool.                *)
EXTENDS McpClient
=============================================================================
