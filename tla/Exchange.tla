------------------------------ MODULE Exchange ------------------------------
(***************************************************************************)
(* One exchange of a client with the MCP server, as far as its data goes.  *)
(***************************************************************************)

VARIABLES
    stage,    \* "start", "serving", then "called", "answered" or "failed"
    call,     \* what the client asked for
    answer    \* what the tool made of it

exchange == <<stage, call, answer>>

Nothing == <<>>
=============================================================================
