----------------------------- MODULE MCPullCursor -----------------------------
(* Three rows, pages of two. *)
EXTENDS PullCursor

Three == 1..3
None == {}
===============================================================================
