---------------------------- MODULE MCRenderResult ----------------------------
(* Three renders of one output path with two names for working directories,*)
(* so that all names can be taken: with and without captures and request,  *)
(* inputs that end on and off a block boundary, and one without a tail.    *)
EXTENDS RenderResult

MCJob(p) ==
  CASE p = 1 -> [input |-> 3, tail |-> 1, captures |-> TRUE, request |-> TRUE]
    [] p = 2 -> [input |-> 2, tail |-> 0, captures |-> FALSE, request |-> TRUE]
    [] p = 3 -> [input |-> 0, tail |-> 2, captures |-> FALSE, request |-> FALSE]

=============================================================================
