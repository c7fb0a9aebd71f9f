----------------------------- MODULE MCDelayLine -----------------------------
(* A small instance of DelayLine: fixed lines whose ring is shorter than,  *)
(* equal to and longer than the longest chunk, and swaying lines whose     *)
(* lookbacks reach both ends of their ring.                                *)
EXTENDS DelayLine

Fixed(delay, ring) ==
  [delay |-> delay, ring |-> ring, interpolation |-> "fixed", bases |-> {}]

Swaying(delay, ring, kind, bases) ==
  [delay |-> delay, ring |-> ring, interpolation |-> kind, bases |-> bases]

MCLines ==
  {Fixed(1, 1), Fixed(2, 2), Fixed(3, 3), Fixed(4, 4), Fixed(2, 5),
   Swaying(4, 6, "lagrange3", {3, 4}),
   Swaying(3, 5, "adjacent", {2, 3})}

=============================================================================
