---------------------------- MODULE MCFeedbackLoop ----------------------------
(* Two Channels, one modulated with the shortest delay its Excursion       *)
(* allows, over 18 frames: the larger ring (9 cells) wraps twice.          *)
(* Samples are hashed modulo a prime, so that a wrong sample anywhere      *)
(* shows in everything computed from it.                                   *)
EXTENDS FeedbackLoop

Prime == 10007

MCDelay == [c \in {1, 2} |-> IF c = 1 THEN 5 ELSE 4]

Weighted(ps) ==
  IF DOMAIN ps = {0} THEN ps[0]
  ELSE IF DOMAIN ps = 0 .. 1 THEN 3 * ps[0] + 5 * ps[1]
  ELSE 3 * ps[0] + 5 * ps[1] + 7 * ps[2] + 11 * ps[3]

MCTapped(c, ps, m) == Weighted(ps) % Prime

MCReturned(c, ps, m) == (17 * Weighted(ps) + 19 * m + c) % Prime

MCRemembered(c, ps, m) == (23 * Weighted(ps) + 29 * m) % Prime

MCMix(c, v) == (IF c = 1 THEN 2 * v[1] + 3 * v[2] ELSE 5 * v[1] + 7 * v[2]) % Prime

MCPlus(a, b) == (a + b) % Prime

(* A quarter of the samples are denormal.                                  *)
MCFlush(v) == IF v % 4 = 1 THEN 0 ELSE v

MCMaxFrames == 18

Impulse(at) ==
  [n \in 0 .. MCMaxFrames - 1 |-> [c \in {1, 2} |-> IF n = at THEN c + 1 ELSE 0]]

Noise == [n \in 0 .. MCMaxFrames - 1 |-> [c \in {1, 2} |-> (37 * n * n + 41 * c + 7) % 97]]

MCSignals == {Impulse(0), Impulse(3), Noise}

(* Lookbacks at rest at either end, and swinging between the ends.         *)
MCTrajectories ==
  {[c \in {1} |-> [n \in 0 .. MCMaxFrames - 1 |-> shape[(n % 4) + 1]]] :
     shape \in {<<4, 4, 4, 4>>, <<6, 6, 6, 6>>, <<4, 5, 6, 5>>, <<6, 4, 4, 6>>}}

=============================================================================
