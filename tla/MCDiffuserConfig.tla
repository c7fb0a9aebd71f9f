--------------------------- MODULE MCDiffuserConfig ---------------------------
(* Words of 128 values and samples of two bytes.  The requests have one to *)
(* three Channels, of which three leave a remainder in every partition and *)
(* suit no Hadamard matrix; budgets of time that are no budget, too short, *)
(* rounded up, and so long that their memory wraps; steps that share them  *)
(* unevenly; and Modulation that fits, does not, or only for some draws.   *)
EXTENDS DiffuserConfig, TLC

Options(strategy, mix, shuffle, excursion, modulated) ==
  [strategy |-> strategy, mix |-> mix, shuffle |-> shuffle,
   excursion |-> excursion, modulated |-> modulated]

Request(channels, times, steps, total, doubling, option) ==
  [channels |-> channels, lengths |-> times, steps |-> steps, total |-> total,
   doubling |-> doubling, step |-> [k \in 1 .. 3 |-> option]]

Strategies == {"segmented-random", "uniform-random", "even"}

(* Every strategy and mix, for budgets short of every number of Channels.  *)
Plain ==
  {Request(n, << >>, 2, total, doubling, Options(strategy, mix, n = 3, 0, 0)) :
     n \in 1 .. 3, total \in {0, 1, 2, 6, 21}, doubling \in BOOLEAN,
     strategy \in Strategies, mix \in {"hadamard", "householder"}}

(* Times given by step, three steps, and no step.                          *)
Listed ==
  {Request(2, <<10, 7, 3>>, 0, 0, FALSE, Options("segmented-random", "hadamard", TRUE, 0, 0)),
   Request(2, << >>, 0, 20, FALSE, Options("even", "hadamard", FALSE, 0, 0)),
   Request(4, << >>, 1, 24, FALSE, Options("segmented-random", "hadamard", TRUE, 0, 0))}

(* Total samples of which the bytes, or the samples themselves, wrap.      *)
Long ==
  {Request(n, << >>, 1, 4 * samples, FALSE, Options("even", "householder", FALSE, 0, 0)) :
     n \in {2, 3}, samples \in {12, 20, 43, 64, 126, 127, 128}}

(* Excursions of one and a quarter, one and three quarters, and twelve     *)
(* samples; one step plain and one modulated.                              *)
Modulating ==
  {Request(2, << >>, 1, 32, FALSE, Options(strategy, "hadamard", FALSE, excursion, modulated)) :
     strategy \in Strategies, excursion \in {5, 7, 48}, modulated \in {1, 2}}
  \cup
  {[Request(1, <<8, 24>>, 0, 0, FALSE, Options("uniform-random", "householder", TRUE, 0, 0))
      EXCEPT !.step[2] = Options("even", "hadamard", TRUE, 5, 1)],
   Request(1, <<24, 28>>, 0, 0, FALSE, Options("uniform-random", "hadamard", TRUE, 4, 1))}

MCRequests == Plain \cup Listed \cup Long \cup Modulating

(* Diffusers of one Channel and two plain steps, as a file may hold them.  *)
PlainStep(length, delay) ==
  [length |-> length, strategy |-> "uniform-random", mix |-> "hadamard",
   shuffle |-> TRUE, delays |-> (0 :> delay), permutation |-> (0 :> 0),
   excursion |-> 0, mask |-> {}, buffers |-> (0 :> delay)]

Lengths == {1, 4, 30, 34, 126, 127}

MCDocuments ==
  {[channels |-> 1, total |-> total,
    steps |-> <<PlainStep(l1, d1), PlainStep(l2, d2)>>] :
     total \in {5, 32, 34}, l1 \in Lengths, l2 \in Lengths,
     d1 \in {0, 4, 30}, d2 \in {0, 4, 30}}

=============================================================================
