------------------------------- MODULE MCMixer -------------------------------
(***************************************************************************)
(* Mixer for TLC: contents of the wave's registers, duties and gates, and  *)
(* a second state to begin in, with every channel triggered.               *)
(***************************************************************************)
EXTENDS Mixer

\* A wave of four samples, so that its position wraps around.
MCRams == {[i \in 0 .. 3 |-> IF i % 2 = 0 THEN 0 ELSE 15], [i \in 0 .. 3 |-> 5]}
\* ioregs_initdata's duty and the narrowest one.
MCDuties == {{1}}
MCGates == {{0, 3}, {2, 3}}

Triggered ==
  [Initially({}) EXCEPT !.running = [c \in Mixed |-> TRUE],
                        !.vol = [c \in Mixed |-> IF c = 2 THEN 1 ELSE 2]]
MCMixerInit ==
  /\ mix \in {Initially({}), Triggered}
  /\ steps = 0 /\ fast = FALSE /\ time = 0 /\ writes = 0
=============================================================================
