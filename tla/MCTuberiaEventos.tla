-------------------------- MODULE MCTuberiaEventos --------------------------
(* A small instance of TuberiaEventos for TLC: the queue is smaller than what the
   monitors find, and a batch does not divide the number of events. *)
EXTENDS TuberiaEventos, TLC

CONSTANTS m1, m2
MCMonitor == {m1, m2}
==============================================================================
