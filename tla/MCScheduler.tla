---------------------------- MODULE MCScheduler ----------------------------
(* Two targets; one is re-added with other settings, one has a protocol     *)
(* no prober is registered for.                                             *)
EXTENDS Scheduler, Naturals

CONSTANTS web, ping

MCTargets == {web, ping}
MCSpecs ==
    {[id |-> web, settings |-> 1, known |-> TRUE],
     [id |-> web, settings |-> 2, known |-> TRUE],
     [id |-> ping, settings |-> 1, known |-> FALSE]}
=============================================================================
