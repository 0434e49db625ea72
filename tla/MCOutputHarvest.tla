---------------------------- MODULE MCOutputHarvest ----------------------------
(* OutputHarvest with one client beside the loop, for TLC. *)
EXTENDS OutputHarvest

CONSTANT r1

OneReader == {r1}

=============================================================================
