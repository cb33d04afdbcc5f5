------------------------------ MODULE HostRuns ------------------------------
(***************************************************************************)
(* The machines that host games and the runs of the host program on them.  *)
(***************************************************************************)
EXTENDS Naturals

CONSTANTS
  Hosts,           (* machines that host games                               *)
  MaxRuns          (* bound: times the host program is started               *)

ASSUME RunsAssumption == MaxRuns \in Nat \ {0}

Run == [host: Hosts, run: 1..MaxRuns]
=============================================================================
