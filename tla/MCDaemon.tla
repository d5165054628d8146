------------------------------- MODULE MCDaemon -------------------------------
(* Daemon with two endpoints, the one with a slot in the cache first. *)
EXTENDS Daemon

CONSTANTS battery, rawTopic

MCOrder == <<battery, rawTopic>>
MCReplayable == {battery}

=============================================================================
