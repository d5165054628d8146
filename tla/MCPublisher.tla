----------------------------- MODULE MCPublisher -----------------------------
(***************************************************************************)
(* Two endpoints, one with a slot in the cache and the raw topic, which    *)
(* has none, and two payloads.                                             *)
(***************************************************************************)
EXTENDS Publisher

CONSTANTS battery, rawTopic, v1, v2

MCOrder      == <<battery, rawTopic>>
MCReplayable == {battery}
MCValues     == {v1, v2}
=============================================================================
