---------------------------- MODULE MCZoneAlloc -----------------------------
(* Two zones of different units: five of one sector, two of three sectors. *)
EXTENDS ZoneAlloc

MCZoneUnits == <<5, 2>>
MCMinAlloc  == <<1, 3>>
=============================================================================
