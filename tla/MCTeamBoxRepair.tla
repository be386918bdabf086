-------------------------- MODULE MCTeamBoxRepair --------------------------
(* One team-game of every season a fault begins, ends or has to itself, and  *)
(* of one without faults.                                                    *)
EXTENDS TeamBoxRepair

CONSTANT none

MCSeason == {1996, 2008, 2012, 2013, 2018}
MCCount == {0, 3}
=============================================================================
