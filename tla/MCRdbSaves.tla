------------------------------ MODULE MCRdbSaves ------------------------------
(* Two save points, as redis.conf's "save 3600 1" and "save 300 100": the    *)
(* one with more changes is due sooner.                                      *)
EXTENDS RdbSaves

MCSavePoints == {[seconds |-> 2, changes |-> 1], [seconds |-> 0, changes |-> 2]}
===============================================================================
