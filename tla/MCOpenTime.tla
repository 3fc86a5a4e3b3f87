----------------------------- MODULE MCOpenTime -----------------------------
EXTENDS OpenTimeProperties

(* The zone of the program and one west of Greenwich.                      *)
East == {8}
West == {-5}
EastAndWest == East \cup West
=============================================================================
