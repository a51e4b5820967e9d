------------------------------- MODULE MCAsdm -------------------------------
(* Asdm with a temperature and two voltages followed.                      *)
EXTENDS Asdm

MCWatched == {<<"Temperature", 3>>, <<"Voltage", 1>>, <<"Voltage", 2>>}
=============================================================================
