--------------------------- MODULE MCOrderlyStop ---------------------------
(* An instance of OrderlyStop: a sensor of the server's and one of an       *)
(* agent's.                                                                 *)
EXTENDS OrderlyStop

MCSensors == {"local", "remote"}
MCRemote  == {"remote"}
=============================================================================
