--------------------------- MODULE MCAlertEngine ---------------------------
(* An instance of AlertEngine: an immediate stage, a delayed and repeated   *)
(* one and a recovery.                                                      *)
EXTENDS AlertEngine

Stage(p, t, d, r) == [profile |-> p, trigger |-> t, delay |-> d, repeat |-> r]

MCOneProfile == << Stage(1, "down", 0, 0), Stage(1, "down", 1, 1),
                   Stage(1, "down_recovered", 0, 0) >>

MCGates == {"maintenance", "rootcause"}
MCOps == {"mute", "ack", "resolve", "edit", "restart"}
=============================================================================
