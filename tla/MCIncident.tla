----------------------------- MODULE MCIncident -----------------------------
(* An instance of Incident: a probe that must fail or recover twice, the    *)
(* rows of one direction counted up to two.  Either every level occurs with *)
(* crashes and acknowledgements; or the learned baseline raises warnings;   *)
(* or outages meet the grace window, mutes, pauses and rows resolved by     *)
(* hand.                                                                    *)
EXTENDS Incident

MCSettings ==
    {[ops |-> {"crash", "ack", "ackClosed"}, results |-> {"fail", "loss", "ok", "warn", "crit"}],
     [ops |-> {"crash"}, results |-> {"fail", "ok", "odd", "crit"}],
     [ops |-> {"grace", "mute", "pause", "dismiss"}, results |-> {"loss", "ok"}]}
=============================================================================
