-------------------------- MODULE MCDeliveryRetry --------------------------
(* An instance of DeliveryRetry with the delays scaled down in their order. *)
EXTENDS DeliveryRetry

MCBackoff == <<1, 2>>
=============================================================================
