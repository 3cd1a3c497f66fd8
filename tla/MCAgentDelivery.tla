-------------------------- MODULE MCAgentDelivery --------------------------
(* Instances of AgentDelivery: every kind of failure; and a crash alone.    *)
EXTENDS AgentDelivery

MCAll == {"tear", "crash", "update", "restart", "writefail"}
MCTear == {"tear", "crash"}
=============================================================================
