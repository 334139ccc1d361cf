--------------------------- MODULE MCMqttTransport ----------------------------
EXTENDS MqttTransport

(* No ID, the first, or the last one is accepted.                          *)
BrokerPolicies == {{}, {0}, {NumIds - 1}}
=============================================================================
