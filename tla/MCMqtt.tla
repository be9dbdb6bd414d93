-------------------------------- MODULE MCMqtt --------------------------------
(* Mqtt.tla for TLC: requests are numbers, and the bounds are in the cfg.       *)
EXTENDS Mqtt
=============================================================================
