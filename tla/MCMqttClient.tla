---------------------------- MODULE MCMqttClient ----------------------------
(***************************************************************************)
(* Model checking of MqttClient.  The intervals are the smallest that let  *)
(* an answer wait behind another packet and a call of loop() come late:    *)
(* with Latency 1, Backlog 1 and MaxGap 2 the last answer that counts is   *)
(* read exactly when the keep-alive interval of 5 is over.                 *)
(***************************************************************************)
EXTENDS MqttClient

MCKeepAlive == 5
MCSocketTimeout == 5
MCMaxGap == 2
MCLatency == 1
MCBacklog == 1
MCIdSpace == 4
=============================================================================
