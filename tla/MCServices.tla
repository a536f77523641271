----------------------------- MODULE MCServices -----------------------------
(* The events of the daemon, the MQTT connection and the GUI's connection,  *)
(* in one model.  They share no state here, so a behaviour is one of a      *)
(* single component, which `part` names; the others rest.                   *)
EXTENDS GuiConnection, MqttSink, EventFlow

VARIABLE part

Init == part \in {"gui", "mqtt", "flow"} /\ GuiInit /\ MqttInit /\ FlowInit

RunGui == part = "gui" /\ GuiNext /\ UNCHANGED <<part, mqttVars, flVars>>
RunMqtt == part = "mqtt" /\ MqttNext /\ UNCHANGED <<part, guiVars, flVars>>
RunFlow == part = "flow" /\ FlowNext /\ UNCHANGED <<part, guiVars, mqttVars>>

Next == RunGui \/ RunMqtt \/ RunFlow

\* A part that rests is in its initial state, in which no fair step is possible.
Spec == Init /\ [][Next]_<<part, guiVars, mqttVars, flVars>> /\ GuiFairness /\ FlowFairness

(* What was begun ends: an attempt to connect in the window, and whatever   *)
(* handlers publish in answer to an event.                                  *)
ServicesSettle == AttemptEnds /\ CascadeEnds

=============================================================================
