------------------------------ MODULE MqttSink ------------------------------
(***************************************************************************)
(* The MqttSink (daemon/src/sinks/mqtt_sink.cpp) and the mosquitto library *)
(* as it uses it.  Three threads meet: the main thread starts the sink and *)
(* cleans it up at shutdown, the library's loop thread runs the callbacks, *)
(* and a worker of the pool publishes.  A function that stores a status    *)
(* and publishes it is a script of steps, one per store or publication, so *)
(* that the threads interleave between them.                               *)
(***************************************************************************)
EXTENDS Naturals, Sequences

CONSTANTS s_max_tries,          \* connection attempts counted
          s_max_publish_errors  \* failures reported one by one

ASSUME MqttAssumption == {s_max_tries, s_max_publish_errors} \subseteq Nat

VARIABLES
    mMqtt,      \* m_mqtt: "null", "live", or "destroyed" and not yet null
    mStatus,    \* m_status
    mTold,      \* the status last published on the bus
    mTries,     \* m_tries
    mErrors,    \* m_publish_error_count, up to one above its limit
    mainTodo,   \* what the main thread still has to do
    loopTodo,   \* what the callback the loop thread is in still has to do
    loopOn,     \* mosquitto_loop_start .. mosquitto_loop_stop
    link,       \* the library's connection to the broker
    publisher,  \* a worker in publish: "idle", or "checked" after connected()
    mqttFailed, \* mqttConnect has met an error
    mqttEnding, \* shutdown() has been called
    mqttFault   \* a destroyed handle was given to the library

mqttVars == <<mMqtt, mStatus, mTold, mTries, mErrors, mainTodo, loopTodo, loopOn, link,
              publisher, mqttFailed, mqttEnding, mqttFault>>

(* setStatus(s) followed by the publication of s *)
Announce(s) == <<[do |-> "set", status |-> s], [do |-> "publish", status |-> s]>>
Call(f) == [do |-> f, status |-> "Invalid"]

(* start: initialise has made the handle and started the loop thread, then  *)
(* mqttConnect.  The data store was given Connecting by the SystemBuilder.   *)
MqttInit ==
    /\ mMqtt = "live" /\ loopOn = TRUE
    /\ mStatus = "Invalid" /\ mTold = "Connecting"
    /\ mTries = 0 /\ mErrors = 0
    /\ mainTodo = Announce("Connecting") \o <<Call("pw_set"), Call("connect_async")>>
    /\ loopTodo = <<>>
    /\ link = "idle" /\ publisher = "idle"
    /\ mqttFailed = FALSE /\ mqttEnding = FALSE /\ mqttFault = FALSE

connected == mMqtt # "null" /\ mStatus = "Connected"

----------------------------------------------------------------------------
(* The main thread.                                                         *)

(* one of the library's calls in mqttConnect: an error is stored, but not   *)
(* published, and ends the attempt                                          *)
MainConnects ==
    /\ mainTodo # <<>> /\ Head(mainTodo).do \in {"pw_set", "connect_async"}
    /\ \/ /\ mStatus' = "Error" /\ mqttFailed' = TRUE /\ mainTodo' = <<>>
          /\ UNCHANGED link
       \/ /\ mainTodo' = Tail(mainTodo)
          /\ link' = IF Head(mainTodo).do = "connect_async" THEN "trying" ELSE link
          /\ UNCHANGED <<mStatus, mqttFailed>>
    /\ UNCHANGED <<mMqtt, mTold, mTries, mErrors, loopTodo, loopOn, publisher,
                   mqttEnding, mqttFault>>

(* shutdown: cleanup, and in it mqttDisconnect if the sink is connected *)
shutdown ==
    /\ ~mqttEnding /\ mainTodo = <<>>
    /\ mqttEnding' = TRUE
    /\ mainTodo' = (IF connected THEN Announce("Disconnecting") \o <<Call("disconnect")>>
                                 ELSE <<>>)
                   \o <<Call("loop_stop"), Call("destroy"), Call("forget")>>
    /\ UNCHANGED <<mMqtt, mStatus, mTold, mTries, mErrors, loopTodo, loopOn, link, publisher,
                   mqttFailed, mqttFault>>

(* mosquitto_disconnect succeeds only on a connection *)
MainDisconnects ==
    /\ mainTodo # <<>> /\ Head(mainTodo).do = "disconnect"
    /\ \/ /\ link = "up" /\ link' = "closed"
          /\ mainTodo' = Announce("Disconnected") \o Tail(mainTodo)
       \/ mainTodo' = Announce("Invalid") \o Tail(mainTodo) /\ UNCHANGED link
    /\ UNCHANGED <<mMqtt, mStatus, mTold, mTries, mErrors, loopTodo, loopOn, publisher,
                   mqttFailed, mqttEnding, mqttFault>>

(* mosquitto_loop_stop(force) cancels the loop thread wherever it is; the   *)
(* handle is destroyed before the pointer to it is cleared                  *)
MainCleansUp ==
    /\ mainTodo # <<>> /\ Head(mainTodo).do \in {"loop_stop", "destroy", "forget"}
    /\ mainTodo' = Tail(mainTodo)
    /\ \/ /\ Head(mainTodo).do = "loop_stop"
          /\ loopOn' = FALSE /\ loopTodo' = <<>>
          /\ UNCHANGED <<mMqtt, link>>
       \/ /\ Head(mainTodo).do = "destroy"
          /\ mMqtt' = "destroyed" /\ link' = "closed"
          /\ UNCHANGED <<loopOn, loopTodo>>
       \/ /\ Head(mainTodo).do = "forget"
          /\ mMqtt' = "null"
          /\ UNCHANGED <<loopOn, loopTodo, link>>
    /\ UNCHANGED <<mStatus, mTold, mTries, mErrors, publisher, mqttFailed, mqttEnding,
                   mqttFault>>

(* a step of a script of either thread that stores or publishes a status *)
Told(step) ==
    /\ step.do \in {"set", "publish"}
    /\ mStatus' = IF step.do = "set" THEN step.status ELSE mStatus
    /\ mTold' = IF step.do = "publish" THEN step.status ELSE mTold

MainTells ==
    /\ mainTodo # <<>> /\ Told(Head(mainTodo))
    /\ mainTodo' = Tail(mainTodo)
    /\ UNCHANGED <<mMqtt, mTries, mErrors, loopTodo, loopOn, link, publisher, mqttFailed,
                   mqttEnding, mqttFault>>

----------------------------------------------------------------------------
(* The loop thread.                                                         *)

LoopTells ==
    /\ loopTodo # <<>> /\ Told(Head(loopTodo))
    /\ loopTodo' = Tail(loopTodo)
    /\ UNCHANGED <<mMqtt, mTries, mErrors, mainTodo, loopOn, link, publisher, mqttFailed,
                   mqttEnding, mqttFault>>

(* the broker answers a connection attempt *)
callback_connected(accepted) ==
    /\ loopOn /\ loopTodo = <<>> /\ link = "trying"
    /\ \/ /\ accepted
          /\ link' = "up"
          /\ mTries' = 0
          /\ loopTodo' = Announce("Connected")
       \/ /\ ~accepted
          /\ mTries' = IF mTries < s_max_tries THEN mTries + 1 ELSE mTries
          /\ loopTodo' = Announce("Error")
                         \o (IF mTries < s_max_tries THEN <<>> ELSE Announce("Error"))
                         \o Announce("Connecting")
          /\ UNCHANGED link
    /\ UNCHANGED <<mMqtt, mStatus, mTold, mErrors, mainTodo, loopOn, publisher, mqttFailed,
                   mqttEnding, mqttFault>>

(* an unexpected end is left to the next answer of the broker *)
SilentLoss == <<>>

(* an unexpected end of the connection is announced if it was known *)
LostScript == IF connected THEN Announce("Error") ELSE <<>>

(* the connection ends; unless it was asked to, the library connects again *)
callback_disconnected ==
    /\ loopOn /\ loopTodo = <<>>
    /\ \/ link = "up" /\ link' = "trying" /\ loopTodo' = LostScript
       \/ link = "closed" /\ link' = "idle" /\ loopTodo' = Announce("Disconnected")
    /\ UNCHANGED <<mMqtt, mStatus, mTold, mTries, mErrors, mainTodo, loopOn, publisher,
                   mqttFailed, mqttEnding, mqttFault>>

----------------------------------------------------------------------------
(* A worker handles a time mark or a log event: publish.                    *)

publish ==
    /\ publisher = "idle" /\ connected
    /\ publisher' = "checked"
    /\ UNCHANGED <<mMqtt, mStatus, mTold, mTries, mErrors, mainTodo, loopTodo, loopOn, link,
                   mqttFailed, mqttEnding, mqttFault>>

(* mosquitto_publish: without a handle or a connection it returns an error *)
PublishSends ==
    /\ publisher = "checked"
    /\ publisher' = "idle"
    /\ \/ mMqtt = "live" /\ link = "up" /\ mErrors' = 0
       \/ mErrors' = IF mErrors > s_max_publish_errors THEN mErrors ELSE mErrors + 1
    /\ mqttFault' = (mqttFault \/ mMqtt = "destroyed")
    /\ UNCHANGED <<mMqtt, mStatus, mTold, mTries, mainTodo, loopTodo, loopOn, link,
                   mqttFailed, mqttEnding>>

MqttNext ==
    \/ MainConnects \/ shutdown \/ MainDisconnects \/ MainCleansUp \/ MainTells
    \/ LoopTells \/ callback_disconnected
    \/ \E accepted \in BOOLEAN : callback_connected(accepted)
    \/ publish \/ PublishSends

MqttSpec == MqttInit /\ [][MqttNext]_mqttVars

----------------------------------------------------------------------------
(* Until shutdown, between the callbacks, the clients are told the truth:   *)
(* the sink takes itself for connected exactly while the library is, what   *)
(* was published last is the status it has, and no call meets a destroyed   *)
(* handle.  Excepted is a failed mqttConnect, whose error is not published. *)
(* After shutdown nothing of the library is left.                           *)
MqttStatusIsTrue ==
    /\ (~mqttEnding /\ mainTodo = <<>> /\ loopTodo = <<>>) =>
          /\ mStatus = "Connected" <=> link = "up"
          /\ mqttFailed \/ mTold = mStatus
    /\ mqttFault => mqttEnding
    /\ (mqttEnding /\ mainTodo = <<>>) => mMqtt = "null" /\ ~loopOn /\ loopTodo = <<>>
============================================================================
