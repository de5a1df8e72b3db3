----------------------------- MODULE MCMqttApp -----------------------------
(* Topics, payloads and bounds for checking MqttApp with TLC.              *)
EXTENDS MqttApp, TLC

(* The four topics of MQTT.h and one topic below smoke_detect/#.           *)
MCTopics == {TOPIC3, TOPIC4, TOPIC5, TOPIC6, TOPIC4 \o <<"/", "a">>}

(* What the other boards publish: the smoke and music states, two          *)
(* temperatures, and two night-light colours in the two spellings.         *)
MCPayloads ==
    { NO_SMOKE, <<"S","M","O","K","E">>,
      <<"3","0">>, <<"2","5">>,
      <<"O","F","F">>, <<"O","N">>,
      Rgb(255, 0, 255, <<",">>), Rgb(0, 255, 0, <<",", " ">>) }

(* A byte past a literal that equals no byte of any topic.                 *)
MCJunkInert == {"?"}

(* Bytes past a literal that may equal a byte of a delivered topic.        *)
MCJunk == {"?", "/"}

MCConnectOk == {"ERR_OK"}
MCConnectMayFail == {"ERR_OK", "ERR_MEM"}
=============================================================================
