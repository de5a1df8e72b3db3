------------------------------- MODULE MqttApp -------------------------------
(***************************************************************************)
(* The MQTT application of the firmware (src/source/MQTT.c) and the board *)
(* outputs it drives (src/source/Drivers).  Three actors share the state:  *)
(*                                                                         *)
(*  - app_thread: resolves the broker, posts connect_to_mqtt to the tcpip *)
(*    thread, then loops reading the buttons while `connected` holds and  *)
(*    posts a publish callback for every press;                           *)
(*  - the tcpip thread: runs the posted callbacks (connect_to_mqtt,       *)
(*    publish_message1/2/3) and the sys_timeout that re-runs              *)
(*    connect_to_mqtt, and calls mqtt_connection_cb and the incoming      *)
(*    publish callbacks from the lwIP MQTT client;                        *)
(*  - the environment: the broker, the network and the buttons.           *)
(*                                                                         *)
(* The lwIP MQTT client and tcpip_callback are not in this repository.    *)
(* Their behaviour is the part of lwIP 2.x the code relies on:            *)
(*  - tcpip_callback fails with ERR_MEM when no message can be allocated; *)
(*    the pool is shared with lwiperf and httpd, so any post may fail;    *)
(*  - mqtt_client_connect returns ERR_ISCONN unless the client is idle,   *)
(*    may fail at once (no pcb, no memory) without a callback, and        *)
(*    otherwise ends in exactly one call of the connection callback;      *)
(*  - a connected client reports its loss once (DISCONNECTED or TIMEOUT); *)
(*  - mqtt_publish and mqtt_subscribe return ERR_CONN unless connected    *)
(*    and may fail for lack of request slots.                             *)
(*                                                                         *)
(* Topics and payloads are tuples of one-character strings, so that       *)
(* check_topic and the payload parsers run on the bytes the code reads.   *)
(***************************************************************************)
EXTENDS Integers, Sequences, SequencesExt, FiniteSets

CONSTANTS
    Builds,      \* the builds checked: 1 (DEVICE1) and 2 (DEVICE2)
    Topics,      \* topics the broker may deliver on (tuples of characters)
    Payloads,    \* payloads the broker may deliver (tuples of characters)
    Junk,        \* bytes that may lie past the end of a topic literal
    MboxSize,    \* tcpip messages that can be allocated (MEMP_NUM_TCPIP_MSG_API)
    MaxPresses,  \* bound on the button presses the app thread sees
    MaxDrops,    \* bound on the connections the broker drops
    MaxDeliveries, \* bound on the messages the broker delivers
    ConnectResults \* what mqtt_client_connect may return on an idle client

ASSUME Builds \subseteq {1, 2} /\ MboxSize >= 1 /\ "ERR_OK" \in ConnectResults

NUL == "\\0"

(* The topic literals of MQTT.h and the subscription filters of           *)
(* mqtt_subscribe_topics, as bytes.                                        *)
TOPIC3 == <<"t","e","m","p","_","m","e","a","s","u","r","e">>
TOPIC4 == <<"s","m","o","k","e","_","d","e","t","e","c","t">>
TOPIC5 == <<"r","e","l","a","x","_","m","u","s","i","c">>
TOPIC6 == <<"n","i","g","h","t","_","l","i","g","h","t">>

(* The topics each build subscribes to, "<topic>/#", and the code         *)
(* check_topic should give a message on each.                              *)
Filters(bd) == IF bd = 1 THEN {TOPIC4, TOPIC6} ELSE {TOPIC3, TOPIC5}
TopicCode(lit) == CASE lit = TOPIC3 -> 3 [] lit = TOPIC4 -> 4
                    [] lit = TOPIC5 -> 5 [] lit = TOPIC6 -> 6

(* A topic matches "<lit>/#" when it is lit or lit followed by "/".       *)
MatchesFilter(t, lit) ==
    \/ t = lit
    \/ Len(t) > Len(lit) /\ SubSeq(t, 1, Len(lit) + 1) = lit \o <<"/">>

Msgs == {"connect", "pub1", "pub2", "pub3"}

(* A message of the tcpip mailbox: the callback m, and ghost snapshots     *)
(* taken when it was posted: temp, the presses and the dropped connections *)
(* so far.                                                                 *)
Msg(m, t, n, d) == [m |-> m, t |-> t, n |-> n, d |-> d]
ConnectMsg == Msg("connect", 0, 0, 0)

(* The drivers, by the level or colour they leave.  GPIO_PIN_Init starts   *)
(* GPIO10 at LOGIC_PIN_HIGH, which is 0; GPIO_PIN_Set writes the CLR        *)
(* register and GPIO_PIN_Clear the SET register.  LED_Set writes the three *)
(* pins (TRUE stands for LOGIC_LED_ON).                                    *)
GPIO_PIN_Init == 0
GPIO_PIN_Set == 0
GPIO_PIN_Clear == 1
LED_Set(r, g, b) == <<r, g, b>>
LED_RED_COLOUR == LED_Set(TRUE, FALSE, FALSE)
LED_GREEN_COLOUR == LED_Set(FALSE, TRUE, FALSE)
LED_WHITE_COLOUR == LED_Set(TRUE, TRUE, TRUE)

(* BUTTON_IsPressed reads pins 19 and 7; BUTTON_Init, which would make     *)
(* them inputs, is never called, so any level may be read.                 *)
Buttons == {19, 7}

VARIABLES
    build,          \* the build (DEVICE1 or DEVICE2); never changes
    app,            \* app_thread: "boot", "hung", "resolve", "loop"
    connected,      \* the volatile flag set by mqtt_connection_cb
    client,         \* lwIP mqtt client: "idle", "connecting", "connected"
    subs,           \* filters the client has subscribe requests for
    mbox,           \* callbacks posted to the tcpip thread, oldest first
    timers,         \* pending sys_timeout(connect_to_mqtt)
    temp,           \* the u8 temp published by publish_message2 (DEVICE1)
    i,              \* the SMOKE / NO_SMOKE toggle of app_thread (DEVICE2)
    received_topic, \* set by check_topic, read by mqtt_incoming_data_cb
    pin10,          \* level written to GPIO10 (1 after GPIO_PIN_Clear)
    led,            \* <<r, g, b>> last written by LED_Set, TRUE = LOGIC_LED_ON
    presses,        \* ghost: presses seen so far
    drops,          \* ghost: connections the broker dropped so far
    deliveries,     \* ghost: messages the broker delivered so far
    lastOn,         \* ghost: last payload delivered under each filter
    errs,           \* ghost: errors the code printed and did nothing about
    pubs,           \* ghost: what the broker received for button 7, in order
    lost,           \* ghost: button-7 presses whose message never left
    refused         \* ghost: publishes refused with ERR_CONN

vars == <<build, app, connected, client, subs, mbox, timers, temp, i,
          received_topic, pin10, led, presses, drops, deliveries, lastOn, errs,
          pubs, lost, refused>>


-----------------------------------------------------------------------------
(* check_topic.  Byte k (from 0) of a literal; past its NUL the code reads *)
(* whatever follows it in memory, here the byte j.                         *)
ByteAt(lit, k, j) == IF k < Len(lit) THEN lit[k + 1]
                     ELSE IF k = Len(lit) THEN NUL ELSE j

(* The loop over the topic from byte k on: the last position that equals   *)
(* the first literal, else the second, decides received_topic.             *)
RECURSIVE TopicLoop(_, _, _, _, _, _, _)
TopicLoop(t, k, rt, A, B, jA, jB) ==
    IF k >= Len(t) THEN rt
    ELSE TopicLoop(t, k + 1,
                   IF t[k + 1] = ByteAt(A, k, jA) THEN TopicCode(A)
                   ELSE IF t[k + 1] = ByteAt(B, k, jB) THEN TopicCode(B)
                   ELSE rt,
                   A, B, jA, jB)

(* DEVICE1 compares with TOPIC4 then TOPIC6, DEVICE2 with TOPIC3 then      *)
(* TOPIC5; received_topic starts at 0.                                     *)
CheckTopic(t, bd, jA, jB) ==
    IF bd = 1 THEN TopicLoop(t, 0, 0, TOPIC4, TOPIC6, jA, jB)
              ELSE TopicLoop(t, 0, 0, TOPIC3, TOPIC5, jA, jB)

-----------------------------------------------------------------------------
(* The payload handlers.  A payload is followed by a NUL.                  *)
Digit == [c \in {"0","1","2","3","4","5","6","7","8","9"} |->
            CHOOSE n \in 0 .. 9 :
              <<"0","1","2","3","4","5","6","7","8","9">>[n + 1] = c]

CharAt(p, k) == IF k <= Len(p) THEN p[k] ELSE NUL

NO_SMOKE == <<"N","O","_","S","M","O","K","E">>

(* manage_smoke_topic: strncmp(data, "NO_SMOKE", 8) == 0 sets GPIO10,      *)
(* anything else clears it; GPIO_PIN_Set writes the CLR register (level 0) *)
(* and GPIO_PIN_Clear the SET register (level 1).                          *)
SmokeLevel(p) == IF IsPrefix(NO_SMOKE, p) THEN GPIO_PIN_Set ELSE GPIO_PIN_Clear

(* stringToInt: the leading digits in a u8_t, so it wraps modulo 256.     *)
RECURSIVE StringToIntFrom(_, _, _)
StringToIntFrom(p, k, acc) ==
    IF CharAt(p, k) \in DOMAIN Digit
    THEN StringToIntFrom(p, k + 1, (acc * 10 + Digit[CharAt(p, k)]) % 256)
    ELSE acc

(* manage_temp_topic: 28 or more clears GPIO10, less sets it.              *)
TempLevel(p) == IF StringToIntFrom(p, 1, 0) >= 28 THEN GPIO_PIN_Clear ELSE GPIO_PIN_Set

(* manage_music_topic: strncmp(data, "OFF", 2) == 0 shows red, else green. *)
MusicLed(p) == IF IsPrefix(<<"O","F">>, p) THEN LED_RED_COLOUR ELSE LED_GREEN_COLOUR

(* manage_night_light after the "rgb(" prefix: the loop over buffer from   *)
(* byte k with the values stored so far, the digits of the current one and *)
(* the index.  A value is stored when the digit is followed by ',', ' ' or *)
(* ')'.  Any other byte returns before LED_Set (<<>>).                     *)
RECURSIVE RgbLoop(_, _, _, _, _)
RgbLoop(p, k, vals, cur, idx) ==
    LET c == CharAt(p, k) IN
    IF c = NUL \/ idx >= 3 \/ c = ")" THEN vals
    ELSE IF c \in {" ", ","} THEN RgbLoop(p, k + 1, vals, cur, idx)
    ELSE IF c \notin DOMAIN Digit THEN <<>>
    ELSE LET v == cur * 10 + Digit[c] IN
         IF CharAt(p, k + 1) \in {",", " ", ")"}
         THEN RgbLoop(p, k + 1, [vals EXCEPT ![idx + 1] = v], 0, idx + 1)
         ELSE RgbLoop(p, k + 1, vals, v, idx)

(* The LEDs after manage_night_light: each is on iff its value is 255;     *)
(* <<>> when the payload does not start with "rgb(" or the loop returns.   *)
NightLight(p) ==
    IF ~IsPrefix(<<"r","g","b","(">>, p) THEN <<>>
    ELSE LET vals == RgbLoop(p, 5, <<0, 0, 0>>, 0, 0) IN
         IF vals = <<>> THEN <<>>
         ELSE LED_Set(vals[1] = 255, vals[2] = 255, vals[3] = 255)

-----------------------------------------------------------------------------
(* tcpip_callback: a message is allocated and appended to the mailbox of   *)
(* the tcpip thread, or the allocation fails and the caller only prints e. *)
Post(msg, e, ok) ==
    IF ok THEN /\ Len(mbox) < MboxSize
               /\ mbox' = Append(mbox, msg)
               /\ errs' = errs
          ELSE /\ mbox' = mbox
               /\ errs' = errs \cup {e}

(* connect_to_mqtt: mqtt_client_connect, whose result is not looked at.   *)
ConnectToMqtt ==
    IF client # "idle"
    THEN /\ errs' = errs \cup {"isconn"} /\ UNCHANGED client
    ELSE \E r \in ConnectResults :
            IF r = "ERR_OK" THEN client' = "connecting" /\ UNCHANGED errs
                            ELSE errs' = errs \cup {"connect"} /\ UNCHANGED client

(* mqtt_subscribe_topics: one subscribe request per topic of the build;   *)
(* each may fail, and a failure is only printed.                          *)
SubscribeTopicsBothBuilds ==
    \E ok \in SUBSET (Filters(1) \cup Filters(2)) :
        /\ subs' = ok
        /\ errs' = IF ok = Filters(build) THEN errs ELSE errs \cup {"subscribe"}

SubscribeTopics ==
    \E ok \in SUBSET Filters(build) :
        /\ subs' = ok
        /\ errs' = IF ok = Filters(build) THEN errs ELSE errs \cup {"subscribe"}

(* mqtt_connection_cb(status): connected is set to status == ACCEPTED; an  *)
(* accepted connection subscribes, any other status schedules              *)
(* connect_to_mqtt again (1 s for DISCONNECTED and TIMEOUT, 10 s for the    *)
(* refusals and the default).                                              *)
ConnectionCbFallThrough(status) ==
    /\ connected' = (status = "ACCEPTED")
    /\ client' = IF status = "ACCEPTED" THEN "connected" ELSE "idle"
    /\ timers' = timers + 1
    /\ IF status = "ACCEPTED"
       THEN SubscribeTopics
       ELSE subs' = {} /\ UNCHANGED errs


ConnectionCb(status) ==
    /\ connected' = (status = "ACCEPTED")
    /\ client' = IF status = "ACCEPTED" THEN "connected" ELSE "idle"
    /\ IF status = "ACCEPTED"
       THEN SubscribeTopics /\ UNCHANGED timers
       ELSE /\ timers' = timers + 1 /\ subs' = {} /\ UNCHANGED errs

(* The payloads of publish_message2 and 3.  DEVICE1 writes the two decimal *)
(* digits of temp, (temp / 10) + 0x30 and (temp % 10) + 0x30, over "22":   *)
(* two reads of the unlocked global, t1 and t2, which differ when         *)
(* app_thread steps temp between them.  DEVICE2 sends the literal SMOKE or *)
(* NO_SMOKE.                                                               *)
DigitChar(n) == <<"0","1","2","3","4","5","6","7","8","9">>[n + 1]
TempMessage(t1, t2) == <<DigitChar(t1 \div 10), DigitChar(t2 % 10)>>
SMOKE == <<"S","M","O","K","E">>
Button7(msg) == msg.m \in {"pub2", "pub3"}
Payload(msg, t2) ==
    CASE msg.m = "pub2" /\ build = 1 -> TempMessage(temp, t2)
      [] msg.m = "pub2"             -> SMOKE
      [] OTHER                      -> NO_SMOKE

(* mqtt_publish of a posted callback on the tcpip thread: it is accepted   *)
(* and reaches the broker, or fails for lack of request slots, or with     *)
(* ERR_CONN when the client is not connected; a failure is only printed.   *)
(* t2: temp at the second read of publish_message2.                        *)
Publish(msg, t2) ==
    \/ /\ client = "connected"
       /\ pubs' = IF Button7(msg)
                  THEN Append(pubs, [p |-> Payload(msg, t2), t |-> msg.t,
                                     over |-> presses > msg.n])
                  ELSE pubs
       /\ UNCHANGED <<errs, lost, refused>>
    \/ /\ errs' = errs \cup {"publish"}
       /\ lost' = IF Button7(msg) THEN lost + 1 ELSE lost
       /\ refused' = IF client = "connected" THEN refused
                     ELSE refused \cup {[d |-> msg.d, now |-> drops]}
       /\ UNCHANGED pubs

-----------------------------------------------------------------------------
Init ==
    /\ build \in Builds
    /\ app = "boot"
    /\ connected = FALSE
    /\ client = "idle"
    /\ subs = {}
    /\ mbox = <<>>
    /\ timers = 0
    /\ temp = 20
    /\ i = 1
    /\ received_topic = 0
    /\ pin10 \in {0, 1}
    /\ led \in [1 .. 3 -> BOOLEAN]
    /\ presses = 0
    /\ drops = 0
    /\ deliveries = 0
    /\ lastOn = [f \in Filters(build) |-> <<>>]
    /\ errs = {}
    /\ pubs = <<>>
    /\ lost = 0
    /\ refused = {}

(* mqtt_freertos_run_thread: mqtt_client_new, then the GPIO and LED set-up *)
(* (GPIO10 starts at level 0, the LEDs white) and the app thread.  When    *)
(* mqtt_client_new returns NULL the thread spins in while (1); a failed    *)
(* sys_thread_new stops at LWIP_ASSERT.                                    *)
RunThread ==
    /\ app = "boot"
    /\ \/ app' = "hung" /\ UNCHANGED <<pin10, led>>
       \/ app' = "resolve" /\ pin10' = GPIO_PIN_Init /\ led' = LED_WHITE_COLOUR
    /\ UNCHANGED <<build, connected, client, subs, mbox, timers, temp, i,
                   received_topic, presses, drops, deliveries, lastOn, errs,
                   pubs, lost, refused>>

(* app_thread up to its loop: the broker's name is resolved, and only when *)
(* that succeeds is connect_to_mqtt posted; no failure is retried.         *)
AppStart ==
    /\ app = "resolve"
    /\ app' = "loop"
    /\ \/ errs' = errs \cup {"dns"} /\ UNCHANGED mbox
       \/ \E ok \in BOOLEAN : Post(ConnectMsg, "post_connect", ok)
    /\ UNCHANGED <<build, connected, client, subs, timers, temp, i,
                   received_topic, pin10, led, presses, drops, deliveries, lastOn,
                   pubs, lost, refused>>

(* One pass of the app_thread loop that sees a button pressed, without    *)
(* its test of `connected`: button 19 posts publish_message1; otherwise    *)
(* button 7 posts publish_message2 and goes on to step temp (DEVICE1), or  *)
(* posts publish_message2 or 3 by the toggle i and flips it (DEVICE2).     *)
(* The step and the flip happen whether or not the post succeeded.        *)
PressStep(btn, toggle) ==
    /\ app = "loop"
    /\ presses < MaxPresses
    /\ presses' = presses + 1
    /\ \E ok \in BOOLEAN :
          LET cb == CASE btn = 19 -> "pub1"
                      [] build = 1 -> "pub2"
                      [] OTHER     -> IF i = 1 THEN "pub2" ELSE "pub3"
          IN  /\ Post(Msg(cb, temp, presses + 1, drops), "post_publish", ok)
              /\ lost' = IF btn = 7 /\ ~ok THEN lost + 1 ELSE lost
    /\ app' = IF btn = 7 /\ build = 1 THEN "step" ELSE "loop"
    /\ i' = IF btn = 7 /\ build = 2 /\ toggle THEN 1 - i ELSE i
    /\ UNCHANGED <<build, connected, client, subs, timers, temp, received_topic,
                   pin10, led, drops, deliveries, lastOn, pubs, refused>>

PressNoConnectedCheck(btn) == PressStep(btn, TRUE)
PressNoToggle(btn) == connected /\ PressStep(btn, FALSE)

(* The pass as the code has it: only while `connected` holds.             *)
Press(btn) == connected /\ PressStep(btn, TRUE)

(* (temp == 33) ? (temp = 23) : (temp++) on the u8_t temp.                 *)
TempStep(t) == IF t = 33 THEN 23 ELSE (t + 1) % 256

(* DEVICE1 after posting publish_message2: the step of temp, which the     *)
(* tcpip thread may or may not have read the old value before.            *)
StepTemp ==
    /\ app = "step"
    /\ app' = "loop"
    /\ temp' = TempStep(temp)
    /\ UNCHANGED <<build, connected, client, subs, mbox, timers, i, received_topic,
                   pin10, led, presses, drops, deliveries, lastOn, errs, pubs,
                   lost, refused>>

(* The tcpip thread runs the oldest posted callback.                       *)
TcpipRun ==
    /\ mbox # <<>>
    /\ mbox' = Tail(mbox)
    /\ IF Head(mbox).m = "connect"
       THEN ConnectToMqtt /\ UNCHANGED <<pubs, lost, refused>>
       ELSE Publish(Head(mbox), temp) /\ UNCHANGED client
    /\ UNCHANGED <<build, app, connected, subs, timers, temp, i,
                   received_topic, pin10, led, presses, drops, deliveries, lastOn>>

(* The tcpip thread runs publish_message2 and is preempted between its two *)
(* reads of temp (lines 416 and 417) by app_thread, which steps temp.       *)
TcpipRunPreempted ==
    /\ app = "step"
    /\ mbox # <<>> /\ Head(mbox).m = "pub2"
    /\ mbox' = Tail(mbox)
    /\ app' = "loop"
    /\ temp' = TempStep(temp)
    /\ Publish(Head(mbox), TempStep(temp))
    /\ UNCHANGED <<build, connected, client, subs, timers, i,
                   received_topic, pin10, led, presses, drops, deliveries, lastOn>>

(* A sys_timeout of connect_to_mqtt expires on the tcpip thread.           *)
TimerFires ==
    /\ timers > 0
    /\ timers' = timers - 1
    /\ ConnectToMqtt
    /\ UNCHANGED <<build, app, connected, subs, mbox, temp, i,
                   received_topic, pin10, led, presses, drops, deliveries, lastOn,
                   pubs, lost, refused>>

(* The attempt ends: lwIP calls mqtt_connection_cb with the broker's       *)
(* answer, or with TIMEOUT or DISCONNECTED when no answer comes.           *)
ConnectAnswer ==
    /\ client = "connecting"
    /\ \E status \in {"ACCEPTED", "REFUSED", "TIMEOUT", "DISCONNECTED"} :
          ConnectionCb(status)
    /\ UNCHANGED <<build, app, mbox, temp, i, received_topic, pin10, led,
                   presses, drops, deliveries, lastOn, pubs, lost, refused>>

(* The broker or the keep-alive ends a connection: mqtt_connection_cb with *)
(* DISCONNECTED or TIMEOUT.                                                *)
ConnectionLost ==
    /\ client = "connected"
    /\ drops < MaxDrops
    /\ drops' = drops + 1
    /\ \E status \in {"DISCONNECTED", "TIMEOUT"} : ConnectionCb(status)
    /\ UNCHANGED <<build, app, mbox, temp, i, received_topic, pin10, led,
                   presses, deliveries, lastOn, pubs, lost, refused>>

(* mqtt_incoming_data_cb: the handler chosen by received_topic.           *)
HandleData(rt, p) ==
    CASE rt = 4 -> pin10' = SmokeLevel(p) /\ UNCHANGED led
      [] rt = 6 -> pin10' = pin10 /\ led' = IF NightLight(p) = <<>> THEN led
                                              ELSE NightLight(p)
      [] rt = 3 -> pin10' = TempLevel(p) /\ UNCHANGED led
      [] rt = 5 -> led' = MusicLed(p) /\ UNCHANGED pin10
      [] OTHER  -> UNCHANGED <<pin10, led>>

(* A message on topic t arrives under the subscription f: lwIP calls      *)
(* mqtt_incoming_publish_cb (check_topic) and then mqtt_incoming_data_cb    *)
(* with the whole payload.  jA and jB are the bytes past the literals.    *)
Deliver(t, f, p) ==
    /\ client = "connected"
    /\ f \in subs
    /\ MatchesFilter(t, f)
    /\ deliveries < MaxDeliveries
    /\ deliveries' = deliveries + 1
    /\ lastOn' = [lastOn EXCEPT ![f] = p]
    /\ \E jA, jB \in Junk :
          LET rt == CheckTopic(t, build, jA, jB) IN
          /\ received_topic' = rt
          /\ HandleData(rt, p)
    /\ UNCHANGED <<build, app, connected, client, subs, mbox, timers, temp, i,
                   presses, drops, errs, pubs, lost, refused>>

Next ==
    \/ RunThread
    \/ AppStart
    \/ \E btn \in Buttons : Press(btn)
    \/ StepTemp
    \/ TcpipRun
    \/ TcpipRunPreempted
    \/ TimerFires
    \/ ConnectAnswer
    \/ ConnectionLost
    \/ \E t \in Topics, f \in Filters(build), p \in Payloads : Deliver(t, f, p)

(* The tcpip thread, its timers and lwIP's own connect timeout are always  *)
(* scheduled again; the app thread runs its start-up.  The broker, the     *)
(* buttons and the network get no fairness.                                *)
Fairness ==
    /\ WF_vars(RunThread)
    /\ WF_vars(AppStart)
    /\ WF_vars(TcpipRun)
    /\ WF_vars(TimerFires)
    /\ WF_vars(ConnectAnswer)

Spec == Init /\ [][Next]_vars /\ Fairness

-----------------------------------------------------------------------------
TypeOK ==
    /\ build \in Builds
    /\ app \in {"boot", "hung", "resolve", "loop", "step"}
    /\ connected \in BOOLEAN
    /\ client \in {"idle", "connecting", "connected"}
    /\ subs \subseteq Filters(build)
    /\ mbox \in Seq([m : Msgs, t : 0 .. 255, n : 0 .. MaxPresses, d : 0 .. MaxDrops])
    /\ Len(mbox) <= MboxSize
    /\ timers \in Nat
    /\ temp \in 20 .. 33
    /\ i \in {0, 1}
    /\ received_topic \in {0, 3, 4, 5, 6}
    /\ pin10 \in {0, 1}
    /\ led \in [1 .. 3 -> BOOLEAN]
    /\ errs \subseteq {"dns", "post_connect", "post_publish", "isconn",
                        "connect", "subscribe", "publish"}
    /\ pubs \in Seq([p : Seq(STRING), t : 0 .. 255, over : BOOLEAN])
    /\ lost \in 0 .. MaxPresses
    /\ refused \subseteq [d : 0 .. MaxDrops, now : 0 .. MaxDrops]

(* The pending attempts to reach the broker: connect_to_mqtt in the        *)
(* mailbox or on a timer, or a client that is connecting or connected.     *)
Outstanding ==
    Len(SelectSeq(mbox, LAMBDA m : m.m = "connect")) + timers
      + (IF client = "idle" THEN 0 ELSE 1)

(* The retry chain of mqtt_connection_cb and connect_to_mqtt never forks:  *)
(* at most one attempt is ever pending, so connect_to_mqtt never meets a   *)
(* busy client.  And it never breaks by itself: once app_thread runs its   *)
(* loop there is exactly one, unless resolving, posting or a               *)
(* mqtt_client_connect call failed, the errors the code ignores.           *)
RetryChainIntact ==
    /\ Outstanding <= 1
    /\ app = "loop" /\ errs \cap {"dns", "post_connect", "connect"} = {}
         => Outstanding = 1

(* What a payload means, as the publishers write it: "NO_SMOKE" or not on  *)
(* smoke_detect, a decimal temperature on temp_measure (28 or more is      *)
(* hot), "OFF" or not on relax_music, and "rgb(r,g,b)" on night_light.     *)
Decimal(p) == FoldLeft(LAMBDA acc, c : acc * 10 + Digit[c], 0, p)
AllDigits(p) == p # <<>> /\ \A k \in 1 .. Len(p) : p[k] \in DOMAIN Digit
DecStr(n) == IF n = 255 THEN <<"2","5","5">> ELSE <<"0">>
Rgb(r, g, b, sep) ==
    <<"r","g","b","(">> \o DecStr(r) \o sep \o DecStr(g) \o sep \o DecStr(b) \o <<")">>

(* Every output shows the meaning of the last message on the topic that    *)
(* drives it: GPIO10 the smoke alarm (DEVICE1) or the temperature          *)
(* (DEVICE2), the LEDs the night light (DEVICE1) or the music (DEVICE2).   *)
(* This is about check_topic, the dispatch on the global received_topic in *)
(* mqtt_incoming_data_cb, and the handlers with their inverted pin logic.  *)
OutputsFollowLastMessage ==
    \A f \in DOMAIN lastOn : lastOn[f] # <<>> =>
        LET p == lastOn[f] IN
        CASE f = TOPIC4 -> pin10 = (IF p = NO_SMOKE THEN 0 ELSE 1)
          [] f = TOPIC3 -> AllDigits(p) => pin10 = (IF Decimal(p) >= 28 THEN 1 ELSE 0)
          [] f = TOPIC5 -> led = IF p = <<"O","F","F">> THEN <<TRUE, FALSE, FALSE>>
                                                     ELSE <<FALSE, TRUE, FALSE>>
          [] f = TOPIC6 -> \A r, g, b \in {0, 255}, sep \in {<<",">>, <<",", " ">>} :
                              p = Rgb(r, g, b, sep) => led = <<r = 255, g = 255, b = 255>>

(* app_thread reads `connected` and posts a publish that the tcpip thread *)
(* runs later.  A publish refused with ERR_CONN (the press is lost, only   *)
(* printed) always had a connection dropped between that read and the     *)
(* publish: the stale read of `connected` is the only way in.              *)
PublishRefusedOnlyAfterDrop == \A r \in refused : r.now > r.d

SmokeAlternatesUnlessLost ==
    build = 2 /\ lost = 0 =>
        \A k \in 1 .. Len(pubs) : pubs[k].p = IF k % 2 = 1 THEN SMOKE ELSE NO_SMOKE

(* The comments of mqtt_connection_cb promise to try again after a lost or *)
(* refused connection: once connect_to_mqtt has started an attempt, the    *)
(* client is connecting or connected again and again, for ever.            *)
KeepsTrying == [](client # "idle" => []<>(client # "idle"))

===============================================================================
