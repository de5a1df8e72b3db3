----------------------------- MODULE TcpSession -----------------------------
(***************************************************************************)
(* The TCP side of lwiperf (lwiperf.c): listeners started by               *)
(* lwiperf_start_tcp_server and by dual/tradeoff clients, the sessions     *)
(* they accept, clients started by lwiperf_start_tcp_client and the        *)
(* clients a server starts back towards its peer, with every callback the  *)
(* lwIP TCP stack may invoke on them: accept, connected, recv, sent, poll  *)
(* and err, plus lwiperf_abort.  The sessions live in the registry of      *)
(* SessionRegistry, whose list operations are used through an instance.    *)
(*                                                                         *)
(* Data is abstracted to byte counts.  The protocol constants keep their   *)
(* roles but are scaled down: SetLen is sizeof(lwiperf_settings_ext_t),    *)
(* Block is BLOCK_SIZE, Mss the TCP MSS of a new pcb and SndBuf the room   *)
(* of the send buffer, all in bytes.  The remote iperf and the network are *)
(* the environment: they may connect, send any segment, acknowledge data,  *)
(* reset, and the stack may refuse memory to tcp_write.                    *)
(***************************************************************************)
EXTENDS Integers, Sequences, SequencesExt, FiniteSets

CONSTANTS
    Addr, NULL, MaxCreates,   \* as in SessionRegistry
    SetLen,       \* sizeof(lwiperf_settings_ext_t)
    Block,        \* BLOCK_SIZE
    Mss,          \* tcp_mss of a fresh pcb
    SndBuf,       \* send buffer room of a pcb
    MaxIdle,      \* LWIPERF_MAX_IDLE_SEC
    MaxTime,      \* bound on the sys_now() clock
    MaxPressure,  \* bound on send_more calls during which tcp_write finds no memory
    MaxRx,        \* bound on the bytes a peer sends on one connection
    MaxTx,        \* bound on the bytes a peer acknowledges on one connection
    Amounts,      \* settings.amount values: [time |-> BOOLEAN, n |-> Nat]
    BufLens,      \* settings.buffer_len values
    SegLens,      \* lengths of the segments a peer sends
    Apps,         \* start calls the application makes: "server" and the
                  \* enum lwiperf_client_type values "client", "reverse",
                  \* "dual", "tradeoff"
    PeerModes     \* settings flags a remote iperf client may send

ASSUME SetLen > 0 /\ Block > SetLen /\ Mss > 0

VARIABLES
    list, used, master, dealloc,  \* the registry
    created,   \* sessions allocated so far
    sess,      \* lwiperf_state_tcp_t of every block
    now,       \* sys_now()
    pressure,  \* send_more calls with memory pressure so far
    handles,   \* ghost: blocks returned to the application as handles
    from,      \* ghost: "server" or "client" listener a connection was accepted on
    rx,        \* ghost: bytes the peer has sent on a connection
    faults     \* ghost: undefined behaviour the code has run into

vars == <<list, used, master, dealloc, created, sess, now, pressure,
          handles, from, rx, faults>>

R == INSTANCE SessionRegistry
         WITH aborted <- NULL, inc <- [a \in Addr |-> 0],
              parent <- [a \in Addr |-> <<NULL, 0>>]

Modes == {"none", "reverse", "dual", "tradeoff"}
Reasons == {"DONE_SERVER_RX", "DONE_CLIENT_RX", "DONE_SERVER_TX",
            "DONE_CLIENT_TX", "ABORTED_LOCAL", "ABORTED_REMOTE",
            "ABORTED_LOCAL_DATAERROR", "ABORTED_LOCAL_TXERROR"}

(* A settings record: the flags as a mode, the amount and buffer_len.      *)
Settings == [mode : Modes, amount : Amounts, bufLen : BufLens]
PeerSettings == {S \in Settings : S.mode \in PeerModes}
NoSettings == [mode |-> "none", amount |-> [time |-> FALSE, n |-> 0], bufLen |-> 0]

(* A session block after memset(0): pcb says which of conn_pcb and         *)
(* server_pcb is set, recvCb/sentCb which data callbacks are registered.   *)
Blank == [server |-> FALSE, reverse |-> FALSE, pcb |-> "none",
          connected |-> FALSE, recvCb |-> FALSE, sentCb |-> FALSE,
          specific |-> FALSE, tradeoff |-> FALSE, report |-> TRUE,
          have |-> FALSE, set |-> NoSettings, mss |-> Mss,
          bytes |-> 0, inflight |-> 0, poll |-> 0, started |-> 0]

(* The world a callback acts on: the registry fields plus the sessions.    *)
World == [list |-> list, used |-> used, master |-> master,
          dealloc |-> dealloc, sess |-> sess]

SetWorld(w) ==
    /\ list' = w.list /\ used' = w.used /\ master' = w.master
    /\ dealloc' = w.dealloc /\ sess' = w.sess

-----------------------------------------------------------------------------
(* lwiperf_tcp_close: unregister, report (of type r), close the pcb and    *)
(* free the block.  What a freed block holds is not modelled: it becomes   *)
(* Blank.                                                                   *)
TcpClose(w, a, r) == [R!SessionClose(w, a) EXCEPT !.sess[a] = Blank]

(* primary_a_client: the session has no master or its master is not a      *)
(* server, i.e. this side started the test as a client.                    *)
IsPrimary(w, a) == w.master[a] = NULL \/ ~w.sess[w.master[a]].server

(* A target check that lets the session reach its byte target exactly.     *)
(* The test target check at the top of the send loop.                      *)
TargetReached(c, t) ==
    IF c.set.amount.time THEN t - c.started >= c.set.amount.n
                         ELSE c.bytes >= c.set.amount.n

(* The chunk the send loop writes next: the settings (again at the start  *)
(* of every block when primary) or data up to the MSS, shortened after     *)
(* the settings and at the block end; txlen_max is a u16_t.                *)
Chunk(c, primary) ==
    IF primary /\ c.bytes < SetLen
    THEN [len |-> SetLen - c.bytes, more |-> FALSE, data |-> FALSE]
    ELSE LET bp == IF primary THEN (c.bytes - SetLen) % Block ELSE c.bytes % Block
             t1 == IF bp = SetLen THEN (c.mss - SetLen) % 65536 ELSE c.mss
         IN  IF primary /\ bp < SetLen
             THEN [len |-> SetLen - bp, more |-> TRUE, data |-> FALSE]
             ELSE [len |-> IF bp + t1 > Block THEN Block - bp ELSE t1,
                   more |-> TRUE, data |-> TRUE]

(* tcp_write: a zero length succeeds; otherwise it needs memory and room.  *)
WriteOk(c, len, press) == len = 0 \/ (~press /\ c.inflight + len <= SndBuf)

(* The ERR_MEM retry: halve txlen while it stays >= mss/2.  The length    *)
(* written, or -1 when the last try failed too.                            *)
RECURSIVE TryWrite(_, _, _)
TryWrite(c, len, press) ==
    IF WriteOk(c, len, press) THEN len
    ELSE IF len \div 2 >= c.mss \div 2 THEN TryWrite(c, len \div 2, press)
    ELSE -1

(* The loop of lwiperf_tcp_client_send_more from its target check on.      *)
(* spin: a write of zero bytes succeeded and the loop goes on, so the next *)
(* iteration is the same as this one; at a byte target the loop never      *)
(* ends, at a time target it busy-waits until sys_now() reaches the target *)
(* and then closes.  over: the session closes at a byte target it passed   *)
(* by a full MSS or more.                                                  *)
RECURSIVE SendLoop(_, _, _, _, _)
SendLoop(w, a, primary, press, t) ==
    LET c == w.sess[a] IN
    IF TargetReached(c, t)
    THEN [w |-> TcpClose(w, a, IF c.reverse THEN "DONE_SERVER_TX" ELSE "DONE_CLIENT_TX"),
          spin |-> FALSE,
          over |-> ~c.set.amount.time /\ c.bytes >= c.set.amount.n + c.mss]
    ELSE LET ch == Chunk(c, primary)
             n  == TryWrite(c, ch.len, press)
             c2 == [c EXCEPT !.bytes = IF c.server \/ ~c.reverse THEN @ + n ELSE @,
                             !.inflight = @ + n]
             w2 == [w EXCEPT !.sess[a] = c2]
         IN  IF n < 0 \/ ~ch.more
             THEN [w |-> IF n < 0 THEN w ELSE w2, spin |-> FALSE, over |-> FALSE]
             ELSE IF n = 0 /\ c.set.amount.time
             THEN [w |-> TcpClose(w2, a, IF c.reverse THEN "DONE_SERVER_TX" ELSE "DONE_CLIENT_TX"),
                   spin |-> FALSE, over |-> FALSE]
             ELSE IF n = 0 THEN [w |-> w2, spin |-> TRUE, over |-> FALSE]
             ELSE SendLoop(w2, a, primary, press, t)

(* lwiperf_tcp_client_send_more: a buffer_len below the MSS lowers the     *)
(* pcb's MSS, then the loop runs; tcp_output has no effect on the model.   *)
SendMore(w, a, press, t) ==
    LET c == w.sess[a]
        w1 == IF c.set.bufLen # 0 /\ c.set.bufLen < c.mss
              THEN [w EXCEPT !.sess[a].mss = c.set.bufLen] ELSE w
    IN  SendLoop(w1, a, IsPrimary(w1, a), press, t)

(* lwiperf_abort(h) on the TCP sessions: the registry walk, each session   *)
(* it closes reporting ABORTED_LOCAL.                                      *)
TcpAbort(w, h) ==
    LET w2 == R!AbortWalk(w, h, w.list)
    IN  [w2 EXCEPT !.sess = [x \in Addr |->
                              IF x \in Range(w.list) \ Range(w2.list)
                              THEN Blank ELSE @[x]]]

(* LWIPERF_ALLOC and memset of block a, filled in as rec, with master m.   *)
Alloc(w, a, m, rec) ==
    [w EXCEPT !.used = @ \cup {a}, !.master[a] = m, !.dealloc[a] = NULL,
              !.sess[a] = rec]

(* The session lwiperf_tx_start_impl sets up for settings S: a reverse     *)
(* request registers the recv callback, otherwise the sent callback.       *)
Client(S) ==
    [Blank EXCEPT !.reverse = (S.mode = "reverse"), !.pcb = "conn",
                  !.started = now, !.set = S, !.have = TRUE,
                  !.recvCb = (S.mode = "reverse"), !.sentCb = (S.mode # "reverse")]

(* The listener of lwiperf_start_tcp_server_impl.                          *)
Listener == [Blank EXCEPT !.server = TRUE, !.pcb = "listen"]

(* lwiperf_tx_start_passive from connection a: a client back to the peer   *)
(* on block b with a's settings and a's master, flags cleared once it is   *)
(* started; ok is FALSE when allocation, tcp_new or tcp_connect fails.     *)
PassiveStart(w, a, b, ok) ==
    IF ok
    THEN R!ListAdd(Alloc(w, b, w.master[a],
                         [Client(w.sess[a].set) EXCEPT !.set.mode = "none"]), b)
    ELSE w

Bump(S) == created + Cardinality(S)

(* The per-block ghosts of newly allocated blocks S start afresh.          *)
Fresh(f, S, v) == [x \in Addr |-> IF x \in S THEN v ELSE f[x]]

FreshGhosts(S) ==
    /\ from' = Fresh(from, S, "none")
    /\ rx' = Fresh(rx, S, 0)

CanAlloc(a) == a \notin used /\ created < MaxCreates

(* The faults a send_more call r runs into.                                 *)
LoopFaults(r) == (IF r.spin THEN {"spin"} ELSE {}) \cup (IF r.over THEN {"overshoot"} ELSE {})

(* A send_more call: its world, whether it spins, and the pressure count.  *)
Transmit(w, a, press) ==
    LET r == SendMore(w, a, press, now) IN
    /\ press => pressure < MaxPressure
    /\ pressure' = IF press THEN pressure + 1 ELSE pressure
    /\ SetWorld(r.w)
    /\ faults' = faults \cup LoopFaults(r)

-----------------------------------------------------------------------------
Init ==
    /\ list = <<>>
    /\ used = {}
    /\ master = [a \in Addr |-> NULL]
    /\ dealloc = [a \in Addr |-> NULL]
    /\ created = 0
    /\ sess = [a \in Addr |-> Blank]
    /\ now = 0
    /\ pressure = 0
    /\ handles = {}
    /\ from = [a \in Addr |-> "none"]
    /\ rx = [a \in Addr |-> 0]
    /\ faults = {}

(* lwiperf_start_tcp_server: a listener on block s.  With leak, tcp_new or *)
(* tcp_bind fails after the allocation and the function returns without   *)
(* freeing s.                                                              *)
StartTcpServer(s, leak) ==
    /\ "server" \in Apps
    /\ CanAlloc(s)
    /\ LET w == Alloc(World, s, NULL, Listener)
       IN  SetWorld(IF leak THEN w ELSE R!ListAdd(w, s))
    /\ handles' = IF leak THEN handles ELSE handles \cup {s}
    /\ created' = Bump({s})
    /\ FreshGhosts({s})
    /\ UNCHANGED <<now, pressure, faults>>

(* lwiperf_start_tcp_client of type ty on block a.  ok is FALSE when       *)
(* lwiperf_tx_start_impl fails (nothing stays allocated), and the tos      *)
(* assignment then dereferences the NULL state.  A dual or tradeoff client *)
(* starts a listener on block b (outcome o2): "fail" when allocation or    *)
(* tcp_listen fails, "leak" when tcp_new or tcp_bind fails and b is not    *)
(* freed; either way the client is aborted and NULL is returned.           *)
StartTcpClient(a, b, ty, amt, buf, tos, ok, o2) ==
    LET S    == [mode |-> IF ty = "client" THEN "none" ELSE ty, amount |-> amt, bufLen |-> buf]
        both == ty \in {"dual", "tradeoff"}
        w1   == R!ListAdd(Alloc(World, a, NULL, Client(S)), a)
        L    == [Listener EXCEPT !.specific = TRUE, !.tradeoff = (ty = "tradeoff")]
        w2   == CASE ~both        -> w1
                  [] o2 = "ok"    -> R!ListAdd(Alloc(w1, b, a, L), b)
                  [] o2 = "leak"  -> TcpAbort(Alloc(w1, b, a, Listener), a)
                  [] o2 = "fail"  -> TcpAbort(w1, a)
    IN
    /\ CanAlloc(a)
    /\ ok /\ both => CanAlloc(b) /\ a # b /\ created + 1 < MaxCreates
    /\ ~ok \/ ~both => o2 = "ok"
    /\ IF ok THEN SetWorld(w2) ELSE UNCHANGED <<list, used, master, dealloc, sess>>
    /\ handles' = IF ok /\ (~both \/ o2 = "ok") THEN handles \cup {a} ELSE handles
    /\ created' = Bump(IF ~ok THEN {} ELSE IF both /\ o2 # "fail" THEN {a, b} ELSE {a})
    /\ FreshGhosts(IF ~ok THEN {} ELSE IF both /\ o2 # "fail" THEN {a, b} ELSE {a})
    /\ faults' = IF ~ok /\ tos THEN faults \cup {"nullderef"} ELSE faults
    /\ UNCHANGED <<now, pressure>>

(* The master of a connection accepted on s, without the hand-over to the  *)
(* client for a client's listener.                                         *)
AcceptMasterListener(s) == s

(* The master of a connection accepted on s, always taken from the          *)
(* listener's own master.                                                   *)
AcceptMasterOfListener(s) == master[s]

(* The master of a connection accepted on listener s: the listener, or for *)
(* the listener of a dual or tradeoff client, that client.                 *)
AcceptMaster(s) == IF sess[s].specific THEN master[s] ELSE s

(* lwiperf_tcp_accept on listener s, the new connection on block b.  A     *)
(* listener of a client takes the client as the connection's master and    *)
(* closes itself unless it is a tradeoff listener whose client is still    *)
(* registered.  A connection from a host other than the expected remote is *)
(* refused without a state change and is not an action.                    *)
Accept(s, b) ==
    LET L   == sess[s]
        C   == [Blank EXCEPT !.server = TRUE, !.pcb = "conn", !.started = now,
                             !.report = L.report, !.recvCb = TRUE, !.connected = TRUE]
        w1  == Alloc(World, b, AcceptMaster(s), C)
        w2  == IF L.specific /\ (~L.tradeoff \/ master[s] \notin R!Registered)
               THEN TcpClose([w1 EXCEPT !.sess[s].report = FALSE], s, "ABORTED_LOCAL")
               ELSE w1
        m   == w1.master[b]
    IN
    /\ s \in R!Registered
    /\ L.pcb = "listen"
    /\ CanAlloc(b)
    /\ SetWorld(R!ListAdd(w2, b))
    /\ created' = Bump({b})
    /\ from' = [from EXCEPT ![b] = IF L.specific THEN "client" ELSE "server"]
    /\ rx' = [rx EXCEPT ![b] = 0]
    /\ UNCHANGED <<now, pressure, handles, faults>>

(* A connection whose callbacks lwIP may invoke: registered, with a pcb.   *)
Live(a) == a \in R!Registered /\ sess[a].pcb = "conn"

(* lwiperf_tcp_client_connected.  lwIP calls it only with ERR_OK; a failed *)
(* connection attempt reaches lwiperf_tcp_err instead.                     *)
Connected(a, press) ==
    /\ Live(a)
    /\ ~sess[a].connected
    /\ Transmit([World EXCEPT !.sess[a].connected = TRUE, !.sess[a].poll = 0,
                              !.sess[a].started = now], a, press)
    /\ UNCHANGED <<created, now, handles, from, rx>>

(* A segment count that requires both conditions instead of either.         *)
CountBoth(c, n) == IF ~c.server /\ ~c.reverse THEN [c EXCEPT !.bytes = @ + n] ELSE c

(* The segment counting at the end of lwiperf_tcp_recv: nothing is counted *)
(* on a server that transmits for a reverse request.                       *)
Count(c, n) == IF ~c.server \/ ~c.reverse THEN [c EXCEPT !.bytes = @ + n] ELSE c

(* A header count that leaves out the settings bytes.                       *)
HeaderCountDataOnly(c, len) ==
    IF ~c.server \/ ~c.reverse
    THEN [c EXCEPT !.bytes = @ + len - SetLen, !.started = now] ELSE c

(* The counting after the settings are parsed from a segment of len bytes: *)
(* the settings bytes and the test clock restart, then the rest of the     *)
(* segment, both only when the session is not a reverse server.            *)
HeaderCount(c, len) ==
    IF ~c.server \/ ~c.reverse
    THEN [c EXCEPT !.bytes = @ + SetLen + (len - SetLen), !.started = now] ELSE c

(* lwiperf_tcp_recv waits for the settings: a session that is not primary  *)
(* and has not seen them yet.                                               *)
AwaitsHeader(a) == ~IsPrimary(World, a) /\ ~sess[a].have

RecvOk(a, len) ==
    /\ Live(a) /\ sess[a].recvCb /\ sess[a].connected
    /\ rx[a] + len <= MaxRx
    /\ rx' = [rx EXCEPT ![a] = @ + len]

(* lwiperf_tcp_recv of a data segment on a session not waiting for the      *)
(* settings: reset the idle count and count the bytes.                      *)
RecvData(a, len) ==
    /\ RecvOk(a, len)
    /\ ~AwaitsHeader(a)
    /\ sess' = [sess EXCEPT ![a] = Count([@ EXCEPT !.poll = 0], len)]
    /\ UNCHANGED <<list, used, master, dealloc, created, now, pressure,
                   handles, from, faults>>

(* lwiperf_tcp_recv of a first segment shorter than the settings.          *)
RecvShortHeader(a, len) ==
    /\ RecvOk(a, len)
    /\ AwaitsHeader(a)
    /\ len < SetLen
    /\ SetWorld(TcpClose(World, a, "ABORTED_LOCAL_DATAERROR"))
    /\ UNCHANGED <<created, now, pressure, handles, from, faults>>

(* lwiperf_tcp_recv of the settings S in a first segment of len bytes,     *)
(* when they request no answer test or a tradeoff one: the settings and   *)
(* the rest of the segment are counted and the test clock restarts.        *)
RecvHeader(a, len, S) ==
    /\ RecvOk(a, len)
    /\ AwaitsHeader(a)
    /\ len >= SetLen
    /\ S.mode \in {"none", "tradeoff"}
    /\ sess' = [sess EXCEPT ![a] = HeaderCount([@ EXCEPT !.poll = 0, !.have = TRUE, !.set = S],
                                               len)]
    /\ UNCHANGED <<list, used, master, dealloc, created, now, pressure,
                   handles, from, faults>>

(* lwiperf_tcp_recv of settings requesting a reverse test:                 *)
(* lwiperf_tx_start_reverse turns the session into a transmitter and calls *)
(* send_more, which closes and frees it when the target is already         *)
(* reached; lwiperf_tcp_recv then goes on reading conn->base.              *)
RecvReverseHeader(a, len, S, press) ==
    LET w1 == [World EXCEPT !.sess[a] = [@ EXCEPT !.poll = 0, !.have = TRUE, !.set = S,
                                                  !.reverse = TRUE, !.sentCb = TRUE,
                                                  !.started = now]]
        r  == SendMore(w1, a, press, now)
    IN
    /\ RecvOk(a, len)
    /\ AwaitsHeader(a)
    /\ len >= SetLen
    /\ S.mode = "reverse"
    /\ press => pressure < MaxPressure
    /\ pressure' = IF press THEN pressure + 1 ELSE pressure
    /\ SetWorld(r.w)
    /\ faults' = faults \cup LoopFaults(r)
                        \cup (IF a \notin r.w.used THEN {"uaf"} ELSE {})
    /\ UNCHANGED <<created, now, handles, from>>

(* lwiperf_tcp_recv of settings requesting a dual test: a client back to   *)
(* the peer starts on block b; if that fails the session is closed with    *)
(* ABORTED_LOCAL_TXERROR, else the segment is counted.                      *)
RecvDualHeader(a, len, S, b, ok) ==
    LET w1 == [World EXCEPT !.sess[a] = [@ EXCEPT !.poll = 0, !.have = TRUE, !.set = S]]
        w2 == PassiveStart(w1, a, b, ok)
    IN
    /\ RecvOk(a, len)
    /\ AwaitsHeader(a)
    /\ len >= SetLen
    /\ S.mode = "dual"
    /\ ok => CanAlloc(b)
    /\ SetWorld(IF ok
                THEN [w2 EXCEPT !.sess[a] = HeaderCount(@, len)]
                ELSE TcpClose(w1, a, "ABORTED_LOCAL_TXERROR"))
    /\ created' = Bump(IF ok THEN {b} ELSE {})
    /\ from' = Fresh(from, IF ok THEN {b} ELSE {}, "none")
    /\ UNCHANGED <<now, pressure, handles, faults>>

(* lwiperf_tcp_recv with p == NULL: the peer closed.  A tradeoff request   *)
(* starts the client back to the peer on block b (its failure is ignored), *)
(* then the session closes as done.                                        *)
RecvFin(a, b, ok) ==
    LET trade == sess[a].set.mode = "tradeoff"
        w1 == IF trade THEN PassiveStart(World, a, b, ok) ELSE World
    IN
    /\ Live(a) /\ sess[a].recvCb /\ sess[a].connected
    /\ ok => trade /\ CanAlloc(b)
    /\ SetWorld(TcpClose(w1, a, IF sess[a].reverse THEN "DONE_CLIENT_RX" ELSE "DONE_SERVER_RX"))
    /\ created' = Bump(IF ok THEN {b} ELSE {})
    /\ FreshGhosts(IF ok THEN {b} ELSE {})
    /\ UNCHANGED <<now, pressure, handles, faults>>

(* lwiperf_tcp_client_sent: the peer acknowledged k bytes.  A time-limited *)
(* test is cut at MaxTx bytes: from then on the peer acknowledges nothing.  *)
Sent(a, k, press) ==
    /\ Live(a) /\ sess[a].sentCb /\ sess[a].connected
    /\ sess[a].bytes < MaxTx
    /\ k \in 1..sess[a].inflight
    /\ Transmit([World EXCEPT !.sess[a].inflight = @ - k, !.sess[a].poll = 0], a, press)
    /\ UNCHANGED <<created, now, handles, from, rx>>

(* An idle check that closes one poll too late.                            *)
IdleTimeoutLate(n) == n > MaxIdle

(* The idle check of lwiperf_tcp_poll on the incremented poll_count.        *)
IdleTimeout(n) == n >= MaxIdle

(* lwiperf_tcp_poll: count an idle period and close at LWIPERF_MAX_IDLE_SEC; *)
(* a client that is not a reverse client tries to send more.               *)
Poll(a, press) ==
    LET c == sess[a]
        w1 == [World EXCEPT !.sess[a].poll = @ + 1]
    IN
    /\ Live(a)
    /\ IF IdleTimeout(c.poll + 1)
       THEN /\ SetWorld(TcpClose(w1, a, "ABORTED_LOCAL"))
            /\ ~press /\ UNCHANGED <<pressure, faults>>
       ELSE IF ~c.server /\ ~c.reverse
            THEN Transmit(w1, a, press)
            ELSE /\ SetWorld(w1)
                 /\ ~press /\ UNCHANGED <<pressure, faults>>
    /\ UNCHANGED <<created, now, handles, from, rx>>

(* lwiperf_tcp_err: the pcb is already freed by lwIP; forget it and close. *)
Err(a) ==
    /\ Live(a)
    /\ SetWorld(TcpClose([World EXCEPT !.sess[a].pcb = "none"], a, "ABORTED_REMOTE"))
    /\ UNCHANGED <<created, now, pressure, handles, from, rx, faults>>

(* The sys_now() clock advances.                                            *)
Tick ==
    /\ now < MaxTime
    /\ now' = now + 1
    /\ UNCHANGED <<list, used, master, dealloc, created, sess, pressure,
                   handles, from, rx, faults>>

(* lwiperf_abort with a handle the application was given.                  *)
UserAbort(h) ==
    /\ h \in handles
    /\ SetWorld(TcpAbort(World, h))
    /\ UNCHANGED <<created, now, pressure, handles, from, rx, faults>>

Next ==
    \/ \E s \in Addr, leak \in BOOLEAN : StartTcpServer(s, leak)
    \/ \E a, b \in Addr, ty \in Apps \ {"server"}, amt \in Amounts, buf \in BufLens,
          tos, ok \in BOOLEAN, o2 \in {"ok", "leak", "fail"} :
           StartTcpClient(a, b, ty, amt, buf, tos, ok, o2)
    \/ \E s, b \in Addr : Accept(s, b)
    \/ \E a \in Addr, press \in BOOLEAN :
           Connected(a, press) \/ Poll(a, press)
           \/ \E k \in 1..SndBuf : Sent(a, k, press)
    \/ \E a \in Addr, len \in SegLens :
           \/ RecvData(a, len)
           \/ RecvShortHeader(a, len)
           \/ \E S \in PeerSettings : RecvHeader(a, len, S)
           \/ \E S \in PeerSettings, press \in BOOLEAN : RecvReverseHeader(a, len, S, press)
           \/ \E S \in PeerSettings, b \in Addr, ok \in BOOLEAN : RecvDualHeader(a, len, S, b, ok)
    \/ \E a, b \in Addr, ok \in BOOLEAN : RecvFin(a, b, ok)
    \/ \E a \in Addr : Err(a)
    \/ Tick
    \/ \E h \in Addr : UserAbort(h)

Spec == Init /\ [][Next]_vars

-----------------------------------------------------------------------------
Session == [server : BOOLEAN, reverse : BOOLEAN, pcb : {"none", "conn", "listen"},
            connected : BOOLEAN, recvCb : BOOLEAN, sentCb : BOOLEAN,
            specific : BOOLEAN, tradeoff : BOOLEAN, report : BOOLEAN,
            have : BOOLEAN, set : Settings \cup {NoSettings}, mss : Nat,
            bytes : Nat, inflight : 0..SndBuf, poll : 0..MaxIdle-1, started : 0..MaxTime]

TypeOK ==
    /\ R!TypeOK
    /\ sess \in [Addr -> Session]
    /\ created \in 0..MaxCreates
    /\ now \in 0..MaxTime
    /\ handles \subseteq Addr
    /\ from \in [Addr -> {"none", "server", "client"}]
    /\ faults \subseteq {"spin", "overshoot", "uaf", "nullderef"}

(* A receiving connection's bytes_transferred is exactly the number of     *)
(* bytes its peer has sent on it, the settings header included, whatever   *)
(* the order of header, data, dual start and closes.  A server that        *)
(* transmits for a reverse request counts only what it sends.              *)
RxBytesExact ==
    \A a \in R!Registered :
        sess[a].recvCb /\ ~(sess[a].server /\ sess[a].reverse) => sess[a].bytes = rx[a]

(* The @todo of lwiperf_tcp_client_send_more: a byte-limited transmitter   *)
(* sends at most one MSS beyond its target, so when it closes as done its  *)
(* bytes_transferred is below amount + mss.  It fails when a peer's        *)
(* buffer_len is below sizeof(settings): txlen_max wraps at line 477.       *)
TxWithinOneMss == "overshoot" \notin faults

(* A connection accepted on a listener of a dual or tradeoff client is     *)
(* primary (it expects no settings from the peer, which sends none), and  *)
(* one accepted on a plain server listener is not (it waits for the        *)
(* settings), for as long as it lives: this rests on lwiperf_tcp_accept    *)
(* handing the client over as master and on the master fix-up when the     *)
(* client or the listener ends first.                                       *)
AcceptedRoleConsistent ==
    \A x \in R!Registered :
        from[x] # "none" => (IsPrimary(World, x) <=> from[x] = "client")

(* No callback reads or writes a session after lwiperf_tcp_close freed it. *)
NoUseAfterFree == "uaf" \notin faults

(* Every call of lwiperf_tcp_client_send_more returns: the send loop never *)
(* repeats an iteration that wrote nothing.                                *)
SendLoopTerminates == "spin" \notin faults

(* A start that fails leaves nothing behind: lwiperf_start_tcp_server and  *)
(* lwiperf_start_tcp_client return NULL without touching the session they  *)
(* did not create, and every block they allocated is either registered or  *)
(* freed again (spec: resource exhaustion fails fast, returns an absent     *)
(* handle and leaves no partial state).                                     *)
StartFailureIsClean ==
    /\ "nullderef" \notin faults
    /\ used = R!Registered

=============================================================================
