----------------------------- MODULE UdpSession -----------------------------
(***************************************************************************)
(* The UDP side of lwiperf (lwiperf.c): servers started by                 *)
(* lwiperf_start_udp_server, the temporary servers a dual or tradeoff      *)
(* client starts, the per-peer sessions lwiperf_udp_recv creates on a      *)
(* server, the transmitting clients started by lwiperf_start_udp_client or *)
(* started back towards a peer (lwiperf_udp_tx_start,                      *)
(* lwiperf_udp_tx_reverse_start), the report timer of                     *)
(* lwiperf_udp_send_report, lwiperf_poll_udp_client and lwiperf_abort.     *)
(* The sessions live in the registry of SessionRegistry.                   *)
(*                                                                         *)
(* The receive statistics of a data datagram are the subject of            *)
(* UdpRxStats; here a data datagram on a known session changes nothing the *)
(* properties read and is not an action.  Bytes are counted in units of    *)
(* the datagram length BufLen.  The remote iperf and the network are the  *)
(* environment: any datagram may arrive on any open pcb, and lwIP may      *)
(* refuse memory or a pcb at every step where the code checks for it.      *)
(***************************************************************************)
EXTENDS Integers, Sequences, SequencesExt, FiniteSets

CONSTANTS
    Addr, NULL, MaxCreates,   \* as in SessionRegistry
    Peers,       \* remote endpoints (address and port) a datagram may come from
    Amounts,     \* settings.amount values: [time |-> BOOLEAN, n |-> Nat]
    Rates,       \* rate values (s32_t) a client is given or a peer announces
    Default,     \* the default rate 1024 * 1024
    BufLen,      \* datagram length (1470)
    Micro,       \* microseconds per second (1000000)
    ClockRes,    \* CLOCK_RESOLUTION_US
    Wide,        \* 2^64: the modulus of the u64_t division in set_client_rate
    Grace,       \* bytes sent past a byte target before giving up on a report (4096)
    TimeGrace,   \* time past a time target before giving up on a report
    EndFrames,   \* frames_per_delay while ending (10)
    MaxTime,     \* bound on the sys_now() clock
    MaxTx,       \* bound on the bytes one session transmits
    Apps,        \* start calls: "server" and the client types
    PeerModes    \* test modes a remote client may request

ASSUME Default \in Rates /\ BufLen > 0 /\ ClockRes > 0 /\ EndFrames > 0
ASSUME Wide > BufLen * 8 * Micro

VARIABLES
    list, used, master, dealloc,  \* the registry
    created,   \* sessions allocated so far
    sess,      \* lwiperf_state_udp_t of every block
    timer,     \* sys_timeout of lwiperf_udp_send_report pending on a block:
               \* "live" for the session it was set for, "stale" once freed
    now,       \* sys_now()
    handles,   \* ghost: blocks returned to the application as handles
    faults,    \* ghost: undefined behaviour the code has run into
    aborted    \* ghost: the handle of the lwiperf_abort call of this step

vars == <<list, used, master, dealloc, created, sess, timer, now, handles, faults, aborted>>

R == INSTANCE SessionRegistry
         WITH aborted <- NULL, inc <- [a \in Addr |-> 0],
              parent <- [a \in Addr |-> <<NULL, 0>>]

Modes == {"none", "reverse", "dual", "tradeoff"}

(* The settings: the test mode the flags encode, whether the extended      *)
(* part (LWIPERF_FLAGS_EXTEND, with rate) is present, amount and rate, and *)
(* whether the remote_port they name is the port the peer sends from.     *)
Settings == [mode : Modes, ext : BOOLEAN, amount : Amounts, rate : Rates,
             toSource : BOOLEAN]
(* remote_port is read only when a client is started back (dual, tradeoff). *)
PeerSettings == {S \in Settings : /\ S.mode \in PeerModes /\ (S.mode = "reverse" => S.ext)
                                  /\ (S.toSource => S.mode \in {"dual", "tradeoff"})}
NoSettings == [mode |-> "none", ext |-> FALSE, amount |-> [time |-> FALSE, n |-> 0],
               rate |-> Default, toSource |-> FALSE]

(* The endpoint a client started back towards peer p with settings S     *)
(* sends to: p's address and the remote_port of S (line 1350), which is    *)
(* p's own endpoint when it names the port p sends from.                   *)
SettingsPort(p) == <<p, "settings port">>
Back(p, S) == IF S.toSource THEN p ELSE SettingsPort(p)

(* A session block after memset(0).  paced: delay_target # 0.              *)
Blank == [server |-> FALSE, temp |-> FALSE, reverse |-> FALSE, pcb |-> FALSE,
          have |-> FALSE, set |-> NoSettings, peer |-> NULL, bytes |-> 0,
          reports |-> 0, reported |-> FALSE, paced |-> FALSE, frames |-> 0,
          started |-> 0]

World == [list |-> list, used |-> used, master |-> master, dealloc |-> dealloc,
          sess |-> sess, timer |-> timer]

SetWorld(w) ==
    /\ list' = w.list /\ used' = w.used /\ master' = w.master
    /\ dealloc' = w.dealloc /\ sess' = w.sess /\ timer' = w.timer

-----------------------------------------------------------------------------
(* lwiperf_udp_close: report, unregister, release the report buffer and    *)
(* the pcb, free the block.  A timer still set on the block stays pending.  *)
UdpClose(w, a) ==
    [R!SessionClose(w, a) EXCEPT !.sess[a] = Blank,
                                 !.timer[a] = IF @ = "live" THEN "stale" ELSE @]

Alloc(w, a, m, rec) ==
    [w EXCEPT !.used = @ \cup {a}, !.master[a] = m, !.dealloc[a] = NULL,
              !.sess[a] = rec]

(* The u64_t division of set_client_rate: a negative s32_t rate converts   *)
(* to rate + 2^64.  Division by zero yields 0 on the target's runtime.      *)
AsU64(r) == IF r < 0 THEN r + Wide ELSE r
Quot(n, d) == IF d = 0 THEN 0 ELSE n \div d

(* lwiperf_udp_set_client_rate: the pacing of a transmitter and whether    *)
(* it divides by zero.                                                      *)
SetClientRate(c, rate) ==
    LET ideal == Quot(BufLen * 8 * Micro, AsU64(rate))
        delay == (ideal \div ClockRes) * ClockRes
    IN  [c     |-> [c EXCEPT !.paced = TRUE,
                             !.frames = IF delay = 0 THEN Quot(ClockRes, ideal) ELSE 1],
         div0  |-> rate = 0 \/ (delay = 0 /\ ideal = 0)]

(* The ending level of the send loop: 1 once the target is reached, 2 once *)
(* it is passed by the grace amount.                                        *)
Ending(c) ==
    LET n == c.set.amount.n
        v == IF c.set.amount.time THEN now - c.started ELSE c.bytes
        g == IF c.set.amount.time THEN TimeGrace + 1 ELSE Grace
    IN  IF v < n THEN 0 ELSE IF v < n + g THEN 1 ELSE 2

(* The frames the send loop may send in one call: frames_per_delay, which  *)
(* becomes EndFrames after the first frame sent while ending.              *)
Limit(c) == IF c.frames = 0 THEN 0 ELSE IF Ending(c) > 0 THEN EndFrames ELSE c.frames

(* A send loop that runs once more than it counts (<= for <).            *)
SendMoreOneMore(w, a, due, k) ==
    LET c == w.sess[a]
        e == Ending(c)
    IN  IF e > 0 /\ (e > 1 \/ c.reports > 0) THEN UdpClose(w, a)
        ELSE IF ~due /\ c.paced THEN w
        ELSE [w EXCEPT !.sess[a].bytes = IF ~c.server \/ ~c.reverse THEN @ + (k + 1) * BufLen ELSE @,
                       !.sess[a].paced = IF e > 0 /\ k > 0 THEN TRUE ELSE @,
                       !.sess[a].frames = IF e > 0 /\ k > 0 THEN EndFrames ELSE @]

(* lwiperf_udp_client_send_more on session a: close as done when ending    *)
(* and a report arrived or the grace is used up; else, when the pacing     *)
(* delay has passed (due), send k frames; a failed pbuf_alloc or udp_send   *)
(* ends the loop early, so k is anything up to the limit.                   *)
SendMore(w, a, due, k) ==
    LET c == w.sess[a]
        e == Ending(c)
    IN  IF e > 0 /\ (e > 1 \/ c.reports > 0) THEN UdpClose(w, a)
        ELSE IF ~due /\ c.paced THEN w
        ELSE [w EXCEPT !.sess[a].bytes = IF ~c.server \/ ~c.reverse THEN @ + k * BufLen ELSE @,
                       !.sess[a].paced = IF e > 0 /\ k > 0 THEN TRUE ELSE @,
                       !.sess[a].frames = IF e > 0 /\ k > 0 THEN EndFrames ELSE @]

(* Whether k frames are a possible outcome of that call.                    *)
CanSend(w, a, k) == k \in 0..Limit(w.sess[a]) /\ w.sess[a].bytes + k * BufLen <= MaxTx

(* Whether send_more closes a.                                              *)
SendCloses(w, a) == LET e == Ending(w.sess[a]) IN e > 0 /\ (e > 1 \/ w.sess[a].reports > 0)

(* lwiperf_udp_tx_new + the set-up of lwiperf_udp_tx_start from session a *)
(* on block b: a copy of a (MEMCPY, so with a's master) turned into a      *)
(* client back to the peer, flags cleared, paced from the settings' rate,  *)
(* and registered.                                                          *)
(* The rate lwiperf_udp_tx_start paces the new client with: the extended  *)
(* settings' rate, else the win_band field (here the rate field of basic   *)
(* settings) when non-zero, else 1024 * 1024.                              *)
TxRate(S) == IF S.ext \/ S.rate # 0 THEN S.rate ELSE Default

TxNew(w, a, b) ==
    LET c == w.sess[a]
        r == SetClientRate([c EXCEPT !.server = FALSE, !.pcb = TRUE, !.started = now,
                                     !.bytes = 0, !.reports = 0, !.peer = Back(c.peer, c.set),
                                     !.set.mode = "none", !.set.ext = FALSE],
                           TxRate(c.set))
    IN  [w |-> R!ListAdd(Alloc(w, b, w.master[a], r.c), b), div0 |-> r.div0]

(* lwiperf_udp_tx_start: ok is FALSE when allocation, udp_new, udp_bind or *)
(* udp_connect fails, and nothing then stays allocated; else the first     *)
(* send_more (due, k) of the new client.                                    *)
TxStart(w, a, b, ok, due, k) ==
    LET n == TxNew(w, a, b)
    IN  IF ok THEN [w |-> SendMore(n.w, b, due, k), div0 |-> n.div0]
              ELSE [w |-> w, div0 |-> FALSE]

(* The outcomes of such a start that are possible: a free block and a      *)
(* frame count the first send_more may send.                                *)
TxStartOk(w, a, b, ok, due, k) ==
    IF ok THEN b \notin w.used /\ created < MaxCreates /\ CanSend(TxNew(w, a, b).w, b, k)
          ELSE due /\ k = 0

(* lwiperf_udp_search_client: the first session in the list (the newest) *)
(* whose master is s and whose remote endpoint is p.                       *)
SearchClient(w, s, p) ==
    LET k == SelectInSeq(w.list, LAMBDA x : w.master[x] = s /\ w.sess[x].peer = p)
    IN  IF k = 0 THEN {} ELSE {w.list[k]}

(* The session lwiperf_udp_recv hands a datagram on x's pcb to: the        *)
(* session of the sender on a server, x itself otherwise.                  *)
Lookup(w, x, p) ==
    IF w.sess[x].server /\ ~(w.sess[x].set.ext /\ w.sess[x].set.mode = "reverse")
    THEN SearchClient(w, x, p) ELSE {x}

(* The faults of a set-up that may divide by zero.                          *)
Div0(r) == IF r.div0 THEN {"div0"} ELSE {}

(* A send_report that re-arms its timer on the second sending as well.     *)
SendReportTwice(w, a, arp, b, ok, due, k) ==
    LET c  == w.sess[a]
        s  == w.master[a]
        n  == c.reports + 1
        w0 == [w EXCEPT !.sess[a].reported = FALSE, !.sess[a].reports = n]
        t  == IF c.set.mode = "tradeoff" THEN TxStart(w0, a, b, ok, due, k)
                                         ELSE [w |-> w0, div0 |-> FALSE]
        w2 == UdpClose(t.w, a)
    IN  CASE a \notin Range(w.list)  -> [w |-> w, f |-> {}]
          [] ~c.reported \/ s = NULL -> [w |-> w, f |-> {"nullderef"}]
          [] n < 3 /\ arp            -> [w |-> [w EXCEPT !.sess[a].reports = n,
                                                         !.timer[a] = "live"],
                                         f |-> {}]
          [] OTHER                   -> [w |-> IF w.sess[s].temp THEN UdpClose(w2, s) ELSE w2,
                                         f |-> Div0(t)]

(* lwiperf_udp_send_report on session a, which holds its report buffer:    *)
(* send it; the first time, when no ARP queue holds the buffer (arp:      *)
(* q->ref <= 1), set the timer to send it again; else release it, start a *)
(* tradeoff test back to the peer (block b, outcome ok, first send_more   *)
(* due/k), close a and, when a's server is a temporary one, close that    *)
(* server too.                                                              *)
(* A session no longer registered is left alone; a registered one without *)
(* a buffer or without a master is a NULL dereference.                      *)
SendReport(w, a, arp, b, ok, due, k) ==
    LET c  == w.sess[a]
        s  == w.master[a]
        n  == c.reports + 1
        w0 == [w EXCEPT !.sess[a].reported = FALSE, !.sess[a].reports = n]
        t  == IF c.set.mode = "tradeoff" THEN TxStart(w0, a, b, ok, due, k)
                                         ELSE [w |-> w0, div0 |-> FALSE]
        w2 == UdpClose(t.w, a)
    IN  CASE a \notin Range(w.list)  -> [w |-> w, f |-> {}]
          [] ~c.reported \/ s = NULL -> [w |-> w, f |-> {"nullderef"}]
          [] n < 2 /\ arp            -> [w |-> [w EXCEPT !.sess[a].reports = n,
                                                         !.timer[a] = "live"],
                                         f |-> {}]
          [] OTHER                   -> [w |-> IF w.sess[s].temp THEN UdpClose(w2, s) ELSE w2,
                                         f |-> Div0(t)]

-----------------------------------------------------------------------------
Init ==
    /\ list = <<>>
    /\ used = {}
    /\ master = [a \in Addr |-> NULL]
    /\ dealloc = [a \in Addr |-> NULL]
    /\ created = 0
    /\ sess = [a \in Addr |-> Blank]
    /\ timer = [a \in Addr |-> "none"]
    /\ now = 0
    /\ handles = {}
    /\ faults = {}
    /\ aborted = NULL

CanAlloc(a) == a \notin used /\ created < MaxCreates

Listener == [Blank EXCEPT !.server = TRUE, !.pcb = TRUE]

(* lwiperf_start_udp_server: a server on block s.  When udp_new, udp_bind  *)
(* or the multicast join fails the block is freed and NULL returned, which *)
(* changes nothing.                                                         *)
StartUdpServer(s) ==
    /\ "server" \in Apps
    /\ CanAlloc(s)
    /\ SetWorld(R!ListAdd(Alloc(World, s, NULL, Listener), s))
    /\ handles' = handles \cup {s}
    /\ created' = created + 1
    /\ aborted' = NULL
    /\ UNCHANGED <<now, faults>>

(* lwiperf_start_udp_client of type ty on block c.  A dual or tradeoff     *)
(* client first starts a temporary server on block s (tmp: it started).    *)
(* ok is FALSE when allocation, udp_new, udp_bind or udp_connect fails for *)
(* the client: NULL is returned and the temporary server stays registered. *)
(* A reverse client sends its settings once, unpaced; the others are paced *)
(* from the rate.  Then the first send_more (due, k).                       *)
StartUdpClient(c, s, ty, amt, rate, tmp, ok, due, k) ==
    LET both == ty \in {"dual", "tradeoff"}
        rev  == ty = "reverse"
        w1   == IF tmp THEN R!ListAdd(Alloc(World, s, NULL, [Listener EXCEPT !.temp = TRUE]), s)
                      ELSE World
        S    == [mode |-> IF ty = "client" THEN "none" ELSE ty,
                 ext |-> rate # Default \/ rev, amount |-> amt, rate |-> rate,
                 toSource |-> FALSE]
        c0   == [Blank EXCEPT !.pcb = TRUE, !.have = TRUE, !.set = S, !.started = now,
                              !.peer = "remote"]
        r    == IF rev THEN [c |-> [c0 EXCEPT !.frames = 1], div0 |-> FALSE]
                       ELSE SetClientRate(c0, rate)
        c1   == IF rev THEN [r.c EXCEPT !.server = TRUE, !.reverse = TRUE] ELSE r.c
        w2   == R!ListAdd(Alloc(w1, c, NULL, c1), c)
        w3   == IF tmp THEN [w2 EXCEPT !.master[s] = c] ELSE w2
    IN
    /\ ty \in Apps \ {"server"}
    /\ CanAlloc(c)
    /\ tmp => both /\ CanAlloc(s) /\ s # c /\ created + 1 < MaxCreates
    /\ IF ok THEN /\ CanSend(w3, c, k)
                  /\ SetWorld(SendMore(w3, c, due, k))
                  /\ handles' = handles \cup {c}
                  /\ faults' = IF r.div0 THEN faults \cup {"div0"} ELSE faults
             ELSE /\ due /\ k = 0
                  /\ SetWorld(w1)
                  /\ UNCHANGED <<handles, faults>>
    /\ created' = created + (IF ok THEN 1 ELSE 0) + (IF tmp THEN 1 ELSE 0)
    /\ aborted' = NULL
    /\ UNCHANGED now

(* A datagram lwiperf_udp_recv takes as the first one of a new peer p on   *)
(* server x: lwiperf_udp_new_client on block b (its failure drops the      *)
(* datagram and is not an action).                                          *)
FirstOk(x, p, b) ==
    /\ x \in R!Registered /\ sess[x].pcb
    /\ Lookup(World, x, p) = {} /\ sess[x].server
    /\ CanAlloc(b)

(* The test a new session of server x runs for settings S: a temporary    *)
(* server strips the dual and tradeoff requests.                            *)
EffMode(x, S) == IF sess[x].temp /\ S.mode \in {"dual", "tradeoff"} THEN "none" ELSE S.mode

(* The new session of server x for peer p with settings S, registered.     *)
NewClient(x, p, b, S) ==
    LET S1 == [S EXCEPT !.mode = EffMode(x, S)]
    IN  R!ListAdd(Alloc(World, b, x, [Blank EXCEPT !.server = TRUE, !.have = TRUE,
                                                   !.set = S1, !.peer = p,
                                                   !.started = now]), b)

(* lwiperf_udp_recv of the first datagram of peer p on server x, with      *)
(* settings S in a datagram of length len ("short": below the settings,   *)
(* "base": without the extended part, "full"), when no reverse or dual test *)
(* is requested: a too short datagram closes the new session with a data   *)
(* error, else it stays to receive the test.                               *)
RecvSettings(x, p, b, S, len) ==
    LET short == len = "short" \/ (S.ext /\ len = "base")
        w     == NewClient(x, p, b, S)
    IN
    /\ FirstOk(x, p, b)
    /\ EffMode(x, S) \in {"none", "tradeoff"} \/ short
    /\ SetWorld(IF short THEN UdpClose(w, b) ELSE w)
    /\ created' = created + 1
    /\ aborted' = NULL
    /\ UNCHANGED <<now, handles, faults>>

(* The same datagram requesting a reverse test: lwiperf_udp_tx_reverse_start *)
(* turns the new session into a transmitter on its own pcb (outcome o).     *)
(* "nopcb": udp_new fails, ERR_MEM, and lwiperf_udp_recv closes the        *)
(* session; "bind", "connect": the start closes the session itself and     *)
(* returns the error, and lwiperf_udp_recv closes it a second time.        *)
RecvReverseSettings(x, p, b, S, o, due, k) ==
    LET w  == NewClient(x, p, b, S)
        c  == w.sess[b]
        r  == SetClientRate([c EXCEPT !.reverse = TRUE, !.server = FALSE, !.pcb = TRUE,
                                      !.started = now, !.bytes = 0,
                                      !.set.mode = "none", !.set.ext = FALSE],
                            S.rate)
        w1 == [w EXCEPT !.sess[b] = r.c]
    IN
    /\ FirstOk(x, p, b)
    /\ S.mode = "reverse"
    /\ o = "ok" => CanSend(w1, b, k)
    /\ o # "ok" => due /\ k = 0
    /\ SetWorld(IF o = "ok" THEN SendMore(w1, b, due, k) ELSE UdpClose(w, b))
    /\ faults' = faults \cup (IF o = "nopcb" THEN {} ELSE Div0(r))
                        \cup (IF o \in {"bind", "connect"} THEN {"doublefree"} ELSE {})
    /\ created' = created + 1
    /\ aborted' = NULL
    /\ UNCHANGED <<now, handles>>

(* The same datagram requesting a dual test: lwiperf_udp_tx_start starts a *)
(* client back to the peer on block b2; if that fails the session closes   *)
(* with a transmit error.                                                   *)
RecvDualSettings(x, p, b, S, b2, ok, due, k) ==
    LET w == NewClient(x, p, b, S)
        t == TxStart(w, b, b2, ok, due, k)
    IN
    /\ FirstOk(x, p, b)
    /\ EffMode(x, S) = "dual"
    /\ b2 # b /\ TxStartOk(w, b, b2, ok, due, k)
    /\ ok => created + 2 <= MaxCreates
    /\ SetWorld(IF ok THEN t.w ELSE UdpClose(w, b))
    /\ faults' = faults \cup Div0(t)
    /\ created' = created + (IF ok THEN 2 ELSE 1)
    /\ aborted' = NULL
    /\ UNCHANGED <<now, handles>>

(* lwiperf_udp_recv of a datagram with a negative id (the end of a test)   *)
(* from p on x's pcb.  On a reverse client it ends the test; on a server   *)
(* whose session for p has its settings and has not reported yet, the     *)
(* report is built in a copy of the datagram and lwiperf_udp_send_report   *)
(* sends it (when pbuf_clone fails nothing happens, which is no action).    *)
RecvFin(x, p, arp, b, ok, due, k) ==
    LET L == Lookup(World, x, p)
        a == CHOOSE y \in L : TRUE
        c == sess[a]
        r == SendReport([World EXCEPT !.sess[a].reported = TRUE], a, arp, b, ok, due, k)
    IN
    /\ x \in R!Registered /\ sess[x].pcb
    /\ L # {}
    /\ c.server
    /\ IF c.set.ext /\ c.set.mode = "reverse"
       THEN /\ SetWorld(UdpClose(World, a))
            /\ arp /\ ~ok /\ due /\ k = 0
            /\ UNCHANGED <<created, faults>>
       ELSE /\ c.have /\ c.reports = 0
            /\ c.set.mode = "tradeoff" /\ arp = FALSE => TxStartOk(World, a, b, ok, due, k)
            /\ ~(c.set.mode = "tradeoff" /\ arp = FALSE) => ~ok /\ due /\ k = 0
            /\ SetWorld(r.w)
            /\ faults' = faults \cup r.f
            /\ created' = created + (IF ok THEN 1 ELSE 0)
    /\ aborted' = NULL
    /\ UNCHANGED <<now, handles>>

(* lwiperf_udp_recv of a datagram from p on x's pcb that reaches a         *)
(* transmitting client: the client's own pcb, or a server's when           *)
(* lwiperf_udp_search_client finds a client started back to p.  It is      *)
(* taken as the peer's report, and counted when its flags carry            *)
(* LWIPERF_FLAGS_ANSWER_TEST (other datagrams change nothing).  A reverse  *)
(* transmitter ignores every datagram.  The model stops counting at 2.     *)
RecvReport(x, p) ==
    LET L == Lookup(World, x, p)
        a == CHOOSE y \in L : TRUE
    IN
    /\ x \in R!Registered /\ sess[x].pcb
    /\ L # {}
    /\ ~sess[a].server /\ ~sess[a].reverse
    /\ sess[a].reports < 2
    /\ sess' = [sess EXCEPT ![a].reports = @ + 1]
    /\ aborted' = NULL
    /\ UNCHANGED <<list, used, master, dealloc, created, timer, now, handles, faults>>

(* The report timer set on block a fires: lwiperf_udp_send_report reads    *)
(* the session's master and report buffer before it checks that the      *)
(* session is still registered, which for a stale timer reads a freed or   *)
(* reused block.                                                           *)
TimerFires(a, arp, b, ok, due, k) ==
    LET r == SendReport([World EXCEPT !.timer[a] = "none"], a, arp, b, ok, due, k)
        c == sess[a]
    IN
    /\ timer[a] # "none"
    /\ a \in R!Registered /\ c.reported /\ c.set.mode = "tradeoff"
          => TxStartOk(World, a, b, ok, due, k)
    /\ ~(a \in R!Registered /\ c.reported /\ c.set.mode = "tradeoff") => ~ok /\ due /\ k = 0
    /\ SetWorld(r.w)
    /\ faults' = faults \cup r.f \cup (IF timer[a] = "stale" THEN {"uaf"} ELSE {})
    /\ created' = created + (IF ok THEN 1 ELSE 0)
    /\ aborted' = NULL
    /\ UNCHANGED <<now, handles>>

(* lwiperf_poll_udp_client calls send_more on every registered session     *)
(* that is not a server; nothing else runs during the walk, so each call   *)
(* is a step of its own.  When the call closes c the walk then reads       *)
(* c->next from the freed block.                                           *)
PollClient(c, due, k) ==
    /\ c \in R!Registered /\ ~sess[c].server
    /\ CanSend(World, c, k)
    /\ SetWorld(SendMore(World, c, due, k))
    /\ faults' = faults \cup (IF SendCloses(World, c) THEN {"nextafterfree"} ELSE {})
    /\ aborted' = NULL
    /\ UNCHANGED <<created, now, handles>>

(* lwiperf_abort with a handle the application was given: the registry    *)
(* walk, each session it closes going through lwiperf_udp_close.           *)
UserAbort(h) ==
    LET w2 == R!AbortWalk(World, h, list)
        gone == Range(list) \ Range(w2.list)
    IN
    /\ h \in handles
    /\ SetWorld([w2 EXCEPT !.sess = [x \in Addr |-> IF x \in gone THEN Blank ELSE @[x]],
                           !.timer = [x \in Addr |-> IF x \in gone /\ @[x] = "live"
                                                     THEN "stale" ELSE @[x]]])
    /\ aborted' = h
    /\ UNCHANGED <<created, now, handles, faults>>

(* The sys_now() clock advances.                                            *)
Tick ==
    /\ now < MaxTime
    /\ now' = now + 1
    /\ aborted' = NULL
    /\ UNCHANGED <<list, used, master, dealloc, created, sess, timer, handles, faults>>

Frames == 0..EndFrames

Next ==
    \/ \E s \in Addr : StartUdpServer(s)
    \/ \E c, s \in Addr, ty \in Apps \ {"server"}, amt \in Amounts, rate \in Rates,
          tmp, ok, due \in BOOLEAN, k \in Frames :
           StartUdpClient(c, s, ty, amt, rate, tmp, ok, due, k)
    \/ \E x, b \in Addr, p \in Peers, S \in PeerSettings :
           \/ \E len \in {"short", "base", "full"} : RecvSettings(x, p, b, S, len)
           \/ \E o \in {"ok", "nopcb", "bind", "connect"}, due \in BOOLEAN, k \in Frames :
                  RecvReverseSettings(x, p, b, S, o, due, k)
           \/ \E b2 \in Addr, ok, due \in BOOLEAN, k \in Frames :
                  RecvDualSettings(x, p, b, S, b2, ok, due, k)
    \/ \E x, b \in Addr, p \in Peers, arp, ok, due \in BOOLEAN, k \in Frames :
           RecvFin(x, p, arp, b, ok, due, k)
    \/ \E x \in Addr, p \in Peers : RecvReport(x, p)
    \/ \E a, b \in Addr, arp, ok, due \in BOOLEAN, k \in Frames : TimerFires(a, arp, b, ok, due, k)
    \/ \E c \in Addr, due \in BOOLEAN, k \in Frames : PollClient(c, due, k)
    \/ \E h \in Addr : UserAbort(h)
    \/ Tick

Spec == Init /\ [][Next]_vars

-----------------------------------------------------------------------------
Session == [server : BOOLEAN, temp : BOOLEAN, reverse : BOOLEAN, pcb : BOOLEAN,
            have : BOOLEAN, set : Settings \cup {NoSettings},
            peer : Peers \cup {SettingsPort(p) : p \in Peers} \cup {NULL, "remote"},
            bytes : 0..MaxTx, reports : 0..2, reported : BOOLEAN, paced : BOOLEAN,
            frames : Nat, started : 0..MaxTime]

TypeOK ==
    /\ R!TypeOK
    /\ sess \in [Addr -> Session]
    /\ timer \in [Addr -> {"none", "live", "stale"}]
    /\ created \in 0..MaxCreates
    /\ now \in 0..MaxTime
    /\ handles \subseteq Addr
    /\ faults \subseteq {"doublefree", "div0", "uaf", "nullderef", "nextafterfree"}

(* A server session holds its report buffer exactly while the timer of    *)
(* lwiperf_udp_send_report is set for it, and then it has sent the report  *)
(* once: the buffer is neither leaked nor sent more than twice, whatever   *)
(* the order of end-of-test datagrams, timer, abort and closes, up to a   *)
(* NULL dereference, after which the target has faulted.                  *)
ReportHeldIffTimerPending ==
    "nullderef" \notin faults =>
    /\ \A a \in Addr : timer[a] = "live" => a \in R!Registered /\ sess[a].reports = 1
    /\ \A a \in R!Registered : sess[a].reported <=> timer[a] = "live"

(* A server has at most one session per remote endpoint, so that every     *)
(* datagram of a peer's test reaches the one session counting that test.   *)
(* It fails when a dual or tradeoff peer names its own source port as the *)
(* remote_port: the client started back to it is a second session for the *)
(* same endpoint, found first by lwiperf_udp_search_client.                *)
OneSessionPerPeer ==
    \A s \in Addr, p \in Peers :
        Cardinality({x \in R!Registered : master[x] = s /\ sess[x].peer = p}) <= 1

(* No block is freed twice (lwiperf_udp_close on a session already closed). *)
NoDoubleFree == "doublefree" \notin faults

(* lwiperf_udp_set_client_rate never divides by zero, whatever rate the    *)
(* application or a peer's settings give (spec: nothing in this engine is  *)
(* fatal to the host process).                                              *)
NoDivisionByZero == "div0" \notin faults

(* No step reads a session block after lwiperf_udp_close freed it.  The    *)
(* report timer's callback reads conn->reported and related_master_state  *)
(* before lwiperf_list_find checks the session is still registered (the   *)
(* code's own comment expects the timer to fire after lwiperf_abort), and *)
(* the poll walk takes c->next after send_more may have closed c (spec:   *)
(* look the session up before a delayed report; capture next first).     *)
NoReadAfterFree == faults \cap {"uaf", "nextafterfree"} = {}

(* The sessions lwiperf_abort(h) must cancel: h and, recursively, every    *)
(* session whose master reference, or its remembered address once          *)
(* cleared, leads to h (spec, Cancellation).                               *)
RECURSIVE Lineage(_, _)
Lineage(x, n) ==
    LET up == IF master[x] # NULL THEN master[x] ELSE dealloc[x]
    IN  {x} \cup (IF up = NULL \/ n = 0 THEN {} ELSE Lineage(up, n - 1))

(* After lwiperf_abort(h) no registered session descends from h: one call  *)
(* cancels the whole test, the sessions of its temporary server included.  *)
AbortCancelsTest ==
    [][aborted' # NULL =>
         \A x \in Range(list') : aborted' \notin Lineage(x, Cardinality(Addr))]_vars

=============================================================================
