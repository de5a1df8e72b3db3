----------------------------- MODULE UdpRxStats -----------------------------
(***************************************************************************)
(* The receive statistics of an lwiperf UDP receiver (lwiperf_udp_recv,    *)
(* the datagramID >= 0 branch): the expected-next sequence number          *)
(* udp_seq, the loss and out-of-order counters, the received-packet count  *)
(* and the jitter estimate, as datagrams from one sender arrive over a     *)
(* network that loses, reorders and duplicates them.                       *)
(*                                                                         *)
(* Each datagram carries the sender's timestamp (tv_sec, tv_usec) from its *)
(* own wall clock; the receiver reads its ms uptime sys_now() through      *)
(* clock_gettime and takes the transit with diff_ts.  Both clocks run from *)
(* a common time clk (in microseconds) and unrelated starting points boot. *)
(* The u32_t and 32-bit long quantities are kept modulo 2^Width; the       *)
(* code's 1000, 1000000 and 1000000000 are the constants Milli, Micro and  *)
(* Nano, scaled down with the same divisibility.                           *)
(***************************************************************************)
EXTENDS Integers, Sequences, FiniteSets

CONSTANTS
    N,          \* datagrams the sender emits, ids 0 .. N-1
    MaxDups,    \* bound on datagrams the network duplicates
    Width,      \* bit width of u32_t and long in the model
    Milli,      \* 1000: ms per second
    Micro,      \* 1000000: us per second
    Nano,       \* 1000000000: ns per second
    MaxClock,   \* bound on the common time, in us
    Steps,      \* how far the time may advance in one step, in us
    RecvBoots,  \* receiver uptimes (us) at the start of the test
    SendEpochs  \* sender wall-clock readings (us) at the start of the test

ASSUME /\ N \in Nat /\ MaxDups \in Nat /\ Width \in 2..30 /\ MaxClock \in Nat /\ Steps \subseteq Nat \ {0}
       /\ Milli \in Nat \ {0} /\ Micro % Milli = 0 /\ Nano % Micro = 0
       /\ RecvBoots \subseteq Nat /\ SendEpochs \subseteq Nat

Word == 2^Width
U(x) == x % Word                      \* conversion to u32_t
Signed(x) == IF x >= Word \div 2 THEN x - Word ELSE x   \* u32_t to long
UsPerMs == Micro \div Milli

VARIABLES
    clk,        \* common time in us
    boot,       \* [r: receiver uptime, s: sender wall clock] at clk = 0
    sentAt,     \* sentAt[i+1]: the time datagram i was sent
    net,        \* ids in flight
    dups,       \* duplicates made so far
    rx,         \* receiver state: udp_seq, counters, jitter
    got,        \* ghost: the ids in the order they were received
    tr,         \* ghost: each arrival's transit as computed and as exact
    ref         \* ghost: the RFC 1889 jitter over the exact transit times

vars == <<clk, boot, sentAt, net, dups, rx, got, tr, ref>>

sent == Len(sentAt)

RxInit == [seq |-> 0, lost |-> 0, outorder |-> 0, total |-> 0,
           jitter |-> 0, lastTransit |-> 0]

-----------------------------------------------------------------------------
(* sys_now(): the receiver's ms uptime as u32_t, wrapping after 2^Width ms *)
SysNow == U((boot.r + clk) \div UsPerMs)

(* clock_gettime: seconds and nanoseconds of a ms reading.                 *)
ClockGettime(now) ==
    [sec |-> now \div Milli, nsec |-> (now % Milli) * (Nano \div Milli)]

(* The sender's timestamp of datagram id as it travels: u32_t seconds and  *)
(* microseconds of its wall clock.                                         *)
Stamp(id) ==
    LET us == boot.s + sentAt[id + 1]
    IN  [sec |-> U(us \div Micro), usec |-> us % Micro]

(* udp_lastpkt as lwiperf_udp_recv fills it from the datagram header.     *)
LastPkt(st) == [sec |-> st.sec, nsec |-> st.usec * (Nano \div Micro)]

(* diff_ts: stop - start, borrowing a second when the nanoseconds go      *)
(* negative.                                                               *)
DiffTsNoCarry(start, stop) ==
    IF stop.nsec - start.nsec < 0
    THEN [sec |-> stop.sec - start.sec, nsec |-> stop.nsec - start.nsec + Nano]
    ELSE [sec |-> stop.sec - start.sec, nsec |-> stop.nsec - start.nsec]

DiffTs(start, stop) ==
    IF stop.nsec - start.nsec < 0
    THEN [sec |-> stop.sec - start.sec - 1, nsec |-> stop.nsec - start.nsec + Nano]
    ELSE [sec |-> stop.sec - start.sec, nsec |-> stop.nsec - start.nsec]

(* transit = (uint32_t)(dt.tv_sec * 1000000 + dt.tv_nsec / 1000).  The     *)
(* long arithmetic may overflow; the target's compiler wraps it, which     *)
(* gives the same value modulo 2^Width.                                    *)
Transit(id) ==
    LET dt == DiffTs(LastPkt(Stamp(id)), ClockGettime(SysNow))
    IN  U(dt.sec * Micro + dt.nsec \div (Nano \div Micro))

(* The transit difference without the sign correction.                    *)
SignedDelta(t, last) == Signed(U(t - last))

(* |deltaTransit|: transit - udp_last_transit computed in u32_t, cast to  *)
(* long and negated when negative (in 32 bits, so -LONG_MIN stays          *)
(* LONG_MIN).                                                              *)
AbsDelta(t, last) ==
    LET d == Signed(U(t - last)) IN IF d < 0 THEN Signed(U(-d)) ELSE d

(* jitter += (deltaTransit - jitter) >> 4 in long, where >> on a negative  *)
(* long is the arithmetic shift of the target compiler: division rounding  *)
(* down.                                                                   *)
JitterStep(j, d) == Signed(U(j + (Signed(U(d - j)) \div 16)))

(* The jitter part of lwiperf_udp_recv: the first non-zero transit is      *)
(* kept as udp_last_transit and produces no update; every later datagram   *)
(* updates the estimate against that same first transit.                   *)
JitterUpdate(r, t) ==
    IF r.lastTransit # 0
    THEN [r EXCEPT !.jitter = JitterStep(@, AbsDelta(t, r.lastTransit))]
    ELSE [r EXCEPT !.lastTransit = t]

(* A sequence check that does not resynchronise on a gap.                  *)
SeqCheckNoResync(r, id) ==
    IF r.seq # id
    THEN [r EXCEPT !.lost = U(@ + id - r.seq), !.outorder = U(@ + 1),
                   !.total = U(@ + 1)]
    ELSE [r EXCEPT !.total = U(@ + 1), !.seq = U(@ + 1)]

(* A sequence check whose loss arithmetic is signed, not u32_t.            *)
SeqCheckSigned(r, id) ==
    IF r.seq # id
    THEN [r EXCEPT !.lost = @ + id - r.seq, !.seq = U(id + 1),
                   !.outorder = U(@ + 1), !.total = U(@ + 1)]
    ELSE [r EXCEPT !.total = U(@ + 1), !.seq = U(@ + 1)]

(* The sequence check of lwiperf_udp_recv: a datagram that is not the      *)
(* expected one adds (id - udp_seq) to the loss count, counts one          *)
(* out-of-order event and resynchronises udp_seq to id + 1; every          *)
(* datagram counts as received.                                            *)
SeqCheck(r, id) ==
    IF r.seq # id
    THEN [r EXCEPT !.lost = U(@ + id - r.seq), !.seq = U(id + 1),
                   !.outorder = U(@ + 1), !.total = U(@ + 1)]
    ELSE [r EXCEPT !.total = U(@ + 1), !.seq = U(@ + 1)]

RecvStats(r, id) == JitterUpdate(SeqCheck(r, id), Transit(id))

(* The exact transit of datagram id: the receiver's clock at arrival, at   *)
(* its ms resolution, minus the sender's stamp, as unbounded integers.     *)
ExactTransit(id) ==
    ((boot.r + clk) \div UsPerMs) * UsPerMs - (boot.s + sentAt[id + 1])

Abs(x) == IF x < 0 THEN -x ELSE x
RefStep(j, d) == j + ((d - j) \div 16)

(* The reference estimate over exact transits: RFC 1889,                   *)
(* J += (|D(i-1,i)| - J) / 16, against the previous datagram.              *)
RefUpdate(f, id) ==
    LET x == ExactTransit(id)
    IN  [started |-> TRUE,
         prev    |-> x,
         rfc     |-> IF f.started THEN RefStep(f.rfc, Abs(x - f.prev)) ELSE f.rfc]

-----------------------------------------------------------------------------
Init ==
    /\ clk = 0
    /\ boot \in [r : RecvBoots, s : SendEpochs]
    /\ sentAt = <<>>
    /\ net = {}
    /\ dups = 0
    /\ rx = RxInit
    /\ got = <<>>
    /\ tr = {}
    /\ ref = [started |-> FALSE, prev |-> 0, rfc |-> 0]

(* Time passes for both clocks.                                            *)
Tick(d) ==
    /\ clk + d <= MaxClock
    /\ clk' = clk + d
    /\ UNCHANGED <<boot, sentAt, net, dups, rx, got, tr, ref>>

(* The sender stamps and emits the next datagram.                          *)
Send ==
    /\ sent < N
    /\ net' = net \cup {sent}
    /\ sentAt' = Append(sentAt, clk)
    /\ UNCHANGED <<clk, boot, dups, rx, got, tr, ref>>

(* A datagram in flight arrives and lwiperf_udp_recv reads the clock,      *)
(* updates the counters and the jitter; the network may keep a copy of it *)
(* to deliver again later (duplication).  Datagrams in flight arrive in   *)
(* any order.                                                              *)
Receive(id, keep) ==
    /\ id \in net
    /\ keep => dups < MaxDups
    /\ net' = IF keep THEN net ELSE net \ {id}
    /\ dups' = IF keep THEN dups + 1 ELSE dups
    /\ rx' = RecvStats(rx, id)
    /\ got' = Append(got, id)
    /\ tr' = tr \cup {[code |-> Transit(id), exact |-> ExactTransit(id)]}
    /\ ref' = RefUpdate(ref, id)
    /\ UNCHANGED <<clk, boot, sentAt>>

(* The network drops a datagram.                                           *)
Lose(id) ==
    /\ id \in net
    /\ net' = net \ {id}
    /\ UNCHANGED <<clk, boot, sentAt, dups, rx, got, tr, ref>>

Next ==
    \/ \E d \in Steps : Tick(d)
    \/ Send
    \/ \E id \in 0..N-1, keep \in BOOLEAN : Receive(id, keep)
    \/ \E id \in 0..N-1 : Lose(id)

Spec == Init /\ [][Next]_vars

-----------------------------------------------------------------------------
Received == {got[i] : i \in DOMAIN got}

(* The arrivals so far came in increasing id order, each at most once.     *)
InOrder == \A i \in 1..Len(got)-1 : got[i] < got[i+1]

TypeOK ==
    /\ clk \in 0..MaxClock
    /\ sentAt \in Seq(0..MaxClock) /\ sent <= N
    /\ net \subseteq 0..N-1
    /\ dups \in 0..MaxDups
    /\ rx \in [seq : 0..Word-1, lost : 0..Word-1, outorder : 0..Word-1,
               total : 0..Word-1, jitter : -(Word \div 2)..(Word \div 2 - 1),
               lastTransit : 0..Word-1]

(* When the network only loses datagrams (no reordering, no duplicates),   *)
(* the loss count is exactly the number of ids below the last one          *)
(* received that never arrived, and each run of missing ids is one         *)
(* out-of-order event.                                                     *)
LossExactWhenInOrder ==
    InOrder /\ got # <<>> =>
        LET last == got[Len(got)]
            gaps == {i \in 1..Len(got) :
                       got[i] # (IF i = 1 THEN 0 ELSE got[i-1] + 1)}
        IN  /\ rx.lost = Cardinality({i \in 0..last : i \notin Received})
            /\ rx.outorder = Cardinality(gaps)
            /\ rx.total = Len(got)

(* Every transit lwiperf_udp_recv computes is the exact difference of the *)
(* receiver's and the sender's clocks, modulo 2^32: the sys_now() wrap,    *)
(* the u32_t tv_sec on the wire, the ms-to-ns and us-to-ns conversions,   *)
(* the borrow of diff_ts and the overflowing long arithmetic all cancel.   *)
(* This is what the jitter filter is fed; it says nothing of the filter's *)
(* rule, which is not RFC 1889's (JitterIsRfc1889 below fails).            *)
TransitExactModWord == \A t \in tr : t.code = U(t.exact)

(* The loss count reported to the sender (error_cnt of the report) never  *)
(* exceeds the number of datagrams the sender emitted.                     *)
LossAtMostSent == rx.lost <= sent

(* The jitter estimate is the RFC 1889 estimate over the same arrivals,    *)
(* as the comment in lwiperf_udp_recv and spec section 4.3 state.  It     *)
(* fails: udp_last_transit is set once, so every datagram is compared with *)
(* the first one, not with the previous one.                               *)
JitterIsRfc1889 == rx.jitter = ref.rfc

=============================================================================
