------------------------------- MODULE Crossbar -------------------------------
(***************************************************************************)
(* The AXI4-Lite bus of the SoC, clock by clock: the processor behind its  *)
(* adapter (picorv32_axi_adapter.sv) and the image master on one side,     *)
(* memories (axi_lite_memory.sv) and the register file                     *)
(* (axi_lite_regfile.sv) on the other, the crossbar (axi_lite_xbar.sv)     *)
(* configured as BACKBONE.sv configures it in between.  Each master has a  *)
(* demultiplexer (names in d_) and a decode error slave (e_), each slave a *)
(* multiplexer (m_).  Only AW and AR are cut by spill registers            *)
(* (CUT_ALL_AX); W, B and R run straight through, switched by what the     *)
(* fifos say is next.                                                      *)
(*                                                                         *)
(* All clocks are taken as equal: nothing in the SoC crosses between them. *)
(***************************************************************************)
EXTENDS Naturals, Sequences, FiniteSets

CONSTANTS
    MaxTrans,   \* depth of the crossbar's fifos
    Memories,   \* the ports, other than REGF0, that something is behind
    CpuAddrs,   \* what the processor accesses
    CpuData,    \* ... and writes
    Job,        \* the addresses the image master scans, in order
    Blank       \* what no one has written

ASSUME MaxTransAssumption == MaxTrans \in Nat \ {0}
ASSUME JobAssumption == Job \in Seq(Nat) \ {<< >>}
ASSUME MemoriesAssumption == Memories \subseteq {"ROM0", "RAM1", "IMPI"}

CPU == 0
IMP == 1
Masters == {CPU, IMP}
Ports == Memories \cup {"REGF0"}
Pixels == 1 .. Len(Job)

(***************************************************************************)
(* The address map.                                                        *)
(***************************************************************************)
Rule(p, s, e) == [port |-> p, start_addr |-> s, end_addr |-> e]

\* Sixteen bits of an address.
Hi(h) == h * 65536

AXI_AddrMap == { Rule("ROM0",  0, Hi(16) - 1),
                 Rule("REGF0", Hi(16), Hi(17) - 1),
                 Rule("APB",   Hi(17), Hi(18) - 1),
                 Rule("RAM1",  Hi(18), Hi(20) - 1),
                 Rule("IMPI",  Hi(16384), Hi(16688) - 1) }

APB_AddrMap == { Rule("apb_reg", Hi(19), Hi(19) + 255),
                 Rule("i2c",     Hi(19) + 256, Hi(19) + 4351) }

Matches(map, a) == {r \in map : r.start_addr <= a /\ a < r.end_addr}

Decode(map, a) == IF Matches(map, a) = {} THEN "err"
                  ELSE (CHOOSE r \in Matches(map, a) : TRUE).port

JobAddrs == {Job[i] : i \in DOMAIN Job}
Addrs == CpuAddrs \cup JobAddrs
Dest == [a \in Addrs |-> Decode(AXI_AddrMap, a)]
Cells == {a \in Addrs : Dest[a] # "err"}

ASSUME AddrsAssumption == \A a \in Addrs : Dest[a] \in Ports \cup {"err"}

VARIABLES
    req,            \* processor: << >> or << request >> (mem_valid)
    ack,            \* ... channels accepted (ack_awvalid, ack_wvalid, ack_arvalid)
    xfer_done,
    i_aw, i_ar,     \* image master: pixel whose address it offers, 0 if none
    i_wdata,        \* ... its next data word
    i_rcnt,         \* ... pixel that the next answer belongs to
    d_aw, d_lock, d_w, d_b, d_ar, d_r,          \* demultiplexers
    aw_arb, m_lock, m_aw, m_w, m_b, ar_arb, m_ar, m_r,  \* multiplexers
    e_w, e_b, e_r, e_busy,      \* decode error slaves
    aw_buf, w_buf, ram, r_valid, doutb,     \* memories
    reg_q, b_spill, r_spill,    \* register file
    may,            \* (history) what a read of the processor may return
    clk             \* edges of the clock, modulo 2

cpu == << req, ack, xfer_done, may >>
imp == << i_aw, i_ar, i_wdata, i_rcnt >>
demux == << d_aw, d_lock, d_w, d_b, d_ar, d_r >>
mux == << aw_arb, m_lock, m_aw, m_w, m_b, ar_arb, m_ar, m_r >>
slaves == << e_w, e_b, e_r, e_busy, aw_buf, w_buf, ram, r_valid, doutb,
             reg_q, b_spill, r_spill >>
vars == << req, ack, xfer_done, may, i_aw, i_ar, i_wdata, i_rcnt,
           d_aw, d_lock, d_w, d_b, d_ar, d_r,
           aw_arb, m_lock, m_aw, m_w, m_b, ar_arb, m_ar, m_r,
           e_w, e_b, e_r, e_busy, aw_buf, w_buf, ram, r_valid, doutb,
           reg_q, b_spill, r_spill, clk >>

(***************************************************************************)
(* Building blocks                                                         *)
(***************************************************************************)
\* A queue after an edge that takes its head, appends x, both or neither.
Queue(q, pop, push, x) == LET rest == IF pop THEN Tail(q) ELSE q
                          IN  IF push THEN Append(rest, x) ELSE rest

\* spill_register: two places, accepts while one is free, one clock late.
SpillReady(q) == Len(q) < 2

\* fifo_v3
Full(q) == Len(q) = MaxTrans

\* rr_arb_tree, two inputs.  A choice that is not granted is kept.
Heard(arb, reqs) == IF arb.lock THEN arb.req ELSE reqs
Choice(arb, reqs) ==
    LET heard == Heard(arb, reqs)
    IN  IF 0 \notin heard \/ (1 \in heard /\ arb.rr = 1) THEN 1 ELSE 0

\* FairArb: the next to have priority is the first requester above the one
\* that had it, or else the lowest.
NextPrio(rr, heard) == IF 1 \in heard /\ (rr = 0 \/ 0 \notin heard) THEN 1 ELSE 0

Arbitrated(arb, reqs, gnt) ==
    LET heard == Heard(arb, reqs)
        keep == heard # {} /\ ~gnt
    IN  [rr |-> IF heard # {} /\ gnt THEN NextPrio(arb.rr, heard) ELSE arb.rr,
         lock |-> keep,
         req |-> IF keep THEN heard ELSE {}]

(***************************************************************************)
(* The masters' outputs                                                    *)
(***************************************************************************)
Reads(a) == [op |-> "read", addr |-> a]
Writes(a, d) == [op |-> "write", addr |-> a, data |-> d]

Requests == {Reads(a) : a \in CpuAddrs}
                \cup {Writes(a, d) : a \in CpuAddrs, d \in CpuData}

mem_valid == req # << >>
Doing(op) == mem_valid /\ req[1].op = op

\* Mutated: an address that has been accepted is offered again.
aw_valid_again(m) == IF m = CPU THEN Doing("write") ELSE i_aw # 0

aw_valid(m) == IF m = CPU THEN Doing("write") /\ "aw" \notin ack ELSE i_aw # 0
aw_addr(m) == IF m = CPU THEN req[1].addr ELSE Job[i_aw]
w_valid(m) == IF m = CPU THEN Doing("write") /\ "w" \notin ack ELSE TRUE
w_data(m) == IF m = CPU THEN req[1].data ELSE i_wdata

\* Mutated: the image master, which ignores write responses, ties ready low.
b_ready_low(m) == m = CPU /\ Doing("write")

b_ready(m) == IF m = CPU THEN Doing("write") ELSE TRUE
ar_valid(m) == IF m = CPU THEN Doing("read") /\ "ar" \notin ack ELSE i_ar # 0
ar_addr(m) == IF m = CPU THEN req[1].addr ELSE Job[i_ar]
\* Mutated: the image master takes answers only while it has addresses left.
r_ready_scanning(m) == IF m = CPU THEN Doing("read") ELSE i_ar # 0

r_ready(m) == IF m = CPU THEN Doing("read") ELSE TRUE

aw_in(m) == aw_valid(m) /\ SpillReady(d_aw[m])
ar_in(m) == ar_valid(m) /\ SpillReady(d_ar[m])

(***************************************************************************)
(* AW through the crossbar.  A demultiplexer, and a multiplexer after it,  *)
(* pushes its w_fifo when it first shows an address and then holds it.     *)
(***************************************************************************)
AwShown(m) == d_aw[m] # << >> /\ (d_lock[m] \/ ~Full(d_w[m]))
AwTo(m) == Dest[Head(d_aw[m])]
AwReqs(s) == {m \in Masters : AwShown(m) /\ AwTo(m) = s}
AwChoice(s) == Choice(aw_arb[s], AwReqs(s))
MuxAwShown(s) == /\ Heard(aw_arb[s], AwReqs(s)) # {}
                 /\ m_lock[s] \/ ~Full(m_w[s])
AwGnt(s) == MuxAwShown(s) /\ SpillReady(m_aw[s])

\* The decode error slave of m is offered an address, and takes it.
ErrAw(m) == AwShown(m) /\ AwTo(m) = "err" /\ ~e_w[m]

\* Mutated: the grant goes to every master that asks.
AwTakenAll(m) == ErrAw(m) \/ \E s \in Ports : AwGnt(s) /\ m \in AwReqs(s)

AwTaken(m) == \/ ErrAw(m)
              \/ \E s \in Ports : AwGnt(s) /\ m \in AwReqs(s) /\ AwChoice(s) = m

(***************************************************************************)
(* W: from the master that the multiplexer's w_fifo names, to the slave    *)
(* that the master's w_fifo names.                                         *)
(***************************************************************************)
WShown(m) == w_valid(m) /\ d_w[m] # << >> /\ ~Full(d_b[m])
WTo(m, s) == WShown(m) /\ Head(d_w[m]) = s
MuxWShown(s) == m_w[s] # << >> /\ ~Full(m_b[s]) /\ WTo(Head(m_w[s]), s)

\* Mutated: a word is stored only to make room for the next.
TakePushed(s) == aw_buf[s] # << >> /\ w_buf[s] # << >> /\ m_aw[s] # << >>

\* axi_like_handshake in front of a memory.
Take(s) == aw_buf[s] # << >> /\ w_buf[s] # << >>
BufReady(buf, s) == buf[s] = << >> \/ Take(s)

\* The register file takes address and data together.
RegWrite == m_aw["REGF0"] # << >> /\ MuxWShown("REGF0") /\ b_spill < 2

SlaveAwReady(s) == IF s = "REGF0" THEN RegWrite ELSE BufReady(aw_buf, s)
SlaveWReady(s) == IF s = "REGF0" THEN RegWrite ELSE BufReady(w_buf, s)
SlaveAw(s) == m_aw[s] # << >> /\ SlaveAwReady(s)
SlaveW(s) == MuxWShown(s) /\ SlaveWReady(s)

\* Its fifo of one is of the kind that falls through.
ErrW(m) == WTo(m, "err") /\ (e_w[m] \/ ErrAw(m)) /\ e_b[m] < 2

WTaken(m) == ErrW(m) \/ \E s \in Ports : SlaveW(s) /\ Head(m_w[s]) = m

(***************************************************************************)
(* B: a memory's response is always valid; the fifos alone decide whether  *)
(* and to whom one is given.                                               *)
(***************************************************************************)
SlaveBValid(s) == s = "REGF0" => b_spill > 0
BFrom(m, s) == d_b[m] # << >> /\ Head(d_b[m]) = s
BShown(m) == \/ BFrom(m, "err") /\ e_b[m] > 0
             \/ \E s \in Ports : /\ BFrom(m, s) /\ SlaveBValid(s)
                                 /\ m_b[s] # << >> /\ Head(m_b[s]) = m
BTaken(m) == BShown(m) /\ b_ready(m)

(***************************************************************************)
(* AR                                                                      *)
(***************************************************************************)
ArShown(m) == d_ar[m] # << >> /\ ~Full(d_r[m])
ArTo(m) == Dest[Head(d_ar[m])]
ArReqs(s) == {m \in Masters : ArShown(m) /\ ArTo(m) = s}
ArChoice(s) == Choice(ar_arb[s], ArReqs(s))
ArGnt(s) == ~Full(m_r[s]) /\ SpillReady(m_ar[s])
MuxArTaken(s) == Heard(ar_arb[s], ArReqs(s)) # {} /\ ArGnt(s)
ErrAr(m) == ArShown(m) /\ ArTo(m) = "err" /\ ~e_r[m]

\* Mutated: the grant goes to every master that asks.
ArTakenAll(m) == ErrAr(m) \/ \E s \in Ports : MuxArTaken(s) /\ m \in ArReqs(s)

ArTaken(m) == \/ ErrAr(m)
              \/ \E s \in Ports : MuxArTaken(s) /\ m \in ArReqs(s) /\ ArChoice(s) = m

SlaveArReady(s) == s = "REGF0" => SpillReady(r_spill)
SlaveAr(s) == m_ar[s] # << >> /\ SlaveArReady(s)

(***************************************************************************)
(* R: a memory's answer is there for one clock, whoever is ready for it.   *)
(***************************************************************************)
SlaveRValid(s) == IF s = "REGF0" THEN r_spill # << >> ELSE r_valid[s]
SlaveRData(s) == IF s = "REGF0" THEN Head(r_spill) ELSE doutb[s]
RFrom(m, s) == d_r[m] # << >> /\ Head(d_r[m]) = s
MuxRTo(s, m) == m_r[s] # << >> /\ Head(m_r[s]) = m /\ SlaveRValid(s)
RShown(m) == \/ RFrom(m, "err") /\ e_busy[m]
             \/ \E s \in Ports : RFrom(m, s) /\ MuxRTo(s, m)
RTaken(m) == RShown(m) /\ r_ready(m)
RData(m) == IF Head(d_r[m]) = "err" THEN Blank ELSE SlaveRData(Head(d_r[m]))

(***************************************************************************)
(* The registers                                                           *)
(***************************************************************************)
DemuxStep ==
    LET aw == [m \in Masters |-> AwTaken(m)]
        w == [m \in Masters |-> WTaken(m)]
        ar == [m \in Masters |-> ArTaken(m)]
    IN
    /\ d_aw' = [m \in Masters |-> Queue(d_aw[m], aw[m], aw_in(m), aw_addr(m))]
    /\ d_lock' = [m \in Masters |-> AwShown(m) /\ ~aw[m]]
    /\ d_w' = [m \in Masters |-> Queue(d_w[m], w[m], AwShown(m) /\ ~d_lock[m], AwTo(m))]
    /\ d_b' = [m \in Masters |-> Queue(d_b[m], BTaken(m), w[m], Head(d_w[m]))]
    /\ d_ar' = [m \in Masters |-> Queue(d_ar[m], ar[m], ar_in(m), ar_addr(m))]
    /\ d_r' = [m \in Masters |-> Queue(d_r[m], RTaken(m), ar[m], ArTo(m))]

MuxStep ==
    LET w == [s \in Ports |-> SlaveW(s)]
        ar == [s \in Ports |-> MuxArTaken(s)]
    IN
    /\ aw_arb' = [s \in Ports |-> Arbitrated(aw_arb[s], AwReqs(s), AwGnt(s))]
    /\ m_lock' = [s \in Ports |-> MuxAwShown(s) /\ ~AwGnt(s)]
    /\ m_aw' = [s \in Ports |-> Queue(m_aw[s], SlaveAw(s), AwGnt(s), Head(d_aw[AwChoice(s)]))]
    /\ m_w' = [s \in Ports |-> Queue(m_w[s], w[s], MuxAwShown(s) /\ ~m_lock[s], AwChoice(s))]
    /\ m_b' = [s \in Ports |->
                Queue(m_b[s], \E m \in Masters : BFrom(m, s) /\ BTaken(m), w[s], Head(m_w[s]))]
    /\ ar_arb' = [s \in Ports |-> Arbitrated(ar_arb[s], ArReqs(s), ArGnt(s))]
    /\ m_ar' = [s \in Ports |-> Queue(m_ar[s], SlaveAr(s), ar[s], Head(d_ar[ArChoice(s)]))]
    /\ m_r' = [s \in Ports |->
                Queue(m_r[s], \E m \in Masters : RFrom(m, s) /\ RTaken(m), ar[s], ArChoice(s))]

ErrStep ==
    /\ e_w' = [m \in Masters |-> (e_w[m] \/ ErrAw(m)) /\ ~ErrW(m)]
    /\ e_b' = [m \in Masters |-> e_b[m] + (IF ErrW(m) THEN 1 ELSE 0)
                                   - (IF BFrom(m, "err") /\ BTaken(m) THEN 1 ELSE 0)]
    /\ e_r' = [m \in Masters |-> IF e_r[m] THEN ~(e_busy[m] /\ RFrom(m, "err") /\ RTaken(m))
                                           ELSE ErrAr(m)]
    /\ e_busy' = [m \in Masters |-> IF e_busy[m] THEN ~(RFrom(m, "err") /\ RTaken(m))
                                                 ELSE e_r[m]]

\* What the memory's buffer holds after an edge at which x is offered or not.
Buffered(buf, s, offered, x) == IF offered /\ BufReady(buf, s) THEN << x >>
                                ELSE IF Take(s) THEN << >> ELSE buf[s]

MemoryStep ==
    /\ aw_buf' = [s \in Memories |-> Buffered(aw_buf, s, m_aw[s] # << >>, Head(m_aw[s]))]
    /\ w_buf' = [s \in Memories |->
                    Buffered(w_buf, s, MuxWShown(s), w_data(Head(m_w[s])))]
    /\ r_valid' = [s \in Memories |-> m_ar[s] # << >>]
    /\ ram' = [a \in DOMAIN ram |->
                IF Take(Dest[a]) /\ aw_buf[Dest[a]][1] = a THEN w_buf[Dest[a]][1] ELSE ram[a]]
    \* A cell that is read and written at once shows the old word or the new.
    /\ \E seen \in {ram, ram'} :
          doutb' = [s \in Memories |-> IF m_ar[s] = << >> THEN doutb[s]
                                                          ELSE seen[Head(m_ar[s])]]

RegsStep ==
    /\ reg_q' = IF RegWrite
                THEN [reg_q EXCEPT ![Head(m_aw["REGF0"])] = w_data(Head(m_w["REGF0"]))]
                ELSE reg_q
    /\ b_spill' = b_spill + (IF RegWrite THEN 1 ELSE 0)
                    - (IF \E m \in Masters : BFrom(m, "REGF0") /\ BTaken(m) THEN 1 ELSE 0)
    /\ r_spill' = Queue(r_spill, \E m \in Masters : RFrom(m, "REGF0") /\ RTaken(m),
                        SlaveAr("REGF0"), reg_q[Head(m_ar["REGF0"])])

\* picorv32_axi_adapter, and the processor that waits for mem_ready, drops
\* mem_valid for a clock and goes on.
mem_ready == BShown(CPU) \/ RShown(CPU)

\* Mutated: the accepted channels are forgotten only after a transfer.
AckedUntilDone == IF xfer_done THEN {}
                  ELSE ack \cup {c \in {"aw"} : aw_in(CPU)} \cup {c \in {"w"} : WTaken(CPU)}
                           \cup {c \in {"ar"} : ar_in(CPU)}

Acked == IF xfer_done \/ ~mem_valid THEN {}
         ELSE ack \cup {c \in {"aw"} : aw_in(CPU)} \cup {c \in {"w"} : WTaken(CPU)}
                  \cup {c \in {"ar"} : ar_in(CPU)}

CpuStep ==
    /\ xfer_done' = (mem_valid /\ mem_ready)
    /\ ack' = Acked
    /\ IF mem_valid
       THEN /\ req' = IF mem_ready THEN << >> ELSE req
            /\ may' = IF mem_ready /\ Doing("write")
                      THEN [may EXCEPT ![req[1].addr] = {req[1].data}] ELSE may
       ELSE \/ req' = << >> /\ UNCHANGED may
            \/ \E r \in Requests :
                  /\ req' = << r >>
                  /\ may' = IF r.op = "write"
                            THEN [may EXCEPT ![r.addr] = @ \cup {r.data}] ELSE may

\* The image master scans its job, and may be started again when it has.
Scanned(i, taken) == IF taken THEN (i + 1) % (Len(Job) + 1) ELSE i
NextPixel(i) == (i % Len(Job)) + 1

ImpStep ==
    /\ IF i_aw = 0 THEN i_aw' \in {0, 1} ELSE i_aw' = Scanned(i_aw, aw_in(IMP))
    /\ IF i_ar = 0 THEN i_ar' \in {0, 1} ELSE i_ar' = Scanned(i_ar, ar_in(IMP))
    /\ i_wdata' = IF WTaken(IMP) THEN NextPixel(i_wdata) ELSE i_wdata
    /\ i_rcnt' = IF RTaken(IMP) THEN NextPixel(i_rcnt) ELSE i_rcnt

(***************************************************************************)
(* The specification                                                       *)
(***************************************************************************)
Idle(S) == [x \in S |-> << >>]
Low(S) == [x \in S |-> FALSE]
NewArb == [rr |-> 0, lock |-> FALSE, req |-> {}]

\* The reset leaves ack_arvalid and ack_wvalid alone; one idle clock clears
\* them.
Init ==
    /\ req = << >> /\ ack \in SUBSET {"w", "ar"} /\ xfer_done \in BOOLEAN
    /\ i_aw = 0 /\ i_ar = 0 /\ i_wdata = 1 /\ i_rcnt = 1
    /\ d_aw = Idle(Masters) /\ d_lock = Low(Masters) /\ d_w = Idle(Masters)
    /\ d_b = Idle(Masters) /\ d_ar = Idle(Masters) /\ d_r = Idle(Masters)
    /\ aw_arb = [s \in Ports |-> NewArb] /\ m_lock = Low(Ports)
    /\ m_aw = Idle(Ports) /\ m_w = Idle(Ports) /\ m_b = Idle(Ports)
    /\ ar_arb = [s \in Ports |-> NewArb] /\ m_ar = Idle(Ports) /\ m_r = Idle(Ports)
    /\ e_w = Low(Masters) /\ e_b = [m \in Masters |-> 0]
    /\ e_r = Low(Masters) /\ e_busy = Low(Masters)
    /\ aw_buf = Idle(Memories) /\ w_buf = Idle(Memories) /\ r_valid = Low(Memories)
    /\ ram = [a \in {c \in Cells : Dest[c] # "REGF0"} |-> Blank]
    /\ doutb = [s \in Memories |-> Blank]
    /\ reg_q = [a \in {c \in Cells : Dest[c] = "REGF0"} |-> Blank]
    /\ b_spill = 0 /\ r_spill = << >>
    /\ may = [a \in CpuAddrs |-> {Blank}] /\ clk = 0

Clk == DemuxStep /\ MuxStep /\ ErrStep /\ MemoryStep /\ RegsStep /\ CpuStep /\ ImpStep
       /\ clk' = 1 - clk

Next == Clk

Spec == Init /\ [][Next]_vars

\* The clock runs.
FairSpec == Spec /\ []<>(clk = 0) /\ []<>(clk = 1)

(***************************************************************************)
(* What the properties rely on                                             *)
(***************************************************************************)
\* A place is left in the crossbar's fifos while one is taken; BACKBONE.sv has
\* four in each (:72-73).
Deep == MaxTrans >= 2

\* The processor does not access what the image master scans, as only their
\* programs could say who comes first,
Apart == CpuAddrs \cap JobAddrs = {}

\* and a scan visits no address twice, so that a word tells its pixel.
NoneTwice == \A p, q \in Pixels : Job[p] = Job[q] => p = q

(***************************************************************************)
(* Properties                                                              *)
(***************************************************************************)
\* A word is stored at the address it belongs to: no cell ever holds data of
\* another write, of either master.
Belonging(a) == {Blank} \cup (IF a \in CpuAddrs THEN CpuData ELSE {})
                    \cup {p \in Pixels : Job[p] = a}
WordsInPlace == /\ \A a \in DOMAIN ram : ram[a] \in Belonging(a)
                /\ \A a \in DOMAIN reg_q : reg_q[a] \in Belonging(a)

\* A read of the processor sees what it last wrote: a response means that
\* the word is there for any read that follows, although memories respond
\* before they store.
ReadsFresh == RShown(CPU) /\ Doing("read") /\ Dest[req[1].addr] # "err"
                => RData(CPU) \in may[req[1].addr]

\* The answers to the image master come in the order of its addresses.
AnswersInOrder ==
    RShown(IMP) => RData(IMP) \in {Blank, i_rcnt}

\* No answer is lost: whoever asked a memory is ready when its word comes.
AnswersTaken == \A s \in Memories : r_valid[s] =>
                    \E m \in Masters : MuxRTo(s, m) /\ RFrom(m, s) /\ RTaken(m)

\* The adapter takes any response as the end of whatever the processor waits
\* for: none comes that does not belong to it, or too early.
OwnResponse == /\ BShown(CPU) => Doing("write") /\ {"aw", "w"} \subseteq ack
               /\ RShown(CPU) => Doing("read") /\ "ar" \in ack

\* Every access of the processor ends, whatever the image master does.
CpuServed == mem_valid ~> ~mem_valid

\* A scan of the image master ends: its addresses are all accepted, because
\* neither waiting words nor untaken answers block the bus.
ScansEnd == /\ i_aw # 0 ~> i_aw = 0
            /\ i_ar # 0 ~> i_ar = 0
===============================================================================
