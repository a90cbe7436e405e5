----------------------------- MODULE AxiLiteMemory -----------------------------
(***************************************************************************)
(* The memories of the SoC behind their AXI4-Lite ports:                   *)
(* axi_lite_imp_memory.sv, the image store of 38 RAMs, and                 *)
(* axi_lite_memory.sv, which is the same with one.  AW and W are buffered  *)
(* apart (axi_like_handshake.sv, one place each) and meet at the RAM; a    *)
(* read goes straight to it.                                               *)
(*                                                                         *)
(* The bus may offer the address of a write before, with or after its      *)
(* data.  What it drives now is what the next clock edge samples.          *)
(* B is always valid and AR always ready, so neither has state.            *)
(***************************************************************************)
EXTENDS Naturals, Sequences

CONSTANTS
    NBanks,     \* number of RAMs; bits [24:19] of an address select one
    NCells,     \* words in a RAM
    Lanes,      \* the byte lanes of a word
    Byte,
    Strobes,    \* the lane sets that masters write
    MaxIssued   \* bound: writes issued and not yet stored

ASSUME SizeAssumption == NBanks \in Nat \ {0} /\ NCells \in Nat \ {0}
ASSUME ByteAssumption == 0 \in Byte
ASSUME StrobesAssumption == Strobes \subseteq SUBSET Lanes
ASSUME MaxIssuedAssumption == MaxIssued \in Nat

Banks == 0 .. NBanks-1
Cells == 0 .. NCells-1
Addr == Banks \X Cells
Word == [Lanes -> Byte]
Write == [addr : Addr, data : Word, strb : Strobes]

ZeroAddr == << 0, 0 >>
ZeroWord == [l \in Lanes |-> 0]

VARIABLES
    xt_aw_valid, xt_w_valid,    \* the two handshake buffers: occupied?
    xt_wr_addr, xt_wr_data,     \* ... and their contents
    ram,                        \* ram[bank][cell]
    doutb,                      \* each RAM's output register
    xt_r_valid,
    s_ar_addr_deco_1t,          \* bank of the read being answered
    s_aw_valid, s_w_valid,      \* inputs
    ar,                         \* input: << >> or << address >>
    issued,         \* (history) writes issued and not yet stored, oldest first
    aw_sent, w_sent \* ... how many of them have been accepted on AW, on W

regs == << xt_aw_valid, xt_w_valid, xt_wr_addr, xt_wr_data, ram, doutb,
           xt_r_valid, s_ar_addr_deco_1t >>
bus == << s_aw_valid, s_w_valid, ar, issued, aw_sent, w_sent >>
vars == << xt_aw_valid, xt_w_valid, xt_wr_addr, xt_wr_data, ram, doutb,
           xt_r_valid, s_ar_addr_deco_1t, s_aw_valid, s_w_valid, ar,
           issued, aw_sent, w_sent >>

(***************************************************************************)
(* The wires                                                               *)
(***************************************************************************)
s_aw_addr == issued[aw_sent + 1].addr
s_w_data == issued[w_sent + 1].data

Bank(a) == a[1]
Cell(a) == a[2]

\* Address and data are both there: the RAM takes them.
xt_aw_w_vld(b) == xt_aw_valid /\ xt_w_valid /\ Bank(xt_wr_addr) = b
take == \E b \in Banks : xt_aw_w_vld(b)

\* Mutated: a full buffer accepts.
ReadyAlways(valid_reg) == TRUE

\* axi_like_handshake: ready when empty or being emptied.
Ready(valid_reg) == ~valid_reg \/ take

aw_ack == s_aw_valid /\ Ready(xt_aw_valid)
w_ack == s_w_valid /\ Ready(xt_w_valid)

\* Mutated: the RAM that the bus addresses now drives the answer.
ReadMuxUnregistered == doutb[IF ar = << >> THEN s_ar_addr_deco_1t
                                           ELSE Bank(ar[1])]

s_r_data == doutb[s_ar_addr_deco_1t]

(***************************************************************************)
(* The registers                                                           *)
(***************************************************************************)
\* Mutated: a buffer that is emptied does not refill on the same edge.
HeldOnce(valid_reg, valid_i) == IF valid_reg THEN ~take ELSE valid_i

\* axi_like_handshake: the valid bit after an edge.
Held(valid_reg, valid_i) == IF valid_reg THEN valid_i \/ ~take ELSE valid_i

Buffers == /\ xt_aw_valid' = Held(xt_aw_valid, s_aw_valid)
           /\ xt_w_valid' = Held(xt_w_valid, s_w_valid)
           /\ xt_wr_addr' = IF aw_ack THEN s_aw_addr ELSE xt_wr_addr
           /\ xt_wr_data' = IF w_ack THEN s_w_data ELSE xt_wr_data

\* Every lane of a word is written, whatever s_w_strb says.
Store == ram' = [b \in Banks |-> IF xt_aw_w_vld(b)
                                 THEN [ram[b] EXCEPT ![Cell(xt_wr_addr)] = xt_wr_data]
                                 ELSE ram[b]]

\* A RAM that is read and written at once shows the old word or the new one.
\* The bank register samples the address lines, whether they ask or not.
Fetch ==
    /\ xt_r_valid' = (ar # << >>)
    /\ IF ar = << >>
       THEN UNCHANGED doutb /\ s_ar_addr_deco_1t' \in Banks
       ELSE LET b == Bank(ar[1])
                c == Cell(ar[1])
            IN  /\ \E q \in { ram[b][c], ram'[b][c] } :
                       doutb' = [doutb EXCEPT ![b] = q]
                /\ s_ar_addr_deco_1t' = b

(***************************************************************************)
(* The bus                                                                 *)
(***************************************************************************)
Asks == {<< >>} \union {<< a >> : a \in Addr}

Count(b) == IF b THEN 1 ELSE 0

\* A channel keeps its offer until it is accepted, and offers only what has
\* been issued.
Offers(was_offered, acked, sent, offered) ==
    /\ was_offered /\ ~acked => offered
    /\ offered => sent < Len(issued')

Bus ==
    /\ LET rest == IF take THEN Tail(issued) ELSE issued
       IN  \/ issued' = rest
           \/ /\ Len(rest) < MaxIssued
              /\ \E w \in Write : issued' = Append(rest, w)
    /\ aw_sent' = aw_sent + Count(aw_ack) - Count(take)
    /\ w_sent' = w_sent + Count(w_ack) - Count(take)
    /\ s_aw_valid' \in BOOLEAN
    /\ Offers(s_aw_valid, aw_ack, aw_sent', s_aw_valid')
    /\ s_w_valid' \in BOOLEAN
    /\ Offers(s_w_valid, w_ack, w_sent', s_w_valid')
    /\ ar' \in Asks

(***************************************************************************)
(* The specification                                                       *)
(***************************************************************************)
\* The RAMs and their output registers have no reset.
Init == /\ xt_aw_valid = FALSE /\ xt_w_valid = FALSE
        /\ xt_wr_addr = ZeroAddr /\ xt_wr_data = ZeroWord
        /\ ram \in [Banks -> [Cells -> Word]]
        /\ doutb \in [Banks -> Word]
        /\ xt_r_valid = FALSE /\ s_ar_addr_deco_1t = 0
        /\ s_aw_valid = FALSE /\ s_w_valid = FALSE /\ ar \in Asks
        /\ issued = << >> /\ aw_sent = 0 /\ w_sent = 0

Clk == Buffers /\ Store /\ Fetch /\ Bus

Reset == /\ xt_aw_valid' = FALSE /\ xt_w_valid' = FALSE
         /\ xt_wr_addr' = ZeroAddr /\ xt_wr_data' = ZeroWord
         /\ xt_r_valid' = FALSE /\ s_ar_addr_deco_1t' = 0
         /\ s_aw_valid' = FALSE /\ s_w_valid' = FALSE /\ ar' \in Asks
         /\ issued' = << >> /\ aw_sent' = 0 /\ w_sent' = 0
         /\ UNCHANGED << ram, doutb >>

Next == Clk \/ Reset

Spec == Init /\ [][Next]_vars

\* The clock runs, and again and again each channel of the bus has on offer
\* what was issued and not accepted: address first, data first or together.
LiveSpec == /\ Spec
            /\ []<><<aw_sent' < Len(issued') => s_aw_valid'>>_vars
            /\ []<><<w_sent' < Len(issued') => s_w_valid'>>_vars

(***************************************************************************)
(* Properties                                                              *)
(***************************************************************************)
TypeOK == /\ xt_aw_valid \in BOOLEAN /\ xt_w_valid \in BOOLEAN
          /\ xt_wr_addr \in Addr /\ xt_wr_data \in Word
          /\ ram \in [Banks -> [Cells -> Word]] /\ doutb \in [Banks -> Word]
          /\ xt_r_valid \in BOOLEAN /\ s_ar_addr_deco_1t \in Banks
          /\ s_aw_valid \in BOOLEAN /\ s_w_valid \in BOOLEAN /\ ar \in Asks
          /\ issued \in Seq(Write)
          /\ aw_sent \in Nat /\ w_sent \in Nat

\* The two buffers may fill in either order and wait for one another, but
\* what they hold belongs together: each holds its part of the oldest write
\* not yet stored, or nothing.
Paired == /\ aw_sent = Count(xt_aw_valid) /\ w_sent = Count(xt_w_valid)
          /\ aw_sent + Count(s_aw_valid) <= Len(issued)
          /\ w_sent + Count(s_w_valid) <= Len(issued)
          /\ xt_aw_valid => xt_wr_addr = Head(issued).addr
          /\ xt_w_valid => xt_wr_data = Head(issued).data

IInv == TypeOK /\ Paired

Port == INSTANCE MemoryPort WITH
    store <- [a \in Addr |-> ram[Bank(a)][Cell(a)]],
    ask <- ar,
    reply <- IF xt_r_valid THEN << s_r_data >> ELSE << >>

\* The memory stores each write once, in order, at its own address, and
\* answers each read from its own; true of masters that write whole words.
IsMemoryPort == Port!Spec

\* The channels cannot block each other: whichever of address and data comes
\* first, a write that has been issued is stored (or dropped by a reset).
WritesLand == issued # << >> ~> take \/ issued = << >>

===============================================================================
