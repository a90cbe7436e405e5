-------------------------------- MODULE AluCop --------------------------------
(***************************************************************************)
(* dip_rdy_ack/alu_cop.v: an arithmetic coprocessor.  Operations wait in   *)
(* pre_fifo, pass the two stages of alu.v (multiply, add), which hand over *)
(* by axi_like_handshake.sv, and their results wait in post_fifo.  Both    *)
(* FIFOs are instances of SyncFifo.                                        *)
(***************************************************************************)
EXTENDS Naturals, Sequences

CONSTANTS
    N,      \* words in each FIFO, 2^ADR_BIT
    Ops,    \* operations: records of val_a, val_b and val_c
    Credit, \* how many operations the user leaves under way at once
    PowerUp \* the operation that cells without a reset hold at power-up

ASSUME NAssumption == N \in Nat \ {0}
ASSUME OpsAssumption ==
    Ops # {} /\ Ops \subseteq [a : 0 .. 255, b : 0 .. 255, c : 0 .. 255]
ASSUME CreditAssumption == Credit \in Nat
ASSUME PowerUpAssumption == PowerUp \in Ops

VARIABLES
    pre_wptr, pre_rptr, pre_mem, prf_data_out,          \* pre_fifo
    alu_wr_rdy,             \* ... an operation is offered to the ALU
    rd_rdy_mul, mul,        \* multiply stage: occupied, << product, val_c >>
    alu_rd_rdy, add,        \* add stage: occupied, sum
    pof_wr_en, pof_data_in, pof_rd_en,                  \* ports of post_fifo
    post_wptr, post_rptr, post_mem, alu_cop_result,     \* post_fifo
    owed    \* (history) operations accepted whose result was not taken yet

vars == << pre_wptr, pre_rptr, pre_mem, prf_data_out, alu_wr_rdy,
           rd_rdy_mul, mul, alu_rd_rdy, add, pof_wr_en, pof_data_in, pof_rd_en,
           post_wptr, post_rptr, post_mem, alu_cop_result, owed >>

Product(op) == << op.a * op.b, op.c >>
Sum(m) == m[1] + m[2]
Value(op) == Sum(Product(op))

(***************************************************************************)
(* The wires                                                               *)
(***************************************************************************)
PreFifo == INSTANCE SyncFifo WITH
    Data <- Ops, Unwritten <- PowerUp,
    wptr <- pre_wptr, rptr <- pre_rptr, fifo <- pre_mem, data_out <- prf_data_out

PostFifo == INSTANCE SyncFifo WITH
    Data <- {Value(op) : op \in Ops}, Unwritten <- Value(PowerUp),
    wptr <- post_wptr, rptr <- post_rptr, fifo <- post_mem, data_out <- alu_cop_result

pof_wr_ack == alu_rd_rdy /\ ~PostFifo!full
wr_ack_add == ~alu_rd_rdy \/ pof_wr_ack

alu_wr_ack == ~rd_rdy_mul \/ wr_ack_add

\* Mutated: an operation leaves pre_fifo only when another is behind it.
PrfRdEnPushed == PreFifo!Occupancy > 1 /\ (alu_wr_rdy => alu_wr_ack)

prf_rd_en == ~PreFifo!empty /\ (alu_wr_rdy => alu_wr_ack)

(***************************************************************************)
(* The clock                                                               *)
(***************************************************************************)
\* Mutated: a stage that is emptied does not refill on the same edge.
HeldOnce(valid, offered, ready) == IF valid THEN ~ready ELSE offered

\* The valid bit of axi_like_handshake.
Held(valid, offered, ready) == IF valid THEN offered \/ ~ready ELSE offered

Feed(wr_en, op) == /\ PreFifo!Write(wr_en, op)
                   /\ PreFifo!Read(prf_rd_en)
                   /\ alu_wr_rdy' = prf_rd_en

\* Mutated: the add stage loads by the flag of the stage before last.
AluShifted ==
    /\ rd_rdy_mul' = Held(rd_rdy_mul, alu_wr_rdy, wr_ack_add)
    /\ mul' = IF alu_wr_ack THEN Product(prf_data_out) ELSE mul
    /\ alu_rd_rdy' = Held(alu_rd_rdy, rd_rdy_mul, pof_wr_ack)
    /\ add' = IF wr_ack_add /\ alu_wr_rdy THEN Sum(mul) ELSE add

\* The data registers load whenever their stage is free, offered or not.
Alu == /\ rd_rdy_mul' = Held(rd_rdy_mul, alu_wr_rdy, wr_ack_add)
       /\ mul' = IF alu_wr_ack THEN Product(prf_data_out) ELSE mul
       /\ alu_rd_rdy' = Held(alu_rd_rdy, rd_rdy_mul, pof_wr_ack)
       /\ add' = IF wr_ack_add THEN Sum(mul) ELSE add

Drain(rd_en) ==
    /\ pof_wr_en' = pof_wr_ack
    /\ pof_data_in' = IF pof_wr_ack THEN add ELSE pof_data_in
    /\ pof_rd_en' = (rd_en /\ ~PostFifo!empty)
    /\ PostFifo!Write(pof_wr_en, pof_data_in)
    /\ PostFifo!Read(pof_rd_en)

\* The user writes while it has credit left.
User(wr_en) ==
    /\ wr_en => owed < Credit
    /\ owed' = owed + (IF wr_en /\ ~PreFifo!full THEN 1 ELSE 0)
                    - (IF pof_rd_en /\ ~PostFifo!empty THEN 1 ELSE 0)

Clk == \E wr_en, rd_en \in BOOLEAN, op \in Ops :
           Feed(wr_en, op) /\ Alu /\ Drain(rd_en) /\ User(wr_en)

Init == /\ PreFifo!Init /\ alu_wr_rdy = FALSE
        /\ rd_rdy_mul = FALSE /\ mul = << 0, 0 >>
        /\ alu_rd_rdy = FALSE /\ add = 0
        /\ pof_wr_en = FALSE /\ pof_data_in = 0 /\ pof_rd_en = FALSE
        /\ PostFifo!Init
        /\ owed = 0

Reset == /\ PreFifo!Reset /\ alu_wr_rdy' = FALSE
         /\ rd_rdy_mul' = FALSE /\ mul' = << 0, 0 >>
         /\ alu_rd_rdy' = FALSE /\ add' = 0
         /\ pof_wr_en' = FALSE /\ pof_data_in' = 0 /\ pof_rd_en' = FALSE
         /\ PostFifo!Reset
         /\ owed' = 0

Next == Clk \/ Reset

Spec == Init /\ [][Next]_vars

\* An edge on which the user does nothing.
Idle == \E op \in Ops : Feed(FALSE, op) /\ Alu /\ Drain(FALSE) /\ User(FALSE)

\* The clock runs while there is work; weak fairness of Clk would make the
\* user write.
LiveSpec == Spec /\ (<>[](ENABLED << Idle >>_vars) => []<><< Clk >>_vars)

(***************************************************************************)
(* Properties                                                              *)
(***************************************************************************)
If(there, x) == IF there THEN << x >> ELSE << >>

\* The results of everything under way, oldest first.
Waiting == PreFifo!Contents
Flight == PostFifo!Contents \o If(pof_wr_en, pof_data_in) \o If(alu_rd_rdy, add)
          \o If(rd_rdy_mul, Sum(mul)) \o If(alu_wr_rdy, Value(prf_data_out))
          \o [i \in 1 .. Len(Waiting) |-> Value(Waiting[i])]

Abs == INSTANCE Fifo WITH
    queue <- Flight, Data <- {Value(op) : op \in Ops}, Depth <- Credit

\* For a user with no more credit than a FIFO has words, the coprocessor is
\* a queue of results: none is lost, doubled or overtaken, and an operation
\* owes its result until the user takes it.
IsFifo == Abs!Spec
NothingLost == owed = Len(Flight)

\* Every operation's result reaches post_fifo, wherever it is, without any
\* further one behind it to push.
Computed == owed > 0 ~> ~PostFifo!empty \/ owed = 0

\* The FIFOs, filled and emptied by the pipeline at the rate it settles at,
\* are bounded queues: no write overflows one and no read takes from it what
\* is not there.
AreFifos == PreFifo!IsFifo /\ PostFifo!IsFifo

\* An operation that the ALU has not confirmed (alu.v:25) stays on offer.
OfferedUntilAcked ==
    [][Clk /\ alu_wr_rdy /\ ~alu_wr_ack
         => alu_wr_rdy' /\ prf_data_out' = prf_data_out]_vars
===============================================================================
