----------------------------- MODULE AsyncFifoGray -----------------------------
(***************************************************************************)
(* dip_async_fifo bit by bit where it matters: the pointers that cross     *)
(* from one clock to the other are Gray-coded words of ADR_BIT+1 bits, and *)
(* a synchronizer flop clocked while such a word changes catches each of   *)
(* its bits before or after the change, independently of the others.       *)
(* Read through the decoding below, every step is a step of AsyncFifo.     *)
(***************************************************************************)
EXTENDS Naturals, Bitwise

CONSTANTS ADR_BIT, Data, Unwritten

ASSUME AdrBitAssumption == ADR_BIT \in Nat /\ ADR_BIT >= 2

VARIABLES
    temp_wr_addr, temp_wr_ptr,    \* write pointer, binary and Gray
    temp_wr_full, r2w_1t, r2w_2t,
    temp_addr_bin, temp_ptr_gray, \* read pointer, binary and Gray
    temp_rd_empty, w2r_1t, w2r_2t,
    reg_memory,
    rd_ran

wr_side == << temp_wr_addr, temp_wr_ptr, temp_wr_full, r2w_1t, r2w_2t,
              reg_memory >>
rd_side == << temp_addr_bin, temp_ptr_gray, temp_rd_empty, w2r_1t, w2r_2t,
              rd_ran >>
vars == << wr_side, rd_side >>

DEPTH == 2^ADR_BIT
Words == 0 .. 2*DEPTH - 1        \* values of ADR_BIT+1 bits

\* (bin>>1) ^ bin, as a table.
Gray == [bin \in Words |-> (bin \div 2) ^^ bin]

\* Mutated: the rule for binary pointers, which inverts the top bit only.
FullAgainstBinary == [rptr \in Words |-> rptr ^^ DEPTH]

\* rptr with its two top bits inverted: what the Gray write pointer is when
\* it stands one memory length ahead of it.
FullAgainst == [rptr \in Words |-> rptr ^^ (DEPTH + DEPTH \div 2)]

\* What a flop may catch of a word that goes from old to new under its edge.
Caught == [old, new \in Words |-> {w \in Words : (w ^^ old) & (w ^^ new) = 0}]

\* The binary counters' next values; the adder drops its carry.
WrNext(wr_req) == IF wr_req /\ ~temp_wr_full
                  THEN (temp_wr_addr + 1) % (2*DEPTH) ELSE temp_wr_addr
RdNext(rd_req) == IF rd_req /\ ~temp_rd_empty
                  THEN (temp_addr_bin + 1) % (2*DEPTH) ELSE temp_addr_bin

Init == /\ temp_wr_addr = 0 /\ temp_wr_ptr = 0 /\ temp_wr_full = FALSE
        /\ r2w_1t = 0 /\ r2w_2t = 0
        /\ temp_addr_bin = 0 /\ temp_ptr_gray = 0 /\ temp_rd_empty = FALSE
        /\ w2r_1t = 0 /\ w2r_2t = 0
        /\ reg_memory = [a \in 0 .. DEPTH-1 |-> Unwritten]
        /\ rd_ran = FALSE

WrEdge(wr_req, wr_data, rptr) ==
    /\ temp_wr_addr' = WrNext(wr_req)
    /\ temp_wr_ptr' = Gray[WrNext(wr_req)]
    /\ temp_wr_full' = (Gray[WrNext(wr_req)] = FullAgainst[r2w_2t])
    /\ reg_memory' = IF wr_req /\ ~temp_wr_full
                     THEN [reg_memory EXCEPT ![temp_wr_addr % DEPTH] = wr_data]
                     ELSE reg_memory
    /\ r2w_1t' = rptr
    /\ r2w_2t' = r2w_1t

RdEdge(rd_req, wptr) ==
    /\ rd_req => rd_ran
    /\ temp_addr_bin' = RdNext(rd_req)
    /\ temp_ptr_gray' = Gray[RdNext(rd_req)]
    /\ temp_rd_empty' = (Gray[RdNext(rd_req)] = w2r_2t)
    /\ w2r_1t' = wptr
    /\ w2r_2t' = w2r_1t
    /\ rd_ran' = TRUE

WrClk == /\ \E wr_req \in BOOLEAN, d \in Data : WrEdge(wr_req, d, temp_ptr_gray)
         /\ UNCHANGED rd_side

RdClk == /\ \E rd_req \in BOOLEAN : RdEdge(rd_req, temp_wr_ptr)
         /\ UNCHANGED wr_side

\* The two clocks tick together and each first flop catches a mixture.
BothClk == \E wr_req, rd_req \in BOOLEAN, d \in Data :
    /\ \E rptr \in Caught[temp_ptr_gray, Gray[RdNext(rd_req)]] :
          WrEdge(wr_req, d, rptr)
    /\ \E wptr \in Caught[temp_wr_ptr, Gray[WrNext(wr_req)]] :
          RdEdge(rd_req, wptr)

Reset == /\ temp_wr_addr' = 0 /\ temp_wr_ptr' = 0 /\ temp_wr_full' = FALSE
         /\ r2w_1t' = 0 /\ r2w_2t' = 0
         /\ temp_addr_bin' = 0 /\ temp_ptr_gray' = 0 /\ temp_rd_empty' = FALSE
         /\ w2r_1t' = 0 /\ w2r_2t' = 0
         /\ rd_ran' = FALSE
         /\ UNCHANGED reg_memory

Next == WrClk \/ RdClk \/ BothClk \/ Reset

Spec == Init /\ [][Next]_vars

(***************************************************************************)
(* Properties                                                              *)
(***************************************************************************)
\* The position a Gray word stands for.
Position == [gray \in Words |-> CHOOSE p \in Words : Gray[p] = gray]

\* The Gray-coded block is the block of pointers that AsyncFifo describes:
\* the Gray comparisons decide full and empty as the distances do, and a
\* word caught in mid-change is the old pointer or the new one.
Ptrs == INSTANCE AsyncFifo
            WITH N <- DEPTH, EagerReader <- FALSE,
                 r2w_1t <- Position[r2w_1t], r2w_2t <- Position[r2w_2t],
                 w2r_1t <- Position[w2r_1t], w2r_2t <- Position[w2r_2t]
IsAsyncFifo == Ptrs!Spec

===============================================================================
