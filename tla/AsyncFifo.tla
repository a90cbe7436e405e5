------------------------------- MODULE AsyncFifo -------------------------------
(***************************************************************************)
(* dip_async_fifo: a FIFO between two unrelated clocks.  The write side    *)
(* (async_fifo_wptr_full.sv) owns the write pointer and the full flag, the *)
(* read side (async_fifo_rptr_empty.sv) the read pointer and the empty     *)
(* flag; each sees the other's pointer through a two-flop synchronizer     *)
(* (async_fifo_SYNC_2T.sv), so always a stale one.                         *)
(*                                                                         *)
(* Pointers are kept here as the positions they stand for, on a ring of    *)
(* 2*N (one bit more than an address, async_fifo.sv).  AsyncFifoGray.tla   *)
(* is the same block with the Gray-coded bits that cross the clocks, and   *)
(* implements this module.                                                 *)
(***************************************************************************)
EXTENDS Naturals

CONSTANTS
    N,             \* words in the memory, 2^ADR_BIT
    Data,          \* the words written
    Unwritten,     \* what a memory cell holds before its first write
    EagerReader    \* may rd_req be high on the first rd_clk edge after reset?

ASSUME NAssumption == N \in Nat \ {0}
ASSUME EagerAssumption == EagerReader \in BOOLEAN

VARIABLES
    temp_wr_addr,   \* write pointer
    temp_wr_full,   \* wr_full
    r2w_1t, r2w_2t, \* read pointer on its way to the write side
    temp_addr_bin,  \* read pointer
    temp_rd_empty,  \* rd_empty
    w2r_1t, w2r_2t, \* write pointer on its way to the read side
    reg_memory,
    rd_ran          \* has rd_clk ticked since the last reset?

wr_side == << temp_wr_addr, temp_wr_full, r2w_1t, r2w_2t, reg_memory >>
rd_side == << temp_addr_bin, temp_rd_empty, w2r_1t, w2r_2t, rd_ran >>
vars == << temp_wr_addr, temp_wr_full, r2w_1t, r2w_2t, reg_memory,
           temp_addr_bin, temp_rd_empty, w2r_1t, w2r_2t, rd_ran >>

(***************************************************************************)
(* The ring of pointer values                                              *)
(***************************************************************************)
Ptr == 0 .. 2*N - 1

\* Mutated: the adder keeps its carry.
IncNoWrap(p) == p + 1

\* The next pointer value; the adder drops its carry.
Inc(p) == IF p = 2*N - 1 THEN 0 ELSE p + 1

\* How far to is ahead of from on the ring.
Ahead(to, from) == IF to >= from THEN to - from ELSE to + 2*N - from

\* The memory address in a pointer: all but its top bit.
Slot(p) == IF p >= N THEN p - N ELSE p

(***************************************************************************)
(* Clock edges                                                             *)
(***************************************************************************)
Init == /\ temp_wr_addr = 0 /\ temp_wr_full = FALSE
        /\ r2w_1t = 0 /\ r2w_2t = 0
        /\ temp_addr_bin = 0 /\ temp_rd_empty = FALSE
        /\ w2r_1t = 0 /\ w2r_2t = 0
        /\ reg_memory = [a \in 0 .. N-1 |-> Unwritten]
        /\ rd_ran = FALSE

\* The pointers that the next edges will load.
WrNext(wr_req) == IF wr_req /\ ~temp_wr_full THEN Inc(temp_wr_addr)
                                             ELSE temp_wr_addr
RdNext(rd_req) == IF rd_req /\ ~temp_rd_empty THEN Inc(temp_addr_bin)
                                              ELSE temp_addr_bin

\* Mutated: full judged by the pointer before the edge.
WrEdgeFullLate(wr_req, wr_data, rptr) ==
    /\ temp_wr_addr' = WrNext(wr_req)
    /\ temp_wr_full' = (Ahead(temp_wr_addr, r2w_2t) = N)
    /\ reg_memory' = IF wr_req /\ ~temp_wr_full
                     THEN [reg_memory EXCEPT ![Slot(temp_wr_addr)] = wr_data]
                     ELSE reg_memory
    /\ r2w_1t' = rptr
    /\ r2w_2t' = r2w_1t

\* Mutated: the word goes where the pointer is going, not where it was.
WrEdgeNextCell(wr_req, wr_data, rptr) ==
    /\ temp_wr_addr' = WrNext(wr_req)
    /\ temp_wr_full' = (Ahead(WrNext(wr_req), r2w_2t) = N)
    /\ reg_memory' = IF wr_req /\ ~temp_wr_full
                     THEN [reg_memory EXCEPT ![Slot(WrNext(wr_req))] = wr_data]
                     ELSE reg_memory
    /\ r2w_1t' = rptr
    /\ r2w_2t' = r2w_1t

\* Mutated: full recomputed only by an accepted write.
WrEdgeFullSticks(wr_req, wr_data, rptr) ==
    /\ temp_wr_addr' = WrNext(wr_req)
    /\ temp_wr_full' = IF wr_req /\ ~temp_wr_full
                       THEN Ahead(WrNext(wr_req), r2w_2t) = N
                       ELSE temp_wr_full
    /\ reg_memory' = IF wr_req /\ ~temp_wr_full
                     THEN [reg_memory EXCEPT ![Slot(temp_wr_addr)] = wr_data]
                     ELSE reg_memory
    /\ r2w_1t' = rptr
    /\ r2w_2t' = r2w_1t

\* A wr_clk edge.  rptr is what the first synchronizer flop catches.  Full is
\* judged by the pointer being loaded, against what the second flop held
\* before the edge.
WrEdge(wr_req, wr_data, rptr) ==
    /\ temp_wr_addr' = WrNext(wr_req)
    /\ temp_wr_full' = (Ahead(WrNext(wr_req), r2w_2t) = N)
    /\ reg_memory' = IF wr_req /\ ~temp_wr_full
                     THEN [reg_memory EXCEPT ![Slot(temp_wr_addr)] = wr_data]
                     ELSE reg_memory
    /\ r2w_1t' = rptr
    /\ r2w_2t' = r2w_1t

\* Mutated: empty judged by the pointer before the edge.
RdEdgeEmptyLate(rd_req, wptr) ==
    /\ rd_req => rd_ran \/ EagerReader
    /\ temp_addr_bin' = RdNext(rd_req)
    /\ temp_rd_empty' = (temp_addr_bin = w2r_2t)
    /\ w2r_1t' = wptr
    /\ w2r_2t' = w2r_1t
    /\ rd_ran' = TRUE

\* Mutated: the write pointer is sampled only by an accepted read.
RdEdgeSyncSticks(rd_req, wptr) ==
    /\ rd_req => rd_ran \/ EagerReader
    /\ temp_addr_bin' = RdNext(rd_req)
    /\ temp_rd_empty' = (RdNext(rd_req) = w2r_2t)
    /\ w2r_1t' = IF rd_req /\ ~temp_rd_empty THEN wptr ELSE w2r_1t
    /\ w2r_2t' = w2r_1t
    /\ rd_ran' = TRUE

\* A rd_clk edge.  rd_data shows the word at the read pointer throughout, so
\* taking it is moving the pointer on.
RdEdge(rd_req, wptr) ==
    /\ rd_req => rd_ran \/ EagerReader
    /\ temp_addr_bin' = RdNext(rd_req)
    /\ temp_rd_empty' = (RdNext(rd_req) = w2r_2t)
    /\ w2r_1t' = wptr
    /\ w2r_2t' = w2r_1t
    /\ rd_ran' = TRUE

WrClk == /\ \E wr_req \in BOOLEAN, d \in Data : WrEdge(wr_req, d, temp_addr_bin)
         /\ UNCHANGED rd_side

RdClk == /\ \E rd_req \in BOOLEAN : RdEdge(rd_req, temp_wr_addr)
         /\ UNCHANGED wr_side

\* Both clocks at once: each synchronizer samples a pointer that is changing
\* and settles on its old or its new value.
BothClk == \E wr_req, rd_req \in BOOLEAN, d \in Data :
    /\ \E rptr \in {temp_addr_bin, RdNext(rd_req)} : WrEdge(wr_req, d, rptr)
    /\ \E wptr \in {temp_wr_addr, WrNext(wr_req)} : RdEdge(rd_req, wptr)

\* wr_rst_n and rd_rst_n asserted together, at any time.  The memory keeps
\* its words.  Releasing one before the other is one side's clock standing
\* still.
Reset == /\ temp_wr_addr' = 0 /\ temp_wr_full' = FALSE
         /\ r2w_1t' = 0 /\ r2w_2t' = 0
         /\ temp_addr_bin' = 0 /\ temp_rd_empty' = FALSE
         /\ w2r_1t' = 0 /\ w2r_2t' = 0
         /\ rd_ran' = FALSE
         /\ UNCHANGED reg_memory

Next == WrClk \/ RdClk \/ BothClk \/ Reset

Spec == Init /\ [][Next]_vars

\* Edges without a request.
WrIdle == /\ \E d \in Data : WrEdge(FALSE, d, temp_addr_bin)
          /\ UNCHANGED rd_side
RdIdle == RdEdge(FALSE, temp_wr_addr) /\ UNCHANGED wr_side

\* Both clocks keep running: while a side has something to do of its own
\* accord, its edges come.  Nobody is made to request anything, as weak
\* fairness of the edges would.
FairSpec == /\ Spec
            /\ <>[](ENABLED << WrIdle >>_vars) => []<><< WrClk \/ BothClk >>_vars
            /\ <>[](ENABLED << RdIdle >>_vars) => []<><< RdClk \/ BothClk >>_vars

(***************************************************************************)
(* Properties                                                              *)
(***************************************************************************)
TypeOK == /\ temp_wr_addr \in Ptr /\ temp_addr_bin \in Ptr
          /\ r2w_1t \in Ptr /\ r2w_2t \in Ptr
          /\ w2r_1t \in Ptr /\ w2r_2t \in Ptr
          /\ temp_wr_full \in BOOLEAN /\ temp_rd_empty \in BOOLEAN
          /\ rd_ran \in BOOLEAN
          /\ reg_memory \in [0 .. N-1 -> Data \union {Unwritten}]

Occupancy == Ahead(temp_wr_addr, temp_addr_bin)

\* The flags, computed from stale pointers, never promise what is not there:
\* a low wr_full means a free cell, a low rd_empty a word to read (once the
\* read side has run), and the pointers never pass each other.
FlagsSafe == /\ Occupancy <= N
             /\ ~temp_wr_full => Occupancy < N
             /\ ~temp_rd_empty /\ rd_ran => Occupancy > 0

\* Seen from the oldest read pointer in flight, the pointers lie in this
\* order, within one memory's length.  With FlagsKnown this is inductive.
Chain == LET Seen(p) == Ahead(p, r2w_2t)
         IN  /\ Seen(r2w_1t) <= Seen(temp_addr_bin)
             /\ Seen(temp_addr_bin) <= Seen(w2r_2t)
             /\ Seen(w2r_2t) <= Seen(w2r_1t)
             /\ Seen(w2r_1t) <= Seen(temp_wr_addr)
             /\ Seen(temp_wr_addr) <= N

FlagsKnown == /\ ~temp_wr_full => Ahead(temp_wr_addr, r2w_2t) < N
              /\ ~temp_rd_empty /\ rd_ran => temp_addr_bin # w2r_2t
              /\ ~rd_ran => temp_addr_bin = 0 /\ w2r_1t = 0 /\ w2r_2t = 0

IInv == TypeOK /\ Chain /\ FlagsKnown

\* The words between the pointers, oldest first, are the abstract queue:
\* accepted writes append to it, accepted reads take its head, and nothing
\* else touches it (async_fifo.sv, async_fifo_memory.sv).
Contents == [i \in 1 .. Occupancy |->
                reg_memory[Slot((temp_addr_bin + i - 1) % (2*N))]]

Abs == INSTANCE Fifo WITH queue <- Contents, Depth <- N
IsFifo == Abs!Spec

\* A word that is in the memory is not hidden for ever by a stale empty flag,
\* and a free cell not for ever by a stale full flag.
WordSeen == (Occupancy > 0) ~> (~temp_rd_empty \/ Occupancy = 0)
CellSeen == (Occupancy < N) ~> (~temp_wr_full \/ Occupancy = N)

\* async_fifo_rptr_empty.sv:76, "FIFO empty ... or on reset": the first edge
\* after a reset pops nothing.
EmptyOnReset == [][~rd_ran /\ rd_ran' => temp_addr_bin' = temp_addr_bin]_vars

===============================================================================
