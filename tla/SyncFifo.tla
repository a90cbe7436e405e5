------------------------------- MODULE SyncFifo -------------------------------
(***************************************************************************)
(* dip_sync_fifo/sync_fifo.v: a FIFO on one clock.  A word read is in the  *)
(* output register from the next clock on.  The pre_full and pre_empty     *)
(* outputs, which look two words ahead, drive nothing and are left out.    *)
(* Beside it, the FIFO of the same name on a RAM with a single port        *)
(* (sync_fifo.sv), which shares all but its requests.                      *)
(***************************************************************************)
EXTENDS Naturals

CONSTANTS
    N,          \* words in the memory, 2^ADR_BIT: at least one
    Data,
    Unwritten   \* what a register without a reset holds at power-up

VARIABLES
    wptr, rptr,     \* one bit wider than an address
    fifo,
    data_out

vars == << wptr, rptr, fifo, data_out >>

Ptr == 0 .. 2*N - 1
Slot(p) == p % N
Next2N(p) == (p + 1) % (2*N)

wrap_around == (wptr >= N) # (rptr >= N)

full == wrap_around /\ Slot(wptr) = Slot(rptr)
empty == ~wrap_around /\ Slot(wptr) = Slot(rptr)

Init == /\ wptr = 0 /\ rptr = 0
        /\ fifo = [a \in 0 .. N-1 |-> Unwritten] /\ data_out = Unwritten

Write(wr_en, data_in) ==
    IF wr_en /\ ~full
    THEN fifo' = [fifo EXCEPT ![Slot(wptr)] = data_in] /\ wptr' = Next2N(wptr)
    ELSE UNCHANGED << fifo, wptr >>

\* Mutated: an empty FIFO is read.
ReadUnguarded(rd_en) ==
    IF rd_en
    THEN data_out' = fifo[Slot(rptr)] /\ rptr' = Next2N(rptr)
    ELSE UNCHANGED << data_out, rptr >>

Read(rd_en) ==
    IF rd_en /\ ~empty
    THEN data_out' = fifo[Slot(rptr)] /\ rptr' = Next2N(rptr)
    ELSE UNCHANGED << data_out, rptr >>

Clk == \E wr_en, rd_en \in BOOLEAN, data_in \in Data :
           Write(wr_en, data_in) /\ Read(rd_en)

Reset == wptr' = 0 /\ rptr' = 0 /\ UNCHANGED << fifo, data_out >>

Next == Clk \/ Reset

Spec == Init /\ [][Next]_vars

\* The RAM's port serves one request of a clock.  What its output shows after
\* a write is the RAM's own affair.
PortClk == \E cs_en, wr_en \in BOOLEAN, data_in \in Data :
    LET wr_actual == cs_en /\ wr_en /\ ~full
        rd_actual == ~wr_actual /\ cs_en /\ ~wr_en /\ wptr # rptr
    IN  /\ IF wr_actual
           THEN fifo' = [fifo EXCEPT ![Slot(wptr)] = data_in] /\ wptr' = Next2N(wptr)
           ELSE UNCHANGED << fifo, wptr >>
        /\ rptr' = IF rd_actual THEN Next2N(rptr) ELSE rptr
        /\ data_out' \in IF wr_actual THEN Data \union {Unwritten}
                          ELSE {IF rd_actual THEN fifo[Slot(rptr)] ELSE data_out}

PortSpec == Init /\ [][PortClk \/ Reset]_vars

Occupancy == (wptr + 2*N - rptr) % (2*N)

Contents == [i \in 1 .. Occupancy |-> fifo[Slot(rptr + i - 1)]]

Abs == INSTANCE Fifo WITH queue <- Contents, Depth <- N

\* The words between the pointers are a bounded queue: no write overflows it
\* and no read takes from it what is not there.
IsFifo == Abs!Spec
===============================================================================
