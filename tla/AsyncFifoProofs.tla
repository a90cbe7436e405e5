---------------------------- MODULE AsyncFifoProofs ----------------------------
(***************************************************************************)
(* For every depth N and every data set, an asynchronous FIFO whose reader *)
(* waits out the first rd_clk edge after a reset neither overflows nor     *)
(* underflows, whatever the two clocks do.                                 *)
(***************************************************************************)
EXTENDS AsyncFifo, RingLemmas

(***************************************************************************)
(* The ring                                                                *)
(***************************************************************************)

\* Inc and Ahead stay on the ring.
LEMMA RingType ==
    ASSUME NEW p \in Ptr, NEW q \in Ptr
    PROVE  Inc(p) \in Ptr /\ Ahead(p, q) \in Ptr
  BY NAssumption DEF Ptr, Inc, Ahead

\* Gaps are numbers.
LEMMA AheadNat ==
    ASSUME NEW p \in Ptr, NEW q \in Ptr
    PROVE  Ahead(p, q) \in Nat
  BY NAssumption DEF Ptr, Ahead

\* The pointers' reset value is on the ring.
LEMMA ZeroInPtr == 0 \in Ptr
  BY NAssumption DEF Ptr

\* Nothing lies between a pointer and itself.
LEMMA ZeroGap == Ahead(0, 0) = 0
  BY DEF Ahead

\* Two pointers equally far from a third are the same.
LEMMA SameGap ==
    ASSUME NEW p \in Ptr, NEW q \in Ptr, NEW o \in Ptr, Ahead(p, o) = Ahead(q, o)
    PROVE  p = q
  BY NAssumption DEF Ptr, Ahead

\* Measured from a pointer n further on, two pointers beyond it keep their
\* order and come no farther away.
LEMMA OrderKept ==
    ASSUME NEW o \in Ptr, NEW n \in Ptr, NEW p \in Ptr, NEW q \in Ptr,
           Ahead(n, o) <= Ahead(p, o), Ahead(p, o) <= Ahead(q, o)
    PROVE  Ahead(p, n) <= Ahead(q, n) /\ Ahead(q, n) <= Ahead(q, o)
  BY NAssumption DEF Ptr, Ahead

(***************************************************************************)
(* One edge of each side                                                   *)
(***************************************************************************)

\* The pointer a wr_clk edge loads is on the ring, not behind the old one and
\* within one memory's length of the read pointer the write side knows of:
\* async_fifo_wptr_full.sv moves it only while wr_full is low.
LEMMA WrAdvance ==
    ASSUME IInv, NEW wr_req \in BOOLEAN
    PROVE  /\ WrNext(wr_req) \in Ptr
           /\ Ahead(temp_wr_addr, r2w_2t) <= Ahead(WrNext(wr_req), r2w_2t)
           /\ Ahead(WrNext(wr_req), r2w_2t) <= N
  <1>1. CASE wr_req /\ ~temp_wr_full
    <2>1. WrNext(wr_req) = Inc(temp_wr_addr)
      BY <1>1 DEF WrNext
    <2>2. Ahead(temp_wr_addr, r2w_2t) < N
      BY <1>1 DEF IInv, FlagsKnown
    <2> QED
      BY <2>1, <2>2, NAssumption DEF IInv, TypeOK, Ptr, Ahead, Inc
  <1>2. CASE ~(wr_req /\ ~temp_wr_full)
    <2>1. WrNext(wr_req) = temp_wr_addr
      BY <1>2 DEF WrNext
    <2> QED
      BY <2>1, NAssumption DEF IInv, TypeOK, Chain, Ptr, Ahead
  <1> QED
    BY <1>1, <1>2

\* The pointer a rd_clk edge loads is on the ring, not behind the old one and
\* not past the write pointer the read side knows of: async_fifo_rptr_empty.sv
\* moves it only while rd_empty is low, and rd_empty is not to be trusted
\* before the first edge after a reset, when a patient reader asks nothing.
LEMMA RdAdvance ==
    ASSUME IInv, EagerReader = FALSE, NEW rd_req \in BOOLEAN,
           rd_req => rd_ran \/ EagerReader
    PROVE  /\ RdNext(rd_req) \in Ptr
           /\ Ahead(temp_addr_bin, r2w_2t) <= Ahead(RdNext(rd_req), r2w_2t)
           /\ Ahead(RdNext(rd_req), r2w_2t) <= Ahead(w2r_2t, r2w_2t)
  <1>0. Ahead(temp_addr_bin, r2w_2t) <= Ahead(w2r_2t, r2w_2t)
    BY DEF IInv, Chain
  <1>1. CASE rd_req /\ ~temp_rd_empty
    <2>1. RdNext(rd_req) = Inc(temp_addr_bin)
      BY <1>1 DEF RdNext
    <2>2. temp_addr_bin # w2r_2t
      BY <1>1 DEF IInv, FlagsKnown
    <2> QED
      BY <1>0, <2>1, <2>2, NAssumption DEF IInv, TypeOK, Ptr, Ahead, Inc
  <1>2. CASE ~(rd_req /\ ~temp_rd_empty)
    <2>1. RdNext(rd_req) = temp_addr_bin
      BY <1>2 DEF RdNext
    <2> QED
      BY <1>0, <2>1, NAssumption DEF IInv, TypeOK, Ptr, Ahead
  <1> QED
    BY <1>1, <1>2

(***************************************************************************)
(* The inductive invariant                                                 *)
(***************************************************************************)

\* Memory stays a function from addresses to words.
LEMMA MemoryType ==
    ASSUME TypeOK, NEW wr_req \in BOOLEAN, NEW d \in Data, NEW rptr,
           WrEdge(wr_req, d, rptr)
    PROVE  reg_memory' \in [0 .. N-1 -> Data \union {Unwritten}]
  BY NAssumption DEF TypeOK, WrEdge

\* A wr_clk edge that catches rptr, which may be moving too.
LEMMA WrEdgeKeeps ==
    ASSUME IInv, NEW wr_req \in BOOLEAN, NEW d \in Data, NEW rptr \in Ptr,
           WrEdge(wr_req, d, rptr)
    PROVE  /\ temp_wr_addr' \in Ptr /\ r2w_1t' \in Ptr /\ r2w_2t' \in Ptr
           /\ temp_wr_full' \in BOOLEAN
           /\ reg_memory' \in [0 .. N-1 -> Data \union {Unwritten}]
           /\ Ahead(temp_wr_addr, r2w_2t) <= Ahead(temp_wr_addr', r2w_2t)
           /\ Ahead(temp_wr_addr', r2w_2t) <= N
           /\ ~temp_wr_full' => Ahead(temp_wr_addr', r2w_2t) < N
  <1>1. /\ temp_wr_addr' \in Ptr /\ r2w_1t' \in Ptr /\ r2w_2t' \in Ptr
        /\ temp_wr_full' \in BOOLEAN
    BY WrAdvance DEF IInv, TypeOK, WrEdge
  <1>2. reg_memory' \in [0 .. N-1 -> Data \union {Unwritten}]
    BY MemoryType DEF IInv
  <1>3. /\ Ahead(temp_wr_addr, r2w_2t) <= Ahead(temp_wr_addr', r2w_2t)
        /\ Ahead(temp_wr_addr', r2w_2t) <= N
    BY WrAdvance DEF WrEdge
  <1>4. ~temp_wr_full' => Ahead(temp_wr_addr', r2w_2t) # N
    BY DEF WrEdge
  <1>5. Ahead(temp_wr_addr', r2w_2t) \in Ptr
    BY <1>1, RingType DEF IInv, TypeOK
  <1> QED
    BY <1>1, <1>2, <1>3, <1>4, <1>5, NAssumption DEF Ptr

\* A rd_clk edge that catches wptr, which may be moving too.
LEMMA RdEdgeKeeps ==
    ASSUME IInv, EagerReader = FALSE, NEW rd_req \in BOOLEAN, NEW wptr \in Ptr,
           RdEdge(rd_req, wptr)
    PROVE  /\ temp_addr_bin' \in Ptr /\ w2r_1t' \in Ptr /\ w2r_2t' \in Ptr
           /\ temp_rd_empty' \in BOOLEAN /\ rd_ran' \in BOOLEAN
           /\ Ahead(temp_addr_bin, r2w_2t) <= Ahead(temp_addr_bin', r2w_2t)
           /\ Ahead(temp_addr_bin', r2w_2t) <= Ahead(w2r_2t, r2w_2t)
           /\ Ahead(w2r_2t, r2w_2t) <= Ahead(w2r_2t', r2w_2t)
           /\ ~temp_rd_empty' => temp_addr_bin' # w2r_2t'
           /\ rd_ran'
  <1>1. rd_req => rd_ran \/ EagerReader
    BY DEF RdEdge
  <1>2. /\ temp_addr_bin' \in Ptr /\ w2r_1t' \in Ptr /\ w2r_2t' \in Ptr
        /\ temp_rd_empty' \in BOOLEAN /\ rd_ran'
        /\ ~temp_rd_empty' => temp_addr_bin' # w2r_2t
    BY <1>1, RdAdvance DEF IInv, TypeOK, RdEdge
  <1>3. /\ Ahead(temp_addr_bin, r2w_2t) <= Ahead(temp_addr_bin', r2w_2t)
        /\ Ahead(temp_addr_bin', r2w_2t) <= Ahead(w2r_2t, r2w_2t)
    BY <1>1, RdAdvance DEF RdEdge
  <1>4. Ahead(w2r_2t, r2w_2t) <= Ahead(w2r_2t', r2w_2t)
    BY DEF IInv, Chain, RdEdge
  <1>5. ASSUME temp_addr_bin' = w2r_2t' PROVE temp_addr_bin' = w2r_2t
    <2>1. w2r_2t \in Ptr /\ r2w_2t \in Ptr /\ temp_addr_bin' \in Ptr
      BY <1>2 DEF IInv, TypeOK
    <2>2. Ahead(temp_addr_bin', r2w_2t) = Ahead(w2r_2t, r2w_2t)
      BY <1>3, <1>4, <1>5, <2>1, AheadNat
    <2> QED
      BY <2>1, <2>2, SameGap
  <1> QED
    BY <1>2, <1>3, <1>4, <1>5 DEF RdEdge

\* If, measured from the pointer the write side knew before the step, the
\* pointers after the step are in order, they are still so measured from the
\* pointer it knows now.
LEMMA ChainRebase ==
    ASSUME TypeOK, TypeOK',
           Ahead(r2w_2t', r2w_2t) <= Ahead(r2w_1t', r2w_2t),
           Ahead(r2w_1t', r2w_2t) <= Ahead(temp_addr_bin', r2w_2t),
           Ahead(temp_addr_bin', r2w_2t) <= Ahead(w2r_2t', r2w_2t),
           Ahead(w2r_2t', r2w_2t) <= Ahead(w2r_1t', r2w_2t),
           Ahead(w2r_1t', r2w_2t) <= Ahead(temp_wr_addr', r2w_2t),
           Ahead(temp_wr_addr', r2w_2t) <= N
    PROVE  Chain' /\ Ahead(temp_wr_addr', r2w_2t') <= Ahead(temp_wr_addr', r2w_2t)
  <1>1. /\ r2w_2t \in Ptr /\ r2w_2t' \in Ptr /\ r2w_1t' \in Ptr
        /\ temp_addr_bin' \in Ptr /\ w2r_2t' \in Ptr /\ w2r_1t' \in Ptr
        /\ temp_wr_addr' \in Ptr
    BY DEF TypeOK
  <1>2. /\ Ahead(r2w_1t', r2w_2t') <= Ahead(temp_addr_bin', r2w_2t')
        /\ Ahead(temp_addr_bin', r2w_2t') <= Ahead(w2r_2t', r2w_2t')
    BY <1>1, OrderKept, AheadNat
  <1>3. /\ Ahead(w2r_2t', r2w_2t') <= Ahead(w2r_1t', r2w_2t')
        /\ Ahead(w2r_1t', r2w_2t') <= Ahead(temp_wr_addr', r2w_2t')
    BY <1>1, OrderKept, AheadNat
  <1>4. Ahead(temp_wr_addr', r2w_2t') <= Ahead(temp_wr_addr', r2w_2t)
    BY <1>1, OrderKept, AheadNat
  <1>5. Ahead(temp_wr_addr', r2w_2t') <= N
    BY <1>1, <1>4, AheadNat, NAssumption
  <1> QED
    BY <1>2, <1>3, <1>4, <1>5 DEF Chain

LEMMA WrClkKeeps ==
    ASSUME IInv, WrClk
    PROVE  IInv'
  <1>1. PICK wr_req \in BOOLEAN, d \in Data : WrEdge(wr_req, d, temp_addr_bin)
    BY DEF WrClk
  <1>2. UNCHANGED rd_side
    BY DEF WrClk
  <1>3. temp_addr_bin \in Ptr
    BY DEF IInv, TypeOK
  <1>4. TypeOK'
    BY <1>1, <1>2, <1>3, WrEdgeKeeps DEF IInv, TypeOK, rd_side
  <1>5. Chain' /\ Ahead(temp_wr_addr', r2w_2t') <= Ahead(temp_wr_addr', r2w_2t)
    <2>1. r2w_2t' = r2w_1t /\ r2w_1t' = temp_addr_bin
      BY <1>1 DEF WrEdge
    <2>2. /\ Ahead(temp_wr_addr, r2w_2t) <= Ahead(temp_wr_addr', r2w_2t)
          /\ Ahead(temp_wr_addr', r2w_2t) <= N
      BY <1>1, <1>3, WrEdgeKeeps
    <2>3. Ahead(w2r_1t', r2w_2t) <= Ahead(temp_wr_addr', r2w_2t)
      <3>1. w2r_1t' = w2r_1t /\ Ahead(w2r_1t, r2w_2t) <= Ahead(temp_wr_addr, r2w_2t)
        BY <1>2 DEF IInv, Chain, rd_side
      <3>2. /\ w2r_1t \in Ptr /\ temp_wr_addr \in Ptr /\ r2w_2t \in Ptr
            /\ temp_wr_addr' \in Ptr
        BY <1>4 DEF IInv, TypeOK
      <3> QED
        BY <2>2, <3>1, <3>2, AheadNat
    <2>4. /\ Ahead(r2w_2t', r2w_2t) <= Ahead(r2w_1t', r2w_2t)
          /\ Ahead(r2w_1t', r2w_2t) <= Ahead(temp_addr_bin', r2w_2t)
          /\ Ahead(temp_addr_bin', r2w_2t) <= Ahead(w2r_2t', r2w_2t)
          /\ Ahead(w2r_2t', r2w_2t) <= Ahead(w2r_1t', r2w_2t)
      BY <1>2, <1>4, <2>1, NAssumption DEF IInv, TypeOK, Chain, rd_side, Ptr, Ahead
    <2> QED
      BY <1>4, <2>2, <2>3, <2>4, ChainRebase DEF IInv
  <1>6. FlagsKnown'
    <2>1. ~temp_wr_full' => Ahead(temp_wr_addr', r2w_2t) < N
      BY <1>1, <1>3, WrEdgeKeeps
    <2>2. temp_wr_addr' \in Ptr /\ r2w_2t \in Ptr /\ r2w_2t' \in Ptr
      BY <1>4 DEF IInv, TypeOK
    <2>3. ~temp_wr_full' => Ahead(temp_wr_addr', r2w_2t') < N
      BY <1>5, <2>1, <2>2, AheadNat, NAssumption
    <2> QED
      BY <1>2, <2>3 DEF IInv, FlagsKnown, rd_side
  <1> QED
    BY <1>4, <1>5, <1>6 DEF IInv

LEMMA RdClkKeeps ==
    ASSUME IInv, EagerReader = FALSE, RdClk
    PROVE  IInv'
  <1>1. PICK rd_req \in BOOLEAN : RdEdge(rd_req, temp_wr_addr)
    BY DEF RdClk
  <1>2. UNCHANGED wr_side
    BY DEF RdClk
  <1>3. temp_wr_addr \in Ptr
    BY DEF IInv, TypeOK
  <1>4. TypeOK'
    BY <1>1, <1>2, <1>3, RdEdgeKeeps DEF IInv, TypeOK, wr_side
  <1>5. Chain'
    <2>1. w2r_2t' = w2r_1t /\ w2r_1t' = temp_wr_addr
      BY <1>1 DEF RdEdge
    <2>2. /\ Ahead(temp_addr_bin, r2w_2t) <= Ahead(temp_addr_bin', r2w_2t)
          /\ Ahead(temp_addr_bin', r2w_2t) <= Ahead(w2r_2t, r2w_2t)
          /\ Ahead(w2r_2t, r2w_2t) <= Ahead(w2r_2t', r2w_2t)
      BY <1>1, <1>3, RdEdgeKeeps
    <2>3. /\ r2w_2t \in Ptr /\ r2w_1t \in Ptr /\ temp_addr_bin \in Ptr
          /\ w2r_2t \in Ptr /\ temp_addr_bin' \in Ptr /\ w2r_2t' \in Ptr
      BY <1>4 DEF IInv, TypeOK
    <2>4. Ahead(r2w_1t, r2w_2t) <= Ahead(temp_addr_bin', r2w_2t)
      BY <2>2, <2>3, AheadNat DEF IInv, Chain
    <2>5. Ahead(temp_addr_bin', r2w_2t) <= Ahead(w2r_2t', r2w_2t)
      BY <2>2, <2>3, AheadNat
    <2>6. /\ Ahead(w2r_1t, r2w_2t) <= Ahead(temp_wr_addr, r2w_2t)
          /\ Ahead(temp_wr_addr, r2w_2t) <= Ahead(temp_wr_addr, r2w_2t)
          /\ Ahead(temp_wr_addr, r2w_2t) <= N
      BY <1>3, <2>3, AheadNat DEF IInv, Chain
    <2> QED
      BY <1>2, <2>1, <2>4, <2>5, <2>6 DEF Chain, wr_side
  <1>6. FlagsKnown'
    BY <1>1, <1>2, <1>3, RdEdgeKeeps DEF IInv, FlagsKnown, wr_side
  <1> QED
    BY <1>4, <1>5, <1>6 DEF IInv

LEMMA BothClkKeeps ==
    ASSUME IInv, EagerReader = FALSE, BothClk
    PROVE  IInv'
  <1>a. PICK wr_req \in BOOLEAN, rd_req \in BOOLEAN, d \in Data :
           /\ \E rptr \in {temp_addr_bin, RdNext(rd_req)} : WrEdge(wr_req, d, rptr)
           /\ \E wptr \in {temp_wr_addr, WrNext(wr_req)} : RdEdge(rd_req, wptr)
    BY DEF BothClk
  <1>b. PICK rptr \in {temp_addr_bin, RdNext(rd_req)} : WrEdge(wr_req, d, rptr)
    BY <1>a
  <1>c. PICK wptr \in {temp_wr_addr, WrNext(wr_req)} : RdEdge(rd_req, wptr)
    BY <1>a
  <1>1. WrEdge(wr_req, d, rptr) /\ RdEdge(rd_req, wptr)
    BY <1>b, <1>c
  <1>2. /\ rptr = temp_addr_bin \/ rptr = temp_addr_bin'
        /\ wptr = temp_wr_addr \/ wptr = temp_wr_addr'
        /\ rd_req => rd_ran \/ EagerReader
    BY <1>1 DEF WrEdge, RdEdge
  <1>3. rptr \in Ptr /\ wptr \in Ptr
    BY <1>2, <1>b, <1>c, WrAdvance, RdAdvance DEF IInv, TypeOK
  <1>4. TypeOK'
    BY <1>1, <1>3, WrEdgeKeeps, RdEdgeKeeps DEF TypeOK
  <1>5. Chain' /\ Ahead(temp_wr_addr', r2w_2t') <= Ahead(temp_wr_addr', r2w_2t)
    <2>1. /\ r2w_2t' = r2w_1t /\ r2w_1t' = rptr
          /\ w2r_2t' = w2r_1t /\ w2r_1t' = wptr
      BY <1>1 DEF WrEdge, RdEdge
    <2>2. /\ Ahead(temp_wr_addr, r2w_2t) <= Ahead(temp_wr_addr', r2w_2t)
          /\ Ahead(temp_wr_addr', r2w_2t) <= N
      BY <1>1, <1>3, WrEdgeKeeps
    <2>3. /\ Ahead(temp_addr_bin, r2w_2t) <= Ahead(temp_addr_bin', r2w_2t)
          /\ Ahead(temp_addr_bin', r2w_2t) <= Ahead(w2r_2t, r2w_2t)
          /\ Ahead(w2r_2t, r2w_2t) <= Ahead(w2r_2t', r2w_2t)
      BY <1>1, <1>3, RdEdgeKeeps
    <2>4. /\ r2w_2t \in Ptr /\ r2w_1t \in Ptr /\ temp_addr_bin \in Ptr
          /\ w2r_2t \in Ptr /\ w2r_1t \in Ptr /\ temp_wr_addr \in Ptr
          /\ temp_addr_bin' \in Ptr /\ w2r_2t' \in Ptr /\ temp_wr_addr' \in Ptr
      BY <1>4 DEF IInv, TypeOK
    <2>5. Ahead(r2w_2t', r2w_2t) <= Ahead(r2w_1t', r2w_2t)
      BY <1>2, <2>1, <2>3, <2>4, AheadNat DEF IInv, Chain
    <2>6. Ahead(r2w_1t', r2w_2t) <= Ahead(temp_addr_bin', r2w_2t)
      BY <1>2, <2>1, <2>3, <2>4, AheadNat
    <2>7. Ahead(temp_addr_bin', r2w_2t) <= Ahead(w2r_2t', r2w_2t)
      BY <2>3, <2>4, AheadNat
    <2>8. Ahead(w2r_2t', r2w_2t) <= Ahead(w2r_1t', r2w_2t)
      BY <1>2, <2>1, <2>2, <2>4, AheadNat DEF IInv, Chain
    <2>9. Ahead(w2r_1t', r2w_2t) <= Ahead(temp_wr_addr', r2w_2t)
      BY <1>2, <2>1, <2>2, <2>4, AheadNat
    <2> QED
      BY <1>4, <2>2, <2>5, <2>6, <2>7, <2>8, <2>9, ChainRebase DEF IInv
  <1>6. FlagsKnown'
    <2>1. ~temp_wr_full' => Ahead(temp_wr_addr', r2w_2t) < N
      BY <1>1, <1>3, WrEdgeKeeps
    <2>2. temp_wr_addr' \in Ptr /\ r2w_2t \in Ptr /\ r2w_2t' \in Ptr
      BY <1>4 DEF IInv, TypeOK
    <2>3. ~temp_wr_full' => Ahead(temp_wr_addr', r2w_2t') < N
      BY <1>5, <2>1, <2>2, AheadNat, NAssumption
    <2>4. rd_ran' /\ (~temp_rd_empty' => temp_addr_bin' # w2r_2t')
      BY <1>1, <1>3, RdEdgeKeeps
    <2> QED
      BY <2>3, <2>4 DEF FlagsKnown
  <1> QED
    BY <1>4, <1>5, <1>6 DEF IInv

\* The registers' reset values satisfy the invariant.
LEMMA ResetKeeps ==
    ASSUME TypeOK, Reset
    PROVE  IInv'
  <1>1. TypeOK'
    BY ZeroInPtr DEF TypeOK, Reset
  <1>2. Chain' /\ FlagsKnown'
    BY ZeroGap, NAssumption DEF Reset, Chain, FlagsKnown
  <1> QED
    BY <1>1, <1>2 DEF IInv

(***************************************************************************)
(* Theorems                                                                *)
(***************************************************************************)

\* The inductive invariant holds of every reachable state.
THEOREM Inductive == EagerReader = FALSE => (Spec => []IInv)
  <1> SUFFICES ASSUME EagerReader = FALSE PROVE Spec => []IInv
    OBVIOUS
  <1>1. Init => IInv
    <2> SUFFICES ASSUME Init PROVE IInv
      OBVIOUS
    <2>1. TypeOK
      BY ZeroInPtr DEF Init, TypeOK
    <2>2. Chain /\ FlagsKnown
      BY ZeroGap, NAssumption DEF Init, Chain, FlagsKnown
    <2> QED
      BY <2>1, <2>2 DEF IInv
  <1>2. IInv /\ [Next]_vars => IInv'
    <2> SUFFICES ASSUME IInv, [Next]_vars PROVE IInv'
      OBVIOUS
    <2>1. CASE WrClk
      BY <2>1, WrClkKeeps
    <2>2. CASE RdClk
      BY <2>2, RdClkKeeps
    <2>3. CASE BothClk
      BY <2>3, BothClkKeeps
    <2>4. CASE Reset
      BY <2>4, ResetKeeps DEF IInv
    <2>5. CASE UNCHANGED vars
      BY <2>5 DEF vars, IInv, TypeOK, Chain, FlagsKnown
    <2> QED
      BY <2>1, <2>2, <2>3, <2>4, <2>5 DEF Next
  <1> QED
    BY <1>1, <1>2, PTL DEF Spec

\* Every register keeps to its width.
THEOREM TypeCorrect == EagerReader = FALSE => (Spec => []TypeOK)
  <1>1. IInv => TypeOK
    BY DEF IInv
  <1> QED
    BY <1>1, Inductive, PTL

\* What the invariant says of the flags: now, and after a step.
LEMMA FlagsNow == IInv => FlagsSafe
  <1> SUFFICES ASSUME IInv PROVE FlagsSafe
    OBVIOUS
  <1>1. Occupancy <= N
    BY NAssumption DEF IInv, TypeOK, Chain, Occupancy, Ptr, Ahead
  <1>2. ~temp_wr_full => Occupancy < N
    BY NAssumption DEF IInv, TypeOK, Chain, FlagsKnown, Occupancy, Ptr, Ahead
  <1>3. ~temp_rd_empty /\ rd_ran => Occupancy > 0
    BY NAssumption DEF IInv, TypeOK, Chain, FlagsKnown, Occupancy, Ptr, Ahead
  <1> QED
    BY <1>1, <1>2, <1>3 DEF FlagsSafe

LEMMA FlagsThen == IInv' => FlagsSafe'
  BY FlagsNow, PTL

\* The FIFO never holds more words than its memory, never accepts a write
\* without a free cell and never gives up a word it does not hold, although
\* both flags are computed from stale pointers.
THEOREM FlagsAreSafe == EagerReader = FALSE => (Spec => []FlagsSafe)
  BY FlagsNow, Inductive, PTL

(***************************************************************************)
(* The queue                                                               *)
(***************************************************************************)

\* The words between two pointers are those of the ring.
LEMMA WordsBetween ==
    ASSUME NEW m, NEW w \in Ptr, NEW r \in Ptr, Ahead(w, r) <= N
    PROVE  [i \in 1 .. Ahead(w, r) |-> m[Slot((r + i - 1) % (2*N))]] = Words(N, m, w, r)
  <1>1. w \in 0 .. 2*N-1 /\ r \in 0 .. 2*N-1 /\ N \in Nat \ {0}
    BY NAssumption DEF Ptr
  <1>2. Ahead(w, r) = Gap(N, w, r) /\ Ahead(w, r) \in 0 .. N
    BY <1>1 DEF Ahead, Gap
  <1>3. ASSUME NEW i \in 1 .. Ahead(w, r)
        PROVE  Slot((r + i - 1) % (2*N)) = Cell(N, r, i)
    <2>1. r + i - 1 \in 0 .. (2*N + N) - 1 /\ 2*N \in Nat \ {0}
      BY <1>1, <1>2
    <2>2. (r + i - 1) % (2*N) = Turn(N, r + i - 1)
      <3>1. CASE r + i - 1 < 2*N
        <4>1. r + i - 1 \in 0 .. 2*N - 1
          BY <1>1, <2>1, <3>1
        <4>2. (r + i - 1) % (2*N) = r + i - 1
          BY <2>1, <4>1, ModSmall
        <4> QED
          BY <1>1, <3>1, <4>1, <4>2 DEF Turn
      <3>2. CASE r + i - 1 >= 2*N
        <4> DEFINE x == (r + i - 1) - 2*N
        <4>1. x \in 0 .. 2*N - 1 /\ r + i - 1 = ((2*N) * 1) + x
          BY <1>1, <2>1, <3>2
        <4> HIDE DEF x
        <4>2. (((2*N) * 1) + x) % (2*N) = x
          BY <2>1, <4>1, DivModUnique
        <4>3. Turn(N, r + i - 1) = x
          BY <3>2 DEF Turn, x
        <4> QED
          BY <4>1, <4>2, <4>3
      <3> QED
        BY <1>1, <1>2, <2>1, <3>1, <3>2
    <2> QED
      BY <2>2 DEF Cell, Slot, Fold
  <1> QED
    BY <1>2, <1>3 DEF Words

\* Now and after a step.
LEMMA ContentsAreWords ==
    ASSUME IInv, IInv'
    PROVE  /\ Contents = Words(N, reg_memory, temp_wr_addr, temp_addr_bin)
           /\ Contents' = Words(N, reg_memory', temp_wr_addr', temp_addr_bin')
           /\ Gap(N, temp_wr_addr, temp_addr_bin) = Occupancy
  <1>1. /\ temp_wr_addr \in Ptr /\ temp_addr_bin \in Ptr
        /\ temp_wr_addr' \in Ptr /\ temp_addr_bin' \in Ptr
    BY DEF IInv, TypeOK
  <1>2. Ahead(temp_wr_addr, temp_addr_bin) <= N
    BY FlagsNow DEF FlagsSafe, Occupancy
  <1>3. Ahead(temp_wr_addr', temp_addr_bin') <= N
    BY FlagsThen DEF FlagsSafe, Occupancy
  <1>4. Contents = Words(N, reg_memory, temp_wr_addr, temp_addr_bin)
    BY <1>1, <1>2, WordsBetween DEF Contents, Occupancy
  <1>5. Contents' = Words(N, reg_memory', temp_wr_addr', temp_addr_bin')
    BY <1>1, <1>3, WordsBetween DEF Contents, Occupancy
  <1> QED
    BY <1>4, <1>5 DEF Occupancy, Ahead, Gap

\* What an edge may do to each pointer and to the memory.
Wrote(d) == /\ ~temp_wr_full
            /\ temp_wr_addr' = Inc(temp_wr_addr)
            /\ reg_memory' = [reg_memory EXCEPT ![Slot(temp_wr_addr)] = d]
WroteNot == temp_wr_addr' = temp_wr_addr /\ reg_memory' = reg_memory
Took == /\ ~temp_rd_empty /\ rd_ran
        /\ temp_addr_bin' = Inc(temp_addr_bin)
TookNot == temp_addr_bin' = temp_addr_bin

\* Whatever it does is a step of the queue.
LEMMA QueueStep ==
    ASSUME IInv, IInv', NEW d \in Data \union {Unwritten},
           (Wrote(d) /\ d \in Data) \/ WroteNot,
           Took \/ TookNot
    PROVE  [Abs!Next]_Contents
  <1>1. Contents = Words(N, reg_memory, temp_wr_addr, temp_addr_bin)
    BY ContentsAreWords
  <1>2. Contents' = Words(N, reg_memory', temp_wr_addr', temp_addr_bin')
    BY ContentsAreWords
  <1>3. Gap(N, temp_wr_addr, temp_addr_bin) = Occupancy
    BY ContentsAreWords
  <1>4. Ring(N, Data \union {Unwritten}, reg_memory, temp_wr_addr, temp_addr_bin)
    BY <1>3, FlagsNow, NAssumption DEF IInv, TypeOK, Ptr, Ring, FlagsSafe
  <1>5. Moved(N, d, reg_memory, temp_wr_addr, temp_addr_bin,
              reg_memory', temp_wr_addr', temp_addr_bin')
    <2>1. /\ Inc(temp_wr_addr) = Turn(N, temp_wr_addr + 1)
          /\ Inc(temp_addr_bin) = Turn(N, temp_addr_bin + 1)
          /\ Slot(temp_wr_addr) = Fold(N, temp_wr_addr)
      BY NAssumption DEF IInv, TypeOK, Ptr, Inc, Turn, Slot, Fold
    <2>2. /\ ~temp_wr_full => Gap(N, temp_wr_addr, temp_addr_bin) < N
          /\ ~temp_rd_empty /\ rd_ran => Gap(N, temp_wr_addr, temp_addr_bin) > 0
      BY <1>3, FlagsNow DEF FlagsSafe
    <2> QED
      BY <2>1, <2>2 DEF Wrote, WroteNot, Took, TookNot, Moved
  <1>6. Queued(N, d, Contents, Contents', temp_wr_addr' # temp_wr_addr,
               temp_addr_bin' # temp_addr_bin)
    BY <1>1, <1>2, <1>4, <1>5, RingStep
  <1>7. temp_wr_addr' # temp_wr_addr => d \in Data
    BY DEF WroteNot
  <1> QED
    BY <1>6, <1>7 DEF Queued, After, Abs!Next, Abs!Put, Abs!Take, Abs!PutAndTake

\* A FIFO between two clocks is a bounded queue: accepted writes append to
\* it, accepted reads take its head, in one order that both sides see, and no
\* word is lost, doubled or overwritten, whatever the two clocks do
\* (async_fifo.sv, async_fifo_memory.sv).
THEOREM ImplementsFifo == EagerReader = FALSE => (Spec => IsFifo)
  <1> SUFFICES ASSUME EagerReader = FALSE PROVE Spec => IsFifo
    OBVIOUS
  <1>1. Init => Abs!Init
    <2> SUFFICES ASSUME Init PROVE Contents = << >>
      BY DEF Abs!Init
    <2>1. Occupancy = 0
      BY ZeroGap DEF Init, Occupancy
    <2> QED
      BY <2>1 DEF Contents
  <1>2. IInv /\ IInv' /\ [Next]_vars => [Abs!Next]_Contents
    <2> SUFFICES ASSUME IInv, IInv', [Next]_vars PROVE [Abs!Next]_Contents
      OBVIOUS
    <2>1. CASE WrClk
      <3>1. PICK wr_req \in BOOLEAN, d \in Data : WrEdge(wr_req, d, temp_addr_bin)
        BY <2>1 DEF WrClk
      <3>2. Wrote(d) \/ WroteNot
        BY <3>1 DEF WrEdge, WrNext, Wrote, WroteNot
      <3>3. TookNot
        BY <2>1 DEF WrClk, rd_side, TookNot
      <3> QED
        BY <3>2, <3>3, QueueStep
    <2>2. CASE RdClk
      <3>1. PICK rd_req \in BOOLEAN : RdEdge(rd_req, temp_wr_addr)
        BY <2>2 DEF RdClk
      <3>2. Took \/ TookNot
        BY <3>1 DEF RdEdge, RdNext, Took, TookNot
      <3>3. WroteNot
        BY <2>2 DEF RdClk, wr_side, WroteNot
      <3> QED
        BY <3>2, <3>3, QueueStep
    <2>3. CASE BothClk
      <3>1. PICK wr_req \in BOOLEAN, rd_req \in BOOLEAN, d \in Data :
               /\ \E rptr \in {temp_addr_bin, RdNext(rd_req)} : WrEdge(wr_req, d, rptr)
               /\ \E wptr \in {temp_wr_addr, WrNext(wr_req)} : RdEdge(rd_req, wptr)
        BY <2>3 DEF BothClk
      <3>2. Wrote(d) \/ WroteNot
        BY <3>1 DEF WrEdge, WrNext, Wrote, WroteNot
      <3>3. Took \/ TookNot
        BY <3>1 DEF RdEdge, RdNext, Took, TookNot
      <3> QED
        BY <3>2, <3>3, QueueStep
    <2>4. CASE Reset
      <3>1. Occupancy' = 0
        BY <2>4, ZeroGap DEF Reset, Occupancy
      <3>2. Contents' = << >>
        BY <3>1 DEF Contents
      <3> QED
        BY <3>2 DEF Abs!Next, Abs!Clear
    <2>5. CASE UNCHANGED vars
      BY <2>5 DEF vars, Contents, Occupancy
    <2> QED
      BY <2>1, <2>2, <2>3, <2>4, <2>5 DEF Next
  <1> QED
    BY <1>1, <1>2, Inductive, PTL DEF Spec, IsFifo, Abs!Spec
===============================================================================
