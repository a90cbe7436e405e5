----------------------------- MODULE AluCopProofs ------------------------------
(***************************************************************************)
(* The FIFOs on one clock are bounded queues, alone, for every depth and   *)
(* every kind of word, and filled and emptied by the arithmetic            *)
(* coprocessor's pipeline.  The coprocessor as a whole is one too, for     *)
(* every set of operations and every user with no more of them under way   *)
(* than a FIFO has words.                                                  *)
(***************************************************************************)
EXTENDS AluCop, RingLemmas, SequenceTheorems

(***************************************************************************)
(* A FIFO on one clock, alone, for any words                               *)
(***************************************************************************)
Sync(Word, Blank) == INSTANCE SyncFifo WITH
    Data <- Word, Unwritten <- Blank,
    wptr <- pre_wptr, rptr <- pre_rptr, fifo <- pre_mem, data_out <- prf_data_out

SyncRing(Word, Blank) == Ring(N, Word \union {Blank}, pre_mem, pre_wptr, pre_rptr)

\* Full and empty tell N words and none from all numbers in between, and the
\* contents are the words of the ring.
LEMMA SyncWires ==
    ASSUME NEW Word, NEW Blank, SyncRing(Word, Blank)
    PROVE  /\ Sync(Word, Blank)!full <=> Gap(N, pre_wptr, pre_rptr) = N
           /\ Sync(Word, Blank)!empty <=> Gap(N, pre_wptr, pre_rptr) = 0
           /\ pre_wptr = pre_rptr <=> Gap(N, pre_wptr, pre_rptr) = 0
           /\ Gap(N, pre_wptr, pre_rptr) \in 0 .. N
           /\ Sync(Word, Blank)!Contents = Words(N, pre_mem, pre_wptr, pre_rptr)
<1>1. /\ Sync(Word, Blank)!full <=> Gap(N, pre_wptr, pre_rptr) = N
      /\ Sync(Word, Blank)!empty <=> Gap(N, pre_wptr, pre_rptr) = 0
      /\ pre_wptr = pre_rptr <=> Gap(N, pre_wptr, pre_rptr) = 0
  BY FlagsInBits DEF SyncRing, Sync!full, Sync!empty, Sync!wrap_around, Sync!Slot
<1>2. Gap(N, pre_wptr, pre_rptr) \in 0 .. N
  BY FrontWord DEF SyncRing
<1>3. Sync(Word, Blank)!Contents = Words(N, pre_mem, pre_wptr, pre_rptr)
  BY WordsInBits DEF SyncRing, Sync!Contents, Sync!Occupancy, Sync!Slot
<1> QED
  BY <1>1, <1>2, <1>3

\* A clock of either FIFO, as far as the memory and its pointers go.
SyncMove(S, d, wrote, took) ==
    Clocked(N, S, d, wrote, took,
            pre_mem, pre_wptr, pre_rptr, pre_mem', pre_wptr', pre_rptr')

LEMMA SyncClocks ==
    ASSUME NEW Word, NEW Blank, SyncRing(Word, Blank),
           Sync(Word, Blank)!Clk \/ Sync(Word, Blank)!PortClk
    PROVE  \E d \in Word, wrote, took \in BOOLEAN :
               SyncMove(Word \union {Blank}, d, wrote, took)
<1>0. /\ Sync(Word, Blank)!full <=> Gap(N, pre_wptr, pre_rptr) = N
      /\ Sync(Word, Blank)!empty <=> Gap(N, pre_wptr, pre_rptr) = 0
      /\ pre_wptr = pre_rptr <=> Gap(N, pre_wptr, pre_rptr) = 0
      /\ Gap(N, pre_wptr, pre_rptr) \in 0 .. N /\ N \in Nat
  BY SyncWires, NAssumption
<1>1. CASE Sync(Word, Blank)!Clk
  <2>1. PICK wr_en \in BOOLEAN, rd_en \in BOOLEAN, d \in Word :
             Sync(Word, Blank)!Write(wr_en, d) /\ Sync(Word, Blank)!Read(rd_en)
    BY <1>1 DEF Sync!Clk
  <2> DEFINE wrote == wr_en /\ ~Sync(Word, Blank)!full
             took == rd_en /\ ~Sync(Word, Blank)!empty
  <2>2. SyncMove(Word \union {Blank}, d, wrote, took)
    BY <1>0, <2>1 DEF Sync!Write, Sync!Read, Sync!Slot, Sync!Next2N, SyncMove, Clocked
  <2>3. wrote \in BOOLEAN /\ took \in BOOLEAN
    OBVIOUS
  <2> HIDE DEF wrote, took
  <2> QED
    BY <2>2, <2>3
<1>2. CASE Sync(Word, Blank)!PortClk
  <2>1. PICK cs_en \in BOOLEAN, wr_en \in BOOLEAN, d \in Word :
             /\ IF cs_en /\ wr_en /\ ~Sync(Word, Blank)!full
                THEN /\ pre_mem' = [pre_mem EXCEPT ![pre_wptr % N] = d]
                     /\ pre_wptr' = (pre_wptr + 1) % (2*N)
                ELSE pre_mem' = pre_mem /\ pre_wptr' = pre_wptr
             /\ \/ pre_wptr # pre_rptr /\ pre_rptr' = (pre_rptr + 1) % (2*N)
                \/ pre_rptr' = pre_rptr
    BY <1>2 DEF Sync!PortClk, Sync!Slot, Sync!Next2N
  <2> DEFINE wrote == cs_en /\ wr_en /\ ~Sync(Word, Blank)!full
             took == pre_wptr # pre_rptr /\ pre_rptr' = (pre_rptr + 1) % (2*N)
  <2>2. SyncMove(Word \union {Blank}, d, wrote, took)
    BY <1>0, <2>1 DEF SyncMove, Clocked
  <2>3. wrote \in BOOLEAN /\ took \in BOOLEAN
    OBVIOUS
  <2> HIDE DEF wrote, took
  <2> QED
    BY <2>2, <2>3
<1> QED
  BY <1>1, <1>2

LEMMA SyncStep ==
    ASSUME NEW Word, NEW Blank, SyncRing(Word, Blank),
           Sync(Word, Blank)!Clk \/ Sync(Word, Blank)!PortClk
    PROVE  /\ SyncRing(Word, Blank)'
           /\ [Sync(Word, Blank)!Abs!Next]_(Sync(Word, Blank)!Contents)
<1>1. PICK d \in Word, wrote \in BOOLEAN, took \in BOOLEAN :
             SyncMove(Word \union {Blank}, d, wrote, took)
  BY SyncClocks
<1>2. /\ SyncRing(Word, Blank)'
      /\ Queued(N, d, Words(N, pre_mem, pre_wptr, pre_rptr),
                Words(N, pre_mem, pre_wptr, pre_rptr)', wrote, took)
  BY <1>1, RingClock DEF SyncRing, SyncMove
<1>3. /\ Sync(Word, Blank)!Contents = Words(N, pre_mem, pre_wptr, pre_rptr)
      /\ Sync(Word, Blank)!Contents' = Words(N, pre_mem, pre_wptr, pre_rptr)'
  BY <1>2, WordsInBits DEF SyncRing, Sync!Contents, Sync!Occupancy, Sync!Slot
<1>4. Queued(N, d, Sync(Word, Blank)!Contents, Sync(Word, Blank)!Contents', wrote, took)
  BY <1>2, <1>3
<1>5. [Sync(Word, Blank)!Abs!Next]_(Sync(Word, Blank)!Contents)
  BY <1>4 DEF Queued, After, Sync!Abs!Next, Sync!Abs!Put, Sync!Abs!Take, Sync!Abs!PutAndTake
<1> QED
  BY <1>2, <1>5

LEMMA SyncStarted ==
    ASSUME NEW Word, NEW Blank
    PROVE  /\ Sync(Word, Blank)!Init =>
                 SyncRing(Word, Blank) /\ Sync(Word, Blank)!Contents = << >>
           /\ SyncRing(Word, Blank) /\ Sync(Word, Blank)!Reset =>
                 SyncRing(Word, Blank)' /\ Sync(Word, Blank)!Contents' = << >>
<1>1. Gap(N, 0, 0) = 0 /\ 0 \in 0 .. 2*N-1
  BY NAssumption DEF Gap
<1>2. (0 + 2*N - 0) % (2*N) = 0
  BY <1>1, CountBits, NAssumption
<1>3. ASSUME Sync(Word, Blank)!Init
      PROVE  SyncRing(Word, Blank) /\ Sync(Word, Blank)!Contents = << >>
  <2>1. SyncRing(Word, Blank)
    BY <1>1, <1>3, NAssumption DEF Sync!Init, SyncRing, Ring
  <2>2. Sync(Word, Blank)!Occupancy = 0
    BY <1>2, <1>3 DEF Sync!Init, Sync!Occupancy
  <2> QED
    BY <2>1, <2>2 DEF Sync!Contents
<1>4. ASSUME SyncRing(Word, Blank), Sync(Word, Blank)!Reset
      PROVE  SyncRing(Word, Blank)' /\ Sync(Word, Blank)!Contents' = << >>
  <2>1. SyncRing(Word, Blank)'
    BY <1>1, <1>4, NAssumption DEF Sync!Reset, SyncRing, Ring
  <2>2. Sync(Word, Blank)!Occupancy' = 0
    BY <1>2, <1>4 DEF Sync!Reset, Sync!Occupancy
  <2> QED
    BY <2>1, <2>2 DEF Sync!Contents
<1> QED
  BY <1>3, <1>4

\* sync_fifo.v, written and read in the same clock or not, is a bounded
\* queue of any words.
THEOREM SyncFifoIsQueue ==
    ASSUME NEW Word, NEW Blank
    PROVE  Sync(Word, Blank)!Spec => Sync(Word, Blank)!IsFifo
<1>1. Sync(Word, Blank)!Init => SyncRing(Word, Blank) /\ Sync(Word, Blank)!Abs!Init
  BY SyncStarted DEF Sync!Abs!Init
<1>2. SyncRing(Word, Blank) /\ [Sync(Word, Blank)!Next]_(Sync(Word, Blank)!vars) =>
         /\ SyncRing(Word, Blank)'
         /\ [Sync(Word, Blank)!Abs!Next]_(Sync(Word, Blank)!Contents)
  <2> SUFFICES ASSUME SyncRing(Word, Blank),
                      [Sync(Word, Blank)!Next]_(Sync(Word, Blank)!vars)
               PROVE  /\ SyncRing(Word, Blank)'
                      /\ [Sync(Word, Blank)!Abs!Next]_(Sync(Word, Blank)!Contents)
    OBVIOUS
  <2>1. CASE Sync(Word, Blank)!Clk
    BY <2>1, SyncStep
  <2>2. CASE Sync(Word, Blank)!Reset
    BY <2>2, SyncStarted DEF Sync!Abs!Next, Sync!Abs!Clear
  <2>3. CASE UNCHANGED Sync(Word, Blank)!vars
    BY <2>3 DEF Sync!vars, SyncRing, Sync!Contents, Sync!Occupancy
  <2> QED
    BY <2>1, <2>2, <2>3 DEF Sync!Next
<1> QED
  BY <1>1, <1>2, PTL DEF Sync!Spec, Sync!IsFifo, Sync!Abs!Spec

\* sync_fifo.sv, whose RAM has one port for writing and reading, is a bounded
\* queue of any words.
THEOREM PortFifoIsQueue ==
    ASSUME NEW Word, NEW Blank
    PROVE  Sync(Word, Blank)!PortSpec => Sync(Word, Blank)!IsFifo
<1>1. Sync(Word, Blank)!Init => SyncRing(Word, Blank) /\ Sync(Word, Blank)!Abs!Init
  BY SyncStarted DEF Sync!Abs!Init
<1>2. /\ SyncRing(Word, Blank)
      /\ [Sync(Word, Blank)!PortClk \/ Sync(Word, Blank)!Reset]_(Sync(Word, Blank)!vars)
      => /\ SyncRing(Word, Blank)'
         /\ [Sync(Word, Blank)!Abs!Next]_(Sync(Word, Blank)!Contents)
  <2> SUFFICES ASSUME SyncRing(Word, Blank),
                      [Sync(Word, Blank)!PortClk \/ Sync(Word, Blank)!Reset]_(Sync(Word, Blank)!vars)
               PROVE  /\ SyncRing(Word, Blank)'
                      /\ [Sync(Word, Blank)!Abs!Next]_(Sync(Word, Blank)!Contents)
    OBVIOUS
  <2>1. CASE Sync(Word, Blank)!PortClk
    BY <2>1, SyncStep
  <2>2. CASE Sync(Word, Blank)!Reset
    BY <2>2, SyncStarted DEF Sync!Abs!Next, Sync!Abs!Clear
  <2>3. CASE UNCHANGED Sync(Word, Blank)!vars
    BY <2>3 DEF Sync!vars, SyncRing, Sync!Contents, Sync!Occupancy
  <2> QED
    BY <2>1, <2>2, <2>3
<1> QED
  BY <1>1, <1>2, PTL DEF Sync!PortSpec, Sync!IsFifo, Sync!Abs!Spec

(***************************************************************************)
(* The two FIFOs of the coprocessor                                        *)
(***************************************************************************)
Values == {Value(op) : op \in Ops}

PreRing == Ring(N, Ops, pre_mem, pre_wptr, pre_rptr)
PostRing == Ring(N, Values, post_mem, post_wptr, post_rptr)

LEMMA PreWires ==
    ASSUME PreRing
    PROVE  /\ PreFifo!Contents = Words(N, pre_mem, pre_wptr, pre_rptr)
           /\ PreFifo!Contents \in Seq(Ops) /\ Len(PreFifo!Contents) \in 0 .. N
           /\ Len(PreFifo!Contents) = Gap(N, pre_wptr, pre_rptr)
           /\ PreFifo!full <=> Len(PreFifo!Contents) = N
           /\ PreFifo!empty <=> Len(PreFifo!Contents) = 0
           /\ ~PreFifo!empty => Head(PreFifo!Contents) = pre_mem[PreFifo!Slot(pre_rptr)]
<1>1. PreFifo!Contents = Words(N, pre_mem, pre_wptr, pre_rptr)
  BY WordsInBits DEF PreRing, PreFifo!Contents, PreFifo!Occupancy, PreFifo!Slot
<1>2. /\ PreFifo!Contents \in Seq(Ops)
      /\ Len(PreFifo!Contents) = Gap(N, pre_wptr, pre_rptr)
      /\ Len(PreFifo!Contents) \in 0 .. N
      /\ Len(PreFifo!Contents) > 0 => Head(PreFifo!Contents) = pre_mem[Fold(N, pre_rptr)]
  BY <1>1, FrontWord DEF PreRing
<1>3. /\ PreFifo!full <=> Gap(N, pre_wptr, pre_rptr) = N
      /\ PreFifo!empty <=> Gap(N, pre_wptr, pre_rptr) = 0
  BY FlagsInBits DEF PreRing, PreFifo!full, PreFifo!empty, PreFifo!wrap_around, PreFifo!Slot
<1>4. PreFifo!Slot(pre_rptr) = Fold(N, pre_rptr)
  BY PointerBits DEF PreRing, Ring, PreFifo!Slot
<1> QED
  BY <1>1, <1>2, <1>3, <1>4

\* A clock steps the queue as its ports ask and puts the front word in the
\* output register.
LEMMA PreClock ==
    ASSUME PreRing, NEW wr_en \in BOOLEAN, NEW rd_en \in BOOLEAN, NEW data_in,
           wr_en => data_in \in Ops,
           PreFifo!Write(wr_en, data_in), PreFifo!Read(rd_en)
    PROVE  /\ PreRing'
           /\ Queued(N, data_in, PreFifo!Contents, PreFifo!Contents',
                     wr_en /\ ~PreFifo!full, rd_en /\ ~PreFifo!empty)
           /\ prf_data_out' = IF rd_en /\ ~PreFifo!empty
                              THEN Head(PreFifo!Contents) ELSE prf_data_out
<1> DEFINE wrote == wr_en /\ ~PreFifo!full
           took == rd_en /\ ~PreFifo!empty
<1>1. /\ PreFifo!full <=> Gap(N, pre_wptr, pre_rptr) = N
      /\ PreFifo!empty <=> Gap(N, pre_wptr, pre_rptr) = 0
      /\ Gap(N, pre_wptr, pre_rptr) \in 0 .. N /\ N \in Nat
  BY PreWires, NAssumption
<1>2. Clocked(N, Ops, data_in, wrote, took,
              pre_mem, pre_wptr, pre_rptr, pre_mem', pre_wptr', pre_rptr')
  BY <1>1 DEF PreFifo!Write, PreFifo!Read, PreFifo!Slot, PreFifo!Next2N, Clocked
<1>4. prf_data_out' = IF took THEN Head(PreFifo!Contents) ELSE prf_data_out
  BY PreWires DEF PreFifo!Read
<1> HIDE DEF wrote, took
<1>5. /\ PreRing'
      /\ Queued(N, data_in, Words(N, pre_mem, pre_wptr, pre_rptr),
                Words(N, pre_mem, pre_wptr, pre_rptr)', wrote, took)
  BY <1>2, RingClock DEF PreRing
<1>6. PreFifo!Contents' = Words(N, pre_mem, pre_wptr, pre_rptr)'
  BY <1>5, WordsInBits DEF PreRing, PreFifo!Contents, PreFifo!Occupancy, PreFifo!Slot
<1> QED
  BY <1>4, <1>5, <1>6, PreWires DEF wrote, took

LEMMA PostWires ==
    ASSUME PostRing
    PROVE  /\ PostFifo!Contents = Words(N, post_mem, post_wptr, post_rptr)
           /\ PostFifo!Contents \in Seq(Values) /\ Len(PostFifo!Contents) \in 0 .. N
           /\ Len(PostFifo!Contents) = Gap(N, post_wptr, post_rptr)
           /\ PostFifo!full <=> Len(PostFifo!Contents) = N
           /\ PostFifo!empty <=> Len(PostFifo!Contents) = 0
           /\ ~PostFifo!empty => Head(PostFifo!Contents) = post_mem[PostFifo!Slot(post_rptr)]
<1>1. PostFifo!Contents = Words(N, post_mem, post_wptr, post_rptr)
  BY WordsInBits DEF PostRing, PostFifo!Contents, PostFifo!Occupancy, PostFifo!Slot
<1>2. /\ PostFifo!Contents \in Seq(Values)
      /\ Len(PostFifo!Contents) = Gap(N, post_wptr, post_rptr)
      /\ Len(PostFifo!Contents) \in 0 .. N
      /\ Len(PostFifo!Contents) > 0 => Head(PostFifo!Contents) = post_mem[Fold(N, post_rptr)]
  BY <1>1, FrontWord DEF PostRing
<1>3. /\ PostFifo!full <=> Gap(N, post_wptr, post_rptr) = N
      /\ PostFifo!empty <=> Gap(N, post_wptr, post_rptr) = 0
  BY FlagsInBits DEF PostRing, PostFifo!full, PostFifo!empty, PostFifo!wrap_around, PostFifo!Slot
<1>4. PostFifo!Slot(post_rptr) = Fold(N, post_rptr)
  BY PointerBits DEF PostRing, Ring, PostFifo!Slot
<1> QED
  BY <1>1, <1>2, <1>3, <1>4

\* A clock steps the queue as its ports ask and puts the front word in the
\* output register.
LEMMA PostClock ==
    ASSUME PostRing, NEW wr_en \in BOOLEAN, NEW rd_en \in BOOLEAN, NEW data_in,
           wr_en => data_in \in Values,
           PostFifo!Write(wr_en, data_in), PostFifo!Read(rd_en)
    PROVE  /\ PostRing'
           /\ Queued(N, data_in, PostFifo!Contents, PostFifo!Contents',
                     wr_en /\ ~PostFifo!full, rd_en /\ ~PostFifo!empty)
           /\ alu_cop_result' = IF rd_en /\ ~PostFifo!empty
                              THEN Head(PostFifo!Contents) ELSE alu_cop_result
<1> DEFINE wrote == wr_en /\ ~PostFifo!full
           took == rd_en /\ ~PostFifo!empty
<1>1. /\ PostFifo!full <=> Gap(N, post_wptr, post_rptr) = N
      /\ PostFifo!empty <=> Gap(N, post_wptr, post_rptr) = 0
      /\ Gap(N, post_wptr, post_rptr) \in 0 .. N /\ N \in Nat
  BY PostWires, NAssumption
<1>2. Clocked(N, Values, data_in, wrote, took,
              post_mem, post_wptr, post_rptr, post_mem', post_wptr', post_rptr')
  BY <1>1 DEF PostFifo!Write, PostFifo!Read, PostFifo!Slot, PostFifo!Next2N, Clocked
<1>4. alu_cop_result' = IF took THEN Head(PostFifo!Contents) ELSE alu_cop_result
  BY PostWires DEF PostFifo!Read
<1> HIDE DEF wrote, took
<1>5. /\ PostRing'
      /\ Queued(N, data_in, Words(N, post_mem, post_wptr, post_rptr),
                Words(N, post_mem, post_wptr, post_rptr)', wrote, took)
  BY <1>2, RingClock DEF PostRing
<1>6. PostFifo!Contents' = Words(N, post_mem, post_wptr, post_rptr)'
  BY <1>5, WordsInBits DEF PostRing, PostFifo!Contents, PostFifo!Occupancy, PostFifo!Slot
<1> QED
  BY <1>4, <1>5, <1>6, PostWires DEF wrote, took

(***************************************************************************)
(* The pipeline                                                            *)
(***************************************************************************)

\* What a stage holds when its valid bit says so is the result of an
\* operation.
Stages == /\ prf_data_out \in Ops
          /\ alu_wr_rdy \in BOOLEAN /\ rd_rdy_mul \in BOOLEAN
          /\ alu_rd_rdy \in BOOLEAN
          /\ pof_wr_en \in BOOLEAN /\ pof_rd_en \in BOOLEAN
          /\ rd_rdy_mul => Sum(mul) \in Values
          /\ alu_rd_rdy => add \in Values
          /\ pof_wr_en => pof_data_in \in Values

Machine == PreRing /\ PostRing /\ Stages

\* One clock of the coprocessor, each FIFO's part as PreClock and PostClock
\* tell it.
LEMMA ClkParts ==
    ASSUME Machine, Clk
    PROVE  \E wr_en \in BOOLEAN, op \in Ops :
             /\ Queued(N, op, PreFifo!Contents, PreFifo!Contents',
                       wr_en /\ ~PreFifo!full, prf_rd_en)
             /\ Queued(N, pof_data_in, PostFifo!Contents, PostFifo!Contents',
                       pof_wr_en /\ ~PostFifo!full, pof_rd_en /\ ~PostFifo!empty)
             /\ prf_data_out' = IF prf_rd_en THEN Head(PreFifo!Contents) ELSE prf_data_out
             /\ alu_wr_rdy' = prf_rd_en
             /\ User(wr_en)
             /\ PreRing' /\ PostRing'
<1>1. PICK wr_en \in BOOLEAN, rd_en \in BOOLEAN, op \in Ops :
           Feed(wr_en, op) /\ Alu /\ Drain(rd_en) /\ User(wr_en)
  BY DEF Clk
<1>2. prf_rd_en \in BOOLEAN /\ (prf_rd_en /\ ~PreFifo!empty) = prf_rd_en
  BY DEF prf_rd_en
<1>3. /\ PreRing'
      /\ Queued(N, op, PreFifo!Contents, PreFifo!Contents',
                wr_en /\ ~PreFifo!full, prf_rd_en)
      /\ prf_data_out' = IF prf_rd_en THEN Head(PreFifo!Contents) ELSE prf_data_out
  <2>1. PreFifo!Write(wr_en, op) /\ PreFifo!Read(prf_rd_en)
    BY <1>1 DEF Feed
  <2> HIDE DEF prf_rd_en
  <2>2. \A x \in BOOLEAN : PreFifo!Read(x) =>
          /\ PreRing'
          /\ Queued(N, op, PreFifo!Contents, PreFifo!Contents',
                    wr_en /\ ~PreFifo!full, x /\ ~PreFifo!empty)
          /\ prf_data_out' = IF x /\ ~PreFifo!empty
                             THEN Head(PreFifo!Contents) ELSE prf_data_out
    BY <2>1, PreClock DEF Machine
  <2> QED
    BY <1>2, <2>1, <2>2
<1>4. /\ PostRing'
      /\ Queued(N, pof_data_in, PostFifo!Contents, PostFifo!Contents',
                pof_wr_en /\ ~PostFifo!full, pof_rd_en /\ ~PostFifo!empty)
  BY <1>1, PostClock DEF Machine, Stages, Drain
<1> QED
  BY <1>1, <1>3, <1>4 DEF Feed

LEMMA ClkKeeps ==
    ASSUME Machine, Clk
    PROVE  Machine'
<1>1. PICK wr_en \in BOOLEAN, rd_en \in BOOLEAN, op \in Ops :
           Feed(wr_en, op) /\ Alu /\ Drain(rd_en)
  BY DEF Clk
<1>2. PreRing' /\ PostRing'
  BY ClkParts
<1>3. prf_data_out' \in Ops
  <2>1. prf_data_out' = IF prf_rd_en THEN Head(PreFifo!Contents) ELSE prf_data_out
    BY ClkParts
  <2>2. CASE prf_rd_en
    <3>1. PreFifo!Contents \in Seq(Ops) /\ Len(PreFifo!Contents) > 0
      BY <2>2, PreWires DEF prf_rd_en, Machine
    <3> QED
      BY <2>1, <2>2, <3>1
  <2>3. CASE ~prf_rd_en
    BY <2>1, <2>3 DEF Machine, Stages
  <2> QED
    BY <2>2, <2>3
<1>4. /\ alu_wr_rdy' \in BOOLEAN /\ rd_rdy_mul' \in BOOLEAN /\ alu_rd_rdy' \in BOOLEAN
      /\ pof_wr_en' \in BOOLEAN /\ pof_rd_en' \in BOOLEAN
  BY <1>1 DEF Machine, Stages, Feed, Alu, Drain, Held, prf_rd_en, pof_wr_ack
<1>5. rd_rdy_mul' => Sum(mul)' \in Values
  <2>1. Sum(Product(prf_data_out)) \in Values
    BY DEF Machine, Stages, Values, Value
  <2>2. mul' = Product(prf_data_out) \/ (mul' = mul /\ rd_rdy_mul)
    BY <1>1 DEF Alu, alu_wr_ack
  <2> QED
    BY <2>1, <2>2 DEF Machine, Stages, Sum
<1>6. alu_rd_rdy' => add' \in Values
  BY <1>1 DEF Machine, Stages, Alu, Held, wr_ack_add
<1>7. pof_wr_en' => pof_data_in' \in Values
  BY <1>1 DEF Machine, Stages, Drain, pof_wr_ack
<1> QED
  BY <1>2, <1>3, <1>4, <1>5, <1>6, <1>7 DEF Machine, Stages

LEMMA Empty ==
    /\ Gap(N, 0, 0) = 0 /\ 0 \in 0 .. 2*N-1
    /\ (0 + 2*N - 0) % (2*N) = 0
<1>1. Gap(N, 0, 0) = 0 /\ 0 \in 0 .. 2*N-1
  BY NAssumption DEF Gap
<1> QED
  BY <1>1, CountBits, NAssumption

LEMMA Started ==
    ASSUME Init
    PROVE  Machine /\ PreFifo!Contents = << >> /\ PostFifo!Contents = << >>
<1>1. PreRing /\ PreFifo!Occupancy = 0
  BY Empty, NAssumption, PowerUpAssumption
     DEF Init, PreFifo!Init, PreRing, Ring, PreFifo!Occupancy
<1>2. PostRing /\ PostFifo!Occupancy = 0
  <2>1. Value(PowerUp) \in Values
    BY PowerUpAssumption DEF Values
  <2> QED
    BY <2>1, Empty, NAssumption
       DEF Init, PostFifo!Init, PostRing, Ring, PostFifo!Occupancy
<1>3. Stages
  BY PowerUpAssumption DEF Init, PreFifo!Init, Stages
<1> QED
  BY <1>1, <1>2, <1>3 DEF Machine, PreFifo!Contents, PostFifo!Contents

LEMMA Restarted ==
    ASSUME Machine, Reset
    PROVE  Machine' /\ PreFifo!Contents' = << >> /\ PostFifo!Contents' = << >>
<1>1. PreRing' /\ PreFifo!Occupancy' = 0
  BY Empty DEF Machine, Reset, PreFifo!Reset, PreRing, Ring, PreFifo!Occupancy
<1>2. PostRing' /\ PostFifo!Occupancy' = 0
  BY Empty DEF Machine, Reset, PostFifo!Reset, PostRing, Ring, PostFifo!Occupancy
<1>3. Stages'
  BY DEF Machine, Stages, Reset, PreFifo!Reset
<1> QED
  BY <1>1, <1>2, <1>3 DEF Machine, PreFifo!Contents, PostFifo!Contents

LEMMA MachineStep ==
    ASSUME Machine, [Next]_vars
    PROVE  Machine'
<1>1. CASE Clk
  BY <1>1, ClkKeeps
<1>2. CASE Reset
  BY <1>2, Restarted
<1>3. CASE UNCHANGED vars
  BY <1>3 DEF vars, Machine, PreRing, PostRing, Stages, Sum
<1> QED
  BY <1>1, <1>2, <1>3 DEF Next

\* Every pointer, flag and memory keeps to its width, and no valid bit of the
\* pipeline stands over anything but the result of an operation, although
\* data and valid bits are loaded by different conditions
\* (alu.v:77, axi_like_handshake.sv:64).
THEOREM MachineHolds == Spec => []Machine
<1>1. Init => Machine
  BY Started
<1>2. Machine /\ [Next]_vars => Machine'
  BY MachineStep
<1> QED
  BY <1>1, <1>2, PTL DEF Spec

\* Both FIFOs of the coprocessor are bounded queues, whatever the user does:
\* no write overflows one and no read takes from it what is not there
\* (alu_cop.v:77, alu_cop.v:105).
THEOREM FifosAreQueues == Spec => AreFifos
<1>1. Init => PreFifo!Abs!Init /\ PostFifo!Abs!Init
  BY Started DEF PreFifo!Abs!Init, PostFifo!Abs!Init
<1>2. Machine /\ [Next]_vars => /\ [PreFifo!Abs!Next]_(PreFifo!Contents)
                               /\ [PostFifo!Abs!Next]_(PostFifo!Contents)
  <2> SUFFICES ASSUME Machine, [Next]_vars
               PROVE  /\ [PreFifo!Abs!Next]_(PreFifo!Contents)
                      /\ [PostFifo!Abs!Next]_(PostFifo!Contents)
    OBVIOUS
  <2>1. CASE Clk
    <3>1. PICK wr_en \in BOOLEAN, op \in Ops :
             /\ Queued(N, op, PreFifo!Contents, PreFifo!Contents',
                       wr_en /\ ~PreFifo!full, prf_rd_en)
             /\ Queued(N, pof_data_in, PostFifo!Contents, PostFifo!Contents',
                       pof_wr_en /\ ~PostFifo!full, pof_rd_en /\ ~PostFifo!empty)
      BY <2>1, ClkParts
    <3>2. [PreFifo!Abs!Next]_(PreFifo!Contents)
      BY <3>1 DEF Queued, After, PreFifo!Abs!Next, PreFifo!Abs!Put, PreFifo!Abs!Take,
                  PreFifo!Abs!PutAndTake
    <3>3. pof_wr_en => pof_data_in \in {Value(op_1) : op_1 \in Ops}
      BY DEF Machine, Stages, Values
    <3>4. [PostFifo!Abs!Next]_(PostFifo!Contents)
      BY <3>1, <3>3 DEF Queued, After, PostFifo!Abs!Next, PostFifo!Abs!Put,
                        PostFifo!Abs!Take, PostFifo!Abs!PutAndTake
    <3> QED
      BY <3>2, <3>4
  <2>2. CASE Reset
    BY <2>2, Restarted DEF PreFifo!Abs!Next, PreFifo!Abs!Clear,
                           PostFifo!Abs!Next, PostFifo!Abs!Clear
  <2>3. CASE UNCHANGED vars
    BY <2>3 DEF vars, PreFifo!Contents, PreFifo!Occupancy,
                PostFifo!Contents, PostFifo!Occupancy
  <2> QED
    BY <2>1, <2>2, <2>3 DEF Next
<1> QED
  BY <1>1, <1>2, MachineHolds, PTL
     DEF Spec, AreFifos, PreFifo!IsFifo, PostFifo!IsFifo, PreFifo!Abs!Spec, PostFifo!Abs!Spec

(***************************************************************************)
(* Everything under way                                                    *)
(***************************************************************************)
Results(s) == [i \in 1 .. Len(s) |-> Value(s[i])]

LEMMA ResultsOf ==
    ASSUME NEW s \in Seq(Ops)
    PROVE  /\ Results(s) \in Seq(Values)
           /\ Len(Results(s)) = Len(s)
           /\ s # << >> => /\ Value(Head(s)) \in Values
                           /\ Results(s) = << Value(Head(s)) >> \o Results(Tail(s))
           /\ \A op \in Ops : /\ Value(op) \in Values
                              /\ Results(Append(s, op)) = Append(Results(s), Value(op))
<1>0. \A op \in Ops : Value(op) \in Values
  BY DEF Values
<1> DEFINE Long(t) == Results(t) \in Seq(Values) /\ Len(Results(t)) = Len(t)
                     /\ \A i \in 1 .. Len(t) : Results(t)[i] = Value(t[i])
<1>1. \A t \in Seq(Ops) : Long(t)
  <2> TAKE t \in Seq(Ops)
  <2>1. Len(t) \in Nat /\ \A i \in 1 .. Len(t) : t[i] \in Ops
    OBVIOUS
  <2>2. \A i \in 1 .. Len(t) : Value(t[i]) \in Values
    BY <1>0, <2>1
  <2> HIDE DEF Values
  <2> QED
    BY <2>1, <2>2 DEF Results
<1>2. ASSUME s # << >>
      PROVE  Results(s) = << Value(Head(s)) >> \o Results(Tail(s))
  <2> DEFINE t == << Value(Head(s)) >> \o Results(Tail(s))
  <2>1. /\ Head(s) \in Ops /\ Tail(s) \in Seq(Ops) /\ Len(Tail(s)) = Len(s) - 1
        /\ Len(s) \in Nat /\ Len(s) >= 1 /\ Head(s) = s[1]
        /\ \A i \in 1 .. Len(s) - 1 : Tail(s)[i] = s[i+1]
    BY <1>2
  <2>2. Long(s) /\ Long(Tail(s)) /\ Value(Head(s)) \in Values
    BY <1>0, <1>1, <2>1
  <2> HIDE DEF Results, Values
  <2> DEFINE h == << Value(Head(s)) >>
             r == Results(Tail(s))
  <2>3. /\ r \in Seq(Values) /\ Len(r) = Len(s) - 1
    BY <2>1, <2>2
  <2>8. Len(h) = 1 /\ h[1] = Value(Head(s))
    OBVIOUS
  <2>9. h \in Seq(Values)
    BY <2>2
  <2> HIDE DEF h, r
  <2>10. /\ h \o r \in Seq(Values) /\ Len(h \o r) = Len(h) + Len(r)
         /\ \A i \in 1 .. Len(h) + Len(r) :
               (h \o r)[i] = IF i <= Len(h) THEN h[i] ELSE r[i - Len(h)]
    BY <2>3, <2>9, ConcatProperties
  <2>11. Len(h) + Len(r) = Len(s)
    BY <2>1, <2>3, <2>8
  <2>6. /\ h \o r \in Seq(Values) /\ Len(h \o r) = Len(s)
        /\ \A i \in 1 .. Len(s) : (h \o r)[i] = IF i <= 1 THEN h[i] ELSE r[i - 1]
    BY <2>8, <2>10, <2>11
  <2>7. \A i \in 1 .. Len(s) : i <= 1 => h[i] = Value(Head(s))
    BY <2>8
  <2>4. /\ t \in Seq(Values) /\ Len(t) = Len(s)
        /\ \A i \in 1 .. Len(s) : t[i] = IF i <= 1 THEN Value(Head(s))
                                         ELSE Results(Tail(s))[i - 1]
    BY <2>6, <2>7 DEF h, r
  <2>5. \A i \in 1 .. Len(s) : t[i] = Results(s)[i]
    <3> TAKE i \in 1 .. Len(s)
    <3>1. CASE i = 1
      BY <2>1, <2>2, <2>4, <3>1
    <3>2. CASE i # 1
      <4>1. i - 1 \in 1 .. Len(s) - 1 /\ ~(i <= 1) /\ (i - 1) + 1 = i
        BY <2>1, <3>2
      <4>2. Results(Tail(s))[i - 1] = Value(Tail(s)[i - 1])
        BY <2>1, <2>2, <4>1
      <4>3. Tail(s)[i - 1] = s[i]
        BY <2>1, <4>1
      <4> QED
        BY <2>2, <2>4, <4>1, <4>2, <4>3
    <3> QED
      BY <3>1, <3>2
  <2> QED
    BY <2>2, <2>4, <2>5, SeqEqual
<1>3. ASSUME NEW op \in Ops
      PROVE  Results(Append(s, op)) = Append(Results(s), Value(op))
  <2> DEFINE u == Append(s, op)
             t == Append(Results(s), Value(op))
  <2>1. /\ u \in Seq(Ops) /\ Len(u) = Len(s) + 1 /\ Len(s) \in Nat
        /\ \A i \in 1 .. Len(s) : u[i] = s[i]
        /\ u[Len(s) + 1] = op
    OBVIOUS
  <2> HIDE DEF u
  <2>2. Long(s) /\ Long(u) /\ Value(op) \in Values
    BY <1>0, <1>1, <2>1
  <2> HIDE DEF Results, Values
  <2>3. /\ t \in Seq(Values) /\ Len(t) = Len(s) + 1
        /\ \A i \in 1 .. Len(s) : t[i] = Results(s)[i]
        /\ t[Len(s) + 1] = Value(op)
    BY <2>1, <2>2, AppendProperties
  <2>4. \A i \in 1 .. Len(s) + 1 : t[i] = Results(u)[i]
    BY <2>1, <2>2, <2>3
  <2> HIDE DEF t
  <2>5. Results(u) = t
    BY <2>1, <2>2, <2>3, <2>4, SeqEqual
  <2> QED
    BY <2>5 DEF u, t
<1> QED
  BY <1>0, <1>1, <1>2, <1>3

\* A sequence with more behind it.
LEMMA Behind ==
    ASSUME NEW S, NEW s \in Seq(S), NEW t \in Seq(S)
    PROVE  /\ s \o t \in Seq(S) /\ Len(s \o t) = Len(s) + Len(t)
           /\ s # << >> => s \o t # << >> /\ Tail(s \o t) = Tail(s) \o t
<1>1. s \o t \in Seq(S) /\ Len(s \o t) = Len(s) + Len(t)
  BY ConcatProperties
<1>2. ASSUME s # << >> PROVE s \o t # << >> /\ Tail(s \o t) = Tail(s) \o t
  <2>1. Len(s) \in Nat /\ Len(s) >= 1 /\ Len(t) \in Nat
    BY <1>2
  <2>2. s \o t # << >>
    BY <1>1, <2>1
  <2>3. /\ Tail(s) \in Seq(S) /\ Len(Tail(s)) = Len(s) - 1
        /\ \A i \in 1 .. Len(s) - 1 : Tail(s)[i] = s[i+1]
    BY <1>2
  <2>4. /\ Tail(s \o t) \in Seq(S) /\ Len(Tail(s \o t)) = Len(s) + Len(t) - 1
        /\ \A i \in 1 .. Len(s) + Len(t) - 1 : Tail(s \o t)[i] = (s \o t)[i+1]
    BY <1>1, <2>2, HeadTailProperties
  <2>5. /\ Tail(s) \o t \in Seq(S) /\ Len(Tail(s) \o t) = Len(s) + Len(t) - 1
        /\ \A i \in 1 .. Len(s) + Len(t) - 1 : (Tail(s) \o t)[i] =
              IF i <= Len(s) - 1 THEN Tail(s)[i] ELSE t[i - (Len(s) - 1)]
    BY <2>1, <2>3, ConcatProperties
  <2>6. \A i \in 1 .. Len(s) + Len(t) - 1 : Tail(s \o t)[i] = (Tail(s) \o t)[i]
    <3> TAKE i \in 1 .. Len(s) + Len(t) - 1
    <3>1. i + 1 \in 1 .. Len(s) + Len(t) /\ (i + 1) - Len(s) = i - (Len(s) - 1)
      BY <2>1
    <3>2. Tail(s \o t)[i] = IF i + 1 <= Len(s) THEN s[i+1] ELSE t[(i + 1) - Len(s)]
      BY <2>4, <3>1, ConcatProperties
    <3> QED
      BY <2>1, <2>3, <2>5, <3>1, <3>2
  <2> QED
    BY <2>2, <2>4, <2>5, <2>6, SeqEqual
<1> QED
  BY <1>1, <1>2

\* The parts of the pipeline, in the order of their operations.
ready == PostFifo!Contents
written == If(pof_wr_en, pof_data_in)
added == If(alu_rd_rdy, add)
multiplied == If(rd_rdy_mul, Sum(mul))
offered == If(alu_wr_rdy, Value(prf_data_out))
queued == Results(PreFifo!Contents)

LEMMA FlightParts ==
    Flight = ready \o written \o added \o multiplied \o offered \o queued
  BY DEF Flight, Waiting, ready, written, added, multiplied, offered, queued, Results

\* How long each is.
LEMMA FlightLength ==
    ASSUME Machine
    PROVE  /\ ready \in Seq(Values) /\ written \in Seq(Values) /\ added \in Seq(Values)
           /\ multiplied \in Seq(Values) /\ offered \in Seq(Values)
           /\ queued \in Seq(Values)
           /\ Len(ready) \in 0 .. N /\ Len(queued) \in 0 .. N
           /\ Len(written) = IF pof_wr_en THEN 1 ELSE 0
           /\ Len(added) = IF alu_rd_rdy THEN 1 ELSE 0
           /\ Len(multiplied) = IF rd_rdy_mul THEN 1 ELSE 0
           /\ Len(offered) = IF alu_wr_rdy THEN 1 ELSE 0
           /\ Len(queued) = Len(PreFifo!Contents)
           /\ Flight \in Seq(Values)
           /\ Len(Flight) = Len(ready) + Len(written) + Len(added) + Len(multiplied)
                            + Len(offered) + Len(queued)
<1> USE DEF Machine
<1>1. ready \in Seq(Values) /\ Len(ready) \in 0 .. N
  BY PostWires DEF ready
<1>2. queued \in Seq(Values) /\ Len(queued) = Len(PreFifo!Contents) /\ Len(queued) \in 0 .. N
  BY PreWires, ResultsOf DEF queued
<1>3. \A b \in BOOLEAN : \A x : (b => x \in Values) =>
         If(b, x) \in Seq(Values) /\ Len(If(b, x)) = IF b THEN 1 ELSE 0
  <2> HIDE DEF Values
  <2> QED
    BY DEF If
<1>4. Value(prf_data_out) \in Values
  BY DEF Stages, Values
<1>5. /\ written \in Seq(Values) /\ Len(written) = IF pof_wr_en THEN 1 ELSE 0
      /\ added \in Seq(Values) /\ Len(added) = IF alu_rd_rdy THEN 1 ELSE 0
      /\ multiplied \in Seq(Values) /\ Len(multiplied) = IF rd_rdy_mul THEN 1 ELSE 0
      /\ offered \in Seq(Values) /\ Len(offered) = IF alu_wr_rdy THEN 1 ELSE 0
  BY <1>3, <1>4 DEF Stages, written, added, multiplied, offered
<1> DEFINE s2 == ready \o written
           s3 == s2 \o added
           s4 == s3 \o multiplied
           s5 == s4 \o offered
           s6 == s5 \o queued
<1>6. s2 \in Seq(Values) /\ Len(s2) = Len(ready) + Len(written)
  BY <1>1, <1>5, Behind
<1>7. s3 \in Seq(Values) /\ Len(s3) = Len(s2) + Len(added)
  <2> HIDE DEF s2
  <2> QED
    BY <1>5, <1>6, Behind
<1>8. s4 \in Seq(Values) /\ Len(s4) = Len(s3) + Len(multiplied)
  <2> HIDE DEF s3
  <2> QED
    BY <1>5, <1>7, Behind
<1>9. s5 \in Seq(Values) /\ Len(s5) = Len(s4) + Len(offered)
  <2> HIDE DEF s4
  <2> QED
    BY <1>5, <1>8, Behind
<1>10. s6 \in Seq(Values) /\ Len(s6) = Len(s5) + Len(queued)
  <2> HIDE DEF s5
  <2> QED
    BY <1>2, <1>9, Behind
<1>11. Flight = s6
  BY FlightParts
<1> HIDE DEF s2, s3, s4, s5, s6
<1>12. Len(Flight) = Len(ready) + Len(written) + Len(added) + Len(multiplied)
                     + Len(offered) + Len(queued)
  BY <1>6, <1>7, <1>8, <1>9, <1>10, <1>11
<1> QED
  BY <1>1, <1>2, <1>5, <1>10, <1>11, <1>12

(***************************************************************************)
(* With no more operations under way than post_fifo has words, a result    *)
(* that reaches it finds room: the pipeline never stalls, and every clock  *)
(* moves what is in it by one place.                                       *)
(***************************************************************************)
Owing == NothingLost /\ owed \in 0 .. Credit

LEMMA RoomBehind ==
    ASSUME Credit <= N, Machine, Owing, PostFifo!full
    PROVE  ~pof_wr_en /\ ~alu_rd_rdy /\ ~rd_rdy_mul /\ ~alu_wr_rdy
<1>1. Len(ready) = N
  BY PostWires DEF Machine, ready
<1>2. Len(Flight) <= N
  BY NAssumption, CreditAssumption DEF Owing, NothingLost
<1>3. Len(written) + Len(added) + Len(multiplied) + Len(offered) + Len(queued) <= 0
  BY <1>1, <1>2, FlightLength, NAssumption DEF Machine, Stages
<1>4. Len(written) <= 0 /\ Len(added) <= 0 /\ Len(multiplied) <= 0 /\ Len(offered) <= 0
  BY <1>3, FlightLength DEF Machine, Stages
<1>5. /\ Len(written) = IF pof_wr_en THEN 1 ELSE 0
      /\ Len(added) = IF alu_rd_rdy THEN 1 ELSE 0
      /\ Len(multiplied) = IF rd_rdy_mul THEN 1 ELSE 0
      /\ Len(offered) = IF alu_wr_rdy THEN 1 ELSE 0
  BY FlightLength
<1>6. /\ pof_wr_en \in BOOLEAN /\ alu_rd_rdy \in BOOLEAN
      /\ rd_rdy_mul \in BOOLEAN /\ alu_wr_rdy \in BOOLEAN
  BY DEF Machine, Stages
<1> QED
  BY <1>4, <1>5, <1>6

LEMMA NeverStalls ==
    ASSUME Credit <= N, Machine, Owing
    PROVE  /\ pof_wr_en => ~PostFifo!full
           /\ pof_wr_ack = alu_rd_rdy
           /\ wr_ack_add /\ alu_wr_ack
           /\ prf_rd_en <=> ~PreFifo!empty
  BY RoomBehind DEF Machine, Stages, pof_wr_ack, wr_ack_add, alu_wr_ack, prf_rd_en

LEMMA StagesShift ==
    ASSUME Credit <= N, Machine, Owing, Clk
    PROVE  written' = added /\ added' = multiplied /\ multiplied' = offered
<1>1. PICK wr_en \in BOOLEAN, rd_en \in BOOLEAN, op \in Ops :
           Feed(wr_en, op) /\ Alu /\ Drain(rd_en)
  BY DEF Clk
<1>2. /\ pof_wr_en' = alu_rd_rdy
      /\ pof_data_in' = IF alu_rd_rdy THEN add ELSE pof_data_in
  BY <1>1, NeverStalls DEF Drain
<1>3. /\ alu_rd_rdy' = rd_rdy_mul /\ add' = Sum(mul)
  BY <1>1, NeverStalls DEF Alu, Held, Machine, Stages
<1>4. /\ rd_rdy_mul' = alu_wr_rdy /\ mul' = Product(prf_data_out)
  BY <1>1, NeverStalls DEF Alu, Held, Machine, Stages
<1>5. Sum(mul)' = Value(prf_data_out)
  BY <1>4 DEF Sum, Value
<1> QED
  BY <1>2, <1>3, <1>4, <1>5 DEF written, added, multiplied, offered, If

\* What post_fifo is given goes behind what it has.
LEMMA ReadyStep ==
    ASSUME Credit <= N, Machine, Owing, Clk
    PROVE  LET took == pof_rd_en /\ ~PostFifo!empty
           IN  /\ took => ready # << >>
               /\ ready' = (IF took THEN Tail(ready) ELSE ready) \o written
<1> DEFINE took == pof_rd_en /\ ~PostFifo!empty
           rest == IF took THEN Tail(ready) ELSE ready
<1>1. Queued(N, pof_data_in, ready, ready', pof_wr_en /\ ~PostFifo!full, took)
  BY ClkParts DEF ready
<1>2. took => ready # << >>
  BY <1>1 DEF Queued
<1>3. ready \in Seq(Values) /\ rest \in Seq(Values)
  BY <1>2, FlightLength
<1>4. CASE pof_wr_en
  <2>1. pof_data_in \in Values /\ ready' = Append(rest, pof_data_in)
    BY <1>1, <1>4, NeverStalls DEF Queued, After, Machine, Stages
  <2>2. written = << pof_data_in >>
    BY <1>4 DEF written, If
  <2> HIDE DEF rest
  <2> QED
    BY <1>2, <1>3, <2>1, <2>2, AppendIsConcat DEF rest
<1>5. CASE ~pof_wr_en
  <2>1. ready' = rest
    BY <1>1, <1>5 DEF Queued, After
  <2>2. written = << >>
    BY <1>5 DEF written, If
  <2> HIDE DEF rest
  <2>3. rest \o << >> = rest
    BY <1>3, ConcatEmptySeq
  <2> QED
    BY <1>2, <2>1, <2>2, <2>3 DEF rest
<1> QED
  BY <1>4, <1>5

\* An operation that leaves pre_fifo is on offer, and one that enters it goes
\* behind the others.
LEMMA QueuedStep ==
    ASSUME Credit <= N, Machine, Owing, Clk
    PROVE  \E wr_en \in BOOLEAN, op \in Ops :
             /\ User(wr_en)
             /\ offered' \o queued' =
                   queued \o (IF wr_en /\ ~PreFifo!full THEN << Value(op) >> ELSE << >>)
<1> DEFINE s == PreFifo!Contents
<1>1. PICK wr_en \in BOOLEAN, op \in Ops :
         /\ Queued(N, op, s, s', wr_en /\ ~PreFifo!full, prf_rd_en)
         /\ prf_data_out' = IF prf_rd_en THEN Head(s) ELSE prf_data_out
         /\ alu_wr_rdy' = prf_rd_en
         /\ User(wr_en)
  BY ClkParts
<1> DEFINE wrote == wr_en /\ ~PreFifo!full
           rest == IF prf_rd_en THEN Tail(s) ELSE s
           new == IF wrote THEN << Value(op) >> ELSE << >>
<1>2. s \in Seq(Ops) /\ (prf_rd_en <=> s # << >>)
  BY PreWires, NeverStalls DEF Machine
<1>3. s' = IF wrote THEN Append(rest, op) ELSE rest
  BY <1>1 DEF Queued, After
<1>4. rest \in Seq(Ops) /\ (~prf_rd_en => rest = << >>)
  BY <1>2
<1>5. /\ Results(rest) \in Seq(Values) /\ Value(op) \in Values /\ new \in Seq(Values)
      /\ Results(Append(rest, op)) = Append(Results(rest), Value(op))
  <2> HIDE DEF rest, Values
  <2>1. /\ Results(rest) \in Seq(Values) /\ Value(op) \in Values
        /\ Results(Append(rest, op)) = Append(Results(rest), Value(op))
    BY <1>4, ResultsOf
  <2> QED
    BY <2>1
<1>6. queued' = Results(rest) \o new
  <2>1. queued' = Results(s')
    BY DEF queued, Results
  <2> HIDE DEF rest, Values, s
  <2>2. CASE wrote
    <3>1. queued' = Append(Results(rest), Value(op))
      BY <1>3, <1>5, <2>1, <2>2
    <3> QED
      BY <1>5, <2>2, <3>1, AppendIsConcat
  <2>3. CASE ~wrote
    BY <1>3, <1>5, <2>1, <2>3, ConcatEmptySeq
  <2> QED
    BY <2>2, <2>3
<1>7. CASE prf_rd_en
  <2>1. s # << >> /\ rest = Tail(s)
    BY <1>2, <1>7
  <2>2. offered' = << Value(Head(s)) >>
    BY <1>1, <1>7 DEF offered, If
  <2>3. Value(Head(s)) \in Values /\ queued = << Value(Head(s)) >> \o Results(rest)
    BY <1>2, <2>1, ResultsOf DEF queued
  <2> DEFINE h == << Value(Head(s)) >>
             r == Results(rest)
  <2>4. h \in Seq(Values) /\ r \in Seq(Values)
    <3> HIDE DEF Values
    <3> QED
      BY <1>5, <2>3
  <2>5. queued = h \o r /\ queued' = r \o new /\ offered' = h
    BY <1>6, <2>2, <2>3
  <2>8. new \in Seq(Values)
    BY <1>5
  <2> HIDE DEF h, r, new
  <2>6. (h \o r) \o new = h \o (r \o new)
    BY <2>4, <2>8, ConcatAssociative
  <2>7. offered' \o queued' = queued \o new
    BY <2>5, <2>6
  <2> QED
    BY <1>1, <2>7 DEF new
<1>8. CASE ~prf_rd_en
  <2>1. s = << >> /\ rest = << >>
    BY <1>2, <1>8
  <2>2. offered' = << >>
    BY <1>1, <1>8 DEF offered, If
  <2>3. queued = << >> /\ Results(rest) = << >>
    BY <2>1 DEF queued, Results
  <2>4. queued' = << >> \o new
    BY <1>6, <2>3
  <2> HIDE DEF new
  <2>5. << >> \o new = new
    BY <1>5, ConcatEmptySeq
  <2>6. offered' \o queued' = queued \o new
    BY <2>2, <2>3, <2>4, <2>5
  <2> QED
    BY <1>1, <2>6 DEF new
<1> QED
  BY <1>7, <1>8

LEMMA Back == Machine => offered \in Seq(Values) /\ queued \in Seq(Values)
  BY FlightLength

LEMMA BackThen == Machine' => offered' \in Seq(Values) /\ queued' \in Seq(Values)
<1>1. Machine' => (offered \in Seq(Values) /\ queued \in Seq(Values))'
  BY Back, PTL
<1> QED
  BY <1>1

\* A clock takes at most the oldest result from the flight and adds at most
\* one operation's behind the others.
LEMMA FlightStep ==
    ASSUME Credit <= N, Machine, Owing, Clk
    PROVE  \E wr_en \in BOOLEAN, op \in Ops :
             /\ User(wr_en)
             /\ pof_rd_en /\ ~PostFifo!empty => Flight # << >>
             /\ Flight' = After(Flight, pof_rd_en /\ ~PostFifo!empty,
                               wr_en /\ ~PreFifo!full, Value(op))
<1> DEFINE took == pof_rd_en /\ ~PostFifo!empty
           rest == IF took THEN Tail(ready) ELSE ready
<1>1. PICK wr_en \in BOOLEAN, op \in Ops :
         /\ User(wr_en)
         /\ offered' \o queued' =
               queued \o (IF wr_en /\ ~PreFifo!full THEN << Value(op) >> ELSE << >>)
  BY QueuedStep
<1> DEFINE wrote == wr_en /\ ~PreFifo!full
           new == IF wrote THEN << Value(op) >> ELSE << >>
<1>2. /\ took => ready # << >>
      /\ ready' = rest \o written
      /\ written' = added /\ added' = multiplied /\ multiplied' = offered
  BY ReadyStep, StagesShift
<1>3. /\ ready \in Seq(Values) /\ written \in Seq(Values) /\ added \in Seq(Values)
      /\ multiplied \in Seq(Values) /\ offered \in Seq(Values) /\ queued \in Seq(Values)
      /\ Flight \in Seq(Values)
  BY FlightLength
<1>4. Value(op) \in Values
  BY DEF Values
<1>5. new \in Seq(Values)
  <2> HIDE DEF Values
  <2> QED
    BY <1>4
<1>6. rest \in Seq(Values)
  <2> HIDE DEF Values
  <2> QED
    BY <1>2, <1>3
<1>7. offered' \in Seq(Values) /\ queued' \in Seq(Values)
  BY ClkKeeps, BackThen
<1> DEFINE Rest(x) == x \o written \o added \o multiplied \o offered
<1> HIDE DEF Values
<1>8. /\ Rest(rest) \in Seq(Values) /\ Rest(ready) \in Seq(Values)
      /\ took => Rest(ready) # << >> /\ Tail(Rest(ready)) = Rest(Tail(ready))
  <2> DEFINE s1(x) == x \o written
             s2(x) == x \o added
             s3(x) == x \o multiplied
             s4(x) == x \o offered
  <2>1. \A x \in Seq(Values) :
           /\ s1(x) \in Seq(Values) /\ s2(x) \in Seq(Values)
           /\ s3(x) \in Seq(Values) /\ s4(x) \in Seq(Values)
           /\ x # << >> => /\ s1(x) # << >> /\ Tail(s1(x)) = s1(Tail(x))
                           /\ s2(x) # << >> /\ Tail(s2(x)) = s2(Tail(x))
                           /\ s3(x) # << >> /\ Tail(s3(x)) = s3(Tail(x))
                           /\ s4(x) # << >> /\ Tail(s4(x)) = s4(Tail(x))
    BY <1>3, Behind
  <2>2. \A x : Rest(x) = s4(s3(s2(s1(x))))
    OBVIOUS
  <2> HIDE DEF s1, s2, s3, s4, Rest
  <2>3. \A x \in Seq(Values) :
           /\ Rest(x) \in Seq(Values)
           /\ x # << >> => Rest(x) # << >> /\ Tail(Rest(x)) = Rest(Tail(x))
    <3> TAKE x \in Seq(Values)
    <3>1. s1(x) \in Seq(Values) /\ s2(s1(x)) \in Seq(Values) /\ s3(s2(s1(x))) \in Seq(Values)
      BY <2>1
    <3>2. Rest(x) \in Seq(Values)
      BY <2>1, <2>2, <3>1
    <3>3. ASSUME x # << >>
          PROVE  Rest(x) # << >> /\ Tail(Rest(x)) = Rest(Tail(x))
      <4>1. s1(x) # << >> /\ Tail(s1(x)) = s1(Tail(x))
        BY <2>1, <3>3
      <4>2. s2(s1(x)) # << >> /\ Tail(s2(s1(x))) = s2(s1(Tail(x)))
        BY <2>1, <3>1, <4>1
      <4>3. s3(s2(s1(x))) # << >> /\ Tail(s3(s2(s1(x)))) = s3(s2(s1(Tail(x))))
        BY <2>1, <3>1, <4>2
      <4> QED
        BY <2>1, <2>2, <3>1, <4>3
    <3> QED
      BY <3>2, <3>3
  <2> HIDE DEF rest, took
  <2> QED
    BY <1>2, <1>3, <1>6, <2>3
<1>9. Flight = Rest(ready) \o queued
  BY FlightParts
<1>10. Flight' = Rest(rest) \o queued \o new
  <2>1. Flight' = ready' \o written' \o added' \o multiplied' \o offered' \o queued'
    BY DEF Flight, Waiting, ready, written, added, multiplied, offered, queued, Results
  <2> DEFINE x == Rest(rest)
  <2>2. Flight' = x \o offered' \o queued'
    BY <1>2, <2>1
  <2>4. offered' \o queued' = queued \o new
    BY <1>1
  <2>6. x \in Seq(Values) /\ queued \in Seq(Values) /\ new \in Seq(Values)
    BY <1>3, <1>5, <1>8
  <2> HIDE DEF x, new
  <2>3. (x \o offered') \o queued' = x \o (offered' \o queued')
    BY <1>7, <2>6, ConcatAssociative
  <2>5. (x \o queued) \o new = x \o (queued \o new)
    BY <2>6, ConcatAssociative
  <2> QED
    BY <2>2, <2>3, <2>4, <2>5 DEF x
<1>11. (IF took THEN Tail(Flight) ELSE Flight) = Rest(rest) \o queued
  <2>1. CASE took
    <3> DEFINE x == Rest(ready)
    <3>1. x # << >> /\ x \in Seq(Values) /\ Tail(x) = Rest(rest) /\ Flight = x \o queued
      BY <1>8, <1>9, <2>1
    <3> HIDE DEF x
    <3>3. queued \in Seq(Values)
      BY <1>3
    <3>2. Tail(x \o queued) = Tail(x) \o queued
      BY <3>1, <3>3, Behind
    <3> QED
      BY <2>1, <3>1, <3>2
  <2>2. CASE ~took
    BY <1>9, <2>2
  <2> QED
    BY <2>1, <2>2
<1>12. took => Flight # << >>
  <2> DEFINE x == Rest(ready)
  <2>1. x \in Seq(Values) /\ Flight = x \o queued /\ (took => x # << >>)
    BY <1>8, <1>9
  <2> HIDE DEF x
  <2> QED
    BY <1>3, <2>1, Behind
<1>13. Flight' = After(Flight, took, wrote, Value(op))
  <2> DEFINE z == IF took THEN Tail(Flight) ELSE Flight
  <2>1. z \in Seq(Values)
    BY <1>3, <1>12
  <2>2. Flight' = z \o new
    BY <1>10, <1>11
  <2> HIDE DEF z, took, wrote
  <2>3. CASE wrote
    <3>1. z \o << Value(op) >> = Append(z, Value(op))
      BY <1>4, <2>1, AppendIsConcat
    <3> QED
      BY <2>2, <2>3, <3>1 DEF After, z
  <2>4. CASE ~wrote
    <3>1. z \o << >> = z
      BY <2>1, ConcatEmptySeq
    <3> QED
      BY <2>2, <2>4, <3>1 DEF After, z
  <2> QED
    BY <2>3, <2>4
<1> QED
  BY <1>1, <1>12, <1>13

(***************************************************************************)
(* The coprocessor                                                         *)
(***************************************************************************)
IInv == Machine /\ Owing

LEMMA IInvStarts == Init => IInv /\ Flight = << >>
<1> SUFFICES ASSUME Init PROVE IInv /\ Flight = << >>
  OBVIOUS
<1>1. Machine /\ PreFifo!Contents = << >> /\ PostFifo!Contents = << >>
  BY Started
<1>2. Len(Flight) = 0
  BY <1>1, FlightLength DEF Init, ready
<1>3. Flight = << >>
  BY <1>1, <1>2, FlightLength
<1> QED
  BY <1>1, <1>2, <1>3, CreditAssumption DEF IInv, Owing, NothingLost, Init

LEMMA ResetEmpties ==
    ASSUME Machine, Reset
    PROVE  IInv' /\ Flight' = << >>
<1>1. Machine' /\ PreFifo!Contents' = << >> /\ PostFifo!Contents' = << >>
  BY Restarted
<1>2. /\ ready' = << >> /\ written' = << >> /\ added' = << >>
      /\ multiplied' = << >> /\ offered' = << >> /\ queued' = << >>
  BY <1>1 DEF Reset, ready, written, added, multiplied, offered, queued, If, Results
<1>3. Flight' = ready' \o written' \o added' \o multiplied' \o offered' \o queued'
  BY DEF Flight, Waiting, ready, written, added, multiplied, offered, queued, Results
<1>4. Flight' = << >>
  BY <1>2, <1>3
<1>5. Owing'
  BY <1>4, CreditAssumption DEF Owing, NothingLost, Reset
<1> QED
  BY <1>1, <1>4, <1>5 DEF IInv

LEMMA ClkOwes ==
    ASSUME Credit <= N, IInv, Clk
    PROVE  IInv' /\ [Abs!Next]_Flight
<1> DEFINE took == pof_rd_en /\ ~PostFifo!empty
<1>1. PICK wr_en \in BOOLEAN, op \in Ops :
         /\ User(wr_en)
         /\ took => Flight # << >>
         /\ Flight' = After(Flight, took, wr_en /\ ~PreFifo!full, Value(op))
  BY FlightStep DEF IInv
<1> DEFINE wrote == wr_en /\ ~PreFifo!full
<1>2. /\ wrote => owed < Credit
      /\ owed' = owed + (IF wrote THEN 1 ELSE 0) - (IF took THEN 1 ELSE 0)
  BY <1>1 DEF User
<1>3. /\ Flight \in Seq(Values) /\ owed = Len(Flight) /\ owed \in 0 .. Credit
      /\ Credit \in Nat /\ Value(op) \in Values
  BY FlightLength, CreditAssumption DEF IInv, Owing, NothingLost, Values
<1>4. Machine'
  BY ClkKeeps DEF IInv
<1>5. Flight' = After(Flight, took, wrote, Value(op)) /\ (took => Flight # << >>)
  BY <1>1
<1>6. [Abs!Next]_Flight
  BY <1>2, <1>3, <1>5 DEF After, Abs!Next, Abs!Put, Abs!Take, Abs!PutAndTake, Values
<1> DEFINE rest == IF took THEN Tail(Flight) ELSE Flight
<1>7. /\ rest \in Seq(Values)
      /\ Len(rest) = Len(Flight) - (IF took THEN 1 ELSE 0)
  <2> HIDE DEF Values, took
  <2> QED
    BY <1>3, <1>5
<1>8. Flight' = IF wrote THEN Append(rest, Value(op)) ELSE rest
  BY <1>5 DEF After
<1>9. Len(Flight') = Len(rest) + (IF wrote THEN 1 ELSE 0)
  <2>1. rest \in Seq(Values) /\ Value(op) \in Values
    BY <1>3, <1>7
  <2> HIDE DEF Values, rest, wrote
  <2>2. Len(Append(rest, Value(op))) = Len(rest) + 1 /\ Len(rest) \in Nat
    BY <2>1, AppendProperties, LenProperties
  <2> QED
    BY <1>8, <2>2
<1>10. Len(Flight) \in Nat /\ (took => Len(Flight) > 0)
  <2> HIDE DEF Values, took
  <2> QED
    BY <1>3, <1>5
<1>11. owed' = Len(Flight') /\ owed' \in 0 .. Credit
  <2> HIDE DEF wrote, took, rest
  <2> QED
    BY <1>2, <1>3, <1>7, <1>9, <1>10
<1> QED
  BY <1>4, <1>6, <1>11 DEF IInv, Owing, NothingLost

LEMMA IInvStep ==
    ASSUME Credit <= N, IInv, [Next]_vars
    PROVE  IInv' /\ [Abs!Next]_Flight
<1>1. CASE Clk
  BY <1>1, ClkOwes
<1>2. CASE Reset
  BY <1>2, ResetEmpties DEF IInv, Abs!Next, Abs!Clear
<1>3. CASE UNCHANGED vars
  <2>1. Machine'
    BY <1>3, MachineStep DEF IInv
  <2>2. Flight' = Flight /\ owed' = owed
    BY <1>3 DEF vars, Flight, Waiting, If, Sum, Value, Product,
                PreFifo!Contents, PreFifo!Occupancy, PreFifo!Slot,
                PostFifo!Contents, PostFifo!Occupancy, PostFifo!Slot
  <2> QED
    BY <2>1, <2>2 DEF IInv, Owing, NothingLost
<1> QED
  BY <1>1, <1>2, <1>3 DEF Next

\* With no more operations under way than a FIFO has words, every operation
\* accepted is in the FIFOs or the pipeline until its result is taken: none
\* is withdrawn from the ALU before it is confirmed and no result is written
\* to a full post_fifo, although the room there is judged a clock early
\* (alu_cop.v:130, alu_cop.v:141).
THEOREM NothingIsLost == Credit <= N => (Spec => []NothingLost)
<1> SUFFICES ASSUME Credit <= N PROVE Spec => []NothingLost
  OBVIOUS
<1>1. Init => IInv
  BY IInvStarts
<1>2. IInv /\ [Next]_vars => IInv'
  BY IInvStep
<1>3. IInv => NothingLost
  BY DEF IInv, Owing
<1> QED
  BY <1>1, <1>2, <1>3, PTL DEF Spec

\* For such a user the coprocessor is a bounded queue of results: they come
\* in the order of their operations, each once and each with its own
\* operation's value (alu_cop.v, alu.v, axi_like_handshake.sv).
THEOREM CoprocessorIsQueue == Credit <= N => (Spec => IsFifo)
<1> SUFFICES ASSUME Credit <= N PROVE Spec => IsFifo
  OBVIOUS
<1>1. Init => IInv /\ Abs!Init
  BY IInvStarts DEF Abs!Init
<1>2. IInv /\ [Next]_vars => IInv' /\ [Abs!Next]_Flight
  BY IInvStep
<1> QED
  BY <1>1, <1>2, PTL DEF Spec, IsFifo, Abs!Spec
===============================================================================
