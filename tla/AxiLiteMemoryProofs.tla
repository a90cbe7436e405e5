-------------------------- MODULE AxiLiteMemoryProofs --------------------------
(***************************************************************************)
(* For every number and size of the RAMs: the two write buffers hold parts *)
(* of one write, and the memory keeps the promises of MemoryPort to        *)
(* masters that write whole words.                                         *)
(***************************************************************************)
EXTENDS AxiLiteMemory, TLAPS

(***************************************************************************)
(* The write queue                                                         *)
(***************************************************************************)
\* The RAM takes a write exactly when both buffers are occupied.
LEMMA TakeIsBoth == TypeOK => (take <=> xt_aw_valid /\ xt_w_valid)
  BY DEF TypeOK, take, xt_aw_w_vld, Addr, Bank

\* A step of the bus removes the oldest write if it was taken, and at most
\* adds one behind the others.
LEMMA QueueStep ==
  ASSUME TypeOK, Paired, Bus
  PROVE  /\ issued' \in Seq(Write)
         /\ Len(issued') >= Len(issued) - Count(take)
         /\ \A i \in 1 .. Len(issued) - Count(take) :
               issued'[i] = issued[i + Count(take)]
  <1> DEFINE rest == IF take THEN Tail(issued) ELSE issued
  <1>1. issued \in Seq(Write)
    BY DEF TypeOK
  <1>2. take => Len(issued) > 0
    BY TakeIsBoth DEF TypeOK, Paired, Count
  <1>3. /\ rest \in Seq(Write)
        /\ Len(rest) = Len(issued) - Count(take)
        /\ \A i \in 1 .. Len(rest) : rest[i] = issued[i + Count(take)]
    <2>1. CASE take
      BY <1>1, <1>2, <2>1 DEF Count
    <2>2. CASE ~take
      BY <1>1, <2>2 DEF Count
    <2> QED  BY <2>1, <2>2
  <1>4. issued' = rest \/ \E w \in Write : issued' = Append(rest, w)
    BY DEF Bus
  <1> HIDE DEF rest
  <1>5. issued' \in Seq(Write) /\ Len(issued') >= Len(rest)
        /\ \A i \in 1 .. Len(rest) : issued'[i] = rest[i]
    BY <1>3, <1>4
  <1> QED  BY <1>3, <1>5

(***************************************************************************)
(* The invariant                                                           *)
(***************************************************************************)
LEMMA InitInvariant == Init => IInv
  <1> SUFFICES ASSUME Init PROVE IInv
    OBVIOUS
  <1>1. 0 \in Banks /\ 0 \in Cells
    BY SizeAssumption DEF Banks, Cells
  <1>2. ZeroAddr \in Addr /\ ZeroWord \in Word
    BY <1>1, ByteAssumption DEF ZeroAddr, ZeroWord, Addr, Word
  <1>3. TypeOK
    BY <1>1, <1>2 DEF Init, TypeOK
  <1>4. Paired
    BY DEF Init, Paired, Count
  <1> QED  BY <1>3, <1>4 DEF IInv

LEMMA ResetInvariant == IInv /\ Reset => IInv'
  <1> SUFFICES ASSUME IInv, Reset PROVE IInv'
    OBVIOUS
  <1>1. 0 \in Banks /\ 0 \in Cells
    BY SizeAssumption DEF Banks, Cells
  <1>2. ZeroAddr \in Addr /\ ZeroWord \in Word
    BY <1>1, ByteAssumption DEF ZeroAddr, ZeroWord, Addr, Word
  <1>3. TypeOK'
    <2>1. UNCHANGED << ram, doutb >>
      BY DEF Reset
    <2>2. ram' \in [Banks -> [Cells -> Word]] /\ doutb' \in [Banks -> Word]
      BY <2>1 DEF IInv, TypeOK
    <2> QED  BY <1>1, <1>2, <2>2 DEF Reset, TypeOK
  <1>4. Paired'
    BY DEF Reset, Paired, Count
  <1> QED  BY <1>3, <1>4 DEF IInv

LEMMA ClkInvariant == IInv /\ Clk => IInv'
  <1> SUFFICES ASSUME IInv, Clk PROVE IInv'
    OBVIOUS
  <1> USE DEF IInv, Clk
  <1>1. /\ issued' \in Seq(Write)
        /\ Len(issued') >= Len(issued) - Count(take)
        /\ \A i \in 1 .. Len(issued) - Count(take) :
              issued'[i] = issued[i + Count(take)]
    BY QueueStep
  <1>2. take <=> xt_aw_valid /\ xt_w_valid
    BY TakeIsBoth
  <1>3. issued \in Seq(Write) /\ Len(issued) \in Nat /\ Len(issued') \in Nat
    BY <1>1 DEF TypeOK
  <1>4. aw_ack => aw_sent + 1 \in 1 .. Len(issued)
    BY <1>3 DEF aw_ack, Paired, Count
  <1>5. w_ack => w_sent + 1 \in 1 .. Len(issued)
    BY <1>3 DEF w_ack, Paired, Count
  <1>6. xt_aw_valid' = ((xt_aw_valid /\ ~take) \/ s_aw_valid)
        /\ xt_w_valid' = ((xt_w_valid /\ ~take) \/ s_w_valid)
    BY DEF Buffers, Held, TypeOK
  <1>7. aw_sent' = Count(xt_aw_valid') /\ w_sent' = Count(xt_w_valid')
    BY <1>2, <1>6 DEF Bus, Paired, Count, aw_ack, w_ack, Ready, TypeOK
  <1>8. TypeOK'
    <2>1. xt_wr_addr' \in Addr
      <3>1. aw_ack => issued[aw_sent + 1] \in Write
        BY <1>3, <1>4
      <3>2. aw_ack => s_aw_addr \in Addr
        BY <3>1 DEF s_aw_addr, Write
      <3> QED  BY <3>2 DEF Buffers, TypeOK
    <2>2. xt_wr_data' \in Word
      <3>1. w_ack => issued[w_sent + 1] \in Write
        BY <1>3, <1>5
      <3>2. w_ack => s_w_data \in Word
        BY <3>1 DEF s_w_data, Write
      <3> QED  BY <3>2 DEF Buffers, TypeOK
    <2>3. ram' \in [Banks -> [Cells -> Word]]
      BY DEF Store, TypeOK
    <2>4. doutb' \in [Banks -> Word] /\ s_ar_addr_deco_1t' \in Banks
      <3>1. CASE ar = << >>
        BY <3>1 DEF Fetch, TypeOK
      <3>2. CASE ar # << >>
        <4>1. PICK a \in Addr : ar = << a >>
          BY <3>2 DEF TypeOK, Asks
        <4>2. Bank(a) \in Banks /\ Cell(a) \in Cells /\ ar[1] = a
          BY <4>1 DEF Addr, Bank, Cell
        <4>3. PICK q \in { ram[Bank(a)][Cell(a)], ram'[Bank(a)][Cell(a)] } :
                  doutb' = [doutb EXCEPT ![Bank(a)] = q]
          BY <3>2, <4>2 DEF Fetch
        <4>4. q \in Word
          BY <2>3, <4>2 DEF TypeOK
        <4>5. doutb' \in [Banks -> Word]
          BY <4>2, <4>3, <4>4 DEF TypeOK
        <4> QED  BY <3>2, <4>2, <4>5 DEF Fetch
      <3> QED  BY <3>1, <3>2
    <2>5. xt_aw_valid' \in BOOLEAN /\ xt_w_valid' \in BOOLEAN
      BY <1>6
    <2>6. xt_r_valid' \in BOOLEAN
      BY DEF Fetch
    <2>7. s_aw_valid' \in BOOLEAN /\ s_w_valid' \in BOOLEAN /\ ar' \in Asks
      BY DEF Bus
    <2>8. aw_sent' \in Nat /\ w_sent' \in Nat
      BY <1>7 DEF Count
    <2> QED  BY <1>1, <2>1, <2>2, <2>3, <2>4, <2>5, <2>6, <2>7, <2>8 DEF TypeOK
  <1>9. Paired'
    <2>1. aw_sent' + Count(s_aw_valid') <= Len(issued')
      <3>1. aw_sent' <= Len(issued) - Count(take)
        BY <1>2, <1>3, <1>6, <1>7 DEF Paired, Count, TypeOK
      <3>2. s_aw_valid' => aw_sent' < Len(issued')
        BY DEF Bus, Offers
      <3> QED  BY <1>1, <1>3, <1>8, <3>1, <3>2 DEF Count, TypeOK
    <2>2. w_sent' + Count(s_w_valid') <= Len(issued')
      <3>1. w_sent' <= Len(issued) - Count(take)
        BY <1>2, <1>3, <1>6, <1>7 DEF Paired, Count, TypeOK
      <3>2. s_w_valid' => w_sent' < Len(issued')
        BY DEF Bus, Offers
      <3> QED  BY <1>1, <1>3, <1>8, <3>1, <3>2 DEF Count, TypeOK
    <2>3. ASSUME xt_aw_valid' PROVE xt_wr_addr' = Head(issued').addr
      <3>1. CASE aw_ack
        <4>1. aw_sent = Count(take) /\ xt_wr_addr' = issued[aw_sent + 1].addr
          BY <1>2, <3>1 DEF aw_ack, Ready, Paired, Count, Buffers, s_aw_addr
        <4>2. issued'[1] = issued[1 + Count(take)]
          BY <1>1, <1>3, <1>4, <3>1, <4>1 DEF Count
        <4> QED  BY <1>1, <1>3, <4>1, <4>2 DEF Count
      <3>2. CASE ~aw_ack
        <4>1. xt_aw_valid /\ ~take
          BY <1>6, <2>3, <3>2 DEF aw_ack, Ready, TypeOK
        <4>2. xt_wr_addr' = issued[1].addr
          BY <1>3, <3>2, <4>1 DEF Buffers, Paired
        <4>3. issued'[1] = issued[1]
          BY <1>1, <1>3, <4>1 DEF Paired, Count, TypeOK
        <4> QED  BY <1>1, <4>2, <4>3
      <3> QED  BY <3>1, <3>2
    <2>4. ASSUME xt_w_valid' PROVE xt_wr_data' = Head(issued').data
      <3>1. CASE w_ack
        <4>1. w_sent = Count(take) /\ xt_wr_data' = issued[w_sent + 1].data
          BY <1>2, <3>1 DEF w_ack, Ready, Paired, Count, Buffers, s_w_data
        <4>2. issued'[1] = issued[1 + Count(take)]
          BY <1>1, <1>3, <1>5, <3>1, <4>1 DEF Count
        <4> QED  BY <1>1, <1>3, <4>1, <4>2 DEF Count
      <3>2. CASE ~w_ack
        <4>1. xt_w_valid /\ ~take
          BY <1>6, <2>4, <3>2 DEF w_ack, Ready, TypeOK
        <4>2. xt_wr_data' = issued[1].data
          BY <1>3, <3>2, <4>1 DEF Buffers, Paired
        <4>3. issued'[1] = issued[1]
          BY <1>1, <1>3, <4>1 DEF Paired, Count, TypeOK
        <4> QED  BY <1>1, <4>2, <4>3
      <3> QED  BY <3>1, <3>2
    <2> QED  BY <1>7, <2>1, <2>2, <2>3, <2>4 DEF Paired
  <1> QED  BY <1>8, <1>9

LEMMA StutterInvariant == IInv /\ UNCHANGED vars => IInv'
  BY DEF IInv, TypeOK, Paired, Count, vars

\* The contents of the two write buffers belong to the oldest write that is
\* not stored, in whatever order address and data arrive.
THEOREM Inductive == Spec => []IInv
  <1>1. IInv /\ [Next]_vars => IInv'
    BY ClkInvariant, ResetInvariant, StutterInvariant DEF Next
  <1> QED  BY <1>1, InitInvariant, PTL DEF Spec

\* Every register keeps to its type.
THEOREM TypeCorrect == Spec => []TypeOK
  BY Inductive, PTL DEF IInv

\* What the two buffers hold belongs together.
THEOREM BuffersPaired == Spec => []Paired
  BY Inductive, PTL DEF IInv

(***************************************************************************)
(* The promises of MemoryPort                                              *)
(***************************************************************************)
WholeWords == Strobes = {Lanes}

LEMMA InitMapped == WholeWords /\ Init => Port!Init
  <1> SUFFICES ASSUME WholeWords, Init PROVE Port!Init
    OBVIOUS
  <1>1. [a \in Addr |-> ram[Bank(a)][Cell(a)]] \in [Addr -> Word]
    BY DEF Init, Addr, Bank, Cell
  <1> QED  BY <1>1 DEF Init, Port!Init, Port!Word, Port!Asks, Word, Asks

\* At its edge the RAM that holds the address, and no other, takes the word.
LEMMA StoreMapped ==
  ASSUME WholeWords, IInv, Clk
  PROVE  Port!Keep \/ Port!Land
  <1> DEFINE mem == [a \in Addr |-> ram[Bank(a)][Cell(a)]]
             next == [a \in Addr |-> ram'[Bank(a)][Cell(a)]]
  <1>1. take <=> xt_aw_valid /\ xt_w_valid
    BY TakeIsBoth DEF IInv
  <1>2. Write \subseteq Port!Write
    BY DEF Port!Write, Write, Port!Word, Word, WholeWords
  <1>3. CASE ~take
    <2>1. \A b \in Banks : ram'[b] = ram[b]
      BY <1>3 DEF Clk, Store, take
    <2>2. next = mem
      BY <2>1 DEF Addr, Bank
    <2>3. issued' = issued \/ \E w \in Write : issued' = Append(issued, w)
      BY <1>3 DEF Clk, Bus
    <2> QED  BY <1>2, <2>2, <2>3 DEF Port!Keep, Port!Issue
  <1>4. CASE take
    <2> DEFINE w == Head(issued)
    <2>1. issued # << >> /\ w \in Write
      BY <1>1, <1>4 DEF IInv, TypeOK, Paired, Count
    <2>2. w.addr = xt_wr_addr /\ w.data = xt_wr_data
      BY <1>1, <1>4 DEF IInv, Paired
    <2>3. \A old : Port!Merge(old, w) = w.data
      BY <2>1 DEF Port!Merge, Write, Word, WholeWords
    <2>4. \A b \in Banks :
              ram'[b] = IF Bank(w.addr) = b
                        THEN [ram[b] EXCEPT ![Cell(w.addr)] = w.data]
                        ELSE ram[b]
      BY <1>1, <1>4, <2>2 DEF Clk, Store, xt_aw_w_vld
    <2>5. w.addr \in Addr
      BY <2>1 DEF Write
    <2>6. next = [mem EXCEPT ![w.addr] = w.data]
      <3>1. ASSUME NEW a \in Addr
            PROVE  next[a] = IF a = w.addr THEN w.data ELSE mem[a]
        <4>1. /\ Bank(a) \in Banks /\ Cell(a) \in Cells
              /\ a = w.addr <=> Bank(a) = Bank(w.addr) /\ Cell(a) = Cell(w.addr)
          BY <2>5 DEF Addr, Bank, Cell
        <4>2. ram[Bank(a)] \in [Cells -> Word]
          BY <4>1 DEF IInv, TypeOK
        <4> HIDE DEF w
        <4> QED  BY <2>4, <4>1, <4>2
      <3> HIDE DEF w
      <3> QED  BY <3>1, <2>5
    <2>7. issued' = Tail(issued)
          \/ \E x \in Write : issued' = Append(Tail(issued), x)
      BY <1>4 DEF Clk, Bus
    <2>8. Port!Issue(Tail(issued))
      BY <1>2, <2>7 DEF Port!Issue
    <2>9. next = [mem EXCEPT ![w.addr] = Port!Merge(@, w)]
      BY <2>3, <2>6
    <2> QED  BY <2>1, <2>8, <2>9 DEF Port!Land
  <1> QED  BY <1>3, <1>4

\* The answer is what the address asked holds, before or after the edge.
LEMMA AnswerMapped ==
  ASSUME IInv, Clk
  PROVE  Port!Answer
  <1> USE DEF IInv, Clk
  <1>1. CASE ar = << >>
    BY <1>1 DEF Fetch, Port!Answer
  <1>2. CASE ar # << >>
    <2>1. PICK a \in Addr : ar = << a >>
      BY <1>2 DEF TypeOK, Asks
    <2>2. Bank(a) \in Banks /\ ar[1] = a
      BY <2>1 DEF Addr, Bank
    <2>3. PICK q \in { ram[Bank(a)][Cell(a)], ram'[Bank(a)][Cell(a)] } :
              doutb' = [doutb EXCEPT ![Bank(a)] = q]
      BY <1>2, <2>2 DEF Fetch
    <2>4. xt_r_valid' = TRUE /\ s_ar_addr_deco_1t' = Bank(a)
      BY <1>2, <2>2 DEF Fetch
    <2>5. s_r_data' = q
      BY <2>2, <2>3, <2>4 DEF s_r_data, TypeOK
    <2> QED  BY <1>2, <2>2, <2>3, <2>4, <2>5 DEF Port!Answer
  <1> QED  BY <1>1, <1>2

LEMMA ClkMapped == WholeWords /\ IInv /\ Clk => Port!Next
  <1> SUFFICES ASSUME WholeWords, IInv, Clk PROVE Port!Next
    OBVIOUS
  <1>1. ar' \in Port!Asks
    BY DEF Clk, Bus, Asks, Port!Asks
  <1> QED  BY <1>1, StoreMapped, AnswerMapped DEF Port!Next, Port!Tick

LEMMA ResetMapped == Reset => Port!Next
  BY DEF Reset, Port!Next, Port!Reset, Asks, Port!Asks

LEMMA StutterMapped == UNCHANGED vars => UNCHANGED Port!vars
  BY DEF vars, Port!vars, s_r_data

\* To masters that write whole words, the memory stores each write once, in
\* order, at its own address, and answers each read from its own.
THEOREM ImplementsMemoryPort == WholeWords => (Spec => IsMemoryPort)
  <1> SUFFICES ASSUME WholeWords PROVE Spec => IsMemoryPort
    OBVIOUS
  <1>1. IInv /\ [Next]_vars => [Port!Next]_Port!vars
    BY ClkMapped, ResetMapped, StutterMapped DEF Next
  <1>2. Init => Port!Init
    BY InitMapped
  <1> QED  BY <1>1, <1>2, Inductive, PTL DEF Spec, IsMemoryPort, Port!Spec
===============================================================================
