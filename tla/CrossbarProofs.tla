---------------------------- MODULE CrossbarProofs ----------------------------
(***************************************************************************)
(* The bus for every set of memories, every job, every set of addresses    *)
(* and words of the processor, and every depth of the crossbar's fifos.    *)
(*                                                                         *)
(* First the processor's own books, which need nothing of the others: what *)
(* it has asked for is in its demultiplexer, once.  Then the pipelines:    *)
(* whatever is asked is answered two clocks later, a word follows its      *)
(* address by one clock and its response by two, so that the fifos always  *)
(* name who is being answered.  Last what the answers and the cells hold.  *)
(***************************************************************************)
EXTENDS Crossbar, RingLemmas, SequenceTheorems

(***************************************************************************)
(* Queues                                                                  *)
(***************************************************************************)
Bit(p) == IF p THEN 1 ELSE 0

\* What an edge may do to a queue, and what it has done.
Moving(S, q, pop, push, x) == /\ q \in Seq(S) /\ pop \in BOOLEAN /\ push \in BOOLEAN
                              /\ pop => q # << >>
                              /\ push => x \in S

Shifted(S, q, pop, push, x, t) ==
    /\ t \in Seq(S)
    /\ Len(t) = (Len(q) - Bit(pop)) + Bit(push)
    /\ \A k \in 1 .. Len(q) - Bit(pop) : t[k] = q[k + Bit(pop)]
    /\ push => t[Len(t)] = x

LEMMA QueueShifts ==
    ASSUME NEW S, NEW q, NEW pop, NEW push, NEW x, Moving(S, q, pop, push, x)
    PROVE  Shifted(S, q, pop, push, x, Queue(q, pop, push, x))
<1> DEFINE rest == IF pop THEN Tail(q) ELSE q
           t == Queue(q, pop, push, x)
<1>1. q \in Seq(S) /\ pop \in BOOLEAN /\ push \in BOOLEAN /\ Len(q) \in Nat
  BY DEF Moving
<1>2. /\ rest \in Seq(S) /\ Len(rest) = Len(q) - Bit(pop)
      /\ \A k \in 1 .. Len(rest) : rest[k] = q[k + Bit(pop)]
  <2>1. CASE pop
    <3>1. q # << >>
      BY <2>1 DEF Moving
    <3>2. /\ Tail(q) \in Seq(S) /\ Len(Tail(q)) = Len(q) - 1
          /\ \A k \in 1 .. Len(Tail(q)) : Tail(q)[k] = q[k + 1]
      BY <1>1, <3>1, HeadTailProperties
    <3> QED
      BY <2>1, <3>2 DEF Bit
  <2>2. CASE ~pop
    BY <1>1, <2>2 DEF Bit
  <2> QED
    BY <1>1, <2>1, <2>2
<1>3. t = IF push THEN Append(rest, x) ELSE rest
  BY DEF Queue
<1> HIDE DEF rest, t
<1>4. Len(rest) \in Nat
  BY <1>2
<1>5. CASE push
  <2>1. x \in S
    BY <1>5 DEF Moving
  <2>2. /\ t \in Seq(S) /\ Len(t) = Len(rest) + 1 /\ t[Len(rest) + 1] = x
        /\ \A k \in 1 .. Len(rest) : t[k] = rest[k]
    BY <1>2, <1>3, <1>5, <2>1, AppendProperties
  <2> QED
    BY <1>2, <1>5, <2>2 DEF Shifted, Bit, t
<1>6. CASE ~push
  BY <1>1, <1>2, <1>3, <1>4, <1>6 DEF Shifted, Bit, t
<1> QED
  BY <1>1, <1>5, <1>6

\* A queue's length, and its head.
LEMMA QueueHead ==
    ASSUME NEW S, NEW q \in Seq(S)
    PROVE  /\ Len(q) \in Nat /\ (Len(q) = 0 <=> q = << >>)
           /\ q # << >> => Len(q) > 0 /\ Head(q) = q[1] /\ Head(q) \in S
<1>1. Len(q) \in Nat /\ (Len(q) = 0 <=> q = << >>)
  BY EmptySeq
<1>2. q # << >> => 1 \in 1 .. Len(q)
  BY <1>1
<1>3. q # << >> => Head(q) = q[1] /\ q[1] \in S
  BY <1>2
<1> QED
  BY <1>1, <1>2, <1>3

(***************************************************************************)
(* The demultiplexers, and the processor's books                           *)
(***************************************************************************)
Ends == Ports \cup {"err"}

Typed ==
    /\ req = << >> \/ \E r \in Requests : req = << r >>
    /\ ack \subseteq {"aw", "w", "ar"}
    /\ i_aw \in 0 .. Len(Job) /\ i_ar \in 0 .. Len(Job)
    /\ \A m \in Masters :
          /\ d_aw[m] \in Seq(Addrs) /\ d_ar[m] \in Seq(Addrs)
          /\ d_w[m] \in Seq(Ends) /\ d_b[m] \in Seq(Ends) /\ d_r[m] \in Seq(Ends)
          /\ d_lock[m] \in BOOLEAN /\ (d_lock[m] => d_aw[m] # << >>)

\* A write that the adapter has handed over is waiting to be shown, or for
\* its word, or for its response; a read, to be shown or for its answer.
Owed ==
    /\ mem_valid => ~xfer_done
    /\ (Len(d_aw[CPU]) - Bit(d_lock[CPU])) + Len(d_w[CPU]) + Len(d_b[CPU])
          = Bit(Doing("write") /\ "aw" \in ack)
    /\ Len(d_b[CPU]) = Bit(Doing("write") /\ "w" \in ack)
    /\ Len(d_ar[CPU]) + Len(d_r[CPU]) = Bit(Doing("read") /\ "ar" \in ack)

Own == Typed /\ Owed

LEMMA DestEnds == \A a \in Addrs : Dest[a] \in Ends
BY AddrsAssumption DEF Ends

LEMMA JobAddress == /\ Len(Job) \in Nat \ {0}
                    /\ \A i \in 1 .. Len(Job) : Job[i] \in Addrs
<1>1. Job \in Seq(Nat) /\ Len(Job) \in Nat /\ Len(Job) # 0
  BY JobAssumption, EmptySeq
<1>2. \A i \in 1 .. Len(Job) : i \in DOMAIN Job
  BY <1>1
<1> QED
  BY <1>1, <1>2 DEF Addrs, JobAddrs

LEMMA RequestType ==
    ASSUME Typed, mem_valid
    PROVE  /\ req[1] \in Requests /\ req[1].addr \in CpuAddrs
           /\ req[1].op \in {"read", "write"}
           /\ req[1].op = "write" => req[1].data \in CpuData
<1>1. PICK r \in Requests : req = << r >>
  BY DEF Typed, mem_valid
<1> QED
  BY <1>1 DEF Requests, Reads, Writes

\* Who sends, what may move.
LEMMA OffersType ==
    ASSUME Typed, NEW m \in Masters
    PROVE  /\ aw_in(m) \in BOOLEAN /\ (aw_in(m) => aw_addr(m) \in Addrs)
           /\ ar_in(m) \in BOOLEAN /\ (ar_in(m) => ar_addr(m) \in Addrs)
<1>1. CASE m = CPU
  <2>1. mem_valid => req[1].addr \in Addrs
    BY RequestType DEF Addrs
  <2> QED
    BY <1>1, <2>1 DEF aw_in, aw_valid, aw_addr, ar_in, ar_valid, ar_addr, Doing
<1>2. CASE m = IMP
  <2>1. i_aw \in 0 .. Len(Job) /\ i_ar \in 0 .. Len(Job)
    BY DEF Typed
  <2>2. (i_aw # 0 => Job[i_aw] \in Addrs) /\ (i_ar # 0 => Job[i_ar] \in Addrs)
    BY <2>1, JobAddress
  <2> QED
    BY <1>2, <2>2 DEF aw_in, aw_valid, aw_addr, ar_in, ar_valid, ar_addr, CPU, IMP
<1> QED
  BY <1>1, <1>2 DEF Masters

LEMMA TakenShown ==
    ASSUME Typed, NEW m \in Masters
    PROVE  /\ AwTaken(m) \in BOOLEAN /\ (AwTaken(m) => AwShown(m))
           /\ WTaken(m) \in BOOLEAN /\ (WTaken(m) => WShown(m))
           /\ BTaken(m) \in BOOLEAN /\ (BTaken(m) => BShown(m) /\ b_ready(m))
           /\ ArTaken(m) \in BOOLEAN /\ (ArTaken(m) => ArShown(m))
           /\ RTaken(m) \in BOOLEAN /\ (RTaken(m) => RShown(m) /\ r_ready(m))
           /\ (BShown(m) => d_b[m] # << >>) /\ (RShown(m) => d_r[m] # << >>)
<1>1. AwTaken(m) \in BOOLEAN /\ (AwTaken(m) => AwShown(m))
  BY DEF AwTaken, ErrAw, AwReqs
<1>2. WTaken(m) \in BOOLEAN /\ (WTaken(m) => WShown(m))
  BY DEF WTaken, ErrW, SlaveW, MuxWShown, WTo
<1>3. ArTaken(m) \in BOOLEAN /\ (ArTaken(m) => ArShown(m))
  BY DEF ArTaken, ErrAr, ArReqs
<1>4. /\ BTaken(m) \in BOOLEAN /\ (BTaken(m) => BShown(m) /\ b_ready(m))
      /\ RTaken(m) \in BOOLEAN /\ (RTaken(m) => RShown(m) /\ r_ready(m))
  BY DEF BTaken, RTaken, b_ready, r_ready, BShown, RShown
<1>5. (BShown(m) => d_b[m] # << >>) /\ (RShown(m) => d_r[m] # << >>)
  BY DEF BShown, RShown, BFrom, RFrom
<1> QED
  BY <1>1, <1>2, <1>3, <1>4, <1>5

\* What an edge does to the queues of a demultiplexer.
AwPush(m) == AwShown(m) /\ ~d_lock[m]

Demux(m) ==
    /\ Shifted(Addrs, d_aw[m], AwTaken(m), aw_in(m), aw_addr(m), d_aw'[m])
    /\ Shifted(Ends, d_w[m], WTaken(m), AwPush(m), AwTo(m), d_w'[m])
    /\ Shifted(Ends, d_b[m], BTaken(m), WTaken(m), Head(d_w[m]), d_b'[m])
    /\ Shifted(Addrs, d_ar[m], ArTaken(m), ar_in(m), ar_addr(m), d_ar'[m])
    /\ Shifted(Ends, d_r[m], RTaken(m), ArTaken(m), ArTo(m), d_r'[m])
    /\ d_lock'[m] = (AwShown(m) /\ ~AwTaken(m))

LEMMA DemuxMoves ==
    ASSUME Typed, DemuxStep, NEW m \in Masters
    PROVE  Demux(m)
<1>1. /\ d_aw'[m] = Queue(d_aw[m], AwTaken(m), aw_in(m), aw_addr(m))
      /\ d_w'[m] = Queue(d_w[m], WTaken(m), AwPush(m), AwTo(m))
      /\ d_b'[m] = Queue(d_b[m], BTaken(m), WTaken(m), Head(d_w[m]))
      /\ d_ar'[m] = Queue(d_ar[m], ArTaken(m), ar_in(m), ar_addr(m))
      /\ d_r'[m] = Queue(d_r[m], RTaken(m), ArTaken(m), ArTo(m))
      /\ d_lock'[m] = (AwShown(m) /\ ~AwTaken(m))
  BY DEF DemuxStep, AwPush
<1>2. /\ d_aw[m] \in Seq(Addrs) /\ d_ar[m] \in Seq(Addrs)
      /\ d_w[m] \in Seq(Ends) /\ d_b[m] \in Seq(Ends) /\ d_r[m] \in Seq(Ends)
  BY DEF Typed
<1>3. /\ AwShown(m) => d_aw[m] # << >> /\ AwTo(m) \in Ends
      /\ ArShown(m) => d_ar[m] # << >> /\ ArTo(m) \in Ends
      /\ WShown(m) => d_w[m] # << >> /\ Head(d_w[m]) \in Ends
  BY <1>2, QueueHead, DestEnds DEF AwShown, AwTo, ArShown, ArTo, WShown
<1>4. AwPush(m) \in BOOLEAN /\ (AwPush(m) => AwShown(m))
  BY DEF AwPush
<1>5. /\ Moving(Addrs, d_aw[m], AwTaken(m), aw_in(m), aw_addr(m))
      /\ Moving(Ends, d_w[m], WTaken(m), AwPush(m), AwTo(m))
      /\ Moving(Ends, d_b[m], BTaken(m), WTaken(m), Head(d_w[m]))
      /\ Moving(Addrs, d_ar[m], ArTaken(m), ar_in(m), ar_addr(m))
      /\ Moving(Ends, d_r[m], RTaken(m), ArTaken(m), ArTo(m))
  BY <1>2, <1>3, <1>4, TakenShown, OffersType DEF Moving
<1> QED
  BY <1>1, <1>5, QueueShifts DEF Demux

LEMMA InitOwn == Init => Own
<1> SUFFICES ASSUME Init PROVE Own
  OBVIOUS
<1>1. \A S : << >> \in Seq(S)
  OBVIOUS
<1>2. Typed
  BY <1>1, JobAddress DEF Init, Typed, Idle, Low
<1>3. Owed
  BY DEF Init, Owed, Idle, Low, Bit, Doing, mem_valid, Masters
<1> QED
  BY <1>2, <1>3 DEF Own

LEMMA ScannedType ==
    ASSUME NEW i \in 0 .. Len(Job), i # 0, NEW taken
    PROVE  Scanned(i, taken) \in 0 .. Len(Job)
<1>1. Len(Job) \in Nat \ {0} /\ Len(Job) + 1 \in Nat \ {0} /\ i + 1 \in Int
  BY JobAddress
<1>2. (i + 1) % (Len(Job) + 1) \in 0 .. (Len(Job) + 1) - 1
  BY <1>1, DivMod
<1> QED
  BY <1>1, <1>2 DEF Scanned

LEMMA TypedStep ==
    ASSUME Typed, Clk
    PROVE  Typed'
<1>1. \A m \in Masters : Demux(m)
  BY DemuxMoves DEF Clk
<1>2. req' = << >> \/ \E r \in Requests : req' = << r >>
  BY DEF Clk, CpuStep, Typed
<1>3. ack' \subseteq {"aw", "w", "ar"}
  BY DEF Clk, CpuStep, Acked, Typed
<1>4. i_aw' \in 0 .. Len(Job) /\ i_ar' \in 0 .. Len(Job)
  BY ScannedType, JobAddress DEF Clk, ImpStep, Typed
<1>5. ASSUME NEW m \in Masters
      PROVE  /\ d_aw'[m] \in Seq(Addrs) /\ d_ar'[m] \in Seq(Addrs)
             /\ d_w'[m] \in Seq(Ends) /\ d_b'[m] \in Seq(Ends) /\ d_r'[m] \in Seq(Ends)
             /\ d_lock'[m] \in BOOLEAN /\ (d_lock'[m] => d_aw'[m] # << >>)
  <2>1. /\ d_aw'[m] \in Seq(Addrs) /\ d_ar'[m] \in Seq(Addrs)
        /\ d_w'[m] \in Seq(Ends) /\ d_b'[m] \in Seq(Ends) /\ d_r'[m] \in Seq(Ends)
        /\ d_lock'[m] = (AwShown(m) /\ ~AwTaken(m))
        /\ Len(d_aw'[m]) = (Len(d_aw[m]) - Bit(AwTaken(m))) + Bit(aw_in(m))
    BY <1>1 DEF Demux, Shifted
  <2>2. d_lock'[m] \in BOOLEAN
    BY <2>1
  <2>3. ASSUME d_lock'[m] PROVE d_aw'[m] # << >>
    <3>1. AwShown(m) /\ ~AwTaken(m)
      BY <2>1, <2>3
    <3>2. d_aw[m] \in Seq(Addrs) /\ d_aw[m] # << >>
      BY <3>1 DEF AwShown, Typed
    <3>3. Len(d_aw[m]) \in Nat /\ Len(d_aw[m]) > 0
      BY <3>2, QueueHead
    <3>4. Bit(AwTaken(m)) = 0 /\ Bit(aw_in(m)) \in {0, 1}
      BY <3>1 DEF Bit
    <3>5. Len(d_aw'[m]) = (Len(d_aw[m]) - Bit(AwTaken(m))) + Bit(aw_in(m))
      BY <2>1
    <3>6. Len(d_aw'[m]) > 0
      BY <3>3, <3>4, <3>5
    <3> QED
      BY <3>6
  <2> QED
    BY <2>1, <2>2, <2>3
<1> QED
  BY <1>2, <1>3, <1>4, <1>5 DEF Typed

\* What the processor has asked for, as the books have it.
LEMMA Books ==
    ASSUME Own
    PROVE  /\ d_b[CPU] # << >> => /\ Doing("write") /\ "aw" \in ack /\ "w" \in ack
                                  /\ Len(d_b[CPU]) = 1 /\ d_w[CPU] = << >>
                                  /\ Len(d_aw[CPU]) - Bit(d_lock[CPU]) = 0
           /\ d_w[CPU] # << >> => Doing("write") /\ "aw" \in ack /\ "w" \notin ack
           /\ d_aw[CPU] # << >> /\ ~d_lock[CPU] => Doing("write") /\ "aw" \in ack
           /\ d_ar[CPU] # << >> \/ d_r[CPU] # << >> => Doing("read") /\ "ar" \in ack
           /\ d_r[CPU] # << >> => Len(d_r[CPU]) = 1 /\ d_ar[CPU] = << >>
<1> DEFINE a == Len(d_aw[CPU])
           w == Len(d_w[CPU])
           b == Len(d_b[CPU])
           r == Len(d_ar[CPU])
           q == Len(d_r[CPU])
<1>1. /\ d_aw[CPU] \in Seq(Addrs) /\ d_ar[CPU] \in Seq(Addrs)
      /\ d_w[CPU] \in Seq(Ends) /\ d_b[CPU] \in Seq(Ends) /\ d_r[CPU] \in Seq(Ends)
      /\ d_lock[CPU] \in BOOLEAN /\ (d_lock[CPU] => d_aw[CPU] # << >>)
  BY DEF Own, Typed, Masters
<1>2. /\ a \in Nat /\ w \in Nat /\ b \in Nat /\ r \in Nat /\ q \in Nat
      /\ (a = 0 <=> d_aw[CPU] = << >>) /\ (w = 0 <=> d_w[CPU] = << >>)
      /\ (b = 0 <=> d_b[CPU] = << >>) /\ (r = 0 <=> d_ar[CPU] = << >>)
      /\ (q = 0 <=> d_r[CPU] = << >>)
  BY <1>1, QueueHead
<1>3. /\ (a - Bit(d_lock[CPU])) + w + b = Bit(Doing("write") /\ "aw" \in ack)
      /\ b = Bit(Doing("write") /\ "w" \in ack)
      /\ r + q = Bit(Doing("read") /\ "ar" \in ack)
  BY DEF Own, Owed
<1> HIDE DEF a, w, b, r, q
<1>4. a - Bit(d_lock[CPU]) \in Nat
  BY <1>1, <1>2 DEF Bit
<1>5. b # 0 => /\ Doing("write") /\ "aw" \in ack /\ "w" \in ack
               /\ b = 1 /\ w = 0 /\ a - Bit(d_lock[CPU]) = 0
  BY <1>2, <1>3, <1>4 DEF Bit
<1>6. w # 0 => Doing("write") /\ "aw" \in ack /\ "w" \notin ack
  BY <1>2, <1>3, <1>4 DEF Bit
<1>7. a # 0 /\ ~d_lock[CPU] => Doing("write") /\ "aw" \in ack
  BY <1>2, <1>3 DEF Bit
<1>8. /\ r # 0 \/ q # 0 => Doing("read") /\ "ar" \in ack
      /\ q # 0 => q = 1 /\ r = 0
  BY <1>2, <1>3 DEF Bit
<1> QED
  BY <1>2, <1>5, <1>6, <1>7, <1>8 DEF a, w, b, r, q

\* What comes to the processor it has asked for.
LEMMA OwnAnswers ==
    ASSUME Own
    PROVE  /\ OwnResponse
           /\ (BTaken(CPU) <=> BShown(CPU)) /\ (RTaken(CPU) <=> RShown(CPU))
           /\ BShown(CPU) \/ RShown(CPU) <=> mem_ready
<1>1. (BShown(CPU) => d_b[CPU] # << >>) /\ (RShown(CPU) => d_r[CPU] # << >>)
  BY DEF BShown, RShown, BFrom, RFrom
<1> QED
  BY <1>1, Books DEF OwnResponse, BTaken, RTaken, b_ready, r_ready, mem_ready

LEMMA OwedStep ==
    ASSUME Own, Clk
    PROVE  Owed'
<1> DEFINE a == Len(d_aw[CPU]) - Bit(d_lock[CPU])
           w == Len(d_w[CPU])
           b == Len(d_b[CPU])
           r == Len(d_ar[CPU])
           q == Len(d_r[CPU])
<1>1. Typed /\ CPU \in Masters /\ Demux(CPU)
  BY DemuxMoves DEF Own, Clk, Masters
<1>2. /\ d_aw[CPU] \in Seq(Addrs) /\ d_ar[CPU] \in Seq(Addrs)
      /\ d_w[CPU] \in Seq(Ends) /\ d_b[CPU] \in Seq(Ends) /\ d_r[CPU] \in Seq(Ends)
      /\ d_lock[CPU] \in BOOLEAN /\ (d_lock[CPU] => d_aw[CPU] # << >>)
  BY <1>1 DEF Typed
<1>3. /\ a \in Int /\ w \in Nat /\ b \in Nat /\ r \in Nat /\ q \in Nat
      /\ (w = 0 <=> d_w[CPU] = << >>) /\ (b = 0 <=> d_b[CPU] = << >>)
      /\ (r = 0 <=> d_ar[CPU] = << >>) /\ (q = 0 <=> d_r[CPU] = << >>)
      /\ a \in Nat
  BY <1>2, QueueHead DEF Bit
<1>4. /\ a + w + b = Bit(Doing("write") /\ "aw" \in ack)
      /\ b = Bit(Doing("write") /\ "w" \in ack)
      /\ r + q = Bit(Doing("read") /\ "ar" \in ack)
      /\ mem_valid => ~xfer_done
  BY DEF Own, Owed
<1>5. /\ (a + w + b)' = ((a + w + b) + Bit(aw_in(CPU))) - Bit(BTaken(CPU))
      /\ b' = (b - Bit(BTaken(CPU))) + Bit(WTaken(CPU))
      /\ (r + q)' = ((r + q) + Bit(ar_in(CPU))) - Bit(RTaken(CPU))
  <2> DEFINE A == Bit(AwTaken(CPU))
             I == Bit(aw_in(CPU))
             W == Bit(WTaken(CPU))
             P == Bit(AwPush(CPU))
             V == Bit(BTaken(CPU))
             R == Bit(ArTaken(CPU))
             J == Bit(ar_in(CPU))
             Q == Bit(RTaken(CPU))
             K == Bit(d_lock[CPU])
             K2 == Bit(d_lock'[CPU])
             l == Len(d_aw[CPU])
             l2 == Len(d_aw'[CPU])
  <2>1. /\ Len(d_aw'[CPU]) = (Len(d_aw[CPU]) - Bit(AwTaken(CPU))) + Bit(aw_in(CPU))
        /\ w' = (w - Bit(WTaken(CPU))) + Bit(AwPush(CPU))
        /\ b' = (b - Bit(BTaken(CPU))) + Bit(WTaken(CPU))
        /\ r' = (r - Bit(ArTaken(CPU))) + Bit(ar_in(CPU))
        /\ q' = (q - Bit(RTaken(CPU))) + Bit(ArTaken(CPU))
        /\ d_lock'[CPU] = (AwShown(CPU) /\ ~AwTaken(CPU))
    BY <1>1 DEF Demux, Shifted
  <2>2. /\ Bit(AwTaken(CPU)) + Bit(d_lock'[CPU]) = Bit(AwPush(CPU)) + Bit(d_lock[CPU])
        /\ Bit(d_lock'[CPU]) \in {0, 1}
    <3>1. AwTaken(CPU) => AwShown(CPU)
      BY <1>1, TakenShown
    <3>2. d_lock[CPU] => AwShown(CPU)
      BY <1>2 DEF AwShown
    <3>3. AwTaken(CPU) \in BOOLEAN
      BY <1>1, TakenShown
    <3>4. CASE AwTaken(CPU)
      <4>1. ~d_lock'[CPU] /\ AwShown(CPU)
        BY <2>1, <3>1, <3>4
      <4> QED
        BY <1>2, <3>4, <4>1 DEF AwPush, Bit
    <3>5. CASE ~AwTaken(CPU) /\ AwShown(CPU)
      <4>1. d_lock'[CPU]
        BY <2>1, <3>5
      <4> QED
        BY <1>2, <3>5, <4>1 DEF AwPush, Bit
    <3>6. CASE ~AwShown(CPU)
      <4>1. ~d_lock'[CPU] /\ ~d_lock[CPU] /\ ~AwTaken(CPU)
        BY <2>1, <3>1, <3>2, <3>6
      <4> QED
        BY <3>6, <4>1 DEF AwPush, Bit
    <3> QED
      BY <3>4, <3>5, <3>6
  <2>3. /\ A \in {0, 1} /\ I \in {0, 1} /\ W \in {0, 1} /\ P \in {0, 1}
        /\ V \in {0, 1} /\ R \in {0, 1} /\ J \in {0, 1} /\ Q \in {0, 1}
        /\ K \in {0, 1} /\ K2 \in {0, 1}
    BY DEF Bit
  <2>4. l \in Nat
    BY <1>2
  <2>5. a = l - K /\ a' = l2 - K2
    BY DEF Bit
  <2>6. (a + w + b)' = a' + w' + b' /\ (r + q)' = r' + q'
    OBVIOUS
  <2>7. /\ l2 = (l - A) + I /\ w' = (w - W) + P /\ b' = (b - V) + W
        /\ r' = (r - R) + J /\ q' = (q - Q) + R /\ A + K2 = P + K
    BY <2>1, <2>2
  <2> HIDE DEF a, w, b, r, q, A, I, W, P, V, R, J, Q, K, K2, l, l2
  <2>8. a' + w' + b' = ((a + w + b) + I) - V
    <3>1. /\ A \in Int /\ I \in Int /\ W \in Int /\ P \in Int /\ V \in Int
          /\ K \in Int /\ K2 \in Int /\ l \in Int /\ a \in Int /\ w \in Int /\ b \in Int
      BY <1>3, <2>3, <2>4
    <3>2. l2 \in Int /\ l2 - K2 = ((l - K) + I) - P
      BY <2>7, <3>1
    <3>3. a' = (a + I) - P
      BY <2>5, <3>1, <3>2
    <3> QED
      BY <2>7, <3>1, <3>3
  <2>9. b' = (b - V) + W /\ r' + q' = ((r + q) + J) - Q
    BY <1>3, <2>3, <2>7
  <2> QED
    BY <2>6, <2>8, <2>9 DEF I, V, W, J, Q
<1>6. /\ xfer_done' = (mem_valid /\ mem_ready) /\ ack' = Acked
      /\ mem_valid => req' = IF mem_ready THEN << >> ELSE req
  BY DEF Clk, CpuStep
<1>7. Owed' = (/\ mem_valid' => ~xfer_done'
               /\ (a + w + b)' = Bit((Doing("write") /\ "aw" \in ack)')
               /\ b' = Bit((Doing("write") /\ "w" \in ack)')
               /\ (r + q)' = Bit((Doing("read") /\ "ar" \in ack)'))
  BY DEF Owed, Bit
<1> HIDE DEF a, w, b, r, q
<1>8. CASE ~mem_valid
  <2>1. ack' = {} /\ ~xfer_done'
    BY <1>6, <1>8 DEF Acked
  <2>2. ~Doing("write") /\ ~Doing("read")
    BY <1>8 DEF Doing
  <2>3. a + w + b = 0 /\ b = 0 /\ r + q = 0
    BY <1>4, <2>2 DEF Bit
  <2>4. ~aw_in(CPU) /\ ~ar_in(CPU) /\ ~WTaken(CPU) /\ ~BTaken(CPU) /\ ~RTaken(CPU)
    <3>1. ~aw_in(CPU) /\ ~ar_in(CPU) /\ ~WShown(CPU)
      BY <2>2 DEF aw_in, aw_valid, ar_in, ar_valid, WShown, w_valid
    <3>2. ~b_ready(CPU) /\ ~r_ready(CPU)
      BY <2>2 DEF b_ready, r_ready
    <3> QED
      BY <1>1, <3>1, <3>2, TakenShown
  <2>5. (a + w + b)' = 0 /\ b' = 0 /\ (r + q)' = 0
    BY <1>5, <2>3, <2>4 DEF Bit
  <2> QED
    BY <1>7, <2>1, <2>5 DEF Bit
<1>9. CASE mem_valid /\ mem_ready
  <2>1. ~mem_valid' /\ ~Doing("write")' /\ ~Doing("read")'
    BY <1>6, <1>9 DEF mem_valid, Doing
  <2>2. BShown(CPU) \/ RShown(CPU)
    BY <1>9 DEF mem_ready
  <2>3. CASE BShown(CPU)
    <3>1. BTaken(CPU) /\ Doing("write") /\ {"aw", "w"} \subseteq ack
      BY <2>3, OwnAnswers DEF OwnResponse
    <3>2. ~Doing("read")
      BY <3>1 DEF Doing
    <3>3. ~aw_in(CPU) /\ ~ar_in(CPU) /\ ~WShown(CPU) /\ ~r_ready(CPU)
      BY <3>1, <3>2 DEF aw_in, aw_valid, ar_in, ar_valid, WShown, w_valid, r_ready
    <3>4. ~WTaken(CPU) /\ ~RTaken(CPU)
      BY <1>1, <3>3, TakenShown
    <3>5. a + w + b = 1 /\ b = 1 /\ r + q = 0
      BY <1>4, <3>1, <3>2 DEF Bit
    <3>6. (a + w + b)' = 0 /\ b' = 0 /\ (r + q)' = 0
      BY <1>5, <3>1, <3>3, <3>4, <3>5 DEF Bit
    <3> QED
      BY <1>7, <2>1, <3>6 DEF Bit
  <2>4. CASE RShown(CPU)
    <3>1. RTaken(CPU) /\ Doing("read") /\ "ar" \in ack
      BY <2>4, OwnAnswers DEF OwnResponse
    <3>2. ~Doing("write")
      BY <3>1 DEF Doing
    <3>3. ~aw_in(CPU) /\ ~ar_in(CPU) /\ ~WShown(CPU) /\ ~b_ready(CPU)
      BY <3>1, <3>2 DEF aw_in, aw_valid, ar_in, ar_valid, WShown, w_valid, b_ready
    <3>4. ~WTaken(CPU) /\ ~BTaken(CPU)
      BY <1>1, <3>3, TakenShown
    <3>5. a + w + b = 0 /\ b = 0 /\ r + q = 1
      BY <1>4, <3>1, <3>2 DEF Bit
    <3>6. (a + w + b)' = 0 /\ b' = 0 /\ (r + q)' = 0
      BY <1>5, <3>1, <3>3, <3>4, <3>5 DEF Bit
    <3> QED
      BY <1>7, <2>1, <3>6 DEF Bit
  <2> QED
    BY <2>2, <2>3, <2>4
<1>10. CASE mem_valid /\ ~mem_ready
  <2>1. req' = req /\ ~xfer_done' /\ ~xfer_done
    BY <1>4, <1>6, <1>10
  <2>2. /\ "aw" \in ack' <=> "aw" \in ack \/ aw_in(CPU)
        /\ "w" \in ack' <=> "w" \in ack \/ WTaken(CPU)
        /\ "ar" \in ack' <=> "ar" \in ack \/ ar_in(CPU)
    BY <1>6, <1>10, <2>1 DEF Acked
  <2>3. ~BTaken(CPU) /\ ~RTaken(CPU)
    BY <1>10 DEF mem_ready, BTaken, RTaken
  <2>4. (Doing("write")' <=> Doing("write")) /\ (Doing("read")' <=> Doing("read"))
    BY <2>1 DEF Doing, mem_valid
  <2>5. /\ aw_in(CPU) => Doing("write") /\ "aw" \notin ack
        /\ WTaken(CPU) => Doing("write") /\ "w" \notin ack
        /\ ar_in(CPU) => Doing("read") /\ "ar" \notin ack
    BY <1>1, TakenShown DEF aw_in, aw_valid, WShown, w_valid, ar_in, ar_valid
  <2>6. (a + w + b)' = Bit((Doing("write") /\ "aw" \in ack)')
    BY <1>4, <1>5, <2>2, <2>3, <2>4, <2>5 DEF Bit
  <2>7. b' = Bit((Doing("write") /\ "w" \in ack)')
    BY <1>4, <1>5, <2>2, <2>3, <2>4, <2>5 DEF Bit
  <2>8. (r + q)' = Bit((Doing("read") /\ "ar" \in ack)')
    BY <1>4, <1>5, <2>2, <2>3, <2>4, <2>5 DEF Bit
  <2> QED
    BY <1>7, <2>1, <2>6, <2>7, <2>8
<1> QED
  BY <1>8, <1>9, <1>10

LEMMA NextOwn == Own /\ [Next]_vars => Own'
<1> SUFFICES ASSUME Own, [Next]_vars PROVE Own'
  OBVIOUS
<1>1. CASE Clk
  BY <1>1, TypedStep, OwedStep DEF Own
<1>2. CASE UNCHANGED vars
  BY <1>2 DEF vars, Own, Typed, Owed, Doing, mem_valid
<1> QED
  BY <1>1, <1>2 DEF Next

LEMMA OwnInductive == Spec => []Own
BY InitOwn, NextOwn, PTL DEF Spec

\* No response that reaches the processor's adapter (picorv32_axi_adapter.sv),
\* which takes any for the end of what it waits for, belongs to anything else
\* or comes before what it answers was accepted: for every depth of the
\* fifos, and whatever the image master and the memories do.
THEOREM ResponsesAreOwn == Spec => []OwnResponse
<1>1. Own => OwnResponse
  BY OwnAnswers
<1> QED
  BY <1>1, OwnInductive, PTL

(***************************************************************************)
(* The read pipeline: what was asked at the last edge (one), what is being *)
(* answered now (two)                                                      *)
(***************************************************************************)
Slots == [Masters -> {<< >>} \cup {<< a >> : a \in Addrs}]

\* In x, does m address s; does anyone; who?
Asks(x, s, m) == x[m] # << >> /\ Dest[x[m][1]] = s
Some(x, s) == \E m \in Masters : Asks(x, s, m)
Who(x, s) == IF Asks(x, s, CPU) THEN CPU ELSE IMP
OneEach(x) == \A s \in Ports : ~(Asks(x, s, CPU) /\ Asks(x, s, IMP))

\* Who it is, and where it goes, as queues of one place at most.
Asker(x, s) == IF Some(x, s) THEN << Who(x, s) >> ELSE << >>
End(place) == IF place = << >> THEN << >> ELSE << Dest[place[1]] >>

Line(a, b) == IF a = << >> THEN b ELSE IF b = << >> THEN a ELSE << a[1], b[1] >>

ArbOK(arb, reqs) == /\ arb.rr \in {0, 1} /\ arb.lock \in BOOLEAN
                    /\ arb.lock => arb.req # {} /\ arb.req \subseteq reqs

Reading(one, two) ==
    /\ one \in Slots /\ two \in Slots /\ OneEach(one) /\ OneEach(two)
    /\ \A m \in Masters :
          /\ d_r[m] = Line(End(two[m]), End(one[m])) /\ Len(d_r[m]) <= MaxTrans
          /\ e_busy[m] = Asks(two, "err", m)
          /\ e_r[m] = (Asks(one, "err", m) \/ Asks(two, "err", m))
          /\ ~(Asks(one, "err", m) /\ Asks(two, "err", m))
    /\ \A s \in Ports :
          /\ m_ar[s] = IF Some(one, s) THEN one[Who(one, s)] ELSE << >>
          /\ m_r[s] = Line(Asker(two, s), Asker(one, s))
          /\ ArbOK(ar_arb[s], ArReqs(s))
    /\ \A s \in Memories : r_valid[s] = Some(two, s)
    /\ r_spill = IF Some(two, "REGF0") THEN << Head(r_spill) >> ELSE << >>

LEMMA AppendTwo ==
    ASSUME NEW x, NEW y
    PROVE  Append(<< x >>, y) = << x, y >>
<1> DEFINE S == {x, y}
           s == Append(<< x >>, y)
           t == << x, y >>
<1>1. << x >> \in Seq(S) /\ y \in S /\ Len(<< x >>) = 1 /\ << x >>[1] = x
  OBVIOUS
<1>2. s \in Seq(S) /\ Len(s) = 2 /\ s[1] = x /\ s[2] = y
  BY <1>1, AppendProperties
<1>3. t \in Seq(S) /\ Len(t) = 2 /\ t[1] = x /\ t[2] = y
  OBVIOUS
<1> HIDE DEF s, t, S
<1>4. \A i \in 1 .. 2 : i = 1 \/ i = 2
  OBVIOUS
<1>5. \A i \in 1 .. Len(s) : s[i] = t[i]
  BY <1>2, <1>3, <1>4
<1>6. s = t
  BY <1>2, <1>3, <1>5, SeqEqual
<1> QED
  BY <1>6 DEF s, t

LEMMA SmallQueues ==
    ASSUME NEW x, NEW y
    PROVE  /\ << x >> # << >> /\ << x, y >> # << >>
           /\ Head(<< x >>) = x /\ Head(<< x, y >>) = x
           /\ Tail(<< x >>) = << >> /\ Tail(<< x, y >>) = << y >>
           /\ Append(<< >>, x) = << x >> /\ Append(<< x >>, y) = << x, y >>
           /\ Len(<< >>) = 0 /\ Len(<< x >>) = 1 /\ Len(<< x, y >>) = 2
<1>1. /\ << x >> # << >> /\ << x, y >> # << >>
      /\ Head(<< x >>) = x /\ Head(<< x, y >>) = x
  OBVIOUS
<1>2. Tail(<< x >>) = << >>
  OBVIOUS
<1>3. Tail(<< x, y >>) = << y >>
  OBVIOUS
<1>4. Append(<< >>, x) = << x >>
  OBVIOUS
<1>5. Len(<< >>) = 0 /\ Len(<< x >>) = 1 /\ Len(<< x, y >>) = 2
  OBVIOUS
<1> QED
  BY <1>1, <1>2, <1>3, <1>4, <1>5, AppendTwo

Short(x) == x = << >> \/ x = << x[1] >>

\* A line of a and b whose first place, if taken, is served, and that c joins,
\* if anyone.
Serving(q, pop, push, z, a, b, c) ==
    /\ q = Line(a, b) /\ Short(a) /\ Short(b) /\ Short(c)
    /\ pop <=> a # << >>
    /\ push <=> c # << >>
    /\ push => c[1] = z

LEMMA LineMoves ==
    ASSUME NEW q, NEW pop, NEW push, NEW z, NEW a, NEW b, NEW c,
           Serving(q, pop, push, z, a, b, c)
    PROVE  Queue(q, pop, push, z) = Line(b, c)
<1>1. /\ q = Line(a, b) /\ (pop <=> a # << >>) /\ (push <=> c # << >>)
      /\ a = << >> \/ a = << a[1] >>
      /\ b = << >> \/ b = << b[1] >>
      /\ c = << >> \/ c = << c[1] >>
      /\ push => c = << z >>
  BY DEF Serving, Short
<1>2. (IF pop THEN Tail(q) ELSE q) = b
  <2>1. CASE a = << >>
    BY <1>1, <2>1 DEF Line
  <2>2. CASE a = << a[1] >> /\ b = << >>
    <3>1. q = << a[1] >> /\ pop
      BY <1>1, <2>2, SmallQueues DEF Line
    <3> QED
      BY <2>2, <3>1, SmallQueues
  <2>3. CASE a = << a[1] >> /\ b = << b[1] >>
    <3>1. q = << a[1], b[1] >> /\ pop
      BY <1>1, <2>3, SmallQueues DEF Line
    <3> QED
      BY <2>3, <3>1, SmallQueues
  <2> QED
    BY <1>1, <2>1, <2>2, <2>3
<1>3. Queue(q, pop, push, z) = IF push THEN Append(b, z) ELSE b
  BY <1>2 DEF Queue
<1>4. CASE ~push
  BY <1>1, <1>3, <1>4 DEF Line
<1>5. CASE push
  <2>1. c = << z >> /\ c # << >> /\ c[1] = z
    BY <1>1, <1>5, SmallQueues
  <2>2. Append(b, z) = Line(b, c)
    <3>1. CASE b = << >>
      BY <2>1, <3>1, SmallQueues DEF Line
    <3>2. CASE b = << b[1] >>
      <4>1. b # << >> /\ Line(b, c) = << b[1], z >>
        BY <2>1, <3>2, SmallQueues DEF Line
      <4>2. Append(<< b[1] >>, z) = << b[1], z >>
        BY AppendTwo
      <4> QED
        BY <3>2, <4>1, <4>2
    <3> QED
      BY <1>1, <3>1, <3>2
  <2> QED
    BY <1>3, <1>5, <2>2
<1> QED
  BY <1>4, <1>5

\* A fifo of one place at most, served when it is full.
OneIn(q, pop, push, z, c) == /\ Short(q) /\ Short(c)
                             /\ pop <=> q # << >>
                             /\ push <=> c # << >>
                             /\ push => c[1] = z

LEMMA OneMoves ==
    ASSUME NEW q, NEW pop, NEW push, NEW z, NEW c, OneIn(q, pop, push, z, c)
    PROVE  Queue(q, pop, push, z) = c
<1>1. q = Line(q, << >>) /\ Short(<< >>) /\ Line(<< >>, c) = c
  BY DEF Line, Short
<1>2. Serving(q, pop, push, z, q, << >>, c)
  BY <1>1 DEF Serving, OneIn
<1> QED
  BY <1>1, <1>2, LineMoves

LEMMA LineHead ==
    ASSUME NEW a, NEW b, Short(a), Short(b)
    PROVE  /\ Line(a, b) # << >> <=> a # << >> \/ b # << >>
           /\ a # << >> => Head(Line(a, b)) = a[1]
           /\ a = << >> /\ b # << >> => Head(Line(a, b)) = b[1]
           /\ Short(Line(a, b)) \/ Len(Line(a, b)) = 2
BY SmallQueues DEF Line, Short

LEMMA WhoAsks ==
    ASSUME NEW x, OneEach(x), NEW s \in Ports
    PROVE  /\ \A m \in Masters : Asks(x, s, m) => Some(x, s) /\ Who(x, s) = m
           /\ Some(x, s) => Who(x, s) \in Masters /\ Asks(x, s, Who(x, s))
BY DEF Masters, OneEach, Some, Who, CPU, IMP

LEMMA SlotType ==
    ASSUME NEW x \in Slots, NEW m \in Masters
    PROVE  /\ Short(x[m]) /\ Short(End(x[m]))
           /\ x[m] # << >> => /\ x[m][1] \in Addrs /\ x[m] = << x[m][1] >>
                              /\ End(x[m]) = << Dest[x[m][1]] >>
           /\ x[m] # << >> <=> End(x[m]) # << >>
           /\ x[m] # << >> => \E s \in Ends : Asks(x, s, m)
           /\ \A s : Asks(x, s, m) => End(x[m])[1] = s
<1>1. x[m] \in {<< >>} \cup {<< a >> : a \in Addrs}
  BY DEF Slots
<1>2. x[m] = << >> \/ \E a \in Addrs : x[m] = << a >>
  BY <1>1
<1>3. x[m] # << >> => x[m][1] \in Addrs /\ x[m] = << x[m][1] >>
  BY <1>2
<1>4. x[m] # << >> => Dest[x[m][1]] \in Ends
  BY <1>3, DestEnds
<1> QED
  BY <1>3, <1>4, SmallQueues DEF Short, End, Asks

LEMMA AskerType ==
    ASSUME NEW x, OneEach(x), NEW s \in Ports
    PROVE  /\ Short(Asker(x, s))
           /\ Asker(x, s) # << >> <=> Some(x, s)
           /\ \A m \in Masters : Asks(x, s, m) => Asker(x, s)[1] = m
           /\ Some(x, s) => Asker(x, s)[1] = Who(x, s)
BY WhoAsks, SmallQueues DEF Asker, Short

\* An answer is there for exactly those who asked two edges ago, and they
\* take it.
LEMMA Answered ==
    ASSUME Own, NEW one, NEW two, Reading(one, two), NEW m \in Masters
    PROVE  /\ RShown(m) <=> two[m] # << >>
           /\ RTaken(m) <=> two[m] # << >>
           /\ \A s : RFrom(m, s) /\ RTaken(m) <=> Asks(two, s, m)
<1>1. /\ one \in Slots /\ two \in Slots /\ OneEach(one) /\ OneEach(two)
      /\ d_r[m] = Line(End(two[m]), End(one[m]))
      /\ e_busy[m] = Asks(two, "err", m)
      /\ \A s \in Ports : m_r[s] = Line(Asker(two, s), Asker(one, s))
      /\ \A s \in Memories : r_valid[s] = Some(two, s)
      /\ r_spill = IF Some(two, "REGF0") THEN << Head(r_spill) >> ELSE << >>
  BY DEF Reading
<1>2. \A s \in Ports : SlaveRValid(s) <=> Some(two, s)
  BY <1>1, SmallQueues DEF SlaveRValid, Ports
<1>3. /\ Short(End(two[m])) /\ Short(End(one[m]))
      /\ \A s \in Ports : Short(Asker(two, s)) /\ Short(Asker(one, s))
  BY <1>1, SlotType, AskerType
<1>4. CASE two[m] # << >>
  <2>1. PICK s \in Ends : Asks(two, s, m)
    BY <1>1, <1>4, SlotType
  <2>2. d_r[m] # << >> /\ Head(d_r[m]) = s
    <3>1. End(two[m]) # << >> /\ End(two[m])[1] = s
      BY <1>1, <1>4, <2>1, SlotType
    <3> QED
      BY <1>1, <1>3, <3>1, LineHead
  <2>3. RShown(m)
    <3>1. CASE s = "err"
      BY <1>1, <2>1, <2>2, <3>1 DEF RShown, RFrom
    <3>2. CASE s \in Ports
      <4>1. Some(two, s) /\ Asker(two, s) # << >> /\ Asker(two, s)[1] = m
        BY <1>1, <2>1, <3>2, WhoAsks, AskerType
      <4>2. m_r[s] # << >> /\ Head(m_r[s]) = m
        BY <1>1, <1>3, <3>2, <4>1, LineHead
      <4> QED
        BY <1>2, <2>2, <3>2, <4>1, <4>2 DEF RShown, RFrom, MuxRTo
    <3> QED
      BY <3>1, <3>2 DEF Ends
  <2>4. RTaken(m)
    BY <2>3, OwnAnswers DEF RTaken, r_ready, Masters, CPU, IMP
  <2>5. \A t : Asks(two, t, m) <=> t = s
    BY <2>1 DEF Asks
  <2> QED
    BY <1>4, <2>2, <2>3, <2>4, <2>5 DEF RFrom
<1>5. CASE two[m] = << >>
  <2>1. ~RShown(m)
    <3>1. \A s : ~Asks(two, s, m)
      BY <1>5 DEF Asks
    <3>2. ASSUME NEW s \in Ports, MuxRTo(s, m) PROVE FALSE
      <4>1. Some(two, s) /\ Head(m_r[s]) = m
        BY <1>2, <3>2 DEF MuxRTo
      <4>2. Asker(two, s) # << >> /\ Asker(two, s)[1] = Who(two, s)
        BY <1>1, <4>1, AskerType
      <4>3. Head(m_r[s]) = Who(two, s)
        BY <1>1, <1>3, <4>2, LineHead
      <4> QED
        BY <1>1, <3>1, <4>1, <4>3, WhoAsks
    <3> QED
      BY <1>1, <3>1, <3>2 DEF RShown
  <2> QED
    BY <1>5, <2>1 DEF RTaken, Asks
<1> QED
  BY <1>4, <1>5

\* An arbiter hears only those who still ask, and one of them is chosen.
LEMMA Chosen ==
    ASSUME NEW arb, NEW reqs, reqs \subseteq Masters, ArbOK(arb, reqs)
    PROVE  /\ Heard(arb, reqs) \subseteq reqs
           /\ Heard(arb, reqs) # {} <=> reqs # {}
           /\ reqs # {} => Choice(arb, reqs) \in reqs
<1>1. /\ Heard(arb, reqs) \subseteq reqs
      /\ Heard(arb, reqs) # {} <=> reqs # {}
  BY DEF Heard, ArbOK
<1>2. \A h : h # {} /\ h \subseteq Masters => 0 \in h \/ 1 \in h
  BY DEF Masters, CPU, IMP
<1>3. reqs # {} => Choice(arb, reqs) \in Heard(arb, reqs)
  BY <1>1, <1>2 DEF Choice
<1> QED
  BY <1>1, <1>3

\* What is asked at this edge.
NowAsked == [m \in Masters |-> IF ArTaken(m) THEN << Head(d_ar[m]) >> ELSE << >>]

LEMMA ErrNotPort == "err" \notin Ports
BY MemoriesAssumption DEF Ports

LEMMA Asking ==
    ASSUME Typed, NEW one, NEW two, Reading(one, two), NEW new, new = NowAsked
    PROVE  /\ new \in Slots /\ OneEach(new)
           /\ \A m \in Masters : /\ new[m] # << >> <=> ArTaken(m)
                                 /\ ArTaken(m) => End(new[m])[1] = ArTo(m)
                                 /\ Asks(new, "err", m) <=> ErrAr(m)
           /\ \A s \in Ports : /\ MuxArTaken(s) <=> Some(new, s)
                               /\ MuxArTaken(s) => /\ Who(new, s) = ArChoice(s)
                                                   /\ new[ArChoice(s)] = << Head(d_ar[ArChoice(s)]) >>
<1>1. ASSUME NEW m \in Masters
      PROVE  /\ ArTaken(m) => ArShown(m)
             /\ new[m] = IF ArTaken(m) THEN << Head(d_ar[m]) >> ELSE << >>
             /\ ArShown(m) => Head(d_ar[m]) \in Addrs
  <2>1. d_ar[m] \in Seq(Addrs)
    BY DEF Typed
  <2>2. d_ar[m] # << >> => Head(d_ar[m]) \in Addrs
    BY <2>1, QueueHead
  <2> QED
    BY <2>2, TakenShown DEF NowAsked, ArShown
<1>2. new \in Slots
  <2>1. \A m \in Masters : new[m] \in {<< >>} \cup {<< a >> : a \in Addrs}
    BY <1>1
  <2> QED
    BY <2>1 DEF NowAsked, Slots
<1>3. ASSUME NEW m \in Masters
      PROVE  /\ new[m] # << >> <=> ArTaken(m)
             /\ ArTaken(m) => new[m][1] = Head(d_ar[m]) /\ End(new[m])[1] = ArTo(m)
             /\ \A s : Asks(new, s, m) <=> ArTaken(m) /\ ArTo(m) = s
  <2>1. CASE ArTaken(m)
    <3>1. new[m] = << Head(d_ar[m]) >> /\ new[m] # << >> /\ new[m][1] = Head(d_ar[m])
      <4>1. PICK h : h = Head(d_ar[m])
        OBVIOUS
      <4>2. new[m] = << h >>
        BY <1>1, <2>1, <4>1
      <4> QED
        BY <4>1, <4>2
    <3>2. End(new[m])[1] = ArTo(m)
      BY <3>1 DEF End, ArTo
    <3>3. \A s : Asks(new, s, m) <=> ArTo(m) = s
      BY <3>1 DEF Asks, ArTo
    <3> QED
      BY <2>1, <3>1, <3>2, <3>3
  <2>2. CASE ~ArTaken(m)
    BY <1>1, <2>2 DEF Asks
  <2> QED
    BY <2>1, <2>2
<1>4. ASSUME NEW m \in Masters
      PROVE  Asks(new, "err", m) <=> ErrAr(m)
  BY <1>3, ErrNotPort DEF ArTaken, ErrAr, ArReqs
<1>5. ASSUME NEW s \in Ports
      PROVE  /\ MuxArTaken(s) => ArChoice(s) \in ArReqs(s)
             /\ \A m \in Masters : Asks(new, s, m) <=> MuxArTaken(s) /\ ArChoice(s) = m
  <2>1. ArReqs(s) \subseteq Masters /\ ArbOK(ar_arb[s], ArReqs(s))
    BY DEF ArReqs, Reading
  <2>2. MuxArTaken(s) => ArChoice(s) \in ArReqs(s)
    BY <2>1, Chosen DEF MuxArTaken, ArChoice
  <2>3. ASSUME NEW m \in Masters, Asks(new, s, m)
        PROVE  MuxArTaken(s) /\ ArChoice(s) = m
    BY <1>3, <2>3, ErrNotPort DEF ArTaken, ErrAr, ArReqs
  <2>4. ASSUME NEW m \in Masters, MuxArTaken(s), ArChoice(s) = m
        PROVE  Asks(new, s, m)
    BY <1>3, <2>2, <2>4 DEF ArTaken, ArReqs
  <2> QED
    BY <2>2, <2>3, <2>4
<1>6. \A s \in Ports : MuxArTaken(s) => ArChoice(s) \in Masters
  BY <1>5 DEF ArReqs
<1>7. OneEach(new)
  BY <1>5 DEF OneEach, Masters, CPU, IMP
<1>8. ASSUME NEW s \in Ports
      PROVE  /\ MuxArTaken(s) <=> Some(new, s)
             /\ MuxArTaken(s) => /\ Who(new, s) = ArChoice(s)
                                 /\ new[ArChoice(s)] = << Head(d_ar[ArChoice(s)]) >>
  <2>1. MuxArTaken(s) <=> Some(new, s)
    BY <1>5, <1>6 DEF Some
  <2>2. MuxArTaken(s) => Asks(new, s, ArChoice(s))
    BY <1>5, <1>6
  <2>3. ASSUME MuxArTaken(s)
        PROVE  /\ Who(new, s) = ArChoice(s)
               /\ new[ArChoice(s)] = << Head(d_ar[ArChoice(s)]) >>
    <3>1. ArChoice(s) \in Masters /\ Asks(new, s, ArChoice(s))
      BY <1>6, <2>2, <2>3
    <3>2. ArTaken(ArChoice(s))
      BY <1>3, <3>1
    <3> QED
      BY <1>1, <1>7, <3>1, <3>2, WhoAsks
  <2> QED
    BY <2>1, <2>3
<1> QED
  BY <1>2, <1>3, <1>4, <1>7, <1>8

\* What an edge does to the queues and flags of the read side.
ReadMoves(m) ==
    /\ d_r'[m] = Queue(d_r[m], RTaken(m), ArTaken(m), ArTo(m))
    /\ e_r'[m] = IF e_r[m] THEN ~(e_busy[m] /\ RFrom(m, "err") /\ RTaken(m)) ELSE ErrAr(m)
    /\ e_busy'[m] = IF e_busy[m] THEN ~(RFrom(m, "err") /\ RTaken(m)) ELSE e_r[m]

\* Someone takes an answer from s.
Answers(s) == \E m \in Masters : RFrom(m, s) /\ RTaken(m)

AsksMoves(s) ==
    /\ m_ar'[s] = Queue(m_ar[s], SlaveAr(s), MuxArTaken(s), Head(d_ar[ArChoice(s)]))
    /\ m_r'[s] = Queue(m_r[s], Answers(s), MuxArTaken(s), ArChoice(s))
    /\ ar_arb'[s] = Arbitrated(ar_arb[s], ArReqs(s), ArGnt(s))

LEMMA ReadEdge ==
    ASSUME Clk
    PROVE  /\ \A m \in Masters : ReadMoves(m)
           /\ \A s \in Ports : AsksMoves(s)
           /\ \A s \in Memories : r_valid'[s] = (m_ar[s] # << >>)
           /\ r_spill' = Queue(r_spill, Answers("REGF0"), SlaveAr("REGF0"),
                               reg_q[Head(m_ar["REGF0"])])
BY DEF Clk, DemuxStep, MuxStep, ErrStep, MemoryStep, RegsStep, ReadMoves, AsksMoves, Answers

\* Who asks a slave that can take no more goes on asking.
LEMMA StillAsking ==
    ASSUME Own, NEW one, NEW two, Reading(one, two), Clk,
           NEW s \in Ports, ~ArGnt(s)
    PROVE  ArReqs(s) \subseteq ArReqs(s)'
<1> SUFFICES ASSUME NEW m \in Masters, m \in ArReqs(s)
             PROVE  ArShown(m)' /\ ArTo(m)' = s
  BY DEF ArReqs
<1>1. Typed /\ Demux(m)
  BY DemuxMoves DEF Own, Clk
<1>2. ArShown(m) /\ ArTo(m) = s
  BY DEF ArReqs
<1>3. ~ArTaken(m)
  BY <1>2, ErrNotPort DEF ArTaken, ErrAr, ArReqs, MuxArTaken
<1>4. /\ d_ar[m] \in Seq(Addrs) /\ d_ar[m] # << >> /\ d_r[m] \in Seq(Ends)
      /\ Len(d_r[m]) # MaxTrans /\ Len(d_r[m]) <= MaxTrans
  BY <1>1, <1>2 DEF Typed, ArShown, Full, Reading
<1>5. d_ar'[m] # << >> /\ Head(d_ar'[m]) = Head(d_ar[m])
  <2> DEFINE q == d_ar[m]
             t == d_ar'[m]
             n == Len(q)
             k == Len(t)
             J == Bit(ar_in(m))
  <2>1. /\ t \in Seq(Addrs) /\ Len(t) = (Len(q) - Bit(ArTaken(m))) + Bit(ar_in(m))
        /\ \A i \in 1 .. Len(q) - Bit(ArTaken(m)) : t[i] = q[i + Bit(ArTaken(m))]
    BY <1>1 DEF Demux, Shifted
  <2>2. Bit(ArTaken(m)) = 0 /\ J \in {0, 1} /\ n \in Nat /\ n > 0 /\ k \in Nat
    BY <1>3, <1>4, <2>1, QueueHead DEF Bit
  <2>3. k = n - 0 + J /\ \A i \in 1 .. n - 0 : t[i] = q[i + 0]
    BY <2>1, <2>2
  <2> HIDE DEF n, k, J
  <2>4. k > 0 /\ t[1] = q[1]
    BY <2>2, <2>3
  <2>5. t # << >>
    BY <2>4 DEF k
  <2> QED
    BY <1>4, <2>1, <2>4, <2>5, QueueHead
<1>6. Len(d_r'[m]) # MaxTrans
  <2>1. /\ d_r'[m] \in Seq(Ends)
        /\ Len(d_r'[m]) = (Len(d_r[m]) - Bit(RTaken(m))) + Bit(ArTaken(m))
    BY <1>1 DEF Demux, Shifted
  <2>2. Bit(ArTaken(m)) = 0 /\ Bit(RTaken(m)) \in {0, 1} /\ Len(d_r[m]) \in Nat
    BY <1>3, <1>4, QueueHead DEF Bit
  <2> QED
    BY <1>4, <2>1, <2>2, MaxTransAssumption
<1> QED
  BY <1>2, <1>5, <1>6 DEF ArShown, ArTo, Full

\* A slave is shown the address that was asked at the last edge, and takes it.
LEMMA Asked ==
    ASSUME NEW one, NEW two, Reading(one, two), NEW s \in Ports
    PROVE  /\ Short(m_ar[s])
           /\ m_ar[s] # << >> <=> Some(one, s)
           /\ SlaveAr(s) <=> Some(one, s)
           /\ Some(one, s) => Head(m_ar[s]) = one[Who(one, s)][1]
<1>1. /\ one \in Slots /\ OneEach(one)
      /\ m_ar[s] = IF Some(one, s) THEN one[Who(one, s)] ELSE << >>
  BY DEF Reading
<1>2. Short(m_ar[s]) /\ (m_ar[s] # << >> <=> Some(one, s))
  <2>1. Some(one, s) => Who(one, s) \in Masters /\ one[Who(one, s)] # << >>
    BY <1>1, WhoAsks DEF Asks
  <2>2. Some(one, s) => Short(one[Who(one, s)])
    BY <1>1, <2>1, SlotType
  <2> QED
    BY <1>1, <2>1, <2>2 DEF Short
<1>3. SlaveAr(s) <=> Some(one, s)
  <2>1. Len(r_spill) < 2
    <3>1. r_spill = << >> \/ r_spill = << Head(r_spill) >>
      BY DEF Reading
    <3> QED
      BY <3>1, SmallQueues
  <2> QED
    BY <1>2, <2>1 DEF SlaveAr, SlaveArReady, SpillReady
<1>4. Some(one, s) => Head(m_ar[s]) = one[Who(one, s)][1]
  <2>1. PICK x : x = m_ar[s][1]
    OBVIOUS
  <2>2. Some(one, s) => m_ar[s] = << x >>
    BY <1>2, <2>1 DEF Short
  <2> QED
    BY <1>1, <2>1, <2>2, SmallQueues
<1> QED
  BY <1>2, <1>3, <1>4

\* What the register file answers.
LEMMA RegAnswer ==
    ASSUME Own, NEW one, NEW two, Reading(one, two), Clk
    PROVE  r_spill' = IF Some(one, "REGF0") THEN << reg_q[Head(m_ar["REGF0"])] >> ELSE << >>
<1> DEFINE x == reg_q[Head(m_ar["REGF0"])]
           c == IF Some(one, "REGF0") THEN << x >> ELSE << >>
<1>1. "REGF0" \in Ports
  BY DEF Ports
<1>2. r_spill' = Queue(r_spill, Answers("REGF0"), SlaveAr("REGF0"), x)
  BY ReadEdge
<1>3. Answers("REGF0") <=> Some(two, "REGF0")
  BY Answered DEF Answers, Some
<1>4. SlaveAr("REGF0") <=> Some(one, "REGF0")
  BY <1>1, Asked
<1>5. r_spill # << >> <=> Some(two, "REGF0")
  BY SmallQueues DEF Reading
<1> HIDE DEF x
<1>6. /\ Short(c) /\ (c # << >> <=> Some(one, "REGF0"))
      /\ (Some(one, "REGF0") => c[1] = x)
  BY SmallQueues DEF Short
<1> HIDE DEF c
<1>7. Short(r_spill)
  BY SmallQueues DEF Short, Reading
<1>8. OneIn(r_spill, Answers("REGF0"), SlaveAr("REGF0"), x, c)
  BY <1>3, <1>4, <1>5, <1>6, <1>7 DEF OneIn
<1>9. r_spill' = c
  BY <1>2, <1>8, OneMoves
<1> QED
  BY <1>9 DEF c, x

LEMMA ReadingStep ==
    ASSUME Own, Own', NEW one, NEW two, Reading(one, two), Clk,
           NEW new, new = NowAsked
    PROVE  Reading(new, one)'
<1>1. /\ one \in Slots /\ two \in Slots /\ OneEach(one) /\ OneEach(two) /\ Typed
      /\ new \in Slots /\ OneEach(new)
      /\ \A m \in Masters : /\ new[m] # << >> <=> ArTaken(m)
                            /\ ArTaken(m) => End(new[m])[1] = ArTo(m)
                            /\ Asks(new, "err", m) <=> ErrAr(m)
      /\ \A s \in Ports : /\ MuxArTaken(s) <=> Some(new, s)
                          /\ MuxArTaken(s) => /\ Who(new, s) = ArChoice(s)
                                              /\ new[ArChoice(s)] = << Head(d_ar[ArChoice(s)]) >>
  BY Asking DEF Reading, Own
<1>2. ASSUME NEW m \in Masters
      PROVE  /\ d_r'[m] = Line(End(one[m]), End(new[m])) /\ Len(d_r'[m]) <= MaxTrans
             /\ e_busy'[m] = Asks(one, "err", m)
             /\ e_r'[m] = (Asks(new, "err", m) \/ Asks(one, "err", m))
             /\ ~(Asks(new, "err", m) /\ Asks(one, "err", m))
  <2>1. ReadMoves(m)
    BY ReadEdge
  <2>2. /\ RTaken(m) <=> two[m] # << >>
        /\ RFrom(m, "err") /\ RTaken(m) <=> Asks(two, "err", m)
    BY Answered
  <2>3. /\ d_r[m] = Line(End(two[m]), End(one[m])) /\ Len(d_r[m]) <= MaxTrans
        /\ e_busy[m] = Asks(two, "err", m)
        /\ e_r[m] = (Asks(one, "err", m) \/ Asks(two, "err", m))
        /\ ~(Asks(one, "err", m) /\ Asks(two, "err", m))
    BY DEF Reading
  <2>4. d_r'[m] = Line(End(one[m]), End(new[m]))
    <3>1. /\ Short(End(two[m])) /\ Short(End(one[m])) /\ Short(End(new[m]))
          /\ two[m] # << >> <=> End(two[m]) # << >>
          /\ new[m] # << >> <=> End(new[m]) # << >>
      BY <1>1, SlotType
    <3>2. Serving(d_r[m], RTaken(m), ArTaken(m), ArTo(m), End(two[m]), End(one[m]), End(new[m]))
      BY <1>1, <2>2, <2>3, <3>1 DEF Serving
    <3> QED
      BY <2>1, <3>2, LineMoves DEF ReadMoves
  <2>5. Len(d_r'[m]) <= MaxTrans
    <3>1. /\ d_r[m] \in Seq(Ends) /\ d_r'[m] \in Seq(Ends)
          /\ Len(d_r'[m]) = (Len(d_r[m]) - Bit(RTaken(m))) + Bit(ArTaken(m))
      BY <1>1, DemuxMoves DEF Clk, Demux, Shifted, Typed
    <3>2. Bit(ArTaken(m)) \in {0, 1} /\ Bit(RTaken(m)) \in {0, 1} /\ Len(d_r[m]) \in Nat
      BY <3>1, QueueHead DEF Bit
    <3>3. Bit(ArTaken(m)) = 1 => Len(d_r[m]) # MaxTrans
      BY <1>1, TakenShown DEF Bit, ArShown, Full
    <3> QED
      BY <2>3, <3>1, <3>2, <3>3, MaxTransAssumption
  <2>6. ErrAr(m) => ~e_r[m]
    BY DEF ErrAr
  <2>7. /\ Asks(one, "err", m) \in BOOLEAN /\ Asks(two, "err", m) \in BOOLEAN
        /\ Asks(new, "err", m) \in BOOLEAN /\ ErrAr(m) \in BOOLEAN
        /\ Asks(new, "err", m) = ErrAr(m)
    BY <1>1 DEF Asks, ErrAr
  <2>8. e_busy'[m] = Asks(one, "err", m)
    BY <2>1, <2>2, <2>3, <2>7 DEF ReadMoves
  <2>9. e_r'[m] = (Asks(new, "err", m) \/ Asks(one, "err", m))
    BY <2>1, <2>2, <2>3, <2>6, <2>7 DEF ReadMoves
  <2>10. ~(Asks(new, "err", m) /\ Asks(one, "err", m))
    BY <2>3, <2>6, <2>7
  <2> QED
    BY <2>4, <2>5, <2>8, <2>9, <2>10
<1>4. ASSUME NEW s \in Ports
      PROVE  /\ m_ar'[s] = IF Some(new, s) THEN new[Who(new, s)] ELSE << >>
             /\ m_r'[s] = Line(Asker(one, s), Asker(new, s))
             /\ ArbOK(ar_arb'[s], ArReqs(s)')
             /\ SlaveAr(s) <=> Some(one, s)
             /\ m_ar[s] # << >> <=> Some(one, s)
  <2>1. AsksMoves(s)
    BY ReadEdge
  <2>2. /\ m_ar[s] = IF Some(one, s) THEN one[Who(one, s)] ELSE << >>
        /\ m_r[s] = Line(Asker(two, s), Asker(one, s))
        /\ ArbOK(ar_arb[s], ArReqs(s))
    BY DEF Reading
  <2>3. Short(m_ar[s]) /\ (m_ar[s] # << >> <=> Some(one, s))
    BY Asked
  <2>4. SlaveAr(s) <=> Some(one, s)
    BY Asked
  <2>5. m_ar'[s] = IF Some(new, s) THEN new[Who(new, s)] ELSE << >>
    <3> DEFINE c == IF MuxArTaken(s) THEN << Head(d_ar[ArChoice(s)]) >> ELSE << >>
    <3>1. Short(c) /\ (c # << >> <=> MuxArTaken(s))
          /\ (MuxArTaken(s) => c[1] = Head(d_ar[ArChoice(s)]))
      BY SmallQueues DEF Short
    <3>2. c = IF Some(new, s) THEN new[Who(new, s)] ELSE << >>
      BY <1>1
    <3> HIDE DEF c
    <3>3. OneIn(m_ar[s], SlaveAr(s), MuxArTaken(s), Head(d_ar[ArChoice(s)]), c)
      BY <2>3, <2>4, <3>1 DEF OneIn
    <3>4. m_ar'[s] = c
      BY <2>1, <3>3, OneMoves DEF AsksMoves
    <3> QED
      BY <3>2, <3>4
  <2>6. m_r'[s] = Line(Asker(one, s), Asker(new, s))
    <3>1. /\ Short(Asker(two, s)) /\ Short(Asker(one, s)) /\ Short(Asker(new, s))
          /\ Asker(two, s) # << >> <=> Some(two, s)
          /\ Asker(new, s) # << >> <=> Some(new, s)
          /\ Some(new, s) => Asker(new, s)[1] = Who(new, s)
      BY <1>1, AskerType
    <3>2. Answers(s) <=> Some(two, s)
      BY Answered DEF Answers, Some
    <3>3. Serving(m_r[s], Answers(s), MuxArTaken(s), ArChoice(s),
                  Asker(two, s), Asker(one, s), Asker(new, s))
      BY <1>1, <2>2, <3>1, <3>2 DEF Serving
    <3> QED
      BY <2>1, <3>3, LineMoves DEF AsksMoves
  <2>7. ArbOK(ar_arb'[s], ArReqs(s)')
    <3>1. ArReqs(s) \subseteq Masters
      BY DEF ArReqs
    <3>2. Heard(ar_arb[s], ArReqs(s)) \subseteq ArReqs(s)
      BY <2>2, <3>1, Chosen
    <3>3. ~ArGnt(s) => ArReqs(s) \subseteq ArReqs(s)'
      BY StillAsking
    <3>4. NextPrio(ar_arb[s].rr, Heard(ar_arb[s], ArReqs(s))) \in {0, 1}
      BY DEF NextPrio
    <3>5. ar_arb'[s] = Arbitrated(ar_arb[s], ArReqs(s), ArGnt(s)) /\ ar_arb[s].rr \in {0, 1}
      BY <2>1, <2>2 DEF AsksMoves, ArbOK
    <3> DEFINE H == Heard(ar_arb[s], ArReqs(s))
               keep == H # {} /\ ~ArGnt(s)
    <3>6. /\ ar_arb'[s].rr \in {0, 1} /\ ar_arb'[s].lock = keep
          /\ ar_arb'[s].req = IF keep THEN H ELSE {}
      BY <3>4, <3>5 DEF Arbitrated
    <3>7. keep => H # {} /\ H \subseteq ArReqs(s)'
      BY <3>2, <3>3
    <3>8. keep \in BOOLEAN
      OBVIOUS
    <3> HIDE DEF keep, H
    <3> QED
      BY <3>6, <3>7, <3>8 DEF ArbOK
  <2> QED
    BY <2>3, <2>4, <2>5, <2>6, <2>7
<1>5. ASSUME NEW s \in Memories PROVE r_valid'[s] = Some(one, s)
  <2>1. s \in Ports /\ r_valid'[s] = (m_ar[s] # << >>)
    BY ReadEdge DEF Ports
  <2> QED
    BY <1>4, <2>1 DEF Some
<1>6. r_spill' = IF Some(one, "REGF0") THEN << Head(r_spill') >> ELSE << >>
  BY RegAnswer, SmallQueues
<1> QED
  BY <1>1, <1>2, <1>4, <1>5, <1>6 DEF Reading

NoOne == [m \in Masters |-> << >>]

LEMMA NoOneAsks ==
    /\ NoOne \in Slots /\ OneEach(NoOne)
    /\ \A m \in Masters : NoOne[m] = << >> /\ End(NoOne[m]) = << >>
    /\ \A s : ~Some(NoOne, s) /\ Asker(NoOne, s) = << >>
    /\ \A s, m : m \in Masters => ~Asks(NoOne, s, m)
BY DEF NoOne, Slots, OneEach, End, Some, Asker, Asks, Masters

LEMMA InitReading ==
    ASSUME Init
    PROVE  Reading(NoOne, NoOne)
<1>1. Line(<< >>, << >>) = << >> /\ Len(<< >>) = 0
  BY DEF Line
<1>2. \A s \in Ports : ArbOK(ar_arb[s], ArReqs(s))
  BY DEF Init, NewArb, ArbOK
<1>3. ASSUME NEW m \in Masters
      PROVE  d_r[m] = << >> /\ e_busy[m] = FALSE /\ e_r[m] = FALSE
  BY DEF Init, Idle, Low
<1>4. /\ \A s \in Ports : m_ar[s] = << >> /\ m_r[s] = << >>
      /\ \A s \in Memories : r_valid[s] = FALSE
      /\ r_spill = << >>
  BY DEF Init, Idle, Low
<1>5. \A m \in Masters : /\ d_r[m] = Line(End(NoOne[m]), End(NoOne[m]))
                         /\ Len(d_r[m]) <= MaxTrans
                         /\ ~Asks(NoOne, "err", m)
  <2> SUFFICES ASSUME NEW m \in Masters
               PROVE  /\ d_r[m] = Line(End(NoOne[m]), End(NoOne[m]))
                      /\ Len(d_r[m]) <= MaxTrans
                      /\ ~Asks(NoOne, "err", m)
    OBVIOUS
  <2>1. End(NoOne[m]) = << >> /\ d_r[m] = << >> /\ ~Asks(NoOne, "err", m)
    BY <1>3, NoOneAsks
  <2> QED
    BY <1>1, <2>1, MaxTransAssumption
<1>6. \A m \in Masters :
          /\ e_busy[m] = Asks(NoOne, "err", m)
          /\ e_r[m] = (Asks(NoOne, "err", m) \/ Asks(NoOne, "err", m))
  BY <1>3, <1>5 DEF Asks
<1>7. \A s \in Memories : r_valid[s] = Some(NoOne, s)
  BY <1>4, NoOneAsks DEF Some
<1>8. \A s \in Ports : m_ar[s] = << >> /\ m_r[s] = Line(Asker(NoOne, s), Asker(NoOne, s))
  BY <1>1, <1>4, NoOneAsks
<1> QED
  BY <1>2, <1>4, <1>5, <1>6, <1>7, <1>8, NoOneAsks DEF Reading

\* An unchanged state is in the same place of the pipeline.
LEMMA ReadingStays ==
    ASSUME NEW one, NEW two, Reading(one, two), UNCHANGED vars
    PROVE  Reading(one, two)'
<1>1. \A s : ArReqs(s)' = ArReqs(s)
  BY DEF vars, ArReqs, ArShown, ArTo, Full
<1> QED
  BY <1>1 DEF vars, Reading, ArReqs, ArShown, ArTo, Full

ReadInv == Own /\ \E one, two \in Slots : Reading(one, two)

LEMMA ReadInductive == Spec => []ReadInv
<1>1. Init => ReadInv
  BY InitOwn, InitReading, NoOneAsks DEF ReadInv
<1>2. ReadInv /\ [Next]_vars => ReadInv'
  <2> SUFFICES ASSUME ReadInv, [Next]_vars PROVE ReadInv'
    OBVIOUS
  <2>1. Own /\ Own'
    BY NextOwn DEF ReadInv
  <2>2. PICK one \in Slots, two \in Slots : Reading(one, two)
    BY DEF ReadInv
  <2>3. CASE Clk
    <3>1. PICK new : new = NowAsked
      OBVIOUS
    <3>2. Reading(new, one)' /\ new \in Slots
      BY <2>1, <2>2, <2>3, <3>1, ReadingStep, Asking DEF Own
    <3> QED
      BY <2>1, <3>2 DEF ReadInv
  <2>4. CASE UNCHANGED vars
    <3>1. Reading(one, two)'
      BY <2>2, <2>4, ReadingStays
    <3> QED
      BY <2>1, <3>1 DEF ReadInv
  <2> QED
    BY <2>3, <2>4 DEF Next
<1> QED
  BY <1>1, <1>2, PTL DEF Spec

\* No answer of a memory (axi_lite_memory.sv, which shows one for one clock
\* and does not look at r_ready) is lost: whoever asked is the one that both
\* fifos of the crossbar name, and takes it.
THEOREM AnswersAreTaken == Spec => []AnswersTaken
<1>1. ReadInv => AnswersTaken
  <2> SUFFICES ASSUME ReadInv, NEW s \in Memories, r_valid[s]
               PROVE  \E m \in Masters : MuxRTo(s, m) /\ RFrom(m, s) /\ RTaken(m)
    BY DEF AnswersTaken
  <2>1. PICK one \in Slots, two \in Slots : Reading(one, two)
    BY DEF ReadInv
  <2>2. s \in Ports /\ s # "REGF0"
    BY MemoriesAssumption DEF Ports
  <2>3. Some(two, s) /\ OneEach(two) /\ m_r[s] = Line(Asker(two, s), Asker(one, s))
        /\ OneEach(one)
    BY <2>1, <2>2 DEF Reading
  <2>4. Who(two, s) \in Masters /\ Asks(two, s, Who(two, s))
    BY <2>2, <2>3, WhoAsks
  <2>5. RFrom(Who(two, s), s) /\ RTaken(Who(two, s))
    BY <2>1, <2>4, Answered DEF ReadInv
  <2>6. m_r[s] # << >> /\ Head(m_r[s]) = Who(two, s)
    <3>1. /\ Short(Asker(two, s)) /\ Short(Asker(one, s))
          /\ Asker(two, s) # << >> /\ Asker(two, s)[1] = Who(two, s)
      BY <2>2, <2>3, AskerType
    <3> QED
      BY <2>3, <3>1, LineHead
  <2> QED
    BY <2>2, <2>4, <2>5, <2>6 DEF MuxRTo, SlaveRValid
<1> QED
  BY <1>1, ReadInductive, PTL

(***************************************************************************)
(* The write pipeline: whose address was taken at the last edge, so that   *)
(* his word comes now (wr), whose word was taken, so that his response     *)
(* comes now (rs).  An address may wait at its demultiplexer (d_lock) for  *)
(* one that was chosen before it.  Needed are fifos that are Deep.         *)
(***************************************************************************)
\* What an address fifo of one place holds.
Held(x, s) == IF Some(x, s) THEN x[Who(x, s)] ELSE << >>

Writing(wr, rs) ==
    /\ wr \in Slots /\ rs \in Slots /\ OneEach(wr) /\ OneEach(rs)
    /\ \A m \in Masters :
          /\ d_lock[m] => wr[m] = << >>
          /\ d_w[m] = IF d_lock[m] THEN << AwTo(m) >> ELSE End(wr[m])
          /\ d_b[m] = End(rs[m])
          /\ e_w[m] = Asks(wr, "err", m)
          /\ e_b[m] = Bit(Asks(rs, "err", m))
    /\ \A s \in Ports :
          /\ m_lock[s] = FALSE /\ aw_arb[s].lock = FALSE /\ aw_arb[s].rr \in {0, 1}
          /\ m_aw[s] = Held(wr, s) /\ m_w[s] = Asker(wr, s) /\ m_b[s] = Asker(rs, s)
    /\ \A s \in Memories :
          /\ aw_buf[s] = Held(rs, s)
          /\ Short(w_buf[s]) /\ (w_buf[s] # << >> <=> Some(rs, s))
    /\ b_spill = Bit(Some(rs, "REGF0"))

LEMMA HeldType ==
    ASSUME NEW x \in Slots, OneEach(x), NEW s \in Ports
    PROVE  /\ Short(Held(x, s)) /\ (Held(x, s) # << >> <=> Some(x, s))
           /\ Some(x, s) => /\ Who(x, s) \in Masters /\ Asks(x, s, Who(x, s))
                            /\ Held(x, s) = x[Who(x, s)]
                            /\ x[Who(x, s)] # << >>
                            /\ Held(x, s)[1] \in Addrs /\ Dest[Held(x, s)[1]] = s
<1>1. Some(x, s) => /\ Who(x, s) \in Masters /\ Asks(x, s, Who(x, s))
                    /\ x[Who(x, s)] # << >> /\ Dest[x[Who(x, s)][1]] = s
  BY WhoAsks DEF Asks
<1>2. Some(x, s) => Short(x[Who(x, s)]) /\ x[Who(x, s)][1] \in Addrs
  BY <1>1, SlotType
<1>3. Short(<< >>)
  BY DEF Short
<1> QED
  BY <1>1, <1>2, <1>3 DEF Held

LEMMA ShortLen == \A x : Short(x) => Len(x) \in {0, 1}
<1> SUFFICES ASSUME NEW x, Short(x) PROVE Len(x) \in {0, 1}
  OBVIOUS
<1>1. CASE x = << >>
  BY <1>1, SmallQueues
<1>2. CASE x = << x[1] >>
  <2>1. PICK y : y = x[1]
    OBVIOUS
  <2>2. x = << y >> /\ Len(<< y >>) = 1
    BY <1>2, <2>1, SmallQueues
  <2> QED
    BY <2>2
<1> QED
  BY <1>1, <1>2 DEF Short

\* Nowhere is more than one place taken.
LEMMA Room ==
    ASSUME Deep, NEW wr, NEW rs, Writing(wr, rs)
    PROVE  /\ \A m \in Masters : /\ ~Full(d_w[m]) /\ ~Full(d_b[m]) /\ e_b[m] < 2
                                 /\ AwShown(m) <=> d_aw[m] # << >>
           /\ \A s \in Ports : /\ ~Full(m_w[s]) /\ ~Full(m_b[s]) /\ SpillReady(m_aw[s])
                               /\ MuxAwShown(s) <=> AwReqs(s) # {}
                               /\ AwGnt(s) <=> AwReqs(s) # {}
           /\ \A s \in Memories : BufReady(aw_buf, s) /\ BufReady(w_buf, s)
           /\ b_spill < 2
<1>1. \A x : Short(x) => ~Full(x) /\ SpillReady(x)
  <2>1. 0 # MaxTrans /\ 1 # MaxTrans /\ 0 < 2 /\ 1 < 2
    BY MaxTransAssumption DEF Deep
  <2>2. \A x : Len(x) \in {0, 1} => ~Full(x) /\ SpillReady(x)
    BY <2>1 DEF Full, SpillReady
  <2> QED
    BY <2>2, ShortLen
<1>2. ASSUME NEW m \in Masters
      PROVE  Short(d_w[m]) /\ Short(d_b[m]) /\ e_b[m] < 2
  <2>1. Short(<< AwTo(m) >>)
    BY SmallQueues DEF Short
  <2>2. Short(End(wr[m])) /\ Short(End(rs[m]))
    BY SlotType DEF Writing
  <2> QED
    BY <2>1, <2>2 DEF Writing, Bit
<1>3. ASSUME NEW s \in Ports
      PROVE  Short(m_w[s]) /\ Short(m_b[s]) /\ Short(m_aw[s])
  BY AskerType, HeldType DEF Writing
<1>4. \A s \in Ports : MuxAwShown(s) <=> AwReqs(s) # {}
  BY <1>1, <1>3 DEF MuxAwShown, Heard, Writing
<1>5. \A s \in Memories : s \in Ports
  BY DEF Ports
<1>6. \A s \in Memories : BufReady(aw_buf, s) /\ BufReady(w_buf, s)
  BY <1>5, HeldType DEF BufReady, Take, Writing
<1>7. b_spill < 2
  BY DEF Writing, Bit
<1>8. \A m \in Masters : AwShown(m) <=> d_aw[m] # << >>
  BY <1>1, <1>2 DEF AwShown
<1>9. \A s \in Ports : AwGnt(s) <=> AwReqs(s) # {}
  BY <1>1, <1>3, <1>4 DEF AwGnt
<1> QED
  BY <1>1, <1>2, <1>3, <1>4, <1>6, <1>7, <1>8, <1>9

\* A response is there for exactly those whose word was taken at the last
\* edge, and they take it.
LEMMA Responded ==
    ASSUME Own, NEW wr, NEW rs, Writing(wr, rs), NEW m \in Masters
    PROVE  /\ BTaken(m) <=> rs[m] # << >>
           /\ \A s : BFrom(m, s) /\ BTaken(m) <=> Asks(rs, s, m)
<1>1. /\ rs \in Slots /\ OneEach(rs) /\ d_b[m] = End(rs[m])
      /\ e_b[m] = Bit(Asks(rs, "err", m))
      /\ \A s \in Ports : m_b[s] = Asker(rs, s)
      /\ b_spill = Bit(Some(rs, "REGF0"))
  BY DEF Writing
<1>2. CASE rs[m] # << >>
  <2>1. PICK s \in Ends : Asks(rs, s, m)
    BY <1>1, <1>2, SlotType
  <2>2. d_b[m] # << >> /\ Head(d_b[m]) = s
    <3>1. End(rs[m]) = << Dest[rs[m][1]] >> /\ Dest[rs[m][1]] = s
      BY <1>1, <1>2, <2>1, SlotType DEF Asks
    <3> QED
      BY <1>1, <3>1, SmallQueues
  <2>3. BShown(m)
    <3>1. CASE s = "err"
      BY <1>1, <2>1, <2>2, <3>1 DEF BShown, BFrom, Bit
    <3>2. CASE s \in Ports
      <4>1. Some(rs, s) /\ Who(rs, s) = m
        BY <1>1, <2>1, <3>2, WhoAsks
      <4>2. m_b[s] = << m >>
        BY <1>1, <3>2, <4>1 DEF Asker
      <4>3. m_b[s] # << >> /\ Head(m_b[s]) = m
        BY <4>2, SmallQueues
      <4>4. SlaveBValid(s)
        BY <1>1, <4>1 DEF SlaveBValid, Bit
      <4> QED
        BY <2>2, <3>2, <4>3, <4>4 DEF BShown, BFrom
    <3> QED
      BY <3>1, <3>2 DEF Ends
  <2>4. BTaken(m)
    BY <2>3, OwnAnswers DEF BTaken, b_ready, Masters, CPU, IMP
  <2>5. \A t : Asks(rs, t, m) <=> t = s
    BY <2>1 DEF Asks
  <2> QED
    BY <1>2, <2>2, <2>4, <2>5 DEF BFrom
<1>3. CASE rs[m] = << >>
  <2>1. d_b[m] = << >>
    BY <1>1, <1>3 DEF End
  <2> QED
    BY <1>3, <2>1 DEF BTaken, BShown, BFrom, Asks
<1> QED
  BY <1>2, <1>3

\* A word for nothing but a decode error may pass with its address, which
\* has waited for the one before it.
Late(m) == d_lock[m] /\ AwTo(m) = "err"

\* A word is taken from exactly those whose address was taken at the last
\* edge, and those who are late.
LEMMA WordTaken ==
    ASSUME Own, Deep, NEW wr, NEW rs, Writing(wr, rs)
    PROVE  /\ \A m \in Masters : /\ WTaken(m) <=> wr[m] # << >> \/ Late(m)
                                 /\ ErrW(m) <=> Asks(wr, "err", m) \/ Late(m)
                                 /\ wr[m] # << >> => Head(d_w[m]) = Dest[wr[m][1]]
                                 /\ d_lock[m] => Head(d_w[m]) = AwTo(m)
                                 /\ Late(m) => ErrAw(m)
           /\ \A s \in Ports : /\ MuxWShown(s) <=> Some(wr, s)
                               /\ SlaveW(s) <=> Some(wr, s)
                               /\ SlaveAw(s) <=> Some(wr, s)
                               /\ Some(wr, s) => Head(m_w[s]) = Who(wr, s)
           /\ RegWrite <=> Some(wr, "REGF0")
<1>1. ASSUME NEW m \in Masters
      PROVE  /\ wr[m] # << >> => /\ d_w[m] = << Dest[wr[m][1]] >> /\ ~d_lock[m]
                                 /\ Dest[wr[m][1]] \in Ends
             /\ d_lock[m] => d_w[m] = << AwTo(m) >> /\ wr[m] = << >>
             /\ wr[m] = << >> /\ ~d_lock[m] => d_w[m] = << >>
  <2>1. /\ wr \in Slots /\ (d_lock[m] => wr[m] = << >>)
        /\ d_w[m] = IF d_lock[m] THEN << AwTo(m) >> ELSE End(wr[m])
    BY DEF Writing
  <2>2. wr[m] # << >> => End(wr[m]) = << Dest[wr[m][1]] >> /\ Dest[wr[m][1]] \in Ends
    BY <2>1, SlotType, DestEnds
  <2> QED
    BY <2>1, <2>2 DEF End
<1>2. ASSUME NEW m \in Masters
      PROVE  /\ wr[m] # << >> => d_w[m] # << >> /\ Head(d_w[m]) = Dest[wr[m][1]]
             /\ d_lock[m] => d_w[m] # << >> /\ Head(d_w[m]) = AwTo(m)
             /\ d_w[m] # << >> => wr[m] # << >> \/ d_lock[m]
  BY <1>1, SmallQueues
<1>3. \A m \in Masters : d_w[m] # << >> => WShown(m)
  BY Room, Books DEF WShown, w_valid, Own, Masters, CPU, IMP
<1>4. \A m \in Masters : Late(m) => ErrAw(m)
  <2> SUFFICES ASSUME NEW m \in Masters, Late(m) PROVE ErrAw(m)
    OBVIOUS
  <2>1. AwShown(m) /\ AwTo(m) = "err" /\ wr[m] = << >>
    BY <1>1 DEF Late, AwShown, Own, Typed
  <2>2. e_w[m] = Asks(wr, "err", m)
    BY DEF Writing
  <2> QED
    BY <2>1, <2>2 DEF ErrAw, Asks
<1>5. \A m \in Masters : ErrW(m) <=> Asks(wr, "err", m) \/ Late(m)
  <2> SUFFICES ASSUME NEW m \in Masters
               PROVE  ErrW(m) <=> Asks(wr, "err", m) \/ Late(m)
    OBVIOUS
  <2>1. e_w[m] = Asks(wr, "err", m) /\ e_b[m] < 2
    BY Room DEF Writing
  <2>2. CASE Asks(wr, "err", m)
    BY <1>2, <1>3, <2>1, <2>2 DEF ErrW, WTo, Asks
  <2>3. CASE Late(m)
    BY <1>2, <1>3, <1>4, <2>1, <2>3 DEF ErrW, WTo, Late
  <2>4. CASE ErrW(m)
    <3>1. d_w[m] # << >> /\ Head(d_w[m]) = "err"
      BY <2>4 DEF ErrW, WTo, WShown
    <3> QED
      BY <1>2, <2>4, <3>1 DEF Asks, Late
  <2> QED
    BY <2>2, <2>3, <2>4
<1>6. ASSUME NEW s \in Ports
      PROVE  /\ Some(wr, s) => MuxWShown(s) /\ Head(m_w[s]) = Who(wr, s)
             /\ MuxWShown(s) => Some(wr, s)
             /\ m_aw[s] # << >> <=> Some(wr, s)
  <2>1. /\ m_w[s] = Asker(wr, s) /\ wr \in Slots /\ OneEach(wr) /\ m_aw[s] = Held(wr, s)
    BY DEF Writing
  <2>2. ASSUME Some(wr, s)
        PROVE  MuxWShown(s) /\ Head(m_w[s]) = Who(wr, s)
    <3>1. Who(wr, s) \in Masters /\ Asks(wr, s, Who(wr, s))
      BY <2>1, <2>2, WhoAsks
    <3>2. m_w[s] # << >> /\ Head(m_w[s]) = Who(wr, s)
      BY <2>1, <2>2, SmallQueues DEF Asker
    <3>3. WTo(Who(wr, s), s)
      BY <1>2, <1>3, <3>1 DEF WTo, Asks
    <3> QED
      BY <3>2, <3>3, Room DEF MuxWShown
  <2>3. m_aw[s] # << >> <=> Some(wr, s)
    BY <2>1, HeldType
  <2> QED
    BY <2>1, <2>2, <2>3 DEF MuxWShown, Asker
<1>7. RegWrite <=> Some(wr, "REGF0")
  BY <1>6, Room DEF RegWrite, Ports
<1>8. \A s \in Ports : /\ SlaveW(s) <=> Some(wr, s)
                       /\ SlaveAw(s) <=> Some(wr, s)
  BY <1>6, <1>7, Room DEF SlaveW, SlaveAw, SlaveWReady, SlaveAwReady, Ports
<1>9. \A m \in Masters : WTaken(m) <=> wr[m] # << >> \/ Late(m)
  <2> SUFFICES ASSUME NEW m \in Masters
               PROVE  WTaken(m) <=> wr[m] # << >> \/ Late(m)
    OBVIOUS
  <2>1. wr \in Slots /\ OneEach(wr)
    BY DEF Writing
  <2>2. ASSUME wr[m] # << >> PROVE WTaken(m)
    <3>1. PICK s \in Ends : Asks(wr, s, m)
      BY <2>1, <2>2, SlotType
    <3>2. CASE s = "err"
      BY <1>5, <3>1, <3>2 DEF WTaken
    <3>3. CASE s \in Ports
      BY <1>6, <1>8, <2>1, <3>1, <3>3, WhoAsks DEF WTaken
    <3> QED
      BY <3>2, <3>3 DEF Ends
  <2>3. ASSUME WTaken(m) PROVE wr[m] # << >> \/ Late(m)
    <3>1. CASE ErrW(m)
      BY <1>5, <3>1 DEF Asks
    <3>2. ASSUME NEW s \in Ports, SlaveW(s), Head(m_w[s]) = m
          PROVE  wr[m] # << >>
      BY <1>6, <1>8, <2>1, <3>2, WhoAsks DEF Asks
    <3> QED
      BY <2>3, <3>1, <3>2 DEF WTaken
  <2> QED
    BY <1>5, <2>2, <2>3 DEF WTaken
<1> QED
  BY <1>2, <1>4, <1>5, <1>6, <1>7, <1>8, <1>9

\* Whose address is taken at this edge and word is not, and whose word is.
NowTaken == [m \in Masters |-> IF AwTaken(m) /\ ~Late(m) THEN << Head(d_aw[m]) >> ELSE << >>]
NowStored(wr) == [m \in Masters |-> IF Late(m) THEN << Head(d_aw[m]) >> ELSE wr[m]]

LEMMA AwHead ==
    ASSUME Typed, NEW m \in Masters
    PROVE  /\ AwTaken(m) \/ AwShown(m) \/ d_lock[m] => /\ d_aw[m] # << >> /\ Head(d_aw[m]) \in Addrs
                                                       /\ d_aw[m][1] = Head(d_aw[m])
           /\ AwTaken(m) => AwShown(m)
<1>1. d_aw[m] \in Seq(Addrs) /\ (d_lock[m] => d_aw[m] # << >>)
  BY DEF Typed
<1>2. d_aw[m] # << >> => Head(d_aw[m]) \in Addrs /\ d_aw[m][1] = Head(d_aw[m])
  BY <1>1, QueueHead
<1> QED
  BY <1>1, <1>2, TakenShown DEF AwShown

LEMMA Granted ==
    ASSUME Own, Deep, NEW wr, NEW rs, Writing(wr, rs), NEW new, new = NowTaken
    PROVE  /\ new \in Slots /\ OneEach(new)
           /\ \A m \in Masters : /\ new[m] = IF AwTaken(m) /\ ~Late(m)
                                             THEN << Head(d_aw[m]) >> ELSE << >>
                                 /\ AwTaken(m) /\ ~Late(m) => End(new[m]) = << AwTo(m) >>
                                 /\ Asks(new, "err", m) <=> ErrAw(m) /\ ~d_lock[m]
           /\ \A s \in Ports : /\ AwGnt(s) <=> Some(new, s)
                               /\ AwGnt(s) => /\ Who(new, s) = AwChoice(s)
                                              /\ new[AwChoice(s)] = << Head(d_aw[AwChoice(s)]) >>
<1>1. Typed
  BY DEF Own
<1>2. ASSUME NEW m \in Masters
      PROVE  /\ new[m] = IF AwTaken(m) /\ ~Late(m) THEN << Head(d_aw[m]) >> ELSE << >>
             /\ AwTaken(m) => AwShown(m) /\ Head(d_aw[m]) \in Addrs
  BY <1>1, AwHead DEF NowTaken
<1>3. new \in Slots
  <2>1. \A m \in Masters : new[m] \in {<< >>} \cup {<< a >> : a \in Addrs}
    BY <1>2
  <2> QED
    BY <2>1 DEF NowTaken, Slots
<1>4. ASSUME NEW m \in Masters
      PROVE  /\ AwTaken(m) /\ ~Late(m) => End(new[m]) = << AwTo(m) >>
             /\ \A s : Asks(new, s, m) <=> AwTaken(m) /\ ~Late(m) /\ AwTo(m) = s
  <2>1. CASE AwTaken(m) /\ ~Late(m)
    <3>1. PICK h : h = Head(d_aw[m])
      OBVIOUS
    <3>2. new[m] = << h >> /\ AwTo(m) = Dest[h]
      BY <1>2, <2>1, <3>1 DEF AwTo
    <3>3. new[m] # << >> /\ new[m][1] = h
      BY <3>2
    <3> QED
      BY <2>1, <3>2, <3>3 DEF End, Asks
  <2>2. CASE ~(AwTaken(m) /\ ~Late(m))
    BY <1>2, <2>2 DEF Asks
  <2> QED
    BY <2>1, <2>2
<1>5. ASSUME NEW m \in Masters
      PROVE  Asks(new, "err", m) <=> ErrAw(m) /\ ~d_lock[m]
  BY <1>4, ErrNotPort DEF AwTaken, ErrAw, AwReqs, Late
<1>6. ASSUME NEW s \in Ports
      PROVE  /\ AwGnt(s) => AwChoice(s) \in AwReqs(s)
             /\ \A m \in Masters : Asks(new, s, m) <=> AwGnt(s) /\ AwChoice(s) = m
  <2>1. AwReqs(s) \subseteq Masters /\ ArbOK(aw_arb[s], AwReqs(s))
    BY DEF AwReqs, Writing, ArbOK
  <2>2. AwGnt(s) => AwChoice(s) \in AwReqs(s)
    BY <2>1, Room, Chosen DEF AwChoice
  <2>3. ASSUME NEW m \in Masters, Asks(new, s, m)
        PROVE  AwGnt(s) /\ AwChoice(s) = m
    BY <1>4, <2>3, ErrNotPort DEF AwTaken, ErrAw, AwReqs
  <2>4. ASSUME NEW m \in Masters, AwGnt(s), AwChoice(s) = m
        PROVE  Asks(new, s, m)
    BY <1>4, <2>2, <2>4, ErrNotPort DEF AwTaken, AwReqs, Late
  <2> QED
    BY <2>2, <2>3, <2>4
<1>7. \A s \in Ports : AwGnt(s) => AwChoice(s) \in Masters
  BY <1>6 DEF AwReqs
<1>8. OneEach(new)
  BY <1>6 DEF OneEach, Masters, CPU, IMP
<1>9. ASSUME NEW s \in Ports
      PROVE  /\ AwGnt(s) <=> Some(new, s)
             /\ AwGnt(s) => /\ Who(new, s) = AwChoice(s)
                            /\ new[AwChoice(s)] = << Head(d_aw[AwChoice(s)]) >>
  <2>1. AwGnt(s) <=> Some(new, s)
    BY <1>6, <1>7 DEF Some
  <2>2. ASSUME AwGnt(s)
        PROVE  /\ Who(new, s) = AwChoice(s)
               /\ new[AwChoice(s)] = << Head(d_aw[AwChoice(s)]) >>
    <3>1. AwChoice(s) \in Masters /\ Asks(new, s, AwChoice(s))
      BY <1>6, <1>7, <2>2
    <3>2. AwTaken(AwChoice(s)) /\ ~Late(AwChoice(s))
      BY <1>4, <3>1
    <3> QED
      BY <1>2, <1>8, <3>1, <3>2, WhoAsks
  <2> QED
    BY <2>1, <2>2
<1> QED
  BY <1>2, <1>3, <1>4, <1>5, <1>8, <1>9

LEMMA Storing ==
    ASSUME Own, Deep, NEW wr, NEW rs, Writing(wr, rs), NEW st, st = NowStored(wr)
    PROVE  /\ st \in Slots /\ OneEach(st)
           /\ \A m \in Masters : /\ st[m] # << >> <=> WTaken(m)
                                 /\ WTaken(m) => End(st[m]) = << Head(d_w[m]) >>
                                 /\ Asks(st, "err", m) <=> ErrW(m)
           /\ \A s \in Ports : /\ Some(st, s) <=> Some(wr, s)
                               /\ Asker(st, s) = Asker(wr, s)
                               /\ Held(st, s) = Held(wr, s)
                               /\ Some(wr, s) => Who(st, s) = Who(wr, s)
<1>1. Typed /\ wr \in Slots /\ OneEach(wr)
  BY DEF Own, Writing
<1>2. ASSUME NEW m \in Masters
      PROVE  /\ st[m] = IF Late(m) THEN << Head(d_aw[m]) >> ELSE wr[m]
             /\ Late(m) => Head(d_aw[m]) \in Addrs /\ wr[m] = << >>
             /\ wr[m] \in {<< >>} \cup {<< a >> : a \in Addrs}
  BY <1>1, AwHead DEF NowStored, Late, Writing, Slots
<1>3. st \in Slots
  <2>1. \A m \in Masters : st[m] \in {<< >>} \cup {<< a >> : a \in Addrs}
    BY <1>2
  <2> QED
    BY <2>1 DEF NowStored, Slots
<1>4. ASSUME NEW m \in Masters
      PROVE  /\ st[m] # << >> <=> WTaken(m)
             /\ WTaken(m) => End(st[m]) = << Head(d_w[m]) >>
             /\ \A s : Asks(st, s, m) <=> Asks(wr, s, m) \/ (Late(m) /\ s = "err")
  <2>1. /\ WTaken(m) <=> wr[m] # << >> \/ Late(m)
        /\ wr[m] # << >> => Head(d_w[m]) = Dest[wr[m][1]]
        /\ d_lock[m] => Head(d_w[m]) = AwTo(m)
    BY WordTaken
  <2>2. CASE Late(m)
    <3>1. PICK h : h = Head(d_aw[m])
      OBVIOUS
    <3>2. st[m] = << h >> /\ Dest[h] = "err" /\ Head(d_w[m]) = "err" /\ wr[m] = << >>
      BY <1>2, <2>1, <2>2, <3>1 DEF AwTo, Late
    <3>3. st[m] # << >> /\ st[m][1] = h
      BY <3>2
    <3> QED
      BY <2>1, <2>2, <3>2, <3>3 DEF End, Asks
  <2>3. CASE ~Late(m)
    <3>1. st[m] = wr[m]
      BY <1>2, <2>3
    <3> QED
      BY <2>1, <2>3, <3>1 DEF End, Asks
  <2> QED
    BY <2>2, <2>3
<1>5. \A s \in Ports, m \in Masters : Asks(st, s, m) <=> Asks(wr, s, m)
  BY <1>4, ErrNotPort
<1>6. OneEach(st)
  BY <1>1, <1>5 DEF OneEach, Masters
<1>7. \A m \in Masters : Asks(st, "err", m) <=> ErrW(m)
  BY <1>4, WordTaken
<1>8. ASSUME NEW s \in Ports
      PROVE  /\ Some(st, s) <=> Some(wr, s)
             /\ Asker(st, s) = Asker(wr, s)
             /\ Held(st, s) = Held(wr, s)
             /\ Some(wr, s) => Who(st, s) = Who(wr, s)
  <2>1. Some(st, s) <=> Some(wr, s)
    BY <1>5 DEF Some
  <2>2. Who(st, s) = Who(wr, s)
    BY <1>5 DEF Who, Masters
  <2>3. Some(wr, s) => st[Who(wr, s)] = wr[Who(wr, s)]
    BY <1>1, <1>2, WhoAsks DEF Asks
  <2> QED
    BY <2>1, <2>2, <2>3 DEF Asker, Held
<1> QED
  BY <1>3, <1>4, <1>6, <1>7, <1>8

\* What an edge does to the queues and flags of the write side.
WriteMoves(m) ==
    /\ d_w'[m] = Queue(d_w[m], WTaken(m), AwPush(m), AwTo(m))
    /\ d_b'[m] = Queue(d_b[m], BTaken(m), WTaken(m), Head(d_w[m]))
    /\ d_lock'[m] = (AwShown(m) /\ ~AwTaken(m))
    /\ e_w'[m] = ((e_w[m] \/ ErrAw(m)) /\ ~ErrW(m))
    /\ e_b'[m] = e_b[m] + (IF ErrW(m) THEN 1 ELSE 0)
                    - (IF BFrom(m, "err") /\ BTaken(m) THEN 1 ELSE 0)

\* Someone takes a response from s.
Responses(s) == \E m \in Masters : BFrom(m, s) /\ BTaken(m)
MuxAwPush(s) == MuxAwShown(s) /\ ~m_lock[s]

GrantMoves(s) ==
    /\ aw_arb'[s] = Arbitrated(aw_arb[s], AwReqs(s), AwGnt(s))
    /\ m_lock'[s] = (MuxAwShown(s) /\ ~AwGnt(s))
    /\ m_aw'[s] = Queue(m_aw[s], SlaveAw(s), AwGnt(s), Head(d_aw[AwChoice(s)]))
    /\ m_w'[s] = Queue(m_w[s], SlaveW(s), MuxAwPush(s), AwChoice(s))
    /\ m_b'[s] = Queue(m_b[s], Responses(s), SlaveW(s), Head(m_w[s]))

BufferMoves(s) ==
    /\ aw_buf'[s] = Buffered(aw_buf, s, m_aw[s] # << >>, Head(m_aw[s]))
    /\ w_buf'[s] = Buffered(w_buf, s, MuxWShown(s), w_data(Head(m_w[s])))

LEMMA WriteEdge ==
    ASSUME Clk
    PROVE  /\ \A m \in Masters : WriteMoves(m)
           /\ \A s \in Ports : GrantMoves(s)
           /\ \A s \in Memories : BufferMoves(s)
           /\ b_spill' = b_spill + (IF RegWrite THEN 1 ELSE 0)
                            - (IF Responses("REGF0") THEN 1 ELSE 0)
BY DEF Clk, DemuxStep, MuxStep, ErrStep, MemoryStep, RegsStep, WriteMoves, GrantMoves,
       BufferMoves, Responses, AwPush, MuxAwPush

\* An address that waits is still the same after the edge.
LEMMA StillWaiting ==
    ASSUME Own, Clk, NEW m \in Masters, AwShown(m), ~AwTaken(m)
    PROVE  d_aw'[m] # << >> /\ Head(d_aw'[m]) = Head(d_aw[m]) /\ AwTo(m)' = AwTo(m)
<1> DEFINE q == d_aw[m]
           t == d_aw'[m]
           n == Len(q)
           k == Len(t)
           J == Bit(aw_in(m))
<1>1. /\ q \in Seq(Addrs) /\ q # << >> /\ t \in Seq(Addrs)
      /\ Len(t) = (Len(q) - Bit(AwTaken(m))) + Bit(aw_in(m))
      /\ \A i \in 1 .. Len(q) - Bit(AwTaken(m)) : t[i] = q[i + Bit(AwTaken(m))]
  BY DemuxMoves DEF Own, Clk, Demux, Shifted, Typed, AwShown
<1>2. Bit(AwTaken(m)) = 0 /\ J \in {0, 1} /\ n \in Nat /\ n > 0 /\ k \in Nat
  BY <1>1, QueueHead DEF Bit
<1>3. k = n - 0 + J /\ \A i \in 1 .. n - 0 : t[i] = q[i + 0]
  BY <1>1, <1>2
<1> HIDE DEF n, k, J
<1>4. k > 0 /\ t[1] = q[1]
  BY <1>2, <1>3
<1>5. t # << >>
  BY <1>4 DEF k
<1>6. Head(t) = Head(q)
  BY <1>1, <1>4, <1>5, QueueHead
<1> QED
  BY <1>5, <1>6 DEF AwTo

\* A word waits for its address at the demultiplexer, or has come with it.
LEMMA WordsWait ==
    ASSUME Own, Deep, NEW wr, NEW rs, Writing(wr, rs), Clk, NEW new, new = NowTaken,
           NEW m \in Masters
    PROVE  /\ d_lock'[m] => new[m] = << >>
           /\ d_w'[m] = IF d_lock'[m] THEN << AwTo(m)' >> ELSE End(new[m])
<1>1. /\ d_w'[m] = Queue(d_w[m], WTaken(m), AwPush(m), AwTo(m))
      /\ d_lock'[m] = (AwShown(m) /\ ~AwTaken(m))
  BY WriteEdge DEF WriteMoves
<1>2. /\ WTaken(m) <=> wr[m] # << >> \/ Late(m)
      /\ Late(m) => ErrAw(m)
  BY WordTaken
<1>3. /\ d_lock[m] => wr[m] = << >>
      /\ d_w[m] = IF d_lock[m] THEN << AwTo(m) >> ELSE End(wr[m])
      /\ wr \in Slots
  BY DEF Writing
<1>4. /\ new[m] = IF AwTaken(m) /\ ~Late(m) THEN << Head(d_aw[m]) >> ELSE << >>
      /\ AwTaken(m) /\ ~Late(m) => End(new[m]) = << AwTo(m) >>
      /\ ~(AwTaken(m) /\ ~Late(m)) => End(new[m]) = << >>
  BY Granted DEF End
<1>5. ErrAw(m) => AwTaken(m)
  BY DEF AwTaken
<1>6. /\ AwTaken(m) \in BOOLEAN /\ (AwTaken(m) => AwShown(m))
      /\ d_lock[m] => AwShown(m)
  BY TakenShown DEF Own, Typed, AwShown
<1>7. AwShown(m) /\ ~AwTaken(m) => AwTo(m)' = AwTo(m)
  BY StillWaiting
<1>8. \A x : << x >> # << >> /\ << x >>[1] = x /\ Short(<< x >>) /\ Short(<< >>)
  BY SmallQueues DEF Short
<1>9. CASE d_lock[m]
  <2>1. d_w[m] = << AwTo(m) >> /\ ~AwPush(m) /\ (WTaken(m) <=> Late(m))
    BY <1>2, <1>3, <1>9 DEF AwPush
  <2>2. d_w'[m] = IF Late(m) THEN << >> ELSE << AwTo(m) >>
    BY <1>1, <2>1, SmallQueues DEF Queue
  <2> QED
    BY <1>1, <1>2, <1>4, <1>5, <1>6, <1>7, <1>9, <2>2
<1>10. CASE ~d_lock[m]
  <2>1. ~Late(m) /\ (AwPush(m) <=> AwShown(m)) /\ (WTaken(m) <=> wr[m] # << >>)
        /\ d_w[m] = End(wr[m])
    BY <1>2, <1>3, <1>10 DEF Late, AwPush
  <2> DEFINE c == IF AwShown(m) THEN << AwTo(m) >> ELSE << >>
  <2>2. OneIn(d_w[m], WTaken(m), AwPush(m), AwTo(m), c)
    BY <1>3, <1>8, <2>1, SlotType DEF OneIn
  <2>3. d_w'[m] = c
    BY <1>1, <2>2, OneMoves
  <2> QED
    BY <1>1, <1>4, <1>6, <1>7, <2>1, <2>3
<1> QED
  BY <1>9, <1>10

LEMMA WritingStep ==
    ASSUME Own, Deep, NEW wr, NEW rs, Writing(wr, rs), Clk,
           NEW new, new = NowTaken, NEW st, st = NowStored(wr)
    PROVE  Writing(new, st)'
<1>1. /\ wr \in Slots /\ rs \in Slots /\ OneEach(wr) /\ OneEach(rs)
      /\ new \in Slots /\ OneEach(new) /\ st \in Slots /\ OneEach(st)
  BY Granted, Storing DEF Writing
<1>2. \A x : Short(<< x >>) /\ Short(<< >>) /\ << x >> # << >> /\ << x >>[1] = x
  BY SmallQueues DEF Short
<1>3. ASSUME NEW m \in Masters
      PROVE  /\ d_b'[m] = End(st[m])
             /\ e_w'[m] = Asks(new, "err", m)
             /\ e_b'[m] = Bit(Asks(st, "err", m))
  <2>1. WriteMoves(m)
    BY WriteEdge
  <2>2. /\ st[m] # << >> <=> WTaken(m)
        /\ WTaken(m) => End(st[m]) = << Head(d_w[m]) >>
        /\ Asks(st, "err", m) <=> ErrW(m)
    BY Storing
  <2>3. /\ BTaken(m) <=> rs[m] # << >>
        /\ BFrom(m, "err") /\ BTaken(m) <=> Asks(rs, "err", m)
    BY Responded
  <2>4. /\ d_b[m] = End(rs[m]) /\ e_w[m] = Asks(wr, "err", m)
        /\ e_b[m] = Bit(Asks(rs, "err", m))
    BY DEF Writing
  <2>5. d_b'[m] = End(st[m])
    <3>1. OneIn(d_b[m], BTaken(m), WTaken(m), Head(d_w[m]), End(st[m]))
      BY <1>1, <1>2, <2>2, <2>3, <2>4, SlotType DEF OneIn
    <3> QED
      BY <2>1, <3>1, OneMoves DEF WriteMoves
  <2>6. e_b'[m] = Bit(Asks(st, "err", m))
    BY <2>1, <2>2, <2>3, <2>4 DEF WriteMoves, Bit
  <2>7. e_w'[m] = Asks(new, "err", m)
    <3>1. Asks(new, "err", m) <=> ErrAw(m) /\ ~d_lock[m]
      BY Granted
    <3>2. ErrW(m) <=> Asks(wr, "err", m) \/ Late(m)
      BY WordTaken
    <3>3. ErrAw(m) => ~e_w[m] /\ AwTo(m) = "err"
      BY DEF ErrAw
    <3>4. Asks(new, "err", m) \in BOOLEAN /\ Asks(wr, "err", m) \in BOOLEAN
      BY DEF Asks
    <3>5. e_w'[m] = ((e_w[m] \/ ErrAw(m)) /\ ~ErrW(m))
      BY <2>1 DEF WriteMoves
    <3>6. e_w'[m] \in BOOLEAN
      BY <3>5
    <3>7. e_w'[m] <=> Asks(new, "err", m)
      BY <2>4, <3>1, <3>2, <3>3, <3>4, <3>5 DEF Late
    <3> QED
      BY <3>4, <3>6, <3>7
  <2> QED
    BY <2>5, <2>6, <2>7
<1>4. ASSUME NEW s \in Ports
      PROVE  /\ m_lock'[s] = FALSE /\ aw_arb'[s].lock = FALSE /\ aw_arb'[s].rr \in {0, 1}
             /\ m_aw'[s] = Held(new, s) /\ m_w'[s] = Asker(new, s) /\ m_b'[s] = Asker(st, s)
  <2>1. GrantMoves(s)
    BY WriteEdge
  <2>2. /\ MuxAwShown(s) <=> AwReqs(s) # {}
        /\ AwGnt(s) <=> AwReqs(s) # {}
    BY Room
  <2>3. /\ m_lock[s] = FALSE /\ aw_arb[s].lock = FALSE /\ aw_arb[s].rr \in {0, 1}
        /\ m_aw[s] = Held(wr, s) /\ m_w[s] = Asker(wr, s) /\ m_b[s] = Asker(rs, s)
    BY DEF Writing
  <2>4. /\ AwGnt(s) <=> Some(new, s)
        /\ AwGnt(s) => /\ Who(new, s) = AwChoice(s)
                       /\ new[AwChoice(s)] = << Head(d_aw[AwChoice(s)]) >>
    BY Granted
  <2>5. /\ SlaveW(s) <=> Some(wr, s)
        /\ SlaveAw(s) <=> Some(wr, s)
        /\ Some(wr, s) => Head(m_w[s]) = Who(wr, s)
    BY WordTaken
  <2>6. /\ Some(st, s) <=> Some(wr, s)
        /\ Some(wr, s) => Who(st, s) = Who(wr, s)
    BY Storing
  <2>7. Responses(s) <=> Some(rs, s)
    BY Responded DEF Responses, Some
  <2>8. MuxAwPush(s) <=> AwGnt(s)
    BY <2>2, <2>3 DEF MuxAwPush
  <2>9. m_lock'[s] = FALSE
    BY <2>1, <2>2 DEF GrantMoves
  <2>10. aw_arb'[s].lock = FALSE /\ aw_arb'[s].rr \in {0, 1}
    <3>1. Heard(aw_arb[s], AwReqs(s)) = AwReqs(s)
      BY <2>3 DEF Heard
    <3>2. NextPrio(aw_arb[s].rr, AwReqs(s)) \in {0, 1}
      BY DEF NextPrio
    <3>3. aw_arb'[s] = Arbitrated(aw_arb[s], AwReqs(s), AwGnt(s))
      BY <2>1 DEF GrantMoves
    <3>4. Arbitrated(aw_arb[s], AwReqs(s), AwGnt(s)).lock = FALSE
      BY <2>2, <3>1 DEF Arbitrated
    <3>5. Arbitrated(aw_arb[s], AwReqs(s), AwGnt(s)).rr \in {0, 1}
      BY <2>3, <3>1, <3>2 DEF Arbitrated
    <3> QED
      BY <3>3, <3>4, <3>5
  <2>11. m_aw'[s] = Held(new, s)
    <3>1. AwGnt(s) => Held(new, s)[1] = Head(d_aw[AwChoice(s)])
      BY <1>2, <2>4 DEF Held
    <3>2. OneIn(m_aw[s], SlaveAw(s), AwGnt(s), Head(d_aw[AwChoice(s)]), Held(new, s))
      BY <1>1, <2>3, <2>4, <2>5, <3>1, HeldType DEF OneIn
    <3> QED
      BY <2>1, <3>2, OneMoves DEF GrantMoves
  <2>12. m_w'[s] = Asker(new, s)
    <3>1. OneIn(m_w[s], SlaveW(s), MuxAwPush(s), AwChoice(s), Asker(new, s))
      BY <1>1, <2>3, <2>4, <2>5, <2>8, AskerType DEF OneIn
    <3> QED
      BY <2>1, <3>1, OneMoves DEF GrantMoves
  <2>13. m_b'[s] = Asker(st, s)
    <3>1. OneIn(m_b[s], Responses(s), SlaveW(s), Head(m_w[s]), Asker(st, s))
      BY <1>1, <2>3, <2>5, <2>6, <2>7, AskerType DEF OneIn
    <3> QED
      BY <2>1, <3>1, OneMoves DEF GrantMoves
  <2> QED
    BY <2>9, <2>10, <2>11, <2>12, <2>13
<1>5. ASSUME NEW s \in Memories
      PROVE  /\ aw_buf'[s] = Held(st, s)
             /\ Short(w_buf'[s]) /\ (w_buf'[s] # << >> <=> Some(st, s))
  <2>1. s \in Ports /\ BufferMoves(s)
    BY WriteEdge DEF Ports
  <2>2. BufReady(aw_buf, s) /\ BufReady(w_buf, s)
    BY Room
  <2>3. /\ aw_buf[s] = Held(rs, s) /\ m_aw[s] = Held(wr, s)
        /\ Short(w_buf[s]) /\ (w_buf[s] # << >> <=> Some(rs, s))
    BY <2>1 DEF Writing
  <2>4. /\ aw_buf[s] # << >> <=> Some(rs, s)
        /\ m_aw[s] # << >> <=> Some(wr, s)
        /\ Short(m_aw[s])
    BY <1>1, <2>1, <2>3, HeldType
  <2>5. MuxWShown(s) <=> Some(wr, s)
    BY <2>1, WordTaken
  <2>6. (Some(st, s) <=> Some(wr, s)) /\ Held(st, s) = Held(wr, s)
    BY <2>1, Storing
  <2>7. Take(s) <=> Some(rs, s)
    BY <2>3, <2>4 DEF Take
  <2>8. m_aw[s] # << >> => << Head(m_aw[s]) >> = m_aw[s]
    <3>1. PICK x : x = m_aw[s][1]
      OBVIOUS
    <3> QED
      BY <2>4, <3>1, SmallQueues DEF Short
  <2>9. aw_buf'[s] = Held(st, s)
    BY <2>1, <2>2, <2>3, <2>4, <2>6, <2>7, <2>8 DEF BufferMoves, Buffered
  <2>10. Short(w_buf'[s]) /\ (w_buf'[s] # << >> <=> Some(st, s))
    BY <1>2, <2>1, <2>2, <2>3, <2>5, <2>6, <2>7 DEF BufferMoves, Buffered
  <2> QED
    BY <2>9, <2>10
<1>6. b_spill' = Bit(Some(st, "REGF0"))
  <2>1. "REGF0" \in Ports
    BY DEF Ports
  <2>2. RegWrite <=> Some(wr, "REGF0")
    BY WordTaken
  <2>3. Responses("REGF0") <=> Some(rs, "REGF0")
    BY Responded DEF Responses, Some
  <2>4. Some(st, "REGF0") <=> Some(wr, "REGF0")
    BY <2>1, Storing
  <2>5. b_spill = Bit(Some(rs, "REGF0"))
    BY DEF Writing
  <2> QED
    BY <2>2, <2>3, <2>4, <2>5, WriteEdge DEF Bit
<1>7. \A m \in Masters : /\ d_lock'[m] => new[m] = << >>
                         /\ d_w'[m] = IF d_lock'[m] THEN << AwTo(m)' >> ELSE End(new[m])
  BY WordsWait
<1> QED
  BY <1>1, <1>3, <1>4, <1>5, <1>6, <1>7 DEF Writing, Bit

LEMMA InitWriting ==
    ASSUME Init
    PROVE  Writing(NoOne, NoOne)
<1>1. ASSUME NEW m \in Masters
      PROVE  /\ d_lock[m] = FALSE /\ d_w[m] = End(NoOne[m]) /\ d_b[m] = End(NoOne[m])
             /\ e_w[m] = Asks(NoOne, "err", m) /\ e_b[m] = Bit(Asks(NoOne, "err", m))
  <2>1. End(NoOne[m]) = << >> /\ Asks(NoOne, "err", m) = FALSE
    BY NoOneAsks DEF Asks
  <2> QED
    BY <2>1 DEF Init, Idle, Low, Bit
<1>2. ASSUME NEW s \in Ports
      PROVE  /\ m_lock[s] = FALSE /\ aw_arb[s].lock = FALSE /\ aw_arb[s].rr \in {0, 1}
             /\ m_aw[s] = Held(NoOne, s) /\ m_w[s] = Asker(NoOne, s) /\ m_b[s] = Asker(NoOne, s)
  <2>1. Held(NoOne, s) = << >> /\ Asker(NoOne, s) = << >>
    BY NoOneAsks DEF Held
  <2> QED
    BY <2>1 DEF Init, Idle, Low, NewArb
<1>3. ASSUME NEW s \in Memories
      PROVE  /\ aw_buf[s] = Held(NoOne, s)
             /\ Short(w_buf[s]) /\ (w_buf[s] # << >> <=> Some(NoOne, s))
  BY NoOneAsks DEF Init, Idle, Held, Short
<1>4. b_spill = Bit(Some(NoOne, "REGF0"))
  BY NoOneAsks DEF Init, Bit
<1> QED
  BY <1>1, <1>2, <1>3, <1>4, NoOneAsks DEF Writing

LEMMA WritingStays ==
    ASSUME NEW wr, NEW rs, Writing(wr, rs), UNCHANGED vars
    PROVE  Writing(wr, rs)'
BY DEF vars, Writing, AwTo

(***************************************************************************)
(* The order of the image master's addresses.  A chain is a queue of them  *)
(* that starts off places after pixel i and ends before the one offered    *)
(* next.                                                                   *)
(***************************************************************************)
PixelAt(i, k) == (((i - 1) + k) % Len(Job)) + 1

Chain(i, off, q, nxt) ==
    /\ i \in Pixels /\ nxt \in 0 .. Len(Job) /\ off \in Nat
    /\ q \in Seq(Addrs)
    /\ \A k \in 1 .. Len(q) : q[k] = Job[PixelAt(i, off + (k - 1))]
    /\ PixelAt(i, off + Len(q)) = IF nxt = 0 THEN 1 ELSE nxt

LEMMA PixelNext ==
    ASSUME NEW i \in Pixels, NEW k \in Nat
    PROVE  /\ NextPixel(i) \in Pixels /\ PixelAt(i, k) \in Pixels
           /\ PixelAt(i, 0) = i /\ PixelAt(i, 1) = NextPixel(i)
           /\ PixelAt(NextPixel(i), k) = PixelAt(i, k + 1)
           /\ NextPixel(PixelAt(i, k)) = PixelAt(i, k + 1)
<1> DEFINE M == Len(Job)
<1>1. M \in Nat \ {0} /\ i \in 1 .. M
  BY JobAddress DEF Pixels
<1>2. /\ NextPixel(i) = (i % M) + 1
      /\ \A j : PixelAt(i, j) = (((i - 1) + j) % M) + 1
      /\ PixelAt(NextPixel(i), k) = (((((i % M) + 1) - 1) + k) % M) + 1
      /\ NextPixel(PixelAt(i, k)) = (((((i - 1) + k) % M) + 1) % M) + 1
  BY DEF NextPixel, PixelAt
<1>3. Pixels = 1 .. M
  BY DEF Pixels
<1> HIDE DEF M
<1>4. i % M \in 0 .. M - 1 /\ ((i - 1) + k) % M \in 0 .. M - 1
  <2>1. i \in Int /\ (i - 1) + k \in Int
    BY <1>1
  <2> QED
    BY <1>1, <2>1, DivMod
<1>5. NextPixel(i) \in Pixels /\ PixelAt(i, k) \in Pixels
  <2>1. \A y \in 0 .. M - 1 : y + 1 \in 1 .. M
    BY <1>1
  <2>2. NextPixel(i) = (i % M) + 1 /\ PixelAt(i, k) = (((i - 1) + k) % M) + 1
    BY <1>2
  <2> QED
    BY <1>3, <1>4, <2>1, <2>2
<1>6. PixelAt(i, 0) = i
  <2>1. i - 1 \in 0 .. M - 1 /\ (i - 1) + 0 = i - 1
    BY <1>1
  <2>2. (i - 1) % M = i - 1
    BY <1>1, <2>1, ModSmall
  <2> QED
    BY <1>1, <1>2, <2>1, <2>2
<1>7. PixelAt(i, 1) = NextPixel(i)
  <2>1. (i - 1) + 1 = i
    BY <1>1
  <2> QED
    BY <1>2, <2>1
<1>8. PixelAt(NextPixel(i), k) = PixelAt(i, k + 1)
  <2>1. ((i % M) + k) % M = (i + k) % M
    <3>1. i \in Int /\ k \in Int
      BY <1>1
    <3> QED
      BY <1>1, <3>1, ModPlus
  <2>2. ((i % M) + 1) - 1 = i % M /\ (i - 1) + (k + 1) = i + k
    BY <1>1, <1>4
  <2> QED
    BY <1>2, <2>1, <2>2
<1>9. NextPixel(PixelAt(i, k)) = PixelAt(i, k + 1)
  <2>1. (i - 1) + k \in Int /\ ((i - 1) + k) + 1 = (i - 1) + (k + 1)
    BY <1>1
  <2>2. ((((i - 1) + k) % M) + 1) % M = (((i - 1) + k) + 1) % M
    <3>1. PICK y \in Int : y = (i - 1) + k
      BY <2>1
    <3>2. \A b \in Int : ((y % M) + b) % M = (y + b) % M
      BY <1>1, ModPlus
    <3> QED
      BY <3>1, <3>2
  <2> QED
    BY <1>2, <2>1, <2>2
<1> QED
  BY <1>5, <1>6, <1>7, <1>8, <1>9

\* What an edge does to a chain: d, the pixel i is done; pop and push, the
\* queue moves.
Extended(i, off, q, nxt, d, pop, push, x, t, i2, nxt2) ==
    /\ d \in BOOLEAN /\ pop \in BOOLEAN /\ push \in BOOLEAN
    /\ d => off # 0 \/ pop
    /\ pop => q # << >>
    /\ Shifted(Addrs, q, pop, push, x, t)
    /\ push => nxt # 0 /\ x = Job[nxt]
    /\ i2 = IF d THEN NextPixel(i) ELSE i
    /\ IF nxt = 0 THEN nxt2 \in {0, 1} ELSE nxt2 = Scanned(nxt, push)

LEMMA ChainHead ==
    ASSUME NEW i, NEW off, NEW q, NEW nxt, Chain(i, off, q, nxt), q # << >>
    PROVE  Head(q) = Job[PixelAt(i, off)]
<1>1. q \in Seq(Addrs) /\ off \in Nat
      /\ \A k \in 1 .. Len(q) : q[k] = Job[PixelAt(i, off + (k - 1))]
  BY DEF Chain
<1>2. Head(q) = q[1] /\ 1 \in 1 .. Len(q)
  BY <1>1, QueueHead
<1>3. off + (1 - 1) = off
  BY <1>1
<1> QED
  BY <1>1, <1>2, <1>3

LEMMA ChainMoves ==
    ASSUME NEW i, NEW off, NEW q, NEW nxt, NEW d, NEW pop, NEW push, NEW x,
           NEW t, NEW i2, NEW nxt2,
           Chain(i, off, q, nxt), Extended(i, off, q, nxt, d, pop, push, x, t, i2, nxt2)
    PROVE  Chain(i2, (off - Bit(d)) + Bit(pop), t, nxt2)
<1> DEFINE n == Len(q)
           l == Len(t)
           D == Bit(d)
           P == Bit(pop)
           U == Bit(push)
           M == Len(Job)
           off2 == (off - D) + P
<1>1. /\ i \in Pixels /\ nxt \in 0 .. M /\ off \in Nat /\ q \in Seq(Addrs)
      /\ \A k \in 1 .. n : q[k] = Job[PixelAt(i, off + (k - 1))]
      /\ PixelAt(i, off + n) = IF nxt = 0 THEN 1 ELSE nxt
  BY DEF Chain
<1>2. /\ d \in BOOLEAN /\ pop \in BOOLEAN /\ push \in BOOLEAN
      /\ d => off # 0 \/ pop
      /\ pop => q # << >>
      /\ push => nxt # 0 /\ x = Job[nxt]
      /\ i2 = IF d THEN NextPixel(i) ELSE i
      /\ IF nxt = 0 THEN nxt2 \in {0, 1} ELSE nxt2 = Scanned(nxt, push)
  BY DEF Extended
<1>3. /\ t \in Seq(Addrs) /\ l = (n - P) + U
      /\ \A k \in 1 .. n - P : t[k] = q[k + P]
      /\ push => t[l] = x
  BY DEF Extended, Shifted
<1>4. /\ n \in Nat /\ D \in {0, 1} /\ P \in {0, 1} /\ U \in {0, 1} /\ M \in Nat \ {0}
      /\ (D = 1 <=> d) /\ (P = 1 <=> pop) /\ (U = 1 <=> push)
      /\ P <= n
  BY <1>1, <1>2, QueueHead, JobAddress DEF Bit
<1>5. i2 \in Pixels
  BY <1>1, <1>2, PixelNext
<1> HIDE DEF n, D, P, U, M
<1>6. off2 \in Nat
  BY <1>1, <1>2, <1>4
<1>7. \A k \in Nat : PixelAt(i2, off2 + k) = PixelAt(i, (off + P) + k)
  <2> SUFFICES ASSUME NEW k \in Nat
               PROVE  PixelAt(i2, off2 + k) = PixelAt(i, (off + P) + k)
    OBVIOUS
  <2>1. CASE d
    <3>1. off2 + k \in Nat /\ (off2 + k) + 1 = (off + P) + k /\ i2 = NextPixel(i)
      BY <1>1, <1>2, <1>4, <1>6, <2>1
    <3> QED
      BY <1>1, <3>1, PixelNext
  <2>2. CASE ~d
    BY <1>1, <1>2, <1>4, <2>2
  <2> QED
    BY <2>1, <2>2
<1>8. ASSUME NEW k \in 1 .. l
      PROVE  t[k] = Job[PixelAt(i2, off2 + (k - 1))]
  <2>1. l \in Nat /\ k - 1 \in Nat
    BY <1>3, <1>4
  <2>2. PixelAt(i2, off2 + (k - 1)) = PixelAt(i, (off + P) + (k - 1))
    BY <1>7, <2>1
  <2>3. CASE k <= n - P
    <3>1. k + P \in 1 .. n /\ k \in 1 .. n - P
          /\ off + ((k + P) - 1) = (off + P) + (k - 1)
      BY <1>1, <1>4, <2>3, <2>1
    <3> QED
      BY <1>1, <1>3, <2>2, <3>1
  <2>4. CASE ~(k <= n - P)
    <3>1. U = 1 /\ k = l /\ (off + P) + (k - 1) = off + n
      BY <1>1, <1>3, <1>4, <2>1, <2>4
    <3>2. push /\ t[k] = Job[nxt] /\ nxt # 0
      BY <1>2, <1>3, <1>4, <3>1
    <3> QED
      BY <1>1, <2>2, <3>1, <3>2
  <2> QED
    BY <2>3, <2>4
<1>9. PixelAt(i2, off2 + l) = PixelAt(i, (off + n) + U)
  <2>1. l \in Nat /\ (off + P) + l = (off + n) + U
    BY <1>1, <1>3, <1>4
  <2> QED
    BY <1>7, <2>1
<1>10. nxt2 \in 0 .. M /\ PixelAt(i, (off + n) + U) = IF nxt2 = 0 THEN 1 ELSE nxt2
  <2>1. off + n \in Nat
    BY <1>1, <1>4
  <2>2. CASE nxt = 0
    <3>1. ~push /\ U = 0 /\ (off + n) + U = off + n
      BY <1>2, <1>4, <2>1, <2>2
    <3> QED
      BY <1>1, <1>2, <1>4, <2>2, <3>1
  <2>3. CASE nxt # 0 /\ ~push
    <3>1. nxt2 = nxt /\ (off + n) + U = off + n
      BY <1>2, <1>4, <2>1, <2>3 DEF Scanned
    <3> QED
      BY <1>1, <2>3, <3>1
  <2>4. CASE nxt # 0 /\ push
    <3>1. nxt2 = (nxt + 1) % (M + 1) /\ U = 1
      BY <1>2, <1>4, <2>4 DEF Scanned, M
    <3>2. PixelAt(i, (off + n) + U) = (nxt % M) + 1
      <4>1. NextPixel(PixelAt(i, off + n)) = PixelAt(i, (off + n) + 1)
        BY <1>1, <2>1, PixelNext
      <4>2. PixelAt(i, off + n) = nxt
        BY <1>1, <2>4
      <4> QED
        BY <3>1, <4>1, <4>2 DEF NextPixel, M
    <3>3. CASE nxt < M
      <4>1. nxt \in 0 .. M - 1 /\ nxt + 1 \in 0 .. (M + 1) - 1 /\ M + 1 \in Nat \ {0}
        BY <1>1, <1>4, <3>3
      <4>2. nxt % M = nxt /\ (nxt + 1) % (M + 1) = nxt + 1
        BY <1>4, <4>1, ModSmall
      <4>3. nxt2 = nxt + 1 /\ PixelAt(i, (off + n) + U) = nxt + 1
        BY <3>1, <3>2, <4>2
      <4>4. nxt + 1 \in 0 .. M /\ nxt + 1 # 0
        BY <1>1, <1>4, <3>3
      <4> QED
        BY <4>3, <4>4
    <3>4. CASE ~(nxt < M)
      <4>1. nxt = 0 + (1 * M) /\ nxt + 1 = 0 + (1 * (M + 1)) /\ M + 1 \in Nat \ {0}
        BY <1>1, <1>4, <3>4
      <4>2. (0 + (1 * M)) % M = 0 % M /\ (0 + (1 * (M + 1))) % (M + 1) = 0 % (M + 1)
        BY <1>4, <4>1, ModMultiple
      <4>3. 0 % M = 0 /\ 0 % (M + 1) = 0
        BY <1>4, <4>1, ModSmall
      <4>4. nxt2 = 0 /\ nxt % M = 0
        BY <3>1, <4>1, <4>2, <4>3
      <4> QED
        BY <1>4, <3>2, <4>4
    <3> QED
      BY <3>3, <3>4
  <2> QED
    BY <2>2, <2>3, <2>4
<1> QED
  BY <1>3, <1>5, <1>6, <1>8, <1>9, <1>10 DEF Chain, M, D, P

(***************************************************************************)
(* What is written                                                         *)
(***************************************************************************)
\* The image master's words come in the order of its addresses.
WriteOrder(wr) ==
    /\ wr[IMP] # << >> => wr[IMP][1] = Job[i_wdata]
    /\ Chain(i_wdata, Bit(wr[IMP] # << >>), d_aw[IMP], i_aw)

\* Whatever the processor writes goes to the address of its request.
CpuWrites(wr, rs) ==
    /\ wr[CPU] # << >> => wr[CPU][1] = req[1].addr
    /\ rs[CPU] # << >> => rs[CPU][1] = req[1].addr
    /\ \A k \in 1 .. Len(d_aw[CPU]) : d_aw[CPU][k] = req[1].addr

\* A word in a memory's buffer belongs to the address beside it.
Stored(rs) == \A s \in Memories : Some(rs, s) => w_buf[s][1] \in Belonging(Held(rs, s)[1])

CellsTyped == /\ DOMAIN ram = {c \in Cells : Dest[c] # "REGF0"}
              /\ DOMAIN reg_q = {c \in Cells : Dest[c] = "REGF0"}

LEMMA WriteOrderStep ==
    ASSUME Own, Deep, NEW wr, NEW rs, Writing(wr, rs), WriteOrder(wr), Clk,
           NEW new, new = NowTaken
    PROVE  WriteOrder(new)'
<1> DEFINE off == Bit(wr[IMP] # << >>)
           d == WTaken(IMP)
           pop == AwTaken(IMP)
           push == aw_in(IMP)
<1>1. IMP \in Masters /\ Typed
  BY DEF Masters, Own
<1>2. /\ d <=> wr[IMP] # << >> \/ Late(IMP)
      /\ Late(IMP) => pop /\ wr[IMP] = << >>
  BY <1>1, WordTaken DEF AwTaken, Late, Writing
<1>3. new[IMP] = IF pop /\ ~Late(IMP) THEN << Head(d_aw[IMP]) >> ELSE << >>
  BY <1>1, Granted
<1>4. /\ d \in BOOLEAN /\ pop \in BOOLEAN /\ push \in BOOLEAN
      /\ pop => d_aw[IMP] # << >>
  BY <1>1, TakenShown, OffersType DEF AwShown
<1>5. Shifted(Addrs, d_aw[IMP], pop, push, aw_addr(IMP), d_aw'[IMP])
  BY <1>1, DemuxMoves DEF Clk, Demux
<1>6. push => i_aw # 0 /\ aw_addr(IMP) = Job[i_aw]
  BY DEF aw_in, aw_valid, aw_addr, CPU, IMP
<1>7. /\ i_wdata' = IF d THEN NextPixel(i_wdata) ELSE i_wdata
      /\ IF i_aw = 0 THEN i_aw' \in {0, 1} ELSE i_aw' = Scanned(i_aw, push)
  BY DEF Clk, ImpStep
<1>8. Chain(i_wdata, off, d_aw[IMP], i_aw)
  BY DEF WriteOrder
<1>9. Bit(new[IMP] # << >>) = (off - Bit(d)) + Bit(pop)
  <2>1. new[IMP] # << >> <=> pop /\ ~Late(IMP)
    BY <1>3, SmallQueues
  <2> QED
    BY <1>2, <1>4, <2>1 DEF Bit
<1>10. off \in {0, 1} /\ (d => off # 0 \/ pop)
  BY <1>2 DEF Bit
<1> HIDE DEF off, d, pop, push
<1>11. Extended(i_wdata, off, d_aw[IMP], i_aw, d, pop, push, aw_addr(IMP),
                d_aw'[IMP], i_wdata', i_aw')
  BY <1>4, <1>5, <1>6, <1>7, <1>10 DEF Extended
<1>12. Chain(i_wdata', (off - Bit(d)) + Bit(pop), d_aw'[IMP], i_aw')
  BY <1>8, <1>11, ChainMoves
<1>13. new[IMP] # << >> => new[IMP][1] = Job[i_wdata']
  <2> SUFFICES ASSUME new[IMP] # << >> PROVE new[IMP][1] = Job[i_wdata']
    OBVIOUS
  <2>1. pop /\ ~Late(IMP) /\ new[IMP] = << Head(d_aw[IMP]) >> /\ d_aw[IMP] # << >>
    BY <1>3, <1>4
  <2>2. new[IMP][1] = Job[PixelAt(i_wdata, off)]
    <3>1. PICK h : h = Head(d_aw[IMP])
      OBVIOUS
    <3>2. h = Job[PixelAt(i_wdata, off)]
      BY <1>8, <2>1, <3>1, ChainHead
    <3> QED
      BY <2>1, <3>1, <3>2
  <2>3. i_wdata \in Pixels
    BY <1>8 DEF Chain
  <2>4. PixelAt(i_wdata, off) = i_wdata'
    BY <1>2, <1>7, <2>1, <2>3, PixelNext DEF off, Bit
  <2> QED
    BY <2>2, <2>4
<1> QED
  BY <1>9, <1>12, <1>13 DEF WriteOrder, Chain, Bit

\* When nothing of the processor has been accepted, nothing is on its way.
LEMMA NothingWritten ==
    \A wr, rs : Own /\ Writing(wr, rs) /\ ~(Doing("write") /\ "aw" \in ack)
                   => d_aw[CPU] = << >> /\ wr[CPU] = << >> /\ rs[CPU] = << >>
<1> SUFFICES ASSUME NEW wr, NEW rs, Own, Writing(wr, rs), ~(Doing("write") /\ "aw" \in ack)
             PROVE  d_aw[CPU] = << >> /\ wr[CPU] = << >> /\ rs[CPU] = << >>
  OBVIOUS
<1>1. CPU \in Masters
  BY DEF Masters
<1>2. d_w[CPU] = << >> /\ d_b[CPU] = << >> /\ (d_aw[CPU] = << >> \/ d_lock[CPU])
  BY Books DEF Own, Typed, Masters
<1>3. /\ wr \in Slots /\ rs \in Slots
      /\ d_w[CPU] = IF d_lock[CPU] THEN << AwTo(CPU) >> ELSE End(wr[CPU])
      /\ d_b[CPU] = End(rs[CPU])
  BY <1>1 DEF Writing
<1>4. ~d_lock[CPU]
  BY <1>2, <1>3, SmallQueues
<1> QED
  BY <1>1, <1>2, <1>3, <1>4, SlotType

LEMMA NothingWrittenNext ==
    (\A wr, rs : Own /\ Writing(wr, rs) /\ ~(Doing("write") /\ "aw" \in ack)
                   => d_aw[CPU] = << >> /\ wr[CPU] = << >> /\ rs[CPU] = << >>)'
BY NothingWritten, PTL

\* While the processor waits its request stays; else nothing is accepted.
LEMMA RequestStays ==
    ASSUME Own, Clk
    PROVE  \/ mem_valid /\ ~mem_ready /\ req' = req
           \/ ~(Doing("write") /\ "aw" \in ack)' /\ ~(Doing("read") /\ "ar" \in ack)'
<1>1. CASE mem_valid /\ ~mem_ready
  BY <1>1 DEF Clk, CpuStep
<1>2. CASE mem_valid /\ mem_ready
  BY <1>2 DEF Clk, CpuStep, Doing, mem_valid
<1>3. CASE ~mem_valid
  <2>1. ack' = {}
    BY <1>3 DEF Clk, CpuStep, Acked
  <2> QED
    BY <2>1
<1> QED
  BY <1>1, <1>2, <1>3

\* A queue that holds the same address everywhere goes on doing so.
Same(q, pop, push, x, t, a) == /\ q \in Seq(Addrs) /\ pop \in BOOLEAN /\ push \in BOOLEAN
                               /\ Shifted(Addrs, q, pop, push, x, t)
                               /\ pop => q # << >>
                               /\ push => x = a
                               /\ \A k \in 1 .. Len(q) : q[k] = a

LEMMA SameMoves ==
    ASSUME NEW q, NEW pop, NEW push, NEW x, NEW t, NEW a, Same(q, pop, push, x, t, a)
    PROVE  \A k \in 1 .. Len(t) : t[k] = a
<1> DEFINE n == Len(q)
           l == Len(t)
           P == Bit(pop)
           U == Bit(push)
<1>1. /\ l = (n - P) + U
      /\ \A k \in 1 .. n - P : t[k] = q[k + P]
      /\ push => t[l] = x
      /\ push => x = a
      /\ \A k \in 1 .. n : q[k] = a
  BY DEF Same, Shifted
<1>2. n \in Nat /\ P \in {0, 1} /\ U \in {0, 1} /\ (U = 1 <=> push) /\ P <= n
  BY QueueHead DEF Same, Bit
<1> HIDE DEF n, l, P, U
<1>3. ASSUME NEW k \in 1 .. l PROVE t[k] = a
  <2>1. CASE k <= n - P
    <3>1. k \in 1 .. n - P /\ k + P \in 1 .. n
      BY <1>1, <1>2, <2>1
    <3> QED
      BY <1>1, <3>1
  <2>2. CASE ~(k <= n - P)
    <3>1. k = l /\ U = 1
      BY <1>1, <1>2, <2>2
    <3> QED
      BY <1>1, <1>2, <3>1
  <2> QED
    BY <2>1, <2>2
<1> QED
  BY <1>3 DEF l

LEMMA CpuWritesStep ==
    ASSUME Own, Own', Deep, NEW wr, NEW rs, Writing(wr, rs), CpuWrites(wr, rs), Clk,
           NEW new, new = NowTaken, NEW st, st = NowStored(wr), Writing(new, st)'
    PROVE  CpuWrites(new, st)'
<1>1. CPU \in Masters /\ Typed
  BY DEF Masters, Own
<1>2. CASE mem_valid /\ ~mem_ready /\ req' = req
  <2> DEFINE a == req[1].addr
  <2>1. d_aw[CPU] \in Seq(Addrs) /\ \A k \in 1 .. Len(d_aw[CPU]) : d_aw[CPU][k] = a
    BY <1>1 DEF CpuWrites, Typed
  <2>2. d_aw[CPU] # << >> => Head(d_aw[CPU]) = a
    <3>1. d_aw[CPU] # << >> => 1 \in 1 .. Len(d_aw[CPU]) /\ Head(d_aw[CPU]) = d_aw[CPU][1]
      BY <2>1, QueueHead
    <3> QED
      BY <2>1, <3>1
  <2>3. new[CPU] # << >> => new[CPU] = << Head(d_aw[CPU]) >> /\ d_aw[CPU] # << >>
    BY <1>1, Granted, AwHead
  <2>4. st[CPU] # << >> => \/ st[CPU] = << Head(d_aw[CPU]) >> /\ d_aw[CPU] # << >>
                           \/ st[CPU] = wr[CPU]
    BY <1>1, AwHead DEF NowStored, Late
  <2>5. \A k \in 1 .. Len(d_aw'[CPU]) : d_aw'[CPU][k] = a
    <3>1. /\ Shifted(Addrs, d_aw[CPU], AwTaken(CPU), aw_in(CPU), aw_addr(CPU), d_aw'[CPU])
          /\ AwTaken(CPU) \in BOOLEAN /\ (AwTaken(CPU) => d_aw[CPU] # << >>)
          /\ aw_in(CPU) \in BOOLEAN
      BY <1>1, DemuxMoves, TakenShown, OffersType DEF Clk, Demux, AwShown
    <3>2. aw_in(CPU) => aw_addr(CPU) = a
      BY DEF aw_addr
    <3> HIDE DEF a
    <3>3. Same(d_aw[CPU], AwTaken(CPU), aw_in(CPU), aw_addr(CPU), d_aw'[CPU], a)
      BY <2>1, <3>1, <3>2 DEF Same
    <3> QED
      BY <3>3, SameMoves
  <2>6. (req[1].addr)' = a
    BY <1>2
  <2>7. wr[CPU] # << >> => wr[CPU][1] = a
    BY DEF CpuWrites
  <2> HIDE DEF a
  <2>8. new[CPU] # << >> => new[CPU][1] = a
    BY <2>2, <2>3
  <2>9. st[CPU] # << >> => st[CPU][1] = a
    BY <2>2, <2>4, <2>7
  <2> QED
    BY <2>5, <2>6, <2>8, <2>9 DEF CpuWrites
<1>3. CASE ~(Doing("write") /\ "aw" \in ack)'
  <2>1. d_aw'[CPU] = << >> /\ new[CPU] = << >> /\ st[CPU] = << >>
    BY <1>3, NothingWrittenNext
  <2> QED
    BY <2>1, SmallQueues DEF CpuWrites
<1> QED
  BY <1>2, <1>3, RequestStays

\* The word that comes for an address belongs to it.
LEMMA WordBelongs ==
    ASSUME Own, NEW wr, NEW rs, Writing(wr, rs), WriteOrder(wr), CpuWrites(wr, rs),
           NEW m \in Masters, wr[m] # << >>
    PROVE  w_data(m) \in Belonging(wr[m][1])
<1>1. CASE m = CPU
  <2>1. /\ wr \in Slots /\ ~d_lock[CPU] /\ d_w[CPU] = End(wr[CPU])
    BY <1>1 DEF Writing
  <2>2. d_w[CPU] # << >>
    BY <1>1, <2>1, SlotType
  <2>3. Doing("write") /\ Typed
    BY <2>2, Books DEF Own
  <2>4. req[1].addr \in CpuAddrs /\ req[1].data \in CpuData
    BY <2>3, RequestType DEF Doing
  <2>5. wr[CPU][1] = req[1].addr
    BY <1>1 DEF CpuWrites
  <2> QED
    BY <1>1, <2>4, <2>5 DEF w_data, Belonging
<1>2. CASE m = IMP
  <2>1. wr[IMP][1] = Job[i_wdata] /\ i_wdata \in Pixels
    BY <1>2 DEF WriteOrder, Chain
  <2>2. w_data(m) = i_wdata
    BY <1>2 DEF w_data, CPU, IMP
  <2> QED
    BY <1>2, <2>1, <2>2 DEF Belonging
<1> QED
  BY <1>1, <1>2 DEF Masters

\* What goes into a memory's buffer, and into the register file.
LEMMA WordStored ==
    ASSUME Own, Deep, NEW wr, NEW rs, Writing(wr, rs), Clk
    PROVE  /\ \A s \in Memories : Some(wr, s) => w_buf'[s] = << w_data(Who(wr, s)) >>
           /\ \A s \in Memories : /\ Take(s) <=> Some(rs, s)
                                  /\ aw_buf[s] = Held(rs, s)
           /\ IF Some(wr, "REGF0")
              THEN reg_q' = [reg_q EXCEPT ![Held(wr, "REGF0")[1]] = w_data(Who(wr, "REGF0"))]
              ELSE reg_q' = reg_q
<1>1. wr \in Slots /\ OneEach(wr) /\ rs \in Slots /\ OneEach(rs)
  BY DEF Writing
<1>2. ASSUME NEW s \in Memories
      PROVE  /\ Some(wr, s) => w_buf'[s] = << w_data(Who(wr, s)) >>
             /\ Take(s) <=> Some(rs, s)
             /\ aw_buf[s] = Held(rs, s)
  <2>1. s \in Ports /\ BufferMoves(s) /\ BufReady(w_buf, s)
    BY WriteEdge, Room DEF Ports
  <2>2. /\ MuxWShown(s) <=> Some(wr, s)
        /\ Some(wr, s) => Head(m_w[s]) = Who(wr, s)
    BY <2>1, WordTaken
  <2>3. aw_buf[s] = Held(rs, s) /\ (w_buf[s] # << >> <=> Some(rs, s))
    BY DEF Writing
  <2>4. aw_buf[s] # << >> <=> Some(rs, s)
    BY <1>1, <2>1, <2>3, HeldType
  <2> QED
    BY <2>1, <2>2, <2>3, <2>4 DEF BufferMoves, Buffered, Take
<1>3. IF Some(wr, "REGF0")
      THEN reg_q' = [reg_q EXCEPT ![Held(wr, "REGF0")[1]] = w_data(Who(wr, "REGF0"))]
      ELSE reg_q' = reg_q
  <2>1. "REGF0" \in Ports
    BY DEF Ports
  <2>2. /\ RegWrite <=> Some(wr, "REGF0")
        /\ Some(wr, "REGF0") => Head(m_w["REGF0"]) = Who(wr, "REGF0")
    BY <2>1, WordTaken
  <2>3. m_aw["REGF0"] = Held(wr, "REGF0")
    BY <2>1 DEF Writing
  <2>4. Some(wr, "REGF0") => Head(m_aw["REGF0"]) = Held(wr, "REGF0")[1]
    <3>1. Short(Held(wr, "REGF0")) /\ (Held(wr, "REGF0") # << >> <=> Some(wr, "REGF0"))
      BY <1>1, <2>1, HeldType
    <3>2. PICK x : x = Held(wr, "REGF0")[1]
      OBVIOUS
    <3>3. Some(wr, "REGF0") => Held(wr, "REGF0") = << x >>
      BY <3>1, <3>2 DEF Short
    <3> QED
      BY <2>3, <3>2, <3>3, SmallQueues
  <2>5. reg_q' = IF RegWrite
                 THEN [reg_q EXCEPT ![Head(m_aw["REGF0"])] = w_data(Head(m_w["REGF0"]))]
                 ELSE reg_q
    BY DEF Clk, RegsStep
  <2> QED
    BY <2>2, <2>4, <2>5
<1> QED
  BY <1>2, <1>3

LEMMA StoredStep ==
    ASSUME Own, Deep, NEW wr, NEW rs, Writing(wr, rs), WriteOrder(wr), CpuWrites(wr, rs), Clk,
           NEW st, st = NowStored(wr)
    PROVE  Stored(st)'
<1> SUFFICES ASSUME NEW s \in Memories, Some(st, s)
             PROVE  w_buf'[s][1] \in Belonging(Held(st, s)[1])
  BY DEF Stored
<1>1. s \in Ports /\ wr \in Slots /\ OneEach(wr)
  BY DEF Ports, Writing
<1>2. Some(wr, s) /\ Held(st, s) = Held(wr, s)
  BY <1>1, Storing
<1>3. w_buf'[s] = << w_data(Who(wr, s)) >>
  BY <1>2, WordStored
<1>4. /\ Who(wr, s) \in Masters /\ wr[Who(wr, s)] # << >>
      /\ Held(wr, s) = wr[Who(wr, s)]
  BY <1>1, <1>2, HeldType
<1>5. w_data(Who(wr, s)) \in Belonging(wr[Who(wr, s)][1])
  BY <1>4, WordBelongs
<1>6. PICK w : w = w_data(Who(wr, s))
  OBVIOUS
<1> QED
  BY <1>2, <1>3, <1>4, <1>5, <1>6

LEMMA CellsStep ==
    ASSUME CellsTyped, Clk
    PROVE  CellsTyped'
<1>1. DOMAIN ram' = DOMAIN ram
  BY DEF Clk, MemoryStep
<1>2. DOMAIN reg_q' = DOMAIN reg_q
  BY DEF Clk, RegsStep
<1> QED
  BY <1>1, <1>2 DEF CellsTyped

LEMMA CellPlace ==
    ASSUME CellsTyped, NEW a \in DOMAIN ram
    PROVE  Dest[a] \in Memories
<1>1. a \in Addrs /\ Dest[a] # "err" /\ Dest[a] # "REGF0"
  BY DEF CellsTyped, Cells
<1> QED
  BY <1>1, AddrsAssumption DEF Ports

LEMMA PlacedStep ==
    ASSUME Own, Deep, NEW wr, NEW rs, Writing(wr, rs), WriteOrder(wr), CpuWrites(wr, rs), Clk,
           Stored(rs), CellsTyped, WordsInPlace
    PROVE  WordsInPlace'
<1>1. \A a : Belonging(a)' = Belonging(a)
  BY DEF Belonging
<1>2. ASSUME NEW a \in DOMAIN ram'
      PROVE  ram'[a] \in Belonging(a)
  <2>1. /\ a \in DOMAIN ram
        /\ ram'[a] = IF Take(Dest[a]) /\ aw_buf[Dest[a]][1] = a THEN w_buf[Dest[a]][1] ELSE ram[a]
    BY DEF Clk, MemoryStep
  <2>2. Dest[a] \in Memories
    BY <2>1, CellPlace
  <2>3. CASE Take(Dest[a]) /\ aw_buf[Dest[a]][1] = a
    <3>1. Some(rs, Dest[a]) /\ Held(rs, Dest[a])[1] = a
      BY <2>2, <2>3, WordStored
    <3>2. w_buf[Dest[a]][1] \in Belonging(a)
      BY <2>2, <3>1 DEF Stored
    <3> QED
      BY <2>1, <2>3, <3>2
  <2>4. CASE ~(Take(Dest[a]) /\ aw_buf[Dest[a]][1] = a)
    BY <2>1, <2>4 DEF WordsInPlace
  <2> QED
    BY <2>3, <2>4
<1>3. ASSUME NEW a \in DOMAIN reg_q'
      PROVE  reg_q'[a] \in Belonging(a)
  <2>1. CASE Some(wr, "REGF0")
    <3> DEFINE h == Held(wr, "REGF0")[1]
               w == w_data(Who(wr, "REGF0"))
    <3>1. wr \in Slots /\ OneEach(wr) /\ "REGF0" \in Ports
      BY DEF Writing, Ports
    <3>2. w \in Belonging(h)
      BY <2>1, <3>1, HeldType, WordBelongs
    <3>3. reg_q' = [reg_q EXCEPT ![h] = w]
      BY <2>1, WordStored
    <3> HIDE DEF h, w
    <3> QED
      BY <3>2, <3>3 DEF WordsInPlace
  <2>2. CASE ~Some(wr, "REGF0")
    <3>1. reg_q' = reg_q
      BY <2>2, WordStored
    <3> QED
      BY <3>1 DEF WordsInPlace
  <2> QED
    BY <2>1, <2>2
<1> QED
  BY <1>1, <1>2, <1>3 DEF WordsInPlace

WriteInv ==
    /\ Own /\ CellsTyped /\ WordsInPlace
    /\ \E wr, rs \in Slots : /\ Writing(wr, rs) /\ WriteOrder(wr) /\ CpuWrites(wr, rs)
                             /\ Stored(rs)

LEMMA InitWritten ==
    ASSUME Init
    PROVE  /\ CellsTyped /\ WordsInPlace
           /\ WriteOrder(NoOne) /\ CpuWrites(NoOne, NoOne) /\ Stored(NoOne)
<1>1. CellsTyped /\ WordsInPlace
  BY DEF Init, CellsTyped, WordsInPlace, Belonging
<1>2. NoOne[IMP] = << >> /\ NoOne[CPU] = << >> /\ d_aw[IMP] = << >> /\ d_aw[CPU] = << >>
  BY NoOneAsks DEF Masters, Init, Idle
<1>3. 1 \in Pixels /\ 0 \in 0 .. Len(Job) /\ << >> \in Seq(Addrs) /\ Len(<< >>) = 0
  BY JobAddress, EmptySeq DEF Pixels
<1>4. PixelAt(1, 0) = 1
  BY <1>3, PixelNext
<1>5. Chain(1, 0, << >>, 0)
  BY <1>3, <1>4 DEF Chain
<1>6. WriteOrder(NoOne)
  BY <1>2, <1>5 DEF WriteOrder, Bit, Init
<1>7. CpuWrites(NoOne, NoOne)
  BY <1>2, <1>3 DEF CpuWrites
<1>8. Stored(NoOne)
  BY NoOneAsks DEF Stored
<1> QED
  BY <1>1, <1>6, <1>7, <1>8

LEMMA WriteInductive == Deep => (Spec => []WriteInv)
<1> SUFFICES ASSUME Deep PROVE Spec => []WriteInv
  OBVIOUS
<1>1. Init => WriteInv
  BY InitOwn, InitWriting, InitWritten, NoOneAsks DEF WriteInv
<1>2. WriteInv /\ [Next]_vars => WriteInv'
  <2> SUFFICES ASSUME WriteInv, [Next]_vars PROVE WriteInv'
    OBVIOUS
  <2>1. Own /\ Own' /\ CellsTyped /\ WordsInPlace
    BY NextOwn DEF WriteInv
  <2>2. PICK wr \in Slots, rs \in Slots :
            Writing(wr, rs) /\ WriteOrder(wr) /\ CpuWrites(wr, rs) /\ Stored(rs)
    BY DEF WriteInv
  <2>3. CASE Clk
    <3>1. PICK new : new = NowTaken
      OBVIOUS
    <3>2. PICK st : st = NowStored(wr)
      OBVIOUS
    <3>3. Writing(new, st)' /\ new \in Slots /\ st \in Slots
      BY <2>1, <2>2, <2>3, <3>1, <3>2, WritingStep, Granted, Storing
    <3>4. WriteOrder(new)'
      BY <2>1, <2>2, <2>3, <3>1, WriteOrderStep
    <3>5. CpuWrites(new, st)'
      BY <2>1, <2>2, <2>3, <3>1, <3>2, <3>3, CpuWritesStep
    <3>6. Stored(st)'
      BY <2>1, <2>2, <2>3, <3>2, StoredStep
    <3>7. CellsTyped' /\ WordsInPlace'
      BY <2>1, <2>2, <2>3, CellsStep, PlacedStep
    <3> QED
      BY <2>1, <3>3, <3>4, <3>5, <3>6, <3>7 DEF WriteInv
  <2>4. CASE UNCHANGED vars
    <3>1. Writing(wr, rs)'
      BY <2>2, <2>4, WritingStays
    <3>2. WriteOrder(wr)' /\ CpuWrites(wr, rs)' /\ Stored(rs)'
      BY <2>2, <2>4 DEF vars, WriteOrder, Chain, CpuWrites, Stored
    <3>3. CellsTyped' /\ WordsInPlace'
      BY <2>1, <2>4 DEF vars, CellsTyped, WordsInPlace
    <3> QED
      BY <2>1, <2>2, <3>1, <3>2, <3>3 DEF WriteInv
  <2> QED
    BY <2>3, <2>4 DEF Next
<1> QED
  BY <1>1, <1>2, PTL DEF Spec

\* No cell of a memory or of the register file ever holds the data of a
\* write to another address: the order in which the crossbar switches words
\* (w_fifo of axi_lite_demux.sv and axi_lite_mux.sv) is the one in which it
\* passed on their addresses, for every depth from two on.
THEOREM WordsStayInPlace == Deep => (Spec => []WordsInPlace)
<1>1. WriteInv => WordsInPlace
  BY DEF WriteInv
<1> QED
  BY <1>1, WriteInductive, PTL

(***************************************************************************)
(* What is read                                                            *)
(***************************************************************************)
\* Answers come in the order of the image master's addresses.
ReadOrder(one, two) ==
    /\ two[IMP] # << >> => two[IMP][1] = Job[i_rcnt]
    /\ one[IMP] # << >> => one[IMP][1] = Job[PixelAt(i_rcnt, Bit(two[IMP] # << >>))]
    /\ Chain(i_rcnt, Bit(two[IMP] # << >>) + Bit(one[IMP] # << >>), d_ar[IMP], i_ar)

\* What is shown belongs to the address that was asked.
Shown(two) ==
    \A m \in Masters : two[m] # << >> /\ Dest[two[m][1]] # "err"
        => SlaveRData(Dest[two[m][1]]) \in Belonging(two[m][1])

LEMMA ReadOrderStep ==
    ASSUME Own, NEW one, NEW two, Reading(one, two), ReadOrder(one, two), Clk,
           NEW new, new = NowAsked
    PROVE  ReadOrder(new, one)'
<1> DEFINE b2 == Bit(two[IMP] # << >>)
           b1 == Bit(one[IMP] # << >>)
           off == b2 + b1
           d == RTaken(IMP)
           pop == ArTaken(IMP)
           push == ar_in(IMP)
<1>1. IMP \in Masters /\ Typed
  BY DEF Masters, Own
<1>2. d <=> two[IMP] # << >>
  BY <1>1, Answered
<1>3. /\ new[IMP] = IF pop THEN << Head(d_ar[IMP]) >> ELSE << >>
      /\ new[IMP] # << >> <=> pop
  BY <1>1, Asking DEF NowAsked
<1>4. /\ d \in BOOLEAN /\ pop \in BOOLEAN /\ push \in BOOLEAN
      /\ pop => d_ar[IMP] # << >>
  BY <1>1, TakenShown, OffersType DEF ArShown
<1>5. Shifted(Addrs, d_ar[IMP], pop, push, ar_addr(IMP), d_ar'[IMP])
  BY <1>1, DemuxMoves DEF Clk, Demux
<1>6. push => i_ar # 0 /\ ar_addr(IMP) = Job[i_ar]
  BY DEF ar_in, ar_valid, ar_addr, CPU, IMP
<1>7. /\ i_rcnt' = IF d THEN NextPixel(i_rcnt) ELSE i_rcnt
      /\ IF i_ar = 0 THEN i_ar' \in {0, 1} ELSE i_ar' = Scanned(i_ar, push)
  BY DEF Clk, ImpStep
<1>8. /\ Chain(i_rcnt, off, d_ar[IMP], i_ar)
      /\ one[IMP] # << >> => one[IMP][1] = Job[PixelAt(i_rcnt, b2)]
  BY DEF ReadOrder
<1>9. /\ b2 \in {0, 1} /\ b1 \in {0, 1} /\ (b2 = 1 <=> d)
      /\ Bit(new[IMP] # << >>) = Bit(pop) /\ Bit(d) = b2
      /\ b1 = Bit(one[IMP] # << >>)
  BY <1>2, <1>3, <1>4 DEF Bit
<1> HIDE DEF b2, b1, d, pop, push
<1>10. d => off # 0
  BY <1>9
<1>11. Extended(i_rcnt, off, d_ar[IMP], i_ar, d, pop, push, ar_addr(IMP),
                d_ar'[IMP], i_rcnt', i_ar')
  BY <1>4, <1>5, <1>6, <1>7, <1>10 DEF Extended
<1>12. Chain(i_rcnt', b1 + Bit(pop), d_ar'[IMP], i_ar')
  <2>1. Chain(i_rcnt', (off - Bit(d)) + Bit(pop), d_ar'[IMP], i_ar')
    BY <1>8, <1>11, ChainMoves
  <2>2. (off - Bit(d)) + Bit(pop) = b1 + Bit(pop)
    BY <1>9 DEF Bit
  <2> QED
    BY <2>1, <2>2
<1>13. i_rcnt \in Pixels
  BY <1>8 DEF Chain
<1>14. PixelAt(i_rcnt, b2) = i_rcnt' /\ PixelAt(i_rcnt, b2 + b1) = PixelAt(i_rcnt', b1)
  <2>1. CASE d
    <3>1. b2 = 1 /\ b1 \in Nat /\ b1 + 1 = b2 + b1 /\ i_rcnt' = NextPixel(i_rcnt)
      BY <1>7, <1>9, <2>1
    <3> QED
      BY <1>13, <3>1, PixelNext
  <2>2. CASE ~d
    <3>1. b2 = 0 /\ b2 + b1 = b1 /\ i_rcnt' = i_rcnt
      BY <1>7, <1>9, <2>2
    <3> QED
      BY <1>13, <3>1, PixelNext
  <2> QED
    BY <2>1, <2>2
<1>15. one[IMP] # << >> => one[IMP][1] = Job[i_rcnt']
  BY <1>8, <1>14
<1>16. new[IMP] # << >> => new[IMP][1] = Job[PixelAt(i_rcnt', b1)]
  <2> SUFFICES ASSUME new[IMP] # << >> PROVE new[IMP][1] = Job[PixelAt(i_rcnt', b1)]
    OBVIOUS
  <2>1. PICK h : h = Head(d_ar[IMP])
    OBVIOUS
  <2>2. new[IMP] = << h >> /\ d_ar[IMP] # << >>
    BY <1>3, <1>4, <2>1
  <2>3. h = Job[PixelAt(i_rcnt, off)]
    BY <1>8, <2>1, <2>2, ChainHead
  <2> QED
    BY <1>14, <2>2, <2>3
<1> QED
  BY <1>9, <1>12, <1>15, <1>16 DEF ReadOrder, Chain, Bit

\* The word that is shown after this edge was in the cell before the edge or
\* is there after it.
LEMMA WordShown ==
    ASSUME Own, NEW one, NEW two, Reading(one, two), Clk,
           NEW m \in Masters, NEW s \in Ports, Asks(one, s, m)
    PROVE  IF s = "REGF0" THEN SlaveRData(s)' = reg_q[one[m][1]]
           ELSE SlaveRData(s)' \in {ram[one[m][1]], ram'[one[m][1]]}
<1>1. /\ one \in Slots /\ OneEach(one)
      /\ Some(one, s) /\ Who(one, s) = m
  BY WhoAsks DEF Reading
<1>2. m_ar[s] # << >> /\ Head(m_ar[s]) = one[m][1]
  BY <1>1, Asked
<1>3. CASE s = "REGF0"
  <2>1. PICK x : x = reg_q[one[m][1]]
    OBVIOUS
  <2>2. r_spill' = << x >>
    BY <1>1, <1>2, <1>3, <2>1, RegAnswer
  <2> QED
    BY <1>3, <2>1, <2>2, SmallQueues DEF SlaveRData
<1>4. CASE s # "REGF0"
  <2>1. s \in Memories
    BY <1>4 DEF Ports
  <2>2. PICK seen \in {ram, ram'} :
            doutb' = [t \in Memories |-> IF m_ar[t] = << >> THEN doutb[t] ELSE seen[Head(m_ar[t])]]
    BY DEF Clk, MemoryStep
  <2>3. doutb'[s] = seen[one[m][1]]
    BY <1>2, <2>1, <2>2
  <2> QED
    BY <1>4, <2>2, <2>3 DEF SlaveRData
<1> QED
  BY <1>3, <1>4

LEMMA CellOf ==
    ASSUME CellsTyped, NEW a \in Addrs, NEW s \in Ports, Dest[a] = s
    PROVE  IF s = "REGF0" THEN a \in DOMAIN reg_q ELSE a \in DOMAIN ram
BY ErrNotPort DEF CellsTyped, Cells

LEMMA ShownStep ==
    ASSUME Own, NEW one, NEW two, Reading(one, two), Clk,
           CellsTyped, CellsTyped', WordsInPlace, WordsInPlace'
    PROVE  Shown(one)'
<1> SUFFICES ASSUME NEW m \in Masters, one[m] # << >>, Dest[one[m][1]] # "err"
             PROVE  SlaveRData(Dest[one[m][1]])' \in Belonging(one[m][1])
  BY DEF Shown, Belonging
<1> DEFINE a == one[m][1]
           s == Dest[a]
<1>1. a \in Addrs /\ s \in Ports /\ Asks(one, s, m)
  BY SlotType, AddrsAssumption DEF Reading, Asks
<1>2. IF s = "REGF0" THEN SlaveRData(s)' = reg_q[a] ELSE SlaveRData(s)' \in {ram[a], ram'[a]}
  BY <1>1, WordShown
<1>3. IF s = "REGF0" THEN a \in DOMAIN reg_q ELSE a \in DOMAIN ram /\ a \in DOMAIN ram'
  BY <1>1, CellOf DEF CellsTyped
<1>4. /\ \A c \in DOMAIN reg_q : reg_q[c] \in Belonging(c)
      /\ \A c \in DOMAIN ram : ram[c] \in Belonging(c)
      /\ \A c \in DOMAIN ram' : ram'[c] \in Belonging(c)
  BY DEF WordsInPlace, Belonging
<1> HIDE DEF a, s
<1>5. SlaveRData(s)' \in Belonging(a)
  BY <1>2, <1>3, <1>4
<1> QED
  BY <1>5 DEF a, s

OrderInv == Own /\ \E one, two \in Slots : Reading(one, two) /\ ReadOrder(one, two) /\ Shown(two)

LEMMA OrderInductive == Deep => (Spec => []OrderInv)
<1> SUFFICES ASSUME Deep PROVE Spec => []OrderInv
  OBVIOUS
<1>1. Init => OrderInv
  <2> SUFFICES ASSUME Init PROVE OrderInv
    OBVIOUS
  <2>1. IMP \in Masters /\ NoOne[IMP] = << >> /\ d_ar[IMP] = << >>
    BY NoOneAsks DEF Masters, Init, Idle
  <2>2. 1 \in Pixels /\ 0 \in 0 .. Len(Job) /\ << >> \in Seq(Addrs) /\ Len(<< >>) = 0
    BY JobAddress, EmptySeq DEF Pixels
  <2>3. Chain(1, 0, << >>, 0)
    BY <2>2, PixelNext DEF Chain
  <2>4. ReadOrder(NoOne, NoOne)
    BY <2>1, <2>3 DEF ReadOrder, Bit, Init
  <2>5. Shown(NoOne)
    BY NoOneAsks DEF Shown
  <2> QED
    BY <2>4, <2>5, InitOwn, InitReading, NoOneAsks DEF OrderInv
<1>2. OrderInv /\ WriteInv /\ WriteInv' /\ [Next]_vars => OrderInv'
  <2> SUFFICES ASSUME OrderInv, WriteInv, WriteInv', [Next]_vars PROVE OrderInv'
    OBVIOUS
  <2>1. Own /\ Own' /\ CellsTyped /\ CellsTyped' /\ WordsInPlace /\ WordsInPlace'
    BY DEF WriteInv
  <2>2. PICK one \in Slots, two \in Slots :
            Reading(one, two) /\ ReadOrder(one, two) /\ Shown(two)
    BY DEF OrderInv
  <2>3. CASE Clk
    <3>1. PICK new : new = NowAsked
      OBVIOUS
    <3>2. Reading(new, one)' /\ new \in Slots
      BY <2>1, <2>2, <2>3, <3>1, ReadingStep, Asking DEF Own
    <3>3. ReadOrder(new, one)'
      BY <2>1, <2>2, <2>3, <3>1, ReadOrderStep
    <3>4. Shown(one)'
      BY <2>1, <2>2, <2>3, ShownStep
    <3> QED
      BY <2>1, <3>2, <3>3, <3>4 DEF OrderInv
  <2>4. CASE UNCHANGED vars
    <3>1. Reading(one, two)'
      BY <2>2, <2>4, ReadingStays
    <3>2. ReadOrder(one, two)' /\ Shown(two)'
      BY <2>2, <2>4 DEF vars, ReadOrder, Chain, Shown, SlaveRData, Belonging
    <3> QED
      BY <2>1, <2>2, <3>1, <3>2 DEF OrderInv
  <2> QED
    BY <2>3, <2>4 DEF Next
<1>3. Spec => []WriteInv
  BY WriteInductive
<1> QED
  BY <1>1, <1>2, <1>3, PTL DEF Spec

\* The answers to the image master, which counts them (mst_imp_r_ch.sv) and
\* looks at nothing else, come in the order of its addresses, from whatever
\* slaves they come.
THEOREM AnswersComeInOrder == Deep /\ Apart /\ NoneTwice => (Spec => []AnswersInOrder)
<1> SUFFICES ASSUME Deep, Apart, NoneTwice PROVE Spec => []AnswersInOrder
  OBVIOUS
<1>1. OrderInv => AnswersInOrder
  <2> SUFFICES ASSUME OrderInv, RShown(IMP) PROVE RData(IMP) \in {Blank, i_rcnt}
    BY DEF AnswersInOrder
  <2>1. PICK one \in Slots, two \in Slots :
            Reading(one, two) /\ ReadOrder(one, two) /\ Shown(two)
    BY DEF OrderInv
  <2>2. IMP \in Masters /\ two[IMP] # << >>
    BY <2>1, Answered DEF OrderInv, Masters
  <2> DEFINE a == two[IMP][1]
  <2>3. a \in Addrs /\ Asks(two, Dest[a], IMP)
    BY <2>2, SlotType DEF Asks
  <2>4. Head(d_r[IMP]) = Dest[a]
    BY <2>1, <2>2, <2>3, Answered DEF OrderInv, RFrom
  <2>5. a = Job[i_rcnt] /\ i_rcnt \in Pixels
    BY <2>1, <2>2 DEF ReadOrder, Chain
  <2>6. a \notin CpuAddrs
    BY <2>5 DEF Apart, JobAddrs, Pixels
  <2>7. \A p \in Pixels : Job[p] = a => p = i_rcnt
    BY <2>5 DEF NoneTwice
  <2>8. Belonging(a) \subseteq {Blank, i_rcnt}
    BY <2>6, <2>7 DEF Belonging
  <2>9. Dest[a] # "err" => SlaveRData(Dest[a]) \in Belonging(a)
    BY <2>1, <2>2 DEF Shown
  <2> HIDE DEF a
  <2> QED
    BY <2>4, <2>8, <2>9 DEF RData
<1>2. Spec => []OrderInv
  BY OrderInductive
<1> QED
  BY <1>1, <1>2, PTL

(***************************************************************************)
(* What the processor reads                                                *)
(***************************************************************************)
\* Whatever the processor reads comes from the address of its request.
CpuReads(one, two) ==
    /\ one[CPU] # << >> => one[CPU][1] = req[1].addr
    /\ two[CPU] # << >> => two[CPU][1] = req[1].addr
    /\ \A k \in 1 .. Len(d_ar[CPU]) : d_ar[CPU][k] = req[1].addr

LEMMA NothingRead ==
    \A one, two : Own /\ Reading(one, two) /\ ~(Doing("read") /\ "ar" \in ack)
                     => d_ar[CPU] = << >> /\ one[CPU] = << >> /\ two[CPU] = << >>
<1> SUFFICES ASSUME NEW one, NEW two, Own, Reading(one, two), ~(Doing("read") /\ "ar" \in ack)
             PROVE  d_ar[CPU] = << >> /\ one[CPU] = << >> /\ two[CPU] = << >>
  OBVIOUS
<1>1. CPU \in Masters
  BY DEF Masters
<1>2. d_ar[CPU] = << >> /\ d_r[CPU] = << >>
  BY Books
<1>3. one \in Slots /\ two \in Slots /\ d_r[CPU] = Line(End(two[CPU]), End(one[CPU]))
  BY <1>1 DEF Reading
<1>4. Short(End(one[CPU])) /\ Short(End(two[CPU]))
  BY <1>1, <1>3, SlotType
<1>5. End(one[CPU]) = << >> /\ End(two[CPU]) = << >>
  BY <1>2, <1>3, <1>4, LineHead
<1> QED
  BY <1>1, <1>2, <1>3, <1>5, SlotType

LEMMA NothingReadNext ==
    (\A one, two : Own /\ Reading(one, two) /\ ~(Doing("read") /\ "ar" \in ack)
                      => d_ar[CPU] = << >> /\ one[CPU] = << >> /\ two[CPU] = << >>)'
BY NothingRead, PTL

LEMMA CpuReadsStep ==
    ASSUME Own, Own', NEW one, NEW two, Reading(one, two), CpuReads(one, two), Clk,
           NEW new, new = NowAsked, Reading(new, one)'
    PROVE  CpuReads(new, one)'
<1>1. CPU \in Masters /\ Typed
  BY DEF Masters, Own
<1>2. CASE mem_valid /\ ~mem_ready /\ req' = req
  <2> DEFINE a == req[1].addr
  <2>1. d_ar[CPU] \in Seq(Addrs) /\ \A k \in 1 .. Len(d_ar[CPU]) : d_ar[CPU][k] = a
    BY <1>1 DEF CpuReads, Typed
  <2>2. d_ar[CPU] # << >> => Head(d_ar[CPU]) = a
    <3>1. d_ar[CPU] # << >> => 1 \in 1 .. Len(d_ar[CPU]) /\ Head(d_ar[CPU]) = d_ar[CPU][1]
      BY <2>1, QueueHead
    <3> QED
      BY <2>1, <3>1
  <2>3. new[CPU] # << >> => new[CPU] = << Head(d_ar[CPU]) >> /\ d_ar[CPU] # << >>
    BY <1>1, TakenShown DEF NowAsked, ArShown
  <2>4. \A k \in 1 .. Len(d_ar'[CPU]) : d_ar'[CPU][k] = a
    <3>1. /\ Shifted(Addrs, d_ar[CPU], ArTaken(CPU), ar_in(CPU), ar_addr(CPU), d_ar'[CPU])
          /\ ArTaken(CPU) \in BOOLEAN /\ (ArTaken(CPU) => d_ar[CPU] # << >>)
          /\ ar_in(CPU) \in BOOLEAN
      BY <1>1, DemuxMoves, TakenShown, OffersType DEF Clk, Demux, ArShown
    <3>2. ar_in(CPU) => ar_addr(CPU) = a
      BY DEF ar_addr
    <3> HIDE DEF a
    <3>3. Same(d_ar[CPU], ArTaken(CPU), ar_in(CPU), ar_addr(CPU), d_ar'[CPU], a)
      BY <2>1, <3>1, <3>2 DEF Same
    <3> QED
      BY <3>3, SameMoves
  <2>5. (req[1].addr)' = a
    BY <1>2
  <2>6. one[CPU] # << >> => one[CPU][1] = a
    BY DEF CpuReads
  <2> HIDE DEF a
  <2>7. new[CPU] # << >> => new[CPU][1] = a
    BY <2>2, <2>3
  <2> QED
    BY <2>4, <2>5, <2>6, <2>7 DEF CpuReads
<1>3. CASE ~(Doing("read") /\ "ar" \in ack)'
  <2>1. d_ar'[CPU] = << >> /\ new[CPU] = << >> /\ one[CPU] = << >>
    BY <1>3, NothingReadNext
  <2> QED
    BY <2>1, SmallQueues DEF CpuReads
<1> QED
  BY <1>2, <1>3, RequestStays

\* The word in a cell.
Content(a) == IF Dest[a] = "REGF0" THEN reg_q[a] ELSE ram[a]

\* What is stored for the image master goes where it scans.
ImpWrites(rs) == rs[IMP] # << >> => rs[IMP][1] \in JobAddrs

\* Each cell of the processor, and each answer to it, holds what a read may
\* return; its word that is about to be stored is that of its request.
Fresh(two, rs) ==
    /\ DOMAIN may = CpuAddrs
    /\ \A a \in CpuAddrs \cap Cells : Content(a) \in may[a]
    /\ Doing("write") => req[1].data \in may[req[1].addr]
    /\ two[CPU] # << >> /\ Dest[two[CPU][1]] # "err"
          => SlaveRData(Dest[two[CPU][1]]) \in may[two[CPU][1]]
    /\ rs[CPU] # << >> /\ Dest[rs[CPU][1]] \in Memories
          => w_buf[Dest[rs[CPU][1]]][1] = req[1].data
    /\ rs[CPU] # << >> /\ Dest[rs[CPU][1]] = "REGF0"
          => reg_q[rs[CPU][1]] = req[1].data

LEMMA ImpWritesStep ==
    ASSUME Own, Deep, NEW wr, NEW rs, Writing(wr, rs), WriteOrder(wr), Clk,
           NEW st, st = NowStored(wr)
    PROVE  ImpWrites(st)
<1> SUFFICES ASSUME st[IMP] # << >> PROVE st[IMP][1] \in JobAddrs
  BY DEF ImpWrites
<1>1. IMP \in Masters /\ Typed
  BY DEF Masters, Own
<1>2. st[IMP] = IF Late(IMP) THEN << Head(d_aw[IMP]) >> ELSE wr[IMP]
  BY <1>1 DEF NowStored
<1>3. Chain(i_wdata, Bit(wr[IMP] # << >>), d_aw[IMP], i_aw)
  BY DEF WriteOrder
<1>4. \A p \in Pixels : Job[p] \in JobAddrs
  <2>1. DOMAIN Job = Pixels
    BY JobAssumption DEF Pixels
  <2> QED
    BY <2>1 DEF JobAddrs
<1>5. CASE Late(IMP)
  <2>1. PICK h : h = Head(d_aw[IMP])
    OBVIOUS
  <2>2. d_aw[IMP] # << >> /\ st[IMP] = << h >>
    BY <1>1, <1>2, <1>5, <2>1, AwHead DEF Late
  <2>3. h = Job[PixelAt(i_wdata, Bit(wr[IMP] # << >>))]
    BY <1>3, <2>1, <2>2, ChainHead
  <2>4. i_wdata \in Pixels /\ Bit(wr[IMP] # << >>) \in Nat
    BY <1>3 DEF Chain
  <2>5. PixelAt(i_wdata, Bit(wr[IMP] # << >>)) \in Pixels
    BY <2>4, PixelNext
  <2> QED
    BY <1>4, <2>2, <2>3, <2>5
<1>6. CASE ~Late(IMP)
  <2>1. st[IMP][1] = Job[i_wdata] /\ i_wdata \in Pixels
    BY <1>2, <1>3, <1>6 DEF WriteOrder, Chain
  <2> QED
    BY <1>4, <2>1
<1> QED
  BY <1>5, <1>6

\* What is where in the pipelines, for the lemmas that follow.
Placed(one, two, wr, rs) ==
    /\ Own /\ Deep /\ Apart /\ CellsTyped
    /\ Reading(one, two) /\ CpuReads(one, two)
    /\ Writing(wr, rs) /\ WriteOrder(wr) /\ CpuWrites(wr, rs) /\ ImpWrites(rs)
    /\ Fresh(two, rs)

\* A word of the processor that is on its way is that of its request.
LEMMA CpuWord ==
    ASSUME NEW one, NEW two, NEW wr, NEW rs, Placed(one, two, wr, rs)
    PROVE  /\ wr[CPU] # << >> \/ rs[CPU] # << >> =>
                 /\ Doing("write") /\ req[1].addr \in CpuAddrs
                 /\ req[1].addr \in Addrs /\ w_data(CPU) = req[1].data
           /\ wr[CPU] # << >> => wr[CPU][1] = req[1].addr
           /\ rs[CPU] # << >> => rs[CPU][1] = req[1].addr /\ wr[CPU] = << >>
           /\ Doing("write") => req[1].data \in may[req[1].addr]
<1>1. Own /\ Typed /\ Writing(wr, rs) /\ CpuWrites(wr, rs)
  BY DEF Placed, Own
<1>2. wr[CPU] # << >> \/ rs[CPU] # << >> => Doing("write")
  BY <1>1, NothingWritten
<1>3. Doing("write") => req[1].addr \in CpuAddrs
  BY <1>1, RequestType DEF Doing
<1>4. rs[CPU] # << >> => wr[CPU] = << >>
  <2>1. CPU \in Masters /\ wr \in Slots /\ rs \in Slots
    BY <1>1 DEF Masters, Writing
  <2>2. /\ d_b[CPU] = End(rs[CPU])
        /\ d_w[CPU] = IF d_lock[CPU] THEN << AwTo(CPU) >> ELSE End(wr[CPU])
        /\ d_lock[CPU] => wr[CPU] = << >>
    BY <1>1, <2>1 DEF Writing
  <2>3. rs[CPU] # << >> => d_w[CPU] = << >>
    BY <1>1, <2>1, <2>2, SlotType, Books
  <2> QED
    BY <2>1, <2>2, <2>3, SlotType, SmallQueues
<1> QED
  BY <1>1, <1>2, <1>3, <1>4 DEF w_data, CpuWrites, Addrs, Placed, Fresh

\* Only the processor writes its cells, and only what it asks for.
LEMMA ContentMoves ==
    ASSUME NEW one, NEW two, NEW wr, NEW rs, Placed(one, two, wr, rs), Clk,
           NEW a \in CpuAddrs \cap Cells
    PROVE  \/ Content(a)' = Content(a)
           \/ Doing("write") /\ a = req[1].addr /\ Content(a)' = req[1].data
<1>1. /\ Own /\ Deep /\ Apart /\ CellsTyped /\ Writing(wr, rs) /\ WriteOrder(wr)
      /\ CpuWrites(wr, rs) /\ ImpWrites(rs) /\ Fresh(two, rs)
  BY DEF Placed
<1>2. /\ wr \in Slots /\ OneEach(wr) /\ rs \in Slots /\ OneEach(rs)
  BY <1>1 DEF Writing
<1>3. a \in Addrs /\ Dest[a] \in Ports /\ a \notin JobAddrs
  BY <1>1, AddrsAssumption DEF Cells, Addrs, Apart
<1>4. CASE Dest[a] # "REGF0"
  <2> DEFINE s == Dest[a]
  <2>1. s \in Memories /\ a \in DOMAIN ram
    BY <1>1, <1>3, <1>4, CellOf DEF Ports
  <2>2. ram'[a] = IF Take(s) /\ aw_buf[s][1] = a THEN w_buf[s][1] ELSE ram[a]
    BY <2>1 DEF Clk, MemoryStep
  <2>3. (Take(s) <=> Some(rs, s)) /\ aw_buf[s] = Held(rs, s)
    BY <1>1, <2>1, WordStored
  <2>4. Content(a)' = ram'[a] /\ Content(a) = ram[a]
    BY <1>4 DEF Content
  <2>5. CASE Take(s) /\ aw_buf[s][1] = a
    <3>1. /\ Who(rs, s) \in Masters /\ rs[Who(rs, s)] # << >> /\ rs[Who(rs, s)][1] = a
      BY <1>2, <1>3, <2>3, <2>5, HeldType
    <3>2. Who(rs, s) # IMP
      BY <1>1, <1>3, <3>1 DEF ImpWrites
    <3>3. rs[CPU] # << >> /\ rs[CPU][1] = a
      BY <3>1, <3>2 DEF Masters
    <3>4. w_buf[s][1] = req[1].data
      BY <1>1, <2>1, <3>3 DEF Fresh
    <3> QED
      BY <2>2, <2>4, <2>5, <3>3, <3>4, CpuWord
  <2>6. CASE ~(Take(s) /\ aw_buf[s][1] = a)
    BY <2>2, <2>4, <2>6
  <2> QED
    BY <2>5, <2>6
<1>5. CASE Dest[a] = "REGF0"
  <2>1. Content(a)' = reg_q'[a] /\ Content(a) = reg_q[a] /\ a \in DOMAIN reg_q
    BY <1>1, <1>3, <1>5, CellOf DEF Content
  <2>2. CASE Some(wr, "REGF0") /\ Held(wr, "REGF0")[1] = a
    <3>1. /\ Who(wr, "REGF0") \in Masters /\ wr[Who(wr, "REGF0")] # << >>
          /\ wr[Who(wr, "REGF0")][1] = a
      BY <1>2, <1>3, <1>5, <2>2, HeldType
    <3>2. Who(wr, "REGF0") # IMP
      <4>1. wr[IMP] # << >> => wr[IMP][1] = Job[i_wdata] /\ i_wdata \in Pixels
        BY <1>1 DEF WriteOrder, Chain
      <4>2. DOMAIN Job = Pixels
        BY JobAssumption DEF Pixels
      <4> QED
        BY <1>3, <3>1, <4>1, <4>2 DEF JobAddrs
    <3>3. Who(wr, "REGF0") = CPU /\ wr[CPU] # << >> /\ wr[CPU][1] = a
      BY <3>1, <3>2 DEF Masters
    <3>4. reg_q' = [reg_q EXCEPT ![a] = w_data(CPU)]
      BY <1>1, <2>2, <3>3, WordStored
    <3>5. reg_q'[a] = w_data(CPU)
      BY <2>1, <3>4
    <3> QED
      BY <2>1, <3>3, <3>5, CpuWord
  <2>3. CASE Some(wr, "REGF0") /\ Held(wr, "REGF0")[1] # a
    <3>1. reg_q' = [reg_q EXCEPT ![Held(wr, "REGF0")[1]] = w_data(Who(wr, "REGF0"))]
      BY <1>1, <2>3, WordStored
    <3> QED
      BY <2>1, <2>3, <3>1
  <2>4. CASE ~Some(wr, "REGF0")
    <3>1. reg_q' = reg_q
      BY <1>1, <2>4, WordStored
    <3> QED
      BY <2>1, <3>1
  <2> QED
    BY <2>2, <2>3, <2>4
<1> QED
  BY <1>4, <1>5

\* When its write is answered the processor's word is there to be read.
LEMMA WriteDone ==
    ASSUME NEW one, NEW two, NEW wr, NEW rs, Placed(one, two, wr, rs), Clk,
           rs[CPU] # << >>, NEW a \in CpuAddrs \cap Cells, a = req[1].addr
    PROVE  Content(a)' = req[1].data
<1>1. /\ Own /\ Deep /\ CellsTyped /\ Writing(wr, rs) /\ Fresh(two, rs)
      /\ rs \in Slots /\ OneEach(rs) /\ CPU \in Masters
  BY DEF Placed, Writing, Masters
<1>2. a \in Addrs /\ Dest[a] \in Ports /\ rs[CPU][1] = a
  BY AddrsAssumption, CpuWord DEF Cells, Addrs
<1>3. CASE Dest[a] # "REGF0"
  <2> DEFINE s == Dest[a]
  <2>1. s \in Memories /\ a \in DOMAIN ram
    BY <1>1, <1>2, <1>3, CellOf DEF Ports
  <2>2. ram'[a] = IF Take(s) /\ aw_buf[s][1] = a THEN w_buf[s][1] ELSE ram[a]
    BY <2>1 DEF Clk, MemoryStep
  <2>3. Asks(rs, s, CPU)
    BY <1>2 DEF Asks
  <2>4. Some(rs, s) /\ Who(rs, s) = CPU
    BY <1>1, <1>2, <2>3, WhoAsks
  <2>5. Take(s) /\ aw_buf[s][1] = a
    BY <1>1, <1>2, <2>1, <2>4, WordStored DEF Held
  <2>6. w_buf[s][1] = req[1].data
    BY <1>1, <1>2, <2>1 DEF Fresh
  <2> QED
    BY <1>3, <2>2, <2>5, <2>6 DEF Content
<1>4. CASE Dest[a] = "REGF0"
  <2>1. Content(a) = req[1].data
    BY <1>1, <1>2, <1>4 DEF Fresh, Content
  <2> QED
    BY <2>1, ContentMoves
<1> QED
  BY <1>3, <1>4

\* What an edge does to what a read may return: a write that is answered
\* leaves its word alone, one that starts adds it.
LEMMA MayMoves ==
    ASSUME Own, Clk, DOMAIN may = CpuAddrs
    PROVE  /\ DOMAIN may' = CpuAddrs
           /\ mem_ready /\ Doing("write")
                 => may' = [may EXCEPT ![req[1].addr] = {req[1].data}]
           /\ ~(mem_ready /\ Doing("write"))
                 => \A a \in CpuAddrs : may[a] \subseteq may'[a]
           /\ Doing("write")' => \/ req' = req /\ Doing("write")
                                 \/ req'[1].data \in may'[req'[1].addr]
<1>1. CASE mem_valid
  <2>1. /\ req' = IF mem_ready THEN << >> ELSE req
        /\ may' = IF mem_ready /\ Doing("write")
                  THEN [may EXCEPT ![req[1].addr] = {req[1].data}] ELSE may
    BY <1>1 DEF Clk, CpuStep
  <2>2. Doing("write")' => req' = req /\ Doing("write")
    BY <2>1 DEF Doing, mem_valid
  <2> QED
    BY <2>1, <2>2
<1>2. CASE ~mem_valid
  <2>1. ~Doing("write")
    BY <1>2 DEF Doing
  <2>2. CASE req' = << >> /\ UNCHANGED may
    BY <2>1, <2>2 DEF Doing, mem_valid
  <2>3. ASSUME NEW r \in Requests, req' = << r >>,
               may' = IF r.op = "write"
                      THEN [may EXCEPT ![r.addr] = @ \cup {r.data}] ELSE may
        PROVE  /\ DOMAIN may' = CpuAddrs
               /\ \A a \in CpuAddrs : may[a] \subseteq may'[a]
               /\ Doing("write")' => req'[1].data \in may'[req'[1].addr]
    <3>1. r.addr \in CpuAddrs
      BY DEF Requests, Reads, Writes
    <3>2. req'[1] = r
      BY <2>3
    <3>3. CASE r.op = "write"
      <4>1. may' = [may EXCEPT ![r.addr] = @ \cup {r.data}]
        BY <2>3, <3>3
      <4>2. r.data \in may'[r.addr] /\ \A a \in CpuAddrs : may[a] \subseteq may'[a]
        BY <3>1, <4>1
      <4> QED
        BY <3>2, <4>1, <4>2
    <3>4. CASE r.op # "write"
      <4>1. may' = may /\ ~Doing("write")'
        BY <2>3, <3>2, <3>4 DEF Doing
      <4> QED
        BY <4>1
    <3> QED
      BY <3>3, <3>4
  <2>4. \/ req' = << >> /\ UNCHANGED may
        \/ \E r \in Requests :
              /\ req' = << r >>
              /\ may' = IF r.op = "write"
                        THEN [may EXCEPT ![r.addr] = @ \cup {r.data}] ELSE may
    BY <1>2 DEF Clk, CpuStep
  <2> QED
    BY <2>1, <2>2, <2>3, <2>4
<1> QED
  BY <1>1, <1>2

LEMMA FreshStep ==
    ASSUME NEW one, NEW two, NEW wr, NEW rs, Placed(one, two, wr, rs), Clk, Own', CellsTyped',
           NEW new, new = NowAsked, Reading(new, one)',
           NEW nwr, NEW st, st = NowStored(wr), Writing(nwr, st)'
    PROVE  Fresh(one, st)'
<1>1. /\ Own /\ Deep /\ Apart /\ CellsTyped
      /\ Reading(one, two) /\ CpuReads(one, two)
      /\ Writing(wr, rs) /\ CpuWrites(wr, rs)
      /\ DOMAIN may = CpuAddrs
      /\ \A a \in CpuAddrs \cap Cells : Content(a) \in may[a]
      /\ CPU \in Masters
  BY DEF Placed, Fresh, Masters
<1>2. /\ DOMAIN may' = CpuAddrs
      /\ mem_ready /\ Doing("write")
            => may' = [may EXCEPT ![req[1].addr] = {req[1].data}]
      /\ ~(mem_ready /\ Doing("write"))
            => \A a \in CpuAddrs : may[a] \subseteq may'[a]
      /\ Doing("write")' => \/ req' = req /\ Doing("write")
                            \/ req'[1].data \in may'[req'[1].addr]
  BY <1>1, MayMoves
<1>3. /\ Doing("write") => req[1].data \in may[req[1].addr] /\ req[1].addr \in CpuAddrs
      /\ Doing("read") => req[1].addr \in CpuAddrs
  BY <1>1, CpuWord, RequestType DEF Own, Doing
<1>4. mem_ready /\ Doing("write") => rs[CPU] # << >>
  <2>1. mem_ready /\ Doing("write") => BTaken(CPU)
    BY <1>1, OwnAnswers DEF OwnResponse, Doing
  <2> QED
    BY <1>1, <2>1, Responded
<1>5. ASSUME NEW a \in CpuAddrs \cap Cells PROVE Content(a)' \in may'[a]
  <2>1. CASE mem_ready /\ Doing("write")
    <3>1. may' = [may EXCEPT ![req[1].addr] = {req[1].data}]
      BY <1>2, <2>1
    <3>2. CASE a = req[1].addr
      <4>1. Content(a)' = req[1].data
        BY <1>4, <2>1, <3>2, WriteDone
      <4> QED
        BY <1>1, <3>1, <3>2, <4>1
    <3>3. CASE a # req[1].addr
      <4>1. Content(a)' = Content(a)
        BY <3>3, ContentMoves
      <4> QED
        BY <1>1, <3>1, <3>3, <4>1
    <3> QED
      BY <3>2, <3>3
  <2>2. CASE ~(mem_ready /\ Doing("write"))
    <3>1. may[a] \subseteq may'[a]
      BY <1>2, <2>2
    <3>2. Content(a)' = Content(a) \/ (Doing("write") /\ a = req[1].addr /\ Content(a)' = req[1].data)
      BY ContentMoves
    <3> QED
      BY <1>1, <1>3, <3>1, <3>2
  <2> QED
    BY <2>1, <2>2
<1>6. Doing("write")' => req'[1].data \in may'[req'[1].addr]
  <2> SUFFICES ASSUME Doing("write")', req' = req, Doing("write")
               PROVE  req'[1].data \in may'[req'[1].addr]
    BY <1>2
  <2>1. req[1].data \in may[req[1].addr] /\ req[1].addr \in CpuAddrs
    BY <1>3
  <2> QED
    BY <1>1, <1>2, <2>1
<1>7. ASSUME one[CPU] # << >>, Dest[one[CPU][1]] # "err"
      PROVE  SlaveRData(Dest[one[CPU][1]])' \in may'[one[CPU][1]]
  <2> DEFINE a == one[CPU][1]
             s == Dest[a]
  <2>1. Doing("read") /\ a = req[1].addr /\ a \in CpuAddrs
    BY <1>1, <1>3, <1>7, NothingRead DEF CpuReads
  <2>2. a \in Addrs /\ s \in Ports /\ a \in Cells /\ Asks(one, s, CPU)
    BY <1>7, <2>1, AddrsAssumption DEF Addrs, Cells, Asks
  <2>3. ~Doing("write")
    BY <2>1 DEF Doing
  <2>4. may[a] \subseteq may'[a] /\ Content(a) \in may[a] /\ Content(a)' \in may'[a]
    BY <1>1, <1>2, <1>5, <2>1, <2>2, <2>3
  <2>5. IF s = "REGF0" THEN SlaveRData(s)' = reg_q[a] ELSE SlaveRData(s)' \in {ram[a], ram'[a]}
    BY <1>1, <2>2, WordShown
  <2>6. /\ Content(a) = IF s = "REGF0" THEN reg_q[a] ELSE ram[a]
        /\ Content(a)' = IF s = "REGF0" THEN reg_q'[a] ELSE ram'[a]
    BY DEF Content
  <2> HIDE DEF a, s
  <2>7. SlaveRData(s)' \in may'[a]
    BY <2>4, <2>5, <2>6
  <2> QED
    BY <2>7 DEF a, s
<1>8. ASSUME st[CPU] # << >>, Dest[st[CPU][1]] # "err"
      PROVE  /\ st[CPU] = wr[CPU] /\ Asks(wr, Dest[st[CPU][1]], CPU)
             /\ w_data(CPU) = req[1].data /\ req' = req
  <2>1. ~Late(CPU)
    <3>1. SUFFICES ASSUME Late(CPU) PROVE FALSE
      OBVIOUS
    <3>2. PICK h : h = Head(d_aw[CPU])
      OBVIOUS
    <3>3. st[CPU] = << h >> /\ Dest[h] = "err"
      BY <1>1, <3>1, <3>2 DEF NowStored, Late, AwTo
    <3> QED
      BY <1>8, <3>3
  <2>2. st[CPU] = wr[CPU]
    BY <1>1, <2>1 DEF NowStored
  <2>3. req' = req
    <3>1. (Doing("write") /\ "aw" \in ack)'
      BY <1>8, NothingWrittenNext
    <3> QED
      BY <1>1, <3>1, RequestStays
  <2> QED
    BY <1>8, <2>2, <2>3, CpuWord DEF Asks
<1>9. ASSUME st[CPU] # << >>, Dest[st[CPU][1]] \in Memories
      PROVE  w_buf'[Dest[st[CPU][1]]][1] = req'[1].data
  <2> DEFINE s == Dest[st[CPU][1]]
  <2>1. s \in Ports /\ s # "err" /\ OneEach(wr)
    BY <1>1, <1>9, ErrNotPort DEF Ports, Writing
  <2>2. Asks(wr, s, CPU) /\ w_data(CPU) = req[1].data /\ req' = req
    BY <1>8, <1>9, <2>1
  <2>3. Some(wr, s) /\ Who(wr, s) = CPU
    BY <1>1, <2>1, <2>2, WhoAsks
  <2>4. w_buf'[s] = << w_data(CPU) >>
    BY <1>1, <1>9, <2>3, WordStored
  <2> QED
    BY <2>2, <2>4
<1>10. ASSUME st[CPU] # << >>, Dest[st[CPU][1]] = "REGF0"
       PROVE  reg_q'[st[CPU][1]] = req'[1].data
  <2>1. "REGF0" \in Ports /\ OneEach(wr) /\ wr \in Slots
    BY <1>1 DEF Ports, Writing
  <2>2. /\ st[CPU] = wr[CPU] /\ Asks(wr, "REGF0", CPU)
        /\ w_data(CPU) = req[1].data /\ req' = req
    BY <1>8, <1>10
  <2>3. Some(wr, "REGF0") /\ Who(wr, "REGF0") = CPU
    BY <1>1, <2>1, <2>2, WhoAsks
  <2>4. reg_q' = [reg_q EXCEPT ![wr[CPU][1]] = w_data(CPU)]
    BY <1>1, <2>3, WordStored DEF Held
  <2>5. wr[CPU][1] \in DOMAIN reg_q
    <3>1. wr[CPU][1] \in Addrs
      BY <1>1, <1>10, <2>1, <2>2, SlotType
    <3> QED
      BY <1>1, <1>10, <2>1, <2>2, <3>1, CellOf
  <2> QED
    BY <2>2, <2>4, <2>5
<1> QED
  BY <1>2, <1>5, <1>6, <1>7, <1>9, <1>10 DEF Fresh

FreshInv ==
    \E one, two, wr, rs \in Slots :
        /\ Reading(one, two) /\ CpuReads(one, two)
        /\ Writing(wr, rs) /\ WriteOrder(wr) /\ CpuWrites(wr, rs) /\ ImpWrites(rs)
        /\ Fresh(two, rs)

LEMMA FreshInductive == Deep /\ Apart => (Spec => []FreshInv)
<1> SUFFICES ASSUME Deep, Apart PROVE Spec => []FreshInv
  OBVIOUS
<1>1. Init => FreshInv
  <2> SUFFICES ASSUME Init PROVE FreshInv
    OBVIOUS
  <2>1. CPU \in Masters /\ IMP \in Masters
    BY DEF Masters
  <2>2. NoOne[CPU] = << >> /\ NoOne[IMP] = << >> /\ d_ar[CPU] = << >> /\ NoOne \in Slots
    BY <2>1, NoOneAsks DEF Init, Idle
  <2>3. CpuReads(NoOne, NoOne) /\ ImpWrites(NoOne)
    BY <2>2, SmallQueues DEF CpuReads, ImpWrites
  <2>4. DOMAIN may = CpuAddrs /\ ~Doing("write")
    BY DEF Init, Doing, mem_valid
  <2>5. ASSUME NEW a \in CpuAddrs \cap Cells PROVE Content(a) \in may[a]
    BY DEF Init, Content
  <2>6. Fresh(NoOne, NoOne)
    BY <2>2, <2>4, <2>5 DEF Fresh
  <2> QED
    BY <2>2, <2>3, <2>6, InitReading, InitWriting, InitWritten DEF FreshInv
<1>2. FreshInv /\ WriteInv /\ WriteInv' /\ [Next]_vars => FreshInv'
  <2> SUFFICES ASSUME FreshInv, WriteInv, WriteInv', [Next]_vars PROVE FreshInv'
    OBVIOUS
  <2>1. Own /\ Own' /\ CellsTyped /\ CellsTyped'
    BY DEF WriteInv
  <2>2. PICK one \in Slots, two \in Slots, wr \in Slots, rs \in Slots :
            /\ Reading(one, two) /\ CpuReads(one, two)
            /\ Writing(wr, rs) /\ WriteOrder(wr) /\ CpuWrites(wr, rs) /\ ImpWrites(rs)
            /\ Fresh(two, rs)
    BY DEF FreshInv
  <2>3. CASE Clk
    <3>1. PICK new : new = NowAsked
      OBVIOUS
    <3>2. PICK nwr : nwr = NowTaken
      OBVIOUS
    <3>3. PICK st : st = NowStored(wr)
      OBVIOUS
    <3>4. Reading(new, one)' /\ new \in Slots
      BY <2>1, <2>2, <2>3, <3>1, ReadingStep, Asking DEF Own
    <3>5. CpuReads(new, one)'
      BY <2>1, <2>2, <2>3, <3>1, <3>4, CpuReadsStep
    <3>6. Writing(nwr, st)' /\ nwr \in Slots /\ st \in Slots
      BY <2>1, <2>2, <2>3, <3>2, <3>3, WritingStep, Granted, Storing
    <3>7. WriteOrder(nwr)'
      BY <2>1, <2>2, <2>3, <3>2, WriteOrderStep
    <3>8. CpuWrites(nwr, st)'
      BY <2>1, <2>2, <2>3, <3>2, <3>3, <3>6, CpuWritesStep
    <3>9. ImpWrites(st)'
      BY <2>1, <2>2, <2>3, <3>3, ImpWritesStep DEF ImpWrites
    <3>10. Placed(one, two, wr, rs)
      BY <2>1, <2>2 DEF Placed
    <3>11. Fresh(one, st)'
      BY <2>1, <2>3, <3>1, <3>3, <3>4, <3>6, <3>10, FreshStep
    <3> QED
      BY <2>2, <3>4, <3>5, <3>6, <3>7, <3>8, <3>9, <3>11 DEF FreshInv
  <2>4. CASE UNCHANGED vars
    <3>1. Reading(one, two)' /\ Writing(wr, rs)'
      BY <2>2, <2>4, ReadingStays, WritingStays
    <3>2. CpuReads(one, two)' /\ WriteOrder(wr)' /\ CpuWrites(wr, rs)' /\ ImpWrites(rs)'
      BY <2>2, <2>4 DEF vars, CpuReads, WriteOrder, Chain, CpuWrites, ImpWrites
    <3>3. Fresh(two, rs)'
      BY <2>2, <2>4 DEF vars, Fresh, Content, SlaveRData, Doing, mem_valid
    <3> QED
      BY <2>2, <3>1, <3>2, <3>3 DEF FreshInv
  <2> QED
    BY <2>3, <2>4 DEF Next
<1>3. Spec => []WriteInv
  BY WriteInductive
<1> QED
  BY <1>1, <1>2, <1>3, PTL DEF Spec

\* A read of the processor sees what it last wrote, although a memory
\* (axi_lite_memory.sv) responds to a write before the word is in its cells:
\* whatever the image master does beside it.
THEOREM ReadsAreFresh == Deep /\ Apart => (Spec => []ReadsFresh)
<1> SUFFICES ASSUME Deep, Apart PROVE Spec => []ReadsFresh
  OBVIOUS
<1>1. FreshInv /\ Own => ReadsFresh
  <2> SUFFICES ASSUME FreshInv, Own, RShown(CPU), Doing("read"), Dest[req[1].addr] # "err"
               PROVE  RData(CPU) \in may[req[1].addr]
    BY DEF ReadsFresh
  <2>1. PICK one \in Slots, two \in Slots, wr \in Slots, rs \in Slots :
            Reading(one, two) /\ CpuReads(one, two) /\ Fresh(two, rs)
    BY DEF FreshInv
  <2>2. CPU \in Masters /\ two[CPU] # << >>
    BY <2>1, Answered DEF Masters
  <2>3. two[CPU][1] = req[1].addr
    BY <2>1, <2>2 DEF CpuReads
  <2>4. Head(d_r[CPU]) = Dest[req[1].addr]
    <3>1. Asks(two, Dest[req[1].addr], CPU)
      BY <2>2, <2>3 DEF Asks
    <3> QED
      BY <2>1, <2>2, <3>1, Answered DEF RFrom
  <2>5. SlaveRData(Dest[req[1].addr]) \in may[req[1].addr]
    BY <2>1, <2>2, <2>3 DEF Fresh
  <2> QED
    BY <2>4, <2>5 DEF RData
<1>2. Spec => []FreshInv
  BY FreshInductive
<1> QED
  BY <1>1, <1>2, OwnInductive, PTL
===============================================================================
