-------------------------------- MODULE ImpJob --------------------------------
(***************************************************************************)
(* One channel of the image master behind its registers: the byte register *)
(* file (axi_lite_regfile_intf_wrap.sv over axi_lite_regfile.sv), the      *)
(* program that fills it with stores of one, two or four bytes, and the    *)
(* engine of ImpScan, whose configuration and start bit are now what the   *)
(* bytes say.                                                              *)
(*                                                                         *)
(* The program waits as long as it likes before every store, and for the   *)
(* engine to be idle before it sets up another job: nothing tells it when  *)
(* that is.                                                                *)
(***************************************************************************)
EXTENDS ImpScan, Sequences

CONSTANTS
    B,          \* values of a byte
    Ch,         \* offset of the channel's registers: 0 writes, 16 reads
    Programs    \* records of a job and the stores meant to start it

ASSUME ByteAssumption == B \in Nat \ {0} /\ W16 = B * B
ASSUME ChannelAssumption == Ch \in {0, 16}

VARIABLES
    reg_q,      \* the bytes
    todo,       \* stores the program has left
    wanted      \* (history) the job of the program running, or run last

jobVars == << cfg, IMP_ST, ready, imp_st_dly, processing, xcnt, ycnt, line_base,
              axi_valid, axi_addr, job, reg_q, todo, wanted >>

RegBytes == 0 .. 31

(***************************************************************************)
(* The register file                                                       *)
(***************************************************************************)
\* Little endian; the address adders drop what exceeds W32.
Half(q, i) == q[i] + B * q[i + 1]
Word(q, i) == (Half(q, i) + W16 * Half(q, i + 2)) % W32

Fields(q) == [baddr |-> Word(q, Ch), pitch |-> Word(q, Ch + 4),
              hsize |-> Half(q, Ch + 8), vsize |-> Half(q, Ch + 10),
              minx |-> q[Ch + 12], miny |-> q[Ch + 13]]

StartBit(q) == q[Ch + 14] % 2 = 1

\* Mutated: the strobes are ignored; the processor shows a narrow store's
\* bytes on every lane.
WrittenWhole(q, s) == [i \in RegBytes |-> IF i \div 4 = s.at \div 4
                                          THEN s.bytes[((i - s.at) % Len(s.bytes)) + 1]
                                          ELSE q[i]]

\* Mutated: the strobes are counted from the start of the word.
WrittenLow(q, s) == [i \in RegBytes |-> IF i - 4 * (s.at \div 4) \in 0 .. Len(s.bytes) - 1
                                        THEN s.bytes[(i - 4 * (s.at \div 4)) + 1] ELSE q[i]]

\* A store is the offset of its first byte and the bytes, of which the
\* strobes of one bus write take as many as it has.
Written(q, s) == [i \in RegBytes |-> IF i - s.at \in 0 .. Len(s.bytes) - 1
                                     THEN s.bytes[i - s.at + 1] ELSE q[i]]

(***************************************************************************)
(* The program                                                             *)
(***************************************************************************)
Store == /\ todo # << >>
         /\ reg_q' = Written(reg_q, Head(todo)) /\ todo' = Tail(todo)
         /\ UNCHANGED wanted

SetUp == /\ todo = << >> /\ ~Busy
         /\ \E p \in Programs : todo' = p.stores /\ wanted' = p.job
         /\ UNCHANGED reg_q

Wait == UNCHANGED << reg_q, todo, wanted >>

(***************************************************************************)
(* The specification                                                       *)
(***************************************************************************)
JobInit == Init /\ reg_q = [i \in RegBytes |-> 0] /\ todo = << >> /\ wanted = ResetConfig

JobClk == /\ Engine
          /\ Store \/ SetUp \/ Wait
          /\ cfg' = Fields(reg_q') /\ IMP_ST' = StartBit(reg_q')
          /\ ready' \in BOOLEAN

\* Registers and processor are reset with the engine.
JobReset == Reset /\ reg_q' = [i \in RegBytes |-> 0] /\ todo' = << >> /\ UNCHANGED wanted

JobNext == JobClk \/ JobReset

JobSpec == JobInit /\ [][JobNext]_jobVars

(***************************************************************************)
(* Properties                                                              *)
(***************************************************************************)
\* A program's last store starts the engine: nothing is left to do, and the
\* start is on its way.
LastStoreStarts == [][Store /\ Tail(todo) = << >> => Pending']_jobVars

\* The engine runs the job that the program was written to start, no byte of
\* which is missing or left over from another.
RunsWhatIsWanted == processing => job = wanted

(***************************************************************************)
(* What these ask of a program, store by store                             *)
(***************************************************************************)
Covers(s, i) == i - s.at \in 0 .. Len(s.bytes) - 1

\* What the last store to each byte leaves there.
LastTo(stores, i, k) == /\ Covers(stores[k], i)
                        /\ \A j \in k + 1 .. Len(stores) : ~Covers(stores[j], i)

Left(stores) == [i \in RegBytes |->
                    LET s == stores[CHOOSE k \in 1 .. Len(stores) : LastTo(stores, i, k)]
                    IN  s.bytes[i - s.at + 1]]

\* The program writes every byte of its job, clears the start bit on the way
\* and sets it with its last store only.
Sound(p) ==
    LET n == Len(p.stores)
    IN  /\ p.stores \in Seq([at : RegBytes, bytes : Seq(0 .. B-1)])
        /\ n > 0
        /\ \A i \in Ch .. Ch + 13 : \E k \in 1 .. n : LastTo(p.stores, i, k)
        /\ Fields(Left(p.stores)) = p.job
        /\ Covers(p.stores[n], Ch + 14) /\ StartBit(Left(p.stores))
        /\ \E k \in 1 .. n - 1 : Covers(p.stores[k], Ch + 14)
        /\ \A k \in 1 .. n - 1 : Covers(p.stores[k], Ch + 14) =>
               p.stores[k].bytes[(Ch + 14) - p.stores[k].at + 1] % 2 = 0
===============================================================================
