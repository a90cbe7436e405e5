----------------------------- MODULE ImpJobProofs -----------------------------
(***************************************************************************)
(* The scan engine for every register width and every set of               *)
(* configurations.  IInv holds whatever the CPU does in the middle of a    *)
(* job; OnPixel and the refinement of RegionScan need a CPU that leaves a  *)
(* running job alone and rectangles that fit.  Then the engine behind its  *)
(* byte registers, filled by sound programs.                               *)
(*                                                                         *)
(* What an edge does to the engine is proved of Engine and of whatever     *)
(* configuration it meets, so that it serves both specifications.          *)
(***************************************************************************)
EXTENDS ImpJob, RingLemmas, SequenceTheorems

(***************************************************************************)
(* The wires stay in range                                                 *)
(***************************************************************************)
LEMMA W32Positive == W32 \in Nat \ {0}
BY WidthAssumption

LEMMA ResetConfigType == ResetConfig \in Config
BY WidthAssumption DEF ResetConfig, Config

\* The ends of the scan are 16-bit values.
LEMMA EndsType ==
    ASSUME NEW c \in Config
    PROVE  XEnd(c) \in 0 .. W16-1 /\ YEnd(c) \in 0 .. W16-1
<1>1. c.minx + c.hsize - 1 \in Int /\ c.miny + c.vsize - 1 \in Int
  BY WidthAssumption DEF Config
<1> QED
  BY <1>1, WidthAssumption, DivMod DEF XEnd, YEnd

\* An address adder yields a 32-bit value.
LEMMA PlusType ==
    ASSUME NEW a \in Int, NEW b \in Int
    PROVE  Plus(a, b) \in 0 .. W32-1
BY WidthAssumption, DivMod DEF Plus

\* What is true of the registers wherever the configuration comes from.
Registers ==
    /\ cfg \in Config /\ job \in Config
    /\ IMP_ST \in BOOLEAN /\ ready \in BOOLEAN
    /\ imp_st_dly \in BOOLEAN \X BOOLEAN
    /\ processing \in BOOLEAN /\ axi_valid \in BOOLEAN
    /\ xcnt \in 0 .. W16 /\ ycnt \in 0 .. W16-1
    /\ line_base \in 0 .. W32-1 /\ axi_addr \in 0 .. W32-1
    /\ Lockstep

LEMMA IInvRegisters == IInv => Registers
BY ConfigAssumption, ResetConfigType DEF IInv, TypeOK, Registers

LEMMA IInvRegistersThen == IInv' => Registers'
BY IInvRegisters, PTL

(***************************************************************************)
(* TypeOK, Lockstep and Configured                                         *)
(***************************************************************************)
LEMMA InitIInv == Init => IInv
<1> SUFFICES ASSUME Init PROVE IInv
  OBVIOUS
<1>1. TypeOK
  <2>1. 0 \in 0 .. W16 /\ 0 \in 0 .. W16-1 /\ 0 \in 0 .. W32-1
    BY WidthAssumption
  <2>2. << FALSE, FALSE >> \in BOOLEAN \X BOOLEAN
    OBVIOUS
  <2> QED
    BY <2>1, <2>2 DEF Init, TypeOK
<1>2. Lockstep /\ Configured
  BY DEF Init, Lockstep, Configured
<1> QED
  BY <1>1, <1>2 DEF IInv

\* What the edge leaves in the engine, started or not.
LEMMA ClkRegisters ==
    ASSUME Registers, Engine
    PROVE  /\ processing' \in BOOLEAN /\ axi_valid' = processing'
           /\ xcnt' \in 0 .. W16 /\ ycnt' \in 0 .. W16-1
           /\ line_base' \in 0 .. W32-1 /\ axi_addr' \in 0 .. W32-1
           /\ processing' => xcnt' < W16
           /\ imp_st_dly' \in BOOLEAN \X BOOLEAN
           /\ job' \in {job, cfg}
<1> USE DEF Registers
<1>1. cfg \in Config
  OBVIOUS
<1>2. imp_st_dly' \in BOOLEAN \X BOOLEAN
  BY DEF Engine
<1>3. XEnd(cfg) \in 0 .. W16-1 /\ YEnd(cfg) \in 0 .. W16-1
  BY <1>1, EndsType
<1>4. CASE all_proc_trg
  BY <1>1, <1>4, WidthAssumption DEF Engine, StartUp, Config
<1>5. CASE ~all_proc_trg
  <2>1. ProcessingStep /\ ValidStep /\ CountStep /\ AddrStep /\ job' = job
    BY <1>5 DEF Engine, Advance
  <2>2. processing' \in BOOLEAN /\ axi_valid' = processing'
    BY <2>1 DEF Lockstep, ProcessingStep, ValidStep
  <2>3. xcnt' \in 0 .. W16 /\ ycnt' \in 0 .. W16-1
    BY <1>3, <2>1, WidthAssumption
       DEF Lockstep, CountStep, ack, row_end, xcnt_end, ycnt_end
  <2>4. processing' => xcnt' < W16
    <3> SUFFICES ASSUME processing' PROVE xcnt' < W16
      OBVIOUS
    <3>1. processing /\ ~(last /\ ready)
      BY <2>1 DEF ProcessingStep
    <3>2. CASE ack
      <4>1. ready
        BY <3>2 DEF ack
      <4>2. row_end \/ ~xcnt_end
        BY <3>1, <4>1 DEF row_end, last
      <4>3. CASE row_end
        BY <2>1, <3>2, <4>3, WidthAssumption DEF CountStep
      <4>4. CASE ~row_end /\ ~xcnt_end
        BY <1>3, <2>1, <3>2, <4>4, WidthAssumption DEF CountStep, xcnt_end
      <4> QED
        BY <4>2, <4>3, <4>4
    <3>3. CASE ~ack
      BY <2>1, <3>1, <3>3 DEF Lockstep, CountStep
    <3> QED
      BY <3>2, <3>3
  <2>5. /\ Plus(line_base, cfg.pitch) \in 0 .. W32-1
        /\ Plus(axi_addr, 4) \in 0 .. W32-1
    <3>1. line_base \in Int /\ cfg.pitch \in Int /\ axi_addr \in Int /\ 4 \in Int
      BY <1>1, WidthAssumption DEF Config
    <3> QED
      BY <3>1, PlusType
  <2>6. line_base' \in 0 .. W32-1 /\ axi_addr' \in 0 .. W32-1
    BY <2>1, <2>5 DEF AddrStep
  <2> QED
    BY <1>2, <2>1, <2>2, <2>3, <2>4, <2>6
<1> QED
  BY <1>4, <1>5, <1>2

LEMMA EngineStep ==
    ASSUME Registers, Engine, cfg' \in Config, IMP_ST' \in BOOLEAN, ready' \in BOOLEAN
    PROVE  Registers'
BY ClkRegisters DEF Registers, Lockstep

LEMMA NextIInv == IInv /\ [Next]_vars => IInv'
<1> SUFFICES ASSUME IInv, [Next]_vars PROVE IInv'
  OBVIOUS
<1>1. CASE Clk
  <2>1. TypeOK'
    <3>1. cfg' \in Configs \cup {ResetConfig}
      BY <1>1 DEF Clk, Engine, Inputs, IInv, TypeOK
    <3>2. IMP_ST' \in BOOLEAN /\ ready' \in BOOLEAN
      BY <1>1 DEF Clk, Engine, Inputs, IInv, TypeOK
    <3>3. /\ processing' \in BOOLEAN /\ axi_valid' = processing'
          /\ xcnt' \in 0 .. W16 /\ ycnt' \in 0 .. W16-1
          /\ line_base' \in 0 .. W32-1 /\ axi_addr' \in 0 .. W32-1
          /\ imp_st_dly' \in BOOLEAN \X BOOLEAN
          /\ job' \in {job, cfg}
      BY <1>1, IInvRegisters, ClkRegisters DEF Clk
    <3> QED
      BY <3>1, <3>2, <3>3 DEF TypeOK, IInv
  <2>2. Lockstep'
    BY <1>1, IInvRegisters, ClkRegisters DEF Clk, Lockstep
  <2>3. Configured'
    <3>1. IMP_ST' \/ imp_st_dly'[1] => cfg' \in Configs
      BY <1>1 DEF Clk, Engine, Inputs, Configured, IInv, TypeOK
    <3>2. CASE all_proc_trg
      BY <1>1, <3>1, <3>2
         DEF Clk, Engine, StartUp, all_proc_trg, Configured, IInv, TypeOK
    <3>3. CASE ~all_proc_trg
      BY <1>1, <3>1, <3>3
         DEF Clk, Engine, Advance, ProcessingStep, Configured, IInv
    <3> QED
      BY <3>2, <3>3
  <2> QED
    BY <2>1, <2>2, <2>3 DEF IInv
<1>2. CASE Reset
  <2>1. TypeOK'
    <3>1. 0 \in 0 .. W16 /\ 0 \in 0 .. W16-1 /\ 0 \in 0 .. W32-1
      BY WidthAssumption
    <3>2. << FALSE, FALSE >> \in BOOLEAN \X BOOLEAN
      OBVIOUS
    <3> QED
      BY <1>2, <3>1, <3>2 DEF Reset, IInv, TypeOK
  <2>2. Lockstep' /\ Configured'
    BY <1>2, WidthAssumption DEF Reset, Lockstep, Configured
  <2> QED
    BY <2>1, <2>2 DEF IInv
<1>3. CASE UNCHANGED vars
  BY <1>3 DEF vars, IInv, TypeOK, Lockstep, Configured
<1> QED
  BY <1>1, <1>2, <1>3 DEF Next

THEOREM Inductive == Spec => []IInv
BY InitIInv, NextIInv, PTL DEF Spec

\* Every register keeps to its width, even if the CPU resizes a running job
\* or starts another over it.
THEOREM TypeCorrect == Spec => []TypeOK
<1>1. IInv => TypeOK
  BY DEF IInv
<1> QED
  BY <1>1, Inductive, PTL

\* The valid flag of the bus and the engine's own flag never part.
THEOREM FlagsInLockstep == Spec => []Lockstep
<1>1. IInv => Lockstep
  BY DEF IInv
<1> QED
  BY <1>1, Inductive, PTL

(***************************************************************************)
(* OnPixel, for a CPU that leaves a running job alone                      *)
(***************************************************************************)
Calm == MidJob = {} /\ \A c \in Configs : Fits(c)

\* The ends of a rectangle that fits.
LEMMA FitsEnds ==
    ASSUME NEW c \in Config, Fits(c)
    PROVE  /\ XEnd(c) = c.minx + c.hsize - 1
           /\ YEnd(c) = c.miny + c.vsize - 1
<1>1. /\ c.minx + c.hsize - 1 \in 0 .. W16-1
      /\ c.miny + c.vsize - 1 \in 0 .. W16-1
  BY WidthAssumption DEF Config, Fits
<1> QED
  BY <1>1, WidthAssumption, ModSmall DEF XEnd, YEnd

\* While busy the calm CPU writes nothing.
LEMMA BusyKeepsConfig ==
    ASSUME Calm, Inputs, Busy
    PROVE  cfg' = cfg
BY DEF Calm, Inputs

LEMMA StartOnPixel ==
    ASSUME Registers, Engine, all_proc_trg, Fits(cfg), cfg' = cfg
    PROVE  OnPixel'
<1>1. cfg \in Config /\ Fits(cfg)
  BY DEF Registers
<1>2. cfg' = cfg
  OBVIOUS
<1>3. StartUp
  BY DEF Engine
<1>4. XEnd(cfg) \in 0 .. W16-1 /\ cfg.miny \in cfg.miny .. YEnd(cfg)
  <2>1. YEnd(cfg) = cfg.miny + cfg.vsize - 1
    BY <1>1, FitsEnds
  <2> QED
    BY <1>1, <2>1, EndsType DEF Config, Fits
<1>5. cfg.baddr \in 0 .. W32-1 /\ cfg.pitch \in Int /\ cfg.miny \in Int
  BY <1>1 DEF Config
<1>6. /\ cfg.baddr = (cfg.baddr + (cfg.miny - cfg.miny) * cfg.pitch) % W32
      /\ cfg.baddr = (cfg.baddr + 4 * 0) % W32
  <2>1. /\ cfg.baddr + (cfg.miny - cfg.miny) * cfg.pitch = cfg.baddr
        /\ cfg.baddr + 4 * 0 = cfg.baddr
    BY <1>5
  <2>2. cfg.baddr % W32 = cfg.baddr
    BY <1>5, WidthAssumption, ModSmall
  <2> QED
    BY <2>1, <2>2
<1>7. /\ job' = cfg /\ xcnt' = 0 /\ ycnt' = cfg.miny
      /\ line_base' = cfg.baddr /\ axi_addr' = cfg.baddr
  BY <1>3 DEF StartUp
<1>8. XEnd(job)' = XEnd(cfg) /\ YEnd(job)' = YEnd(cfg)
  BY <1>7 DEF XEnd, YEnd
<1>9. 0 <= XEnd(cfg)
  BY <1>4
<1> QED
  BY <1>2, <1>4, <1>6, <1>7, <1>8, <1>9 DEF OnPixel

LEMMA StepOnPixel ==
    ASSUME Registers, OnPixel, Engine, ~all_proc_trg, processing => cfg' = cfg
    PROVE  OnPixel'
<1> SUFFICES ASSUME processing'
             PROVE  OnPixel'
  BY DEF OnPixel
<1>1. ProcessingStep /\ CountStep /\ AddrStep /\ job' = job
  BY DEF Engine, Advance
<1>2. processing /\ ~(last /\ ready)
  BY <1>1 DEF ProcessingStep
<1>3. cfg' = cfg /\ job = cfg
  BY <1>2 DEF OnPixel
<1> DEFINE X == XEnd(job)
           Y == YEnd(job)
           b == job.baddr
           p == job.pitch
           m == job.miny
<1>4. X' = X /\ Y' = Y /\ b' = b /\ p' = p /\ m' = m /\ cfg.pitch = p
  BY <1>1, <1>3
<1>5. X \in Nat /\ Y \in Nat /\ b \in Int /\ p \in Int /\ m \in Int
  <2>1. job \in Config
    BY DEF Registers
  <2> QED
    BY <2>1, EndsType, WidthAssumption DEF Config
<1>6. xcnt \in Nat /\ ycnt \in Nat /\ line_base \in 0 .. W32-1
  BY WidthAssumption DEF Registers
<1>7. /\ xcnt <= X /\ ycnt \in m .. Y
      /\ line_base = (b + (ycnt - m) * p) % W32
      /\ axi_addr = (line_base + 4 * xcnt) % W32
  BY <1>2 DEF OnPixel
<1>8. (xcnt_end <=> xcnt >= X) /\ (ycnt_end <=> ycnt >= Y)
  BY <1>3 DEF xcnt_end, ycnt_end
<1>9. ready => ack /\ (row_end \/ ~xcnt_end)
  BY <1>2 DEF ack, row_end, last
<1> SUFFICES /\ job' = cfg'
             /\ xcnt' <= X /\ ycnt' \in m .. Y
             /\ line_base' = (b + (ycnt' - m) * p) % W32
             /\ axi_addr' = (line_base' + 4 * xcnt') % W32
  BY <1>4 DEF OnPixel
<1> HIDE DEF X, Y, b, p, m
<1>10. CASE ready /\ row_end
  <2>1. /\ xcnt' = 0 /\ ycnt' = ycnt + 1
        /\ line_base' = Plus(line_base, p) /\ axi_addr' = Plus(line_base, p)
    BY <1>1, <1>4, <1>9, <1>10 DEF CountStep, AddrStep
  <2>2. ycnt < Y
    BY <1>5, <1>6, <1>8, <1>10 DEF row_end
  <2>3. Plus(line_base, p) = (b + ((ycnt + 1) - m) * p) % W32
    <3> DEFINE e == b + (ycnt - m) * p
    <3>1. e \in Int /\ e + p = b + ((ycnt + 1) - m) * p
      BY <1>5, <1>6
    <3>2. line_base = e % W32
      BY <1>7
    <3> HIDE DEF e
    <3>3. ((e % W32) + p) % W32 = (e + p) % W32
      BY <1>5, <3>1, W32Positive, ModPlus
    <3>4. Plus(line_base, p) = (e + p) % W32
      BY <3>2, <3>3 DEF Plus
    <3> QED
      BY <3>1, <3>4
  <2>4. Plus(line_base, p) = (Plus(line_base, p) + 4 * 0) % W32
    <3>1. Plus(line_base, p) \in 0 .. W32-1
      <4>1. line_base \in Int /\ p \in Int
        BY <1>5, <1>6
      <4> QED
        BY <4>1, PlusType
    <3> DEFINE a == Plus(line_base, p)
    <3> HIDE DEF a
    <3>2. a \in 0 .. W32-1
      BY <3>1 DEF a
    <3>3. a + 4 * 0 = a /\ a % W32 = a
      BY <3>2, WidthAssumption, ModSmall
    <3> QED
      BY <3>3 DEF a
  <2>5. 0 <= X /\ ycnt + 1 \in m .. Y
    BY <1>5, <1>6, <1>7, <2>2
  <2> QED
    BY <1>1, <1>3, <2>1, <2>3, <2>4, <2>5
<1>11. CASE ready /\ ~row_end
  <2>1. /\ xcnt' = xcnt + 1 /\ ycnt' = ycnt
        /\ line_base' = line_base /\ axi_addr' = Plus(axi_addr, 4)
    BY <1>1, <1>9, <1>11 DEF CountStep, AddrStep
  <2>2. xcnt + 1 <= X
    BY <1>5, <1>6, <1>8, <1>9, <1>11
  <2>3. Plus(axi_addr, 4) = (line_base + 4 * (xcnt + 1)) % W32
    <3>1. line_base + 4 * xcnt \in Int /\ 4 \in Int
      BY <1>6
    <3>2. (line_base + 4 * xcnt) + 4 = line_base + 4 * (xcnt + 1)
      BY <1>6
    <3> QED
      BY <1>7, <3>1, <3>2, WidthAssumption, ModPlus DEF Plus
  <2> QED
    BY <1>1, <1>3, <1>7, <2>1, <2>2, <2>3
<1>12. CASE ~ready
  <2>1. UNCHANGED << xcnt, ycnt, line_base, axi_addr >>
    BY <1>1, <1>12 DEF CountStep, AddrStep, ack
  <2> QED
    BY <1>1, <1>3, <1>7, <2>1
<1> QED
  BY <1>10, <1>11, <1>12

LEMMA NextOnPixel == Calm /\ IInv /\ OnPixel /\ [Next]_vars => OnPixel'
<1> SUFFICES ASSUME Calm, IInv, OnPixel, [Next]_vars PROVE OnPixel'
  OBVIOUS
<1>1. CASE Clk
  <2>1. Busy => cfg' = cfg
    BY <1>1, BusyKeepsConfig DEF Clk
  <2>2. all_proc_trg => Fits(cfg)
    BY DEF Calm, IInv, Configured, all_proc_trg
  <2> QED
    BY <1>1, <2>1, <2>2, IInvRegisters, StartOnPixel, StepOnPixel
       DEF Clk, Busy, Pending
<1>2. CASE Reset
  BY <1>2 DEF Reset, OnPixel
<1>3. CASE UNCHANGED vars
  BY <1>3 DEF vars, OnPixel, XEnd, YEnd
<1> QED
  BY <1>1, <1>2, <1>3 DEF Next

\* The address on the bus is always that of the pixel the counters name.
THEOREM JobOnPixel == Calm => (Spec => []OnPixel)
<1> SUFFICES ASSUME Calm PROVE Spec => []OnPixel
  OBVIOUS
<1>1. Init => OnPixel
  BY DEF Init, OnPixel
<1>2. IInv /\ OnPixel /\ [Next]_vars => OnPixel'
  BY NextOnPixel
<1> QED
  BY <1>1, <1>2, Inductive, PTL DEF Spec

(***************************************************************************)
(* The refinement of RegionScan                                            *)
(***************************************************************************)
LEMMA EngineStartQuiet ==
    ASSUME Registers, StartQuiet, Engine, Busy => (IMP_ST' => IMP_ST)
    PROVE  StartQuiet'
<1> SUFFICES ASSUME processing' PROVE ~Pending'
  BY DEF StartQuiet
<1>1. Busy
  BY DEF Engine, Advance, ProcessingStep, Busy, Pending
<1>2. IMP_ST' => IMP_ST
  BY <1>1
<1>3. imp_st_dly' = << IMP_ST, imp_st_dly[1] >>
  BY DEF Engine
<1>4. imp_st_dly[1] \in BOOLEAN /\ IMP_ST \in BOOLEAN
  BY DEF Registers
<1>5. ~(IMP_ST /\ ~imp_st_dly[1])
  <2>1. CASE all_proc_trg
    BY <2>1 DEF all_proc_trg
  <2>2. CASE ~all_proc_trg
    <3>1. processing
      BY <2>2 DEF Engine, Advance, ProcessingStep
    <3> QED
      BY <3>1 DEF StartQuiet, Pending
  <2> QED
    BY <2>1, <2>2
<1>6. ~all_proc_trg'
  BY <1>3, <1>4, <1>5 DEF all_proc_trg
<1>7. ~(IMP_ST' /\ ~imp_st_dly'[1])
  BY <1>2, <1>3
<1> QED
  BY <1>6, <1>7 DEF Pending

LEMMA NextStartQuiet ==
    ASSUME Calm, IInv, StartQuiet, [Next]_vars
    PROVE  StartQuiet'
<1>1. CASE Clk
  <2>1. Busy => (IMP_ST' => IMP_ST)
    BY <1>1 DEF Clk, Inputs, Calm, IInv, TypeOK
  <2> QED
    BY <1>1, <2>1, IInvRegisters, EngineStartQuiet DEF Clk
<1>2. CASE Reset
  BY <1>2 DEF Reset, StartQuiet
<1>3. CASE UNCHANGED vars
  BY <1>3 DEF vars, StartQuiet, Pending, all_proc_trg
<1> QED
  BY <1>1, <1>2, <1>3 DEF Next

\* The pixel a running job has on the bus, by its number.
Nth == (ycnt - job.miny) * RowPixels(job) + xcnt

Regular == Registers /\ OnPixel /\ (processing => Fits(job))

Known == job \in Configs \cup {ResetConfig}

\* What the counters mean on a rectangle that fits.
LEMMA RunningJob ==
    ASSUME Regular, processing
    PROVE  /\ job = cfg /\ job \in Config /\ RowPixels(job) \in Nat \ {0}
           /\ xcnt \in 0 .. RowPixels(job) - 1
           /\ ycnt - job.miny \in 0 .. job.vsize - 1
           /\ XEnd(job) = RowPixels(job) - 1
           /\ YEnd(job) = job.miny + job.vsize - 1
<1>1. job = cfg /\ job \in Config
  BY DEF Regular, Registers, OnPixel
<1>2. xcnt <= XEnd(job) /\ ycnt \in job.miny .. YEnd(job)
  BY DEF Regular, OnPixel
<1>3. Fits(job)
  BY DEF Regular
<1>4. /\ RowPixels(job) \in Nat \ {0} /\ job.miny \in Nat /\ job.vsize \in Nat
      /\ xcnt \in Nat /\ ycnt \in Nat
  BY <1>1, <1>3, WidthAssumption DEF Config, Fits, Regular, Registers, RowPixels
<1>5. XEnd(job) = RowPixels(job) - 1 /\ YEnd(job) = job.miny + job.vsize - 1
  <2>1. job.minx \in Int /\ job.hsize \in Int
    BY <1>1 DEF Config
  <2> QED
    BY <1>1, <1>3, <2>1, FitsEnds DEF RowPixels
<1> QED
  BY <1>1, <1>2, <1>4, <1>5

\* The address on the bus is the abstract one of the pixel's number.
LEMMA BusAddress ==
    ASSUME Regular, processing
    PROVE  axi_addr = Scan!AddrOf(RegionOf(job), Nth)
<1> DEFINE w == RowPixels(job)
           r == ycnt - job.miny
           p == job.pitch
           b == job.baddr
<1>1. /\ w \in Nat \ {0} /\ xcnt \in 0 .. w-1 /\ r \in Int
      /\ p \in Int /\ b \in Int
  BY RunningJob DEF Config
<1>2. /\ line_base = (b + r * p) % W32
      /\ axi_addr = (line_base + 4 * xcnt) % W32
  BY DEF Regular, OnPixel
<1>3. Nth = r * w + xcnt
  BY DEF Nth
<1>4. Scan!AddrOf(RegionOf(job), Nth)
        = (b + (Nth \div w) * p + 4 * (Nth % w)) % W32
  BY DEF Scan!AddrOf, RegionOf
<1> HIDE DEF w, r, p, b
<1>5. Nth \div w = r /\ Nth % w = xcnt
  <2>1. Nth = (w * r) + xcnt
    BY <1>1, <1>3
  <2> QED
    BY <1>1, <2>1, DivModUnique
<1>6. axi_addr = (b + r * p + 4 * xcnt) % W32
  <2> DEFINE e == b + r * p
             f == 4 * xcnt
  <2>1. e \in Int /\ f \in Int
    BY <1>1
  <2>2. line_base = e % W32 /\ axi_addr = (line_base + f) % W32
    BY <1>2
  <2> HIDE DEF e, f
  <2>3. axi_addr = (e + f) % W32
    BY <2>1, <2>2, W32Positive, ModPlus
  <2> QED
    BY <2>3 DEF e, f
<1> QED
  BY <1>4, <1>5, <1>6

OnAbstractPixel == processing => axi_addr = Scan!AddrOf(RegionOf(job), Nth)

\* Now, and after a step.
LEMMA BusAddressNow == Regular => OnAbstractPixel
BY BusAddress DEF OnAbstractPixel

LEMMA BusAddressNext == Regular' => OnAbstractPixel'
BY BusAddressNow, PTL

\* A start on the wire finds the engine idle and becomes the abstract Start.
LEMMA StartRefines ==
    ASSUME Registers, StartQuiet, Engine, all_proc_trg, Regular', Known'
    PROVE  Scan!Next
<1>1. ~processing /\ ~axi_valid
  BY DEF StartQuiet, Pending, Registers, Lockstep
<1>2. /\ processing' /\ axi_valid' /\ job' = cfg
      /\ xcnt' = 0 /\ ycnt' = job'.miny
  BY DEF Engine, StartUp
<1>3. RegionOf(job') \in {RegionOf(c) : c \in Configs \cup {ResetConfig}}
  BY DEF Known
<1>4. /\ Nth' = 0
      /\ (ycnt' - job'.miny) * RowPixels(job') + xcnt' = 0
  <2>1. job' \in Config
    BY DEF Regular, Registers
  <2>2. /\ RowPixels(job') \in Int /\ job'.miny \in Int
    BY <2>1 DEF Config, RowPixels
  <2>3. (ycnt' - job'.miny) * RowPixels(job') + xcnt' = 0
    BY <1>2, <2>2
  <2> QED
    BY <2>3 DEF Nth
<1>5. axi_addr' = Scan!AddrOf(RegionOf(job'), 0)
  <2>1. axi_addr' = Scan!AddrOf(RegionOf(job'), Nth')
    BY <1>2, BusAddressNext DEF OnAbstractPixel
  <2> QED
    BY <1>4, <2>1
<1>6. ready' \in BOOLEAN
  BY DEF Regular, Registers
<1> QED
  BY <1>1, <1>2, <1>3, <1>4, <1>5, <1>6
     DEF Scan!Next, Scan!Start, Scan!Offer

\* An accepted address is the abstract Accept: the next pixel, or quiet after
\* the last.
LEMMA AcceptRefines ==
    ASSUME Regular, Engine, ~all_proc_trg, axi_valid, ready, Regular'
    PROVE  Scan!Next
<1> DEFINE w == RowPixels(job)
           h == job.vsize
           r == ycnt - job.miny
<1>1. processing /\ ack
  BY DEF Regular, Registers, Lockstep, ack
<1>2. ProcessingStep /\ CountStep /\ job' = job
  BY DEF Engine, Advance
<1>3. /\ w \in Nat \ {0} /\ xcnt \in 0 .. w-1 /\ r \in 0 .. h-1
      /\ job.miny \in Int /\ ycnt \in Int /\ h \in Int
  BY <1>1, RunningJob DEF Config, Regular, Registers
<1>4. (xcnt_end <=> xcnt = w-1) /\ (ycnt_end <=> r = h-1)
  <2>1. cfg = job /\ XEnd(job) = w - 1 /\ YEnd(job) = job.miny + h - 1
    BY <1>1, RunningJob
  <2> QED
    BY <1>3, <2>1 DEF xcnt_end, ycnt_end
<1>5. w' = w /\ job.miny' = job.miny
  BY <1>2 DEF RowPixels
<1>6. Scan!Pixels(RegionOf(job)) = w * h
  BY DEF Scan!Pixels, RegionOf
<1>7. Nth = r * w + xcnt
  BY DEF Nth
<1>8. ready' \in BOOLEAN /\ axi_valid' = processing'
  BY DEF Regular, Registers, Lockstep
<1>9. CASE ~last
  <2>1. processing' /\ axi_valid'
    BY <1>1, <1>2, <1>8, <1>9 DEF ProcessingStep
  <2>2. Nth' = Nth + 1
    <3>1. Nth' = (ycnt' - job.miny) * w + xcnt'
      BY <1>2 DEF Nth
    <3>2. CASE row_end
      <4>1. xcnt' = 0 /\ ycnt' = ycnt + 1 /\ xcnt = w-1
        BY <1>1, <1>2, <1>4, <3>2 DEF CountStep, row_end
      <4>2. ycnt' - job.miny = r + 1
        BY <1>3, <4>1
      <4>3. Nth' = (r + 1) * w
        <5>1. (r + 1) * w \in Int
          BY <1>3
        <5> QED
          BY <3>1, <4>1, <4>2, <5>1
      <4> HIDE DEF r, w
      <4>4. (r + 1) * w = r * w + w /\ r * w \in Int
        BY <1>3
      <4> QED
        BY <1>3, <1>7, <4>1, <4>3, <4>4
    <3>3. CASE ~row_end
      <4>1. xcnt' = xcnt + 1 /\ ycnt' = ycnt
        BY <1>1, <1>2, <3>3 DEF CountStep
      <4> QED
        BY <1>3, <1>7, <3>1, <4>1
    <3> QED
      BY <3>2, <3>3
  <2>3. Nth + 1 < w * h
    <3> HIDE DEF w, h, r
    <3>1. CASE r < h-1
      <4>1. (r + 1) * w <= (h - 1) * w
        BY <1>3, <3>1
      <4>2. (h - 1) * w = w * h - w /\ (r + 1) * w = r * w + w
        BY <1>3
      <4>3. r * w \in Int /\ w * h \in Int
        BY <1>3
      <4> QED
        BY <1>3, <1>7, <4>1, <4>2, <4>3
    <3>2. CASE r = h-1 /\ xcnt < w-1
      <4>1. r * w = w * h - w /\ w * h \in Int
        BY <1>3, <3>2
      <4> QED
        BY <1>3, <1>7, <3>2, <4>1
    <3> QED
      BY <1>3, <1>4, <1>9, <3>1, <3>2 DEF last
  <2>4. axi_addr' = Scan!AddrOf(RegionOf(job), Nth + 1)
    BY <1>2, <2>1, <2>2, BusAddressNext DEF OnAbstractPixel
  <2> QED
    BY <1>1, <1>2, <1>6, <1>8, <2>1, <2>2, <2>3, <2>4
       DEF Scan!Next, Scan!Accept, Scan!Offer, Nth
<1>10. CASE last
  <2>1. ~processing' /\ ~axi_valid'
    BY <1>2, <1>8, <1>10 DEF ProcessingStep
  <2>2. ~(Nth + 1 < w * h)
    <3>1. xcnt = w-1 /\ r = h-1
      BY <1>4, <1>10 DEF last
    <3> HIDE DEF w, h, r
    <3>2. r * w = w * h - w /\ w * h \in Int
      BY <1>3, <3>1
    <3> QED
      BY <1>3, <1>7, <3>1, <3>2
  <2>3. axi_valid' = FALSE
    BY <2>1 DEF Regular, Registers
  <2> QED
    BY <1>1, <1>2, <1>6, <1>8, <2>1, <2>2, <2>3
       DEF Scan!Next, Scan!Accept, Scan!Quiet, Nth
<1> QED
  BY <1>9, <1>10

\* An edge that neither starts nor accepts changes nothing the bus can see.
LEMMA WaitRefines ==
    ASSUME Registers, Engine, ~all_proc_trg, ~(axi_valid /\ ready), Registers'
    PROVE  Scan!Next
<1>1. Advance /\ job' = job
  BY DEF Engine, Advance
<1>2. axi_valid = processing /\ axi_valid' = processing'
  BY DEF Registers, Lockstep
<1>3. processing' = processing
  BY <1>1, <1>2 DEF Advance, ProcessingStep, Registers
<1>4. processing => UNCHANGED << xcnt, ycnt, axi_addr >>
  BY <1>1, <1>2 DEF Advance, CountStep, AddrStep, ack
<1>5. ready' \in BOOLEAN
  BY DEF Registers
<1> QED
  BY <1>1, <1>2, <1>3, <1>4, <1>5 DEF Scan!Next, Scan!Wait

LEMMA ResetRefines ==
    ASSUME Known, Reset
    PROVE  Scan!Next
<1>1. RegionOf(job') \in {RegionOf(c) : c \in Configs \cup {ResetConfig}}
  BY DEF Reset, Known
<1> QED
  BY <1>1 DEF Reset, Scan!Next, Scan!Reset, Scan!Quiet

LEMMA EngineRefines ==
    ASSUME Regular, StartQuiet, Engine, Regular', Known'
    PROVE  Scan!Next
BY StartRefines, AcceptRefines, WaitRefines DEF Regular

\* The engine implements the abstract scan: on every rectangle that fits it
\* accepts every pixel's address once, in row order.
THEOREM ImplementsRegionScan == Calm => (Spec => IsRegionScan)
<1> SUFFICES ASSUME Calm PROVE Spec => IsRegionScan
  OBVIOUS
<1> DEFINE Inv == IInv /\ OnPixel /\ StartQuiet
<1>1. Init => Inv
  BY InitIInv DEF Init, OnPixel, StartQuiet
<1>2. Inv /\ [Next]_vars => Inv'
  BY NextIInv, NextOnPixel, NextStartQuiet DEF Calm
<1>3. Init => Scan!Init
  BY DEF Init, Scan!Init
<1>4. IInv /\ OnPixel => Regular /\ Known
  BY IInvRegisters DEF IInv, TypeOK, Configured, Calm, Regular, Known
<1>5. /\ Inv /\ (Regular /\ Known) /\ Inv' /\ (Regular /\ Known)' /\ [Next]_vars
      => [Scan!Next]_(Scan!vars)
  <2> SUFFICES ASSUME Inv, Regular, Known, Inv', Regular', Known', [Next]_vars
               PROVE  [Scan!Next]_(Scan!vars)
    OBVIOUS
  <2>1. CASE Clk
    BY <2>1, EngineRefines DEF Clk
  <2>2. CASE Reset
    BY <2>2, ResetRefines
  <2>3. CASE UNCHANGED vars
    BY <2>3 DEF vars, Scan!vars
  <2> QED
    BY <2>1, <2>2, <2>3 DEF Next
<1>6. Inv => Regular /\ Known
  BY <1>4
<1> HIDE DEF Inv
<1> QED
  BY <1>1, <1>2, <1>3, <1>5, <1>6, PTL DEF Spec, IsRegionScan, Scan!Spec

(***************************************************************************)
(* Behind the registers: sound programs                                    *)
(***************************************************************************)
SoundPrograms == \A p \in Programs : Sound(p)

\* The program that is filling the registers has made k of its stores: what
\* a byte is to be it is already, or a store that is left will make it, and a
\* start bit that is set will be cleared before the last store.
FillingBehind(p, k) ==
    LET n == Len(p.stores)
    IN  /\ wanted = p.job
        /\ todo \in Seq([at : RegBytes, bytes : Seq(0 .. B-1)])
        /\ Len(todo) = n - k
        /\ \A j \in 1 .. n - k : todo[j] = p.stores[k + j]
        /\ \A i \in Ch .. Ch + 13 : \/ reg_q[i] = Left(p.stores)[i]
                                    \/ \E j \in k + 1 .. n : Covers(p.stores[j], i)
        /\ StartBit(reg_q) => \E j \in k + 1 .. n - 1 : Covers(p.stores[j], Ch + 14)

Bytes == /\ reg_q \in [RegBytes -> 0 .. B-1]
         /\ cfg = Fields(reg_q) /\ IMP_ST = StartBit(reg_q)

Filling == todo # << >> => /\ ~Busy
                           /\ \E p \in Programs : \E k \in 0 .. Len(p.stores) - 1 :
                                  FillingBehind(p, k)

Complete == Busy => cfg = wanted /\ \E p \in Programs : wanted = p.job

JobInv == /\ Registers /\ Bytes /\ Filling /\ Complete
          /\ (processing => job = wanted) /\ StartQuiet

\* The channel's bytes are in the register file.
LEMMA ChannelBytes ==
    /\ Ch + 14 \in RegBytes
    /\ \A i \in Ch .. Ch + 13 : i \in RegBytes
<1>1. CASE Ch = 0
  BY <1>1 DEF RegBytes
<1>2. CASE Ch = 16
  BY <1>2 DEF RegBytes
<1> QED
  BY <1>1, <1>2, ChannelAssumption

\* What registers of bytes hold, fits the engine's.
LEMMA FieldsType ==
    ASSUME NEW q \in [RegBytes -> 0 .. B-1]
    PROVE  Fields(q) \in Config /\ StartBit(q) \in BOOLEAN
<1>0. B \in Nat \ {0} /\ W16 = B * B /\ Ch \in {0, 16} /\ W32 \in Nat \ {0}
  BY ByteAssumption, ChannelAssumption, W32Positive
<1>1. \A i \in 0 .. 15 : Ch + i \in RegBytes
  BY <1>0 DEF RegBytes
<1>2. \A i \in RegBytes : q[i] \in 0 .. B-1
  OBVIOUS
<1>3. \A a \in 0 .. B-1, b \in 0 .. B-1 : a + B * b \in 0 .. W16-1
  <2> TAKE a \in 0 .. B-1, b \in 0 .. B-1
  <2>1. B * b <= B * (B-1) /\ B * b \in Nat
    BY <1>0
  <2>2. B * (B-1) = W16 - B
    BY <1>0
  <2> QED
    BY <1>0, <2>1, <2>2
<1>4. \A i \in RegBytes : i + 1 \in RegBytes => Half(q, i) \in 0 .. W16-1
  BY <1>2, <1>3 DEF Half
<1>5. \A i \in RegBytes : i + 1 \in RegBytes /\ i + 2 \in RegBytes /\ i + 3 \in RegBytes
         => Word(q, i) \in 0 .. W32-1
  <2> TAKE i \in RegBytes
  <2> HAVE i + 1 \in RegBytes /\ i + 2 \in RegBytes /\ i + 3 \in RegBytes
  <2>1. (i + 2) + 1 = i + 3
    BY DEF RegBytes
  <2>2. Half(q, i) \in Int /\ Half(q, i + 2) \in Int
    BY <1>4, <2>1
  <2>3. Half(q, i) + W16 * Half(q, i + 2) \in Int
    BY <2>2, WidthAssumption
  <2> QED
    BY <1>0, <2>3, DivMod DEF Word
<1>6. /\ Word(q, Ch) \in 0 .. W32-1 /\ Word(q, Ch + 4) \in 0 .. W32-1
      /\ Half(q, Ch + 8) \in 0 .. W16-1 /\ Half(q, Ch + 10) \in 0 .. W16-1
  BY <1>0, <1>4, <1>5 DEF RegBytes
<1>7. q[Ch + 12] \in 0 .. W16-1 /\ q[Ch + 13] \in 0 .. W16-1
  <2>1. q[Ch + 12] \in 0 .. B-1 /\ q[Ch + 13] \in 0 .. B-1
    BY <1>1, <1>2
  <2>2. B <= W16
    BY <1>0
  <2> QED
    BY <1>0, <2>1, <2>2
<1> QED
  BY <1>6, <1>7 DEF Fields, Config, StartBit

\* The fields come from the channel's fourteen bytes.
LEMMA FieldsSame ==
    ASSUME NEW q, NEW t, \A i \in Ch .. Ch + 13 : q[i] = t[i]
    PROVE  Fields(q) = Fields(t)
<1>1. Ch \in Nat
  BY ChannelAssumption
<1>2. /\ q[Ch] = t[Ch] /\ q[Ch + 1] = t[Ch + 1]
      /\ q[Ch + 2] = t[Ch + 2] /\ q[Ch + 3] = t[Ch + 3]
      /\ q[Ch + 4] = t[Ch + 4] /\ q[Ch + 5] = t[Ch + 5]
      /\ q[Ch + 6] = t[Ch + 6] /\ q[Ch + 7] = t[Ch + 7]
      /\ q[Ch + 8] = t[Ch + 8] /\ q[Ch + 9] = t[Ch + 9]
      /\ q[Ch + 10] = t[Ch + 10] /\ q[Ch + 11] = t[Ch + 11]
      /\ q[Ch + 12] = t[Ch + 12] /\ q[Ch + 13] = t[Ch + 13]
  BY <1>1
<1>3. /\ Ch + 2 + 1 = Ch + 3 /\ Ch + 4 + 1 = Ch + 5 /\ Ch + 4 + 2 = Ch + 6
      /\ Ch + 4 + 2 + 1 = Ch + 7 /\ Ch + 8 + 1 = Ch + 9 /\ Ch + 10 + 1 = Ch + 11
  BY <1>1
<1>4. /\ Half(q, Ch) = Half(t, Ch) /\ Half(q, Ch + 2) = Half(t, Ch + 2)
      /\ Half(q, Ch + 4) = Half(t, Ch + 4) /\ Half(q, Ch + 4 + 2) = Half(t, Ch + 4 + 2)
      /\ Half(q, Ch + 8) = Half(t, Ch + 8) /\ Half(q, Ch + 10) = Half(t, Ch + 10)
  <2>1. Ch + 4 + 2 = Ch + 6
    BY <1>1
  <2> QED
    BY <1>2, <1>3, <2>1 DEF Half
<1>5. Word(q, Ch) = Word(t, Ch) /\ Word(q, Ch + 4) = Word(t, Ch + 4)
  BY <1>4 DEF Word
<1> QED
  BY <1>2, <1>4, <1>5 DEF Fields

\* A byte after a store.
LEMMA WrittenByte ==
    ASSUME NEW q \in [RegBytes -> 0 .. B-1],
           NEW s \in [at : RegBytes, bytes : Seq(0 .. B-1)]
    PROVE  /\ Written(q, s) \in [RegBytes -> 0 .. B-1]
           /\ \A i \in RegBytes : Written(q, s)[i] =
                 IF Covers(s, i) THEN s.bytes[i - s.at + 1] ELSE q[i]
<1>1. \A i \in RegBytes : Written(q, s)[i] =
         IF Covers(s, i) THEN s.bytes[i - s.at + 1] ELSE q[i]
  BY DEF Written, Covers
<1>2. \A i \in RegBytes : Written(q, s)[i] \in 0 .. B-1
  <2> TAKE i \in RegBytes
  <2>1. CASE Covers(s, i)
    <3> DEFINE b == s.bytes
               a == s.at
               V == 0 .. B-1
    <3>1. b \in Seq(V) /\ a \in RegBytes
      OBVIOUS
    <3>2. i - a \in 0 .. Len(b) - 1
      BY <2>1 DEF Covers
    <3> HIDE DEF a, b, V
    <3>3. i - a + 1 \in 1 .. Len(b)
      <4>1. i \in Int /\ a \in Int /\ Len(b) \in Nat
        BY <3>1 DEF RegBytes
      <4> QED
        BY <3>2, <4>1
    <3>4. b[i - a + 1] \in V
      BY <3>1, <3>3
    <3> QED
      BY <1>1, <2>1, <3>4 DEF a, b, V
  <2>2. CASE ~Covers(s, i)
    BY <1>1, <2>2
  <2> QED
    BY <2>1, <2>2
<1> QED
  BY <1>1, <1>2 DEF Written

\* The last store to a byte is what its program leaves there.
LEMMA LeftByte ==
    ASSUME NEW stores \in Seq([at : RegBytes, bytes : Seq(0 .. B-1)]),
           NEW i \in RegBytes, NEW k \in 1 .. Len(stores), LastTo(stores, i, k)
    PROVE  Left(stores)[i] = stores[k].bytes[i - stores[k].at + 1]
<1>1. \A j \in 1 .. Len(stores) : LastTo(stores, i, j) => j = k
  <2> TAKE j \in 1 .. Len(stores)
  <2> HAVE LastTo(stores, i, j)
  <2>1. j \in Nat /\ k \in Nat /\ Len(stores) \in Nat
    OBVIOUS
  <2>2. ~(j < k) /\ ~(k < j)
    BY <2>1 DEF LastTo
  <2> QED
    BY <2>1, <2>2
<1>2. (CHOOSE j \in 1 .. Len(stores) : LastTo(stores, i, j)) = k
  BY <1>1
<1> QED
  BY <1>2 DEF Left

\* The next store of a program that has made k.
LEMMA NextStore ==
    ASSUME NEW p, Sound(p), NEW k \in 0 .. Len(p.stores) - 1
    PROVE  /\ Len(p.stores) \in Nat /\ k \in Nat /\ k + 1 \in 1 .. Len(p.stores)
           /\ p.stores[k + 1] \in [at : RegBytes, bytes : Seq(0 .. B-1)]
<1> DEFINE st == p.stores
           S == [at : RegBytes, bytes : Seq(0 .. B-1)]
<1>1. st \in Seq(S)
  BY DEF Sound
<1> HIDE DEF st, S
<1>2. Len(st) \in Nat
  BY <1>1
<1>3. k \in Nat /\ k + 1 \in 1 .. Len(st)
  BY <1>2 DEF st
<1>4. st[k + 1] \in S
  BY <1>1, <1>3
<1> QED
  BY <1>2, <1>3, <1>4 DEF st, S

\* A store brings every byte one store nearer to what its program leaves.
LEMMA StoreByte ==
    ASSUME NEW p, Sound(p), NEW q \in [RegBytes -> 0 .. B-1],
           NEW k \in 0 .. Len(p.stores) - 1, NEW i \in RegBytes,
           \/ q[i] = Left(p.stores)[i]
           \/ \E j \in k + 1 .. Len(p.stores) : Covers(p.stores[j], i)
    PROVE  \/ Written(q, p.stores[k + 1])[i] = Left(p.stores)[i]
           \/ \E j \in k + 2 .. Len(p.stores) : Covers(p.stores[j], i)
<1> DEFINE st == p.stores
           n == Len(st)
<1>1. st \in Seq([at : RegBytes, bytes : Seq(0 .. B-1)])
  BY DEF Sound
<1>2. n \in Nat /\ k \in Nat /\ k + 1 \in 1 .. n
  BY NextStore
<1>3. st[k + 1] \in [at : RegBytes, bytes : Seq(0 .. B-1)]
  BY NextStore
<1>8. q[i] = Left(st)[i] \/ \E j \in k + 1 .. n : Covers(st[j], i)
  OBVIOUS
<1> HIDE DEF st, n
<1>4. Written(q, st[k + 1])[i] =
         IF Covers(st[k + 1], i) THEN st[k + 1].bytes[i - st[k + 1].at + 1] ELSE q[i]
  BY <1>3, WrittenByte
<1> SUFFICES ASSUME ~\E j \in k + 2 .. n : Covers(st[j], i)
             PROVE  Written(q, st[k + 1])[i] = Left(st)[i]
  BY DEF st, n
<1>5. \A j \in k + 1 .. n : j = k + 1 \/ j \in k + 2 .. n
  BY <1>2
<1>6. CASE Covers(st[k + 1], i)
  <2>1. LastTo(st, i, k + 1)
    BY <1>2, <1>6 DEF LastTo, n
  <2>2. Left(st)[i] = st[k + 1].bytes[i - st[k + 1].at + 1]
    BY <1>1, <1>2, <2>1, LeftByte DEF n
  <2> QED
    BY <1>4, <1>6, <2>2
<1>7. CASE ~Covers(st[k + 1], i)
  BY <1>4, <1>5, <1>7, <1>8
<1> QED
  BY <1>6, <1>7

\* So the last store of a program leaves all of them as the program does.
LEMMA LastStore ==
    ASSUME NEW p, Sound(p), NEW q \in [RegBytes -> 0 .. B-1],
           NEW k \in 0 .. Len(p.stores) - 1, k + 1 = Len(p.stores),
           \A i \in Ch .. Ch + 13 :
               \/ q[i] = Left(p.stores)[i]
               \/ \E j \in k + 1 .. Len(p.stores) : Covers(p.stores[j], i)
    PROVE  /\ Fields(Written(q, p.stores[k + 1])) = p.job
           /\ StartBit(Written(q, p.stores[k + 1]))
<1> DEFINE st == p.stores
           n == Len(st)
           r == Written(q, st[k + 1])
<1>1. /\ st \in Seq([at : RegBytes, bytes : Seq(0 .. B-1)])
      /\ Covers(st[n], Ch + 14) /\ Fields(Left(st)) = p.job /\ StartBit(Left(st))
  BY DEF Sound
<1>2. n \in Nat /\ k \in Nat /\ k + 1 \in 1 .. n /\ ~(k + 2 <= n)
  BY NextStore
<1>3. Ch + 14 \in RegBytes /\ \A i \in Ch .. Ch + 13 : i \in RegBytes
  BY ChannelBytes
<1>4. \A i \in Ch .. Ch + 13 : r[i] = Left(st)[i]
  BY <1>2, <1>3, StoreByte
<1>5. r[Ch + 14] = Left(st)[Ch + 14]
  <2>1. r[Ch + 14] = Left(st)[Ch + 14] \/ \E j \in k + 2 .. n : Covers(st[j], Ch + 14)
    <3>1. \E j \in k + 1 .. n : Covers(st[j], Ch + 14)
      BY <1>1, <1>2
    <3> QED
      BY <1>3, <3>1, StoreByte
  <2> QED
    BY <1>2, <2>1
<1>6. Fields(r) = Fields(Left(st))
  BY <1>4, FieldsSame
<1> QED
  BY <1>1, <1>5, <1>6 DEF StartBit

\* Before it, a start bit that is left from the job before is cleared, and
\* none is set.
LEMMA EarlierStore ==
    ASSUME NEW p, Sound(p), NEW q \in [RegBytes -> 0 .. B-1],
           NEW k \in 0 .. Len(p.stores) - 1, k + 1 < Len(p.stores),
           StartBit(q) => \E j \in k + 1 .. Len(p.stores) - 1 :
                              Covers(p.stores[j], Ch + 14)
    PROVE  /\ StartBit(Written(q, p.stores[k + 1])) => StartBit(q)
           /\ StartBit(Written(q, p.stores[k + 1])) =>
                  \E j \in k + 2 .. Len(p.stores) - 1 : Covers(p.stores[j], Ch + 14)
<1> DEFINE st == p.stores
           n == Len(st)
           s == st[k + 1]
           i == Ch + 14
           r == Written(q, s)
<1>1. \A j \in 1 .. n - 1 : Covers(st[j], i) => st[j].bytes[i - st[j].at + 1] % 2 = 0
  BY DEF Sound
<1>2. n \in Nat /\ k \in Nat /\ k + 1 \in 1 .. n /\ k + 1 \in 1 .. n - 1
  BY NextStore
<1>3. s \in [at : RegBytes, bytes : Seq(0 .. B-1)] /\ i \in RegBytes
  BY NextStore, ChannelBytes
<1>4. (StartBit(q) <=> q[i] % 2 = 1) /\ (StartBit(r) <=> r[i] % 2 = 1)
  BY DEF StartBit
<1>5. StartBit(q) => \E j \in k + 1 .. n - 1 : Covers(st[j], i)
  OBVIOUS
<1> HIDE DEF i, st, n
<1>6. r[i] = IF Covers(s, i) THEN s.bytes[i - s.at + 1] ELSE q[i]
  BY <1>3, WrittenByte
<1>7. Covers(s, i) => ~StartBit(r)
  <2> SUFFICES ASSUME Covers(s, i) PROVE ~StartBit(r)
    OBVIOUS
  <2>1. s.bytes[i - s.at + 1] % 2 = 0
    BY <1>1, <1>2
  <2> QED
    BY <1>4, <1>6, <2>1
<1>8. StartBit(r) => StartBit(q)
  BY <1>4, <1>6, <1>7
<1>9. StartBit(r) => \E j \in k + 2 .. n - 1 : Covers(st[j], i)
  BY <1>2, <1>5, <1>7, <1>8
<1> QED
  BY <1>8, <1>9 DEF i, st, n

(***************************************************************************)
(* JobInv is inductive                                                     *)
(***************************************************************************)
\* The reset clears the bytes, and they configure nothing.
LEMMA ZeroBytes ==
    LET z == [i \in RegBytes |-> 0]
    IN  z \in [RegBytes -> 0 .. B-1] /\ Fields(z) = ResetConfig /\ ~StartBit(z)
<1> DEFINE z == [i \in RegBytes |-> 0]
<1>1. z \in [RegBytes -> 0 .. B-1]
  BY ByteAssumption
<1>2. \A i \in 0 .. 14 : z[Ch + i] = 0
  <2>1. \A i \in 0 .. 14 : Ch + i \in RegBytes
    BY ChannelAssumption DEF RegBytes
  <2> QED
    BY <2>1
<1> HIDE DEF z
<1>3. B * 0 = 0 /\ W16 * 0 = 0 /\ 0 % W32 = 0
  BY ByteAssumption, WidthAssumption, W32Positive, ModSmall
<1>4. \A i \in 0 .. 13 : Half(z, Ch + i) = 0
  <2> TAKE i \in 0 .. 13
  <2>1. z[Ch + i] = 0 /\ z[Ch + (i + 1)] = 0 /\ (Ch + i) + 1 = Ch + (i + 1)
    BY <1>2, ChannelAssumption
  <2> QED
    BY <1>3, <2>1 DEF Half
<1>5. \A i \in 0 .. 11 : Word(z, Ch + i) = 0
  <2> TAKE i \in 0 .. 11
  <2>1. Half(z, Ch + i) = 0 /\ Half(z, Ch + (i + 2)) = 0 /\ (Ch + i) + 2 = Ch + (i + 2)
    BY <1>4, ChannelAssumption
  <2> QED
    BY <1>3, <2>1 DEF Word
<1>6. /\ Word(z, Ch + 0) = 0 /\ Word(z, Ch + 4) = 0
      /\ Half(z, Ch + 8) = 0 /\ Half(z, Ch + 10) = 0
      /\ z[Ch + 12] = 0 /\ z[Ch + 13] = 0 /\ z[Ch + 14] = 0 /\ Ch + 0 = Ch
  BY <1>2, <1>4, <1>5, ChannelAssumption
<1>7. Fields(z) = ResetConfig /\ ~StartBit(z)
  BY <1>6 DEF Fields, ResetConfig, StartBit
<1> QED
  BY <1>1, <1>7 DEF z

LEMMA JobInitInv == JobInit => JobInv
<1> SUFFICES ASSUME JobInit PROVE JobInv
  OBVIOUS
<1>1. Registers
  BY InitIInv, IInvRegisters DEF JobInit
<1>2. Bytes
  <2> DEFINE z == [i \in RegBytes |-> 0]
  <2>1. z \in [RegBytes -> 0 .. B-1] /\ Fields(z) = ResetConfig /\ StartBit(z) = FALSE
    BY ZeroBytes
  <2>2. reg_q = z /\ cfg = ResetConfig /\ IMP_ST = FALSE
    BY DEF JobInit, Init
  <2> HIDE DEF z
  <2> QED
    BY <2>1, <2>2 DEF Bytes
<1>3. ~Busy /\ ~processing /\ todo = << >>
  BY DEF JobInit, Init, Busy, Pending, all_proc_trg
<1> QED
  BY <1>1, <1>2, <1>3 DEF JobInv, Filling, Complete, StartQuiet

\* What is left after the head of a sequence.
LEMMA TailOf ==
    ASSUME NEW S, NEW s \in Seq(S), s # << >>
    PROVE  /\ Len(s) \in Nat \ {0} /\ Head(s) = s[1]
           /\ Tail(s) \in Seq(S) /\ Len(Tail(s)) = Len(s) - 1
           /\ \A j \in 1 .. Len(s) - 1 : Tail(s)[j] = s[j + 1]
           /\ (Tail(s) = << >> <=> Len(s) = 1)
<1>1. /\ Tail(s) \in Seq(S) /\ Len(Tail(s)) = Len(s) - 1
      /\ \A j \in 1 .. Len(Tail(s)) : Tail(s)[j] = s[j + 1]
  BY HeadTailProperties
<1>2. (Len(s) = 0 <=> s = << >>) /\ (Len(Tail(s)) = 0 <=> Tail(s) = << >>)
  BY <1>1, EmptySeq
<1>3. Len(s) \in Nat /\ Head(s) = s[1]
  OBVIOUS
<1> QED
  BY <1>1, <1>2, <1>3

\* The program's next store, and what it does.
LEMMA StoreNth ==
    ASSUME JobInv, SoundPrograms, Store
    PROVE  /\ ~Busy
           /\ \E p \in Programs : \E k \in 0 .. Len(p.stores) - 1 :
                 /\ Sound(p) /\ FillingBehind(p, k)
                 /\ todo # << >> /\ reg_q' = Written(reg_q, p.stores[k + 1])
<1>1. todo # << >> /\ ~Busy
  BY DEF Store, JobInv, Filling
<1>2. PICK p \in Programs : \E k \in 0 .. Len(p.stores) - 1 : FillingBehind(p, k)
  BY <1>1 DEF JobInv, Filling
<1>3. PICK k \in 0 .. Len(p.stores) - 1 : FillingBehind(p, k)
  BY <1>2
<1>4. Sound(p)
  BY DEF SoundPrograms
<1>5. Len(p.stores) \in Nat /\ k \in Nat /\ k + 1 \in 1 .. Len(p.stores)
  BY <1>4, NextStore
<1>6. Head(todo) = p.stores[k + 1]
  <2>1. Head(todo) = todo[1]
    BY <1>1, <1>3 DEF FillingBehind
  <2>2. 1 \in 1 .. Len(p.stores) - k
    BY <1>5
  <2> QED
    BY <1>3, <2>1, <2>2 DEF FillingBehind
<1> QED
  BY <1>1, <1>3, <1>4, <1>6 DEF Store

\* The last store finds a start bit cleared and leaves a job and its start.
LEMMA LastStoreSets ==
    ASSUME JobInv, SoundPrograms, Store, Tail(todo) = << >>
    PROVE  ~IMP_ST /\ Fields(reg_q') = wanted /\ StartBit(reg_q')
           /\ \E p \in Programs : wanted = p.job
<1>1. PICK p \in Programs : \E k \in 0 .. Len(p.stores) - 1 :
                 /\ Sound(p) /\ FillingBehind(p, k)
                 /\ todo # << >> /\ reg_q' = Written(reg_q, p.stores[k + 1])
  BY StoreNth
<1>2. PICK k \in 0 .. Len(p.stores) - 1 :
                 /\ Sound(p) /\ FillingBehind(p, k)
                 /\ todo # << >> /\ reg_q' = Written(reg_q, p.stores[k + 1])
  BY <1>1
<1>3. Len(p.stores) \in Nat /\ k \in Nat /\ k + 1 \in 1 .. Len(p.stores)
  BY <1>2, NextStore
<1>4. k + 1 = Len(p.stores)
  <2> DEFINE S == [at : RegBytes, bytes : Seq(0 .. B-1)]
  <2>1. Len(todo) = Len(p.stores) - k /\ todo \in Seq(S) /\ todo # << >>
    BY <1>2 DEF FillingBehind
  <2> HIDE DEF S
  <2>2. Len(todo) = 1
    BY <2>1, TailOf
  <2> DEFINE n == Len(p.stores)
  <2>3. n \in Nat /\ k \in Nat /\ n - k = 1
    BY <1>3, <2>1, <2>2
  <2> HIDE DEF n
  <2>4. k + 1 = n
    BY <2>3
  <2> QED
    BY <2>4 DEF n
<1>5. reg_q \in [RegBytes -> 0 .. B-1] /\ IMP_ST = StartBit(reg_q)
  BY DEF JobInv, Bytes
<1>6. /\ wanted = p.job
      /\ StartBit(reg_q) => \E j \in k + 1 .. Len(p.stores) - 1 : Covers(p.stores[j], Ch + 14)
      /\ \A i \in Ch .. Ch + 13 :
             \/ reg_q[i] = Left(p.stores)[i]
             \/ \E j \in k + 1 .. Len(p.stores) : Covers(p.stores[j], i)
  BY <1>2 DEF FillingBehind
<1>7. ~StartBit(reg_q)
  BY <1>3, <1>4, <1>6
<1>8. /\ Fields(Written(reg_q, p.stores[k + 1])) = p.job
      /\ StartBit(Written(reg_q, p.stores[k + 1]))
  BY <1>2, <1>4, <1>5, <1>6, LastStore
<1> QED
  BY <1>2, <1>5, <1>6, <1>7, <1>8

\* Any other leaves the program one store further and starts nothing.
LEMMA EarlierStoreFills ==
    ASSUME JobInv, SoundPrograms, Store, Tail(todo) # << >>
    PROVE  /\ StartBit(reg_q') => IMP_ST
           /\ \E p \in Programs : \E k \in 0 .. Len(p.stores) - 1 : FillingBehind(p, k)'
<1>1. PICK p \in Programs : \E k \in 0 .. Len(p.stores) - 1 :
                 /\ Sound(p) /\ FillingBehind(p, k)
                 /\ todo # << >> /\ reg_q' = Written(reg_q, p.stores[k + 1])
  BY StoreNth
<1>2. PICK k \in 0 .. Len(p.stores) - 1 :
                 /\ Sound(p) /\ FillingBehind(p, k)
                 /\ todo # << >> /\ reg_q' = Written(reg_q, p.stores[k + 1])
  BY <1>1
<1> DEFINE st == p.stores
           n == Len(st)
           S == [at : RegBytes, bytes : Seq(0 .. B-1)]
<1>3. n \in Nat /\ k \in Nat /\ k + 1 \in 1 .. n
  BY <1>2, NextStore
<1>4. reg_q \in [RegBytes -> 0 .. B-1] /\ IMP_ST = StartBit(reg_q)
  BY DEF JobInv, Bytes
<1>5. /\ wanted = p.job /\ todo \in Seq(S) /\ Len(todo) = n - k
      /\ \A j \in 1 .. n - k : todo[j] = st[k + j]
      /\ \A i \in Ch .. Ch + 13 : \/ reg_q[i] = Left(st)[i]
                                  \/ \E j \in k + 1 .. n : Covers(st[j], i)
      /\ StartBit(reg_q) => \E j \in k + 1 .. n - 1 : Covers(st[j], Ch + 14)
  BY <1>2 DEF FillingBehind
<1>6. todo' = Tail(todo) /\ wanted' = wanted
  BY DEF Store
<1>7. /\ Tail(todo) \in Seq(S) /\ Len(Tail(todo)) = (n - k) - 1
      /\ \A j \in 1 .. (n - k) - 1 : Tail(todo)[j] = todo[j + 1]
  <2> HIDE DEF S, n
  <2> QED
    BY <1>2, <1>5, TailOf
<1>8. k + 1 < n
  <2> HIDE DEF S, n
  <2>1. Len(todo) # 1 /\ Len(todo) \in Nat \ {0}
    BY <1>2, <1>5, TailOf
  <2> QED
    BY <1>3, <1>5, <2>1
<1>9. /\ Len(todo') = n - (k + 1)
      /\ \A j \in 1 .. n - (k + 1) : todo'[j] = st[(k + 1) + j]
  <2> HIDE DEF st, n
  <2>1. \A j \in 1 .. n - (k + 1) : /\ j \in 1 .. (n - k) - 1 /\ j + 1 \in 1 .. n - k
                                    /\ k + (j + 1) = (k + 1) + j
    BY <1>3
  <2> QED
    BY <1>3, <1>5, <1>6, <1>7, <2>1
<1>10. \A i \in Ch .. Ch + 13 : \/ reg_q'[i] = Left(st)[i]
                                \/ \E j \in k + 2 .. n : Covers(st[j], i)
  BY <1>2, <1>4, <1>5, ChannelBytes, StoreByte
<1>11. /\ StartBit(reg_q') => StartBit(reg_q)
       /\ StartBit(reg_q') => \E j \in k + 2 .. n - 1 : Covers(st[j], Ch + 14)
  BY <1>2, <1>4, <1>5, <1>8, EarlierStore
<1>12. k + 1 \in 0 .. n - 1 /\ (k + 1) + 1 = k + 2
  BY <1>3, <1>8
<1>13. FillingBehind(p, k + 1)'
  BY <1>5, <1>6, <1>7, <1>9, <1>10, <1>11, <1>12 DEF FillingBehind
<1> QED
  BY <1>4, <1>11, <1>12, <1>13

\* An edge makes the engine busy only if the start bit rises, and then does.
LEMMA EngineBusy ==
    ASSUME Registers, Engine
    PROVE  /\ Busy' => Busy \/ (IMP_ST' /\ ~IMP_ST)
           /\ IMP_ST' /\ ~IMP_ST => Pending'
<1>1. imp_st_dly' = << IMP_ST, imp_st_dly[1] >>
  BY DEF Engine
<1>2. processing' => Busy
  BY DEF Engine, Advance, ProcessingStep, Busy, Pending
<1>3. imp_st_dly'[1] = IMP_ST /\ imp_st_dly'[2] = imp_st_dly[1]
  BY <1>1
<1>4. imp_st_dly[1] \in BOOLEAN /\ IMP_ST \in BOOLEAN
  BY DEF Registers
<1>5. all_proc_trg' => IMP_ST /\ ~imp_st_dly[1]
  BY <1>1, <1>4 DEF all_proc_trg
<1> QED
  BY <1>2, <1>3, <1>5 DEF Busy, Pending

\* What an edge owes to the engine, whatever the program does meanwhile.
LEMMA JobClkParts ==
    ASSUME JobInv, JobClk, reg_q' \in [RegBytes -> 0 .. B-1],
           Busy => wanted' = wanted /\ (IMP_ST' => IMP_ST)
    PROVE  /\ Registers' /\ Bytes' /\ StartQuiet'
           /\ processing' => job' = wanted'
<1>1. Registers /\ Engine /\ StartQuiet /\ Complete
  BY DEF JobInv, JobClk
<1>2. /\ cfg' = Fields(reg_q') /\ IMP_ST' = StartBit(reg_q')
      /\ ready' \in BOOLEAN
  BY DEF JobClk
<1>3. Bytes'
  BY <1>2 DEF Bytes
<1>4. cfg' \in Config /\ IMP_ST' \in BOOLEAN
  BY <1>2, FieldsType
<1>5. Registers'
  BY <1>1, <1>2, <1>4, EngineStep
<1>6. StartQuiet'
  BY <1>1, EngineStartQuiet
<1>7. processing' => job' = wanted'
  <2> SUFFICES ASSUME processing' PROVE job' = wanted'
    OBVIOUS
  <2>1. CASE all_proc_trg
    <3>1. Busy /\ job' = cfg
      BY <1>1, <2>1 DEF Busy, Pending, Engine, StartUp
    <3> QED
      BY <1>1, <3>1 DEF Complete
  <2>2. CASE ~all_proc_trg
    <3>1. processing /\ job' = job
      BY <1>1, <2>2 DEF Engine, Advance, ProcessingStep
    <3> QED
      BY <3>1 DEF JobInv, Busy
  <2> QED
    BY <2>1, <2>2
<1> QED
  BY <1>3, <1>5, <1>6, <1>7

LEMMA StoreJobInv ==
    ASSUME JobInv, SoundPrograms, JobClk, Store
    PROVE  JobInv'
<1>1. ~Busy /\ wanted' = wanted /\ todo' = Tail(todo)
  BY StoreNth DEF Store
<1>2. Registers /\ Engine /\ cfg' = Fields(reg_q') /\ IMP_ST' = StartBit(reg_q')
  BY DEF JobInv, JobClk
<1>3. reg_q' \in [RegBytes -> 0 .. B-1]
  <2>1. PICK p \in Programs : \E k \in 0 .. Len(p.stores) - 1 :
            Sound(p) /\ reg_q' = Written(reg_q, p.stores[k + 1])
    BY StoreNth
  <2>2. PICK k \in 0 .. Len(p.stores) - 1 :
            Sound(p) /\ reg_q' = Written(reg_q, p.stores[k + 1])
    BY <2>1
  <2>3. p.stores[k + 1] \in [at : RegBytes, bytes : Seq(0 .. B-1)]
    BY <2>2, NextStore
  <2> QED
    BY <2>2, <2>3, WrittenByte DEF JobInv, Bytes
<1>4. /\ Registers' /\ Bytes' /\ StartQuiet'
      /\ processing' => job' = wanted'
  BY <1>1, <1>3, JobClkParts
<1>5. CASE Tail(todo) = << >>
  <2>1. Filling'
    BY <1>1, <1>5 DEF Filling
  <2>2. Complete'
    BY <1>1, <1>2, <1>5, LastStoreSets DEF Complete
  <2> QED
    BY <1>4, <2>1, <2>2 DEF JobInv
<1>6. CASE Tail(todo) # << >>
  <2>1. ~Busy'
    BY <1>1, <1>2, <1>6, EarlierStoreFills, EngineBusy
  <2>2. \E p \in Programs : \E k \in 0 .. Len(p.stores) - 1 : FillingBehind(p, k)'
    BY <1>6, EarlierStoreFills
  <2> QED
    BY <1>4, <2>1, <2>2 DEF JobInv, Filling, Complete
<1> QED
  BY <1>5, <1>6

\* Nothing of a sound program is made yet when it is set up.
LEMMA SetUpFills ==
    ASSUME JobInv, SoundPrograms, SetUp
    PROVE  \E p \in Programs : \E k \in 0 .. Len(p.stores) - 1 : FillingBehind(p, k)'
<1>1. PICK p \in Programs : todo' = p.stores /\ wanted' = p.job
  BY DEF SetUp
<1> DEFINE st == p.stores
           n == Len(st)
<1>2. Sound(p) /\ reg_q' = reg_q
  BY DEF SoundPrograms, SetUp
<1>3. /\ st \in Seq([at : RegBytes, bytes : Seq(0 .. B-1)]) /\ n \in Nat /\ n > 0
      /\ \A i \in Ch .. Ch + 13 : \E k \in 1 .. n : LastTo(st, i, k)
      /\ \E k \in 1 .. n - 1 : Covers(st[k], Ch + 14)
  BY <1>2 DEF Sound
<1>4. \A i \in Ch .. Ch + 13 : \E j \in 0 + 1 .. n : Covers(st[j], i)
  BY <1>3 DEF LastTo
<1>5. \A j \in 1 .. n : j = 0 + j
  OBVIOUS
<1>6. n - 0 = n /\ 0 + 1 = 1 /\ 0 \in 0 .. n - 1
  BY <1>3
<1>7. FillingBehind(p, 0)'
  BY <1>1, <1>3, <1>4, <1>5, <1>6 DEF FillingBehind
<1> QED
  BY <1>6, <1>7

LEMMA SetUpJobInv ==
    ASSUME JobInv, SoundPrograms, JobClk, SetUp
    PROVE  JobInv'
<1>1. ~Busy /\ reg_q' = reg_q
  BY DEF SetUp
<1>2. Registers /\ Engine /\ IMP_ST' = IMP_ST
  BY <1>1 DEF JobInv, JobClk, Bytes
<1>3. /\ Registers' /\ Bytes' /\ StartQuiet'
      /\ processing' => job' = wanted'
  BY <1>1, JobClkParts DEF JobInv, Bytes
<1>4. ~Busy'
  BY <1>1, <1>2, EngineBusy
<1> QED
  BY <1>3, <1>4, SetUpFills DEF JobInv, Filling, Complete

LEMMA WaitJobInv ==
    ASSUME JobInv, JobClk, Wait
    PROVE  JobInv'
<1>1. reg_q' = reg_q /\ todo' = todo /\ wanted' = wanted
  BY DEF Wait
<1>2. Registers /\ Engine /\ IMP_ST' = IMP_ST /\ cfg' = cfg
  BY <1>1 DEF JobInv, JobClk, Bytes
<1>3. /\ Registers' /\ Bytes' /\ StartQuiet'
      /\ processing' => job' = wanted'
  BY <1>1, <1>2, JobClkParts DEF JobInv, Bytes
<1>4. Busy' => Busy
  BY <1>2, EngineBusy
<1>5. Filling'
  BY <1>1, <1>4 DEF JobInv, Filling, FillingBehind
<1>6. Complete'
  BY <1>1, <1>2, <1>4 DEF JobInv, Complete
<1> QED
  BY <1>3, <1>5, <1>6 DEF JobInv

LEMMA ResetJobInv ==
    ASSUME JobInv, JobReset
    PROVE  JobInv'
<1>1. Reset /\ todo' = << >> /\ reg_q' = [i \in RegBytes |-> 0]
  BY DEF JobReset
<1>2. Registers'
  <2>1. 0 \in 0 .. W16 /\ 0 \in 0 .. W16-1 /\ 0 \in 0 .. W32-1
    BY WidthAssumption
  <2>2. << FALSE, FALSE >> \in BOOLEAN \X BOOLEAN
    OBVIOUS
  <2> QED
    BY <1>1, <2>1, <2>2, ResetConfigType DEF Reset, JobInv, Registers, Lockstep
<1>3. Bytes'
  <2> DEFINE z == [i \in RegBytes |-> 0]
  <2>1. z \in [RegBytes -> 0 .. B-1] /\ Fields(z) = ResetConfig /\ StartBit(z) = FALSE
    BY ZeroBytes
  <2>2. reg_q' = z /\ cfg' = ResetConfig /\ IMP_ST' = FALSE
    BY <1>1 DEF Reset
  <2> HIDE DEF z
  <2> QED
    BY <2>1, <2>2 DEF Bytes
<1>4. ~Busy' /\ ~processing'
  BY <1>1 DEF Reset, Busy, Pending, all_proc_trg
<1> QED
  BY <1>1, <1>2, <1>3, <1>4 DEF JobInv, Filling, Complete, StartQuiet

LEMMA NextJobInv == SoundPrograms /\ JobInv /\ [JobNext]_jobVars => JobInv'
<1> SUFFICES ASSUME SoundPrograms, JobInv, [JobNext]_jobVars PROVE JobInv'
  OBVIOUS
<1>1. CASE JobClk
  BY <1>1, StoreJobInv, SetUpJobInv, WaitJobInv DEF JobClk
<1>2. CASE JobReset
  BY <1>2, ResetJobInv
<1>3. CASE UNCHANGED jobVars
  BY <1>3 DEF jobVars, JobInv, Registers, Bytes, Filling, FillingBehind, Complete,
              StartQuiet, Busy, Pending, all_proc_trg, Lockstep
<1> QED
  BY <1>1, <1>2, <1>3 DEF JobNext

LEMMA JobInductive == SoundPrograms => (JobSpec => []JobInv)
<1> SUFFICES ASSUME SoundPrograms PROVE JobSpec => []JobInv
  OBVIOUS
<1>1. JobInv /\ [JobNext]_jobVars => JobInv'
  BY NextJobInv
<1> QED
  BY <1>1, JobInitInv, PTL DEF JobSpec

(***************************************************************************)
(* What sound programs get                                                 *)
(***************************************************************************)
\* The engine (mst_imp_r_ch.sv, mst_imp_w_ch.sv) runs the job that the program
\* was written to start: a start bit that a program sets takes the whole of
\* its job with it, whatever the registers held before.
THEOREM RunsItsProgram == SoundPrograms => (JobSpec => []RunsWhatIsWanted)
<1>1. JobInv => RunsWhatIsWanted
  BY DEF JobInv, RunsWhatIsWanted
<1> QED
  BY <1>1, JobInductive, PTL

\* A sound program's last store (the start bit, main.c:40 and :50) starts the
\* engine, also when the job before left that bit set.
THEOREM ProgramsStart == SoundPrograms => (JobSpec => LastStoreStarts)
<1> SUFFICES ASSUME SoundPrograms PROVE JobSpec => LastStoreStarts
  OBVIOUS
<1> DEFINE Ends == Store /\ Tail(todo) = << >>
<1>1. JobInv /\ [JobNext]_jobVars => (Ends => Pending')
  <2> SUFFICES ASSUME JobInv, [JobNext]_jobVars, Store, Tail(todo) = << >>
               PROVE  Pending'
    OBVIOUS
  <2>1. StartBit(reg_q') /\ ~IMP_ST
    BY LastStoreSets
  <2>2. CASE JobClk
    BY <2>1, <2>2, EngineBusy DEF JobInv, JobClk
  <2>3. CASE JobReset
    BY <2>1, <2>3, ZeroBytes DEF JobReset
  <2>4. CASE UNCHANGED jobVars
    <3>1. reg_q' = reg_q
      BY <2>4 DEF jobVars
    <3> QED
      BY <2>1, <3>1 DEF JobInv, Bytes
  <2> QED
    BY <2>2, <2>3, <2>4 DEF JobNext
<1>2. JobInv /\ [JobNext]_jobVars => [Ends => Pending']_jobVars
  BY <1>1
<1> QED
  BY <1>2, JobInductive, PTL DEF JobSpec, LastStoreStarts

\* Jobs that the 16-bit ends can express.
FittingPrograms == \A p \in Programs : Fits(p.job)

\* The jobs that IsRegionScan is about are those of the programs.
KnownPrograms == \A p \in Programs : p.job \in Configs

LEMMA JobNextOnPixel ==
    ASSUME SoundPrograms, FittingPrograms, JobInv, OnPixel, [JobNext]_jobVars
    PROVE  OnPixel'
<1>1. CASE JobClk
  <2>1. Registers /\ Engine
    BY <1>1 DEF JobInv, JobClk
  <2>2. Busy => cfg' = cfg
    <3> SUFFICES ASSUME Busy PROVE cfg' = cfg
      OBVIOUS
    <3>1. reg_q' = reg_q
      BY <1>1 DEF JobClk, Store, SetUp, Wait, JobInv, Filling
    <3> QED
      BY <1>1, <3>1 DEF JobClk, JobInv, Bytes
  <2>3. Busy => Fits(cfg)
    BY DEF JobInv, Complete, FittingPrograms
  <2> QED
    BY <2>1, <2>2, <2>3, StartOnPixel, StepOnPixel DEF Busy, Pending
<1>2. CASE JobReset
  BY <1>2 DEF JobReset, Reset, OnPixel
<1>3. CASE UNCHANGED jobVars
  BY <1>3 DEF jobVars, OnPixel, XEnd, YEnd
<1> QED
  BY <1>1, <1>2, <1>3 DEF JobNext

\* A program that leaves its running job alone keeps the address on the bus at
\* the pixel that the counters name.
THEOREM ProgramsOnPixel ==
    SoundPrograms /\ FittingPrograms => (JobSpec => []OnPixel)
<1> SUFFICES ASSUME SoundPrograms, FittingPrograms PROVE JobSpec => []OnPixel
  OBVIOUS
<1>1. JobInit => OnPixel
  BY DEF JobInit, Init, OnPixel
<1>2. JobInv /\ OnPixel /\ [JobNext]_jobVars => OnPixel'
  BY JobNextOnPixel
<1> QED
  BY <1>1, <1>2, JobInductive, PTL DEF JobSpec

\* Sound programs of jobs that fit, run one after another through the byte
\* registers, make the bus see RegionScan: each job's every pixel once, in row
\* order, and no other address.
THEOREM ProgramsScan ==
    SoundPrograms /\ FittingPrograms /\ KnownPrograms => (JobSpec => IsRegionScan)
<1> SUFFICES ASSUME SoundPrograms, FittingPrograms, KnownPrograms
             PROVE  JobSpec => IsRegionScan
  OBVIOUS
<1> DEFINE Inv == JobInv /\ OnPixel /\ Known
<1>1. JobInit => Inv
  BY JobInitInv DEF JobInit, Init, OnPixel, Known
<1>2. Inv /\ [JobNext]_jobVars => Inv'
  <2> SUFFICES ASSUME Inv, [JobNext]_jobVars PROVE Inv'
    OBVIOUS
  <2>1. JobInv' /\ OnPixel'
    BY NextJobInv, JobNextOnPixel
  <2>2. Known'
    <3>1. CASE JobClk
      <4>1. all_proc_trg => cfg \in Configs
        BY DEF JobInv, Complete, KnownPrograms, Busy, Pending
      <4>2. job' = IF all_proc_trg THEN cfg ELSE job
        BY <3>1 DEF JobClk, Engine, StartUp, Advance
      <4> QED
        BY <4>1, <4>2 DEF Known
    <3>2. CASE JobReset
      BY <3>2 DEF JobReset, Reset, Known
    <3>3. CASE UNCHANGED jobVars
      BY <3>3 DEF jobVars, Known
    <3> QED
      BY <3>1, <3>2, <3>3 DEF JobNext
  <2> QED
    BY <2>1, <2>2
<1>3. JobInit => Scan!Init
  BY DEF JobInit, Init, Scan!Init
<1>4. Inv => Regular /\ Known
  BY DEF JobInv, Complete, Busy, FittingPrograms, Regular
<1>5. /\ Inv /\ (Regular /\ Known) /\ Inv' /\ (Regular /\ Known)' /\ [JobNext]_jobVars
      => [Scan!Next]_(Scan!vars)
  <2> SUFFICES ASSUME Inv, Regular, Known, Inv', Regular', Known', [JobNext]_jobVars
               PROVE  [Scan!Next]_(Scan!vars)
    OBVIOUS
  <2>1. CASE JobClk
    BY <2>1, EngineRefines DEF JobClk, JobInv
  <2>2. CASE JobReset
    BY <2>2, ResetRefines DEF JobReset
  <2>3. CASE UNCHANGED jobVars
    BY <2>3 DEF jobVars, Scan!vars
  <2> QED
    BY <2>1, <2>2, <2>3 DEF JobNext
<1> HIDE DEF Inv
<1> QED
  BY <1>1, <1>2, <1>3, <1>4, <1>5, PTL DEF JobSpec, IsRegionScan, Scan!Spec
===============================================================================
