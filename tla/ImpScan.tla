------------------------------- MODULE ImpScan --------------------------------
(***************************************************************************)
(* The scan engine of the image master: the address generator that         *)
(* mst_imp_r_ch.sv (on AR) and mst_imp_w_ch.sv (on AW) share line for      *)
(* line.  A rising IMP_ST starts it on the rectangle held in the register  *)
(* file; it then offers one address after another until the last is        *)
(* accepted.  Names are the source's without their xt_ prefix; ar/aw is    *)
(* left out of axi_valid, axi_addr and ready.                              *)
(*                                                                         *)
(* The inputs are variables: their values now are what the next clock edge *)
(* samples, and every edge chooses new ones.                               *)
(***************************************************************************)
EXTENDS Integers

CONSTANTS
    W16,        \* values of a 16-bit register
    W32,        \* values of a 32-bit register
    Configs,    \* what the CPU writes to the register file
    MidJob      \* subset of {"config", "start"}: what it does during a job

ResetConfig == [hsize |-> 0, vsize |-> 0, minx |-> 0, miny |-> 0,
                baddr |-> 0, pitch |-> 0]

Config == [hsize : 0 .. W16-1, vsize : 0 .. W16-1,
           minx : 0 .. W16-1, miny : 0 .. W16-1,
           baddr : 0 .. W32-1, pitch : 0 .. W32-1]

ASSUME WidthAssumption == W16 \in Nat \ {0} /\ W32 \in Nat /\ W16 < W32
ASSUME ConfigAssumption == Configs \subseteq Config
ASSUME MidJobAssumption == MidJob \subseteq {"config", "start"}

VARIABLES
    cfg, IMP_ST, ready,     \* inputs: register file and bus
    imp_st_dly,             \* << newest, older >> samples of IMP_ST
    processing,
    xcnt, ycnt,             \* pixel in the row, row
    line_base,              \* address of the row's first pixel
    axi_valid, axi_addr,    \* outputs to the bus
    job                     \* (history) the configuration the job began with

inputs == << cfg, IMP_ST, ready >>
regs == << imp_st_dly, processing, xcnt, ycnt, line_base, axi_valid, axi_addr >>
vars == << cfg, IMP_ST, ready, imp_st_dly, processing, xcnt, ycnt, line_base,
           axi_valid, axi_addr, job >>

(***************************************************************************)
(* The wires                                                               *)
(***************************************************************************)
\* The last x and y, 16 bits wide: a size of 0 wraps.
XEnd(c) == (c.minx + c.hsize - 1) % W16
YEnd(c) == (c.miny + c.vsize - 1) % W16

\* Mutated: the start bit is a level.
TrgLevel == imp_st_dly[1]

all_proc_trg == imp_st_dly = << TRUE, FALSE >>

\* Mutated: the end of a row is recognised only when met exactly.
XcntEndExact == xcnt = XEnd(cfg)

xcnt_end == xcnt >= XEnd(cfg)
ycnt_end == ycnt >= YEnd(cfg)
ack == processing /\ ready
row_end == xcnt_end /\ ~ycnt_end
last == xcnt_end /\ ycnt_end

\* The address adders drop their carry.
Plus(a, b) == (a + b) % W32

(***************************************************************************)
(* The registers                                                           *)
(***************************************************************************)
StartUp == /\ processing' = TRUE /\ axi_valid' = TRUE
           /\ xcnt' = 0 /\ ycnt' = cfg.miny
           /\ line_base' = cfg.baddr /\ axi_addr' = cfg.baddr
           /\ job' = cfg

ProcessingStep == processing' = (processing /\ ~(last /\ ready))

\* Mutated: valid drops on the last pixel without waiting for ready.
ValidStepImpatient == axi_valid' = (axi_valid /\ ~last)

ValidStep == axi_valid' = (axi_valid /\ ~(last /\ ready))

\* Mutated: a row is counted whether or not the slave is ready.
CountStepHasty ==
    /\ xcnt' = IF ~ack THEN xcnt ELSE IF row_end THEN 0 ELSE xcnt + 1
    /\ ycnt' = IF row_end THEN ycnt + 1 ELSE ycnt

\* ycnt does not look at processing: an idle engine may creep towards YEnd,
\* and starting overwrites it.
CountStep == /\ xcnt' = IF ~ack THEN xcnt ELSE IF row_end THEN 0 ELSE xcnt + 1
             /\ ycnt' = IF row_end /\ ready THEN ycnt + 1 ELSE ycnt

\* Mutated: a new row goes on from the last pixel of the old one.
AddrStepFromPixel ==
    IF ack /\ row_end
    THEN /\ line_base' = Plus(line_base, cfg.pitch)
         /\ axi_addr' = Plus(axi_addr, cfg.pitch)
    ELSE /\ axi_addr' = IF ack THEN Plus(axi_addr, 4) ELSE axi_addr
         /\ UNCHANGED line_base

AddrStep ==
    IF ack /\ row_end
    THEN /\ line_base' = Plus(line_base, cfg.pitch)
         /\ axi_addr' = Plus(line_base, cfg.pitch)
    ELSE /\ axi_addr' = IF ack THEN Plus(axi_addr, 4) ELSE axi_addr
         /\ UNCHANGED line_base

\* An edge that starts nothing.
Advance == ProcessingStep /\ ValidStep /\ CountStep /\ AddrStep /\ UNCHANGED job

(***************************************************************************)
(* The inputs                                                              *)
(***************************************************************************)
\* Will a sample already taken, or IMP_ST as it stands, start the engine?
Pending == all_proc_trg \/ (IMP_ST /\ ~imp_st_dly[1])

Busy == processing \/ Pending

\* The CPU writes the register file between jobs, or during one if MidJob
\* says so, and starts only what it has configured.
Inputs ==
    /\ ready' \in BOOLEAN
    /\ \/ UNCHANGED cfg
       \/ ("config" \in MidJob \/ ~Busy) /\ cfg' \in Configs
    /\ \/ IMP_ST' = FALSE
       \/ IMP_ST /\ UNCHANGED IMP_ST
       \/ ("start" \in MidJob \/ ~Busy) /\ cfg' \in Configs /\ IMP_ST' = TRUE

(***************************************************************************)
(* The specification                                                       *)
(***************************************************************************)
Init == /\ imp_st_dly = << FALSE, FALSE >>
        /\ processing = FALSE /\ axi_valid = FALSE
        /\ xcnt = 0 /\ ycnt = 0 /\ line_base = 0 /\ axi_addr = 0
        /\ cfg = ResetConfig /\ IMP_ST = FALSE
        /\ ready \in BOOLEAN
        /\ job = ResetConfig

Engine == /\ imp_st_dly' = << IMP_ST, imp_st_dly[1] >>
          /\ IF all_proc_trg THEN StartUp ELSE Advance

Clk == Engine /\ Inputs

\* The reset is asynchronous; the register file is reset with the engine.
Reset == /\ imp_st_dly' = << FALSE, FALSE >>
         /\ processing' = FALSE /\ axi_valid' = FALSE
         /\ xcnt' = 0 /\ ycnt' = 0 /\ line_base' = 0 /\ axi_addr' = 0
         /\ cfg' = ResetConfig /\ IMP_ST' = FALSE
         /\ ready' \in BOOLEAN /\ UNCHANGED job

Next == Clk \/ Reset

Spec == Init /\ [][Next]_vars

\* The clock runs and the slave is ready again and again.
LiveSpec == Spec /\ WF_vars(Clk /\ ready')

(***************************************************************************)
(* Properties                                                              *)
(***************************************************************************)
\* Every register keeps to its width; no counter ever comes near 32 bits,
\* even when a size shrinks under a running job.
TypeOK ==
    /\ cfg \in Configs \cup {ResetConfig}
    /\ job \in Configs \cup {ResetConfig}
    /\ IMP_ST \in BOOLEAN /\ ready \in BOOLEAN
    /\ imp_st_dly \in BOOLEAN \X BOOLEAN
    /\ processing \in BOOLEAN /\ axi_valid \in BOOLEAN
    /\ xcnt \in 0 .. W16 /\ ycnt \in 0 .. W16-1
    /\ line_base \in 0 .. W32-1 /\ axi_addr \in 0 .. W32-1

\* The two flags that are set and cleared apart say the same: the channel
\* never shows an address it does not count, nor counts one it does not show.
Lockstep == /\ axi_valid = processing
            /\ processing => xcnt < W16

\* While a job that nobody interferes with runs, the address on the bus is
\* that of pixel xcnt of row ycnt of its rectangle.
OnPixel ==
    processing =>
        /\ job = cfg
        /\ xcnt <= XEnd(job)
        /\ ycnt \in job.miny .. YEnd(job)
        /\ line_base = (job.baddr + (ycnt - job.miny) * job.pitch) % W32
        /\ axi_addr = (line_base + 4 * xcnt) % W32

\* Only a configuration the CPU wrote is ever started.
Configured == /\ IMP_ST \/ imp_st_dly[1] => cfg \in Configs
              /\ processing => job \in Configs

IInv == TypeOK /\ Lockstep /\ Configured

\* A start is never on its way while a job runs; holds only for a CPU that
\* leaves a running job alone.
StartQuiet == processing => ~Pending

\* A configuration whose rectangle the 16-bit ends can express.
Fits(c) == /\ c.hsize > 0 /\ c.minx + c.hsize <= W16
           /\ c.vsize > 0 /\ c.miny + c.vsize <= W16

\* The rows of a job begin at pixel 0, whatever MINX is, and end at XEnd: they
\* have the "pixels per row" of the ports' comment (IMP_HSIZE) if MINX is 0, and
\* MINX more if it is not.
RowPixels(c) == c.minx + c.hsize

\* The rectangle that a configuration makes the engine scan.
RegionOf(c) == [base |-> c.baddr, pitch |-> c.pitch,
                width |-> RowPixels(c), height |-> c.vsize]

Scan == INSTANCE RegionScan WITH
    Regions <- {RegionOf(c) : c \in Configs \cup {ResetConfig}},
    AddrMod <- W32,
    region <- RegionOf(job),
    nth <- IF processing THEN (ycnt - job.miny) * RowPixels(job) + xcnt ELSE 0,
    offered <- axi_valid,
    addr <- axi_addr

\* An undisturbed job accepts the address of every pixel of its rectangle
\* once, in row order, each held until the slave is ready, and no other.
IsRegionScan == Scan!Spec

\* A job ends, however its sizes change while it runs and however long the
\* start bit stays high, unless a new rising edge starts another over it.
JobEnds == processing ~> ~processing \/ (IMP_ST /\ ~imp_st_dly[1])
=============================================================================
