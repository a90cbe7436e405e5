------------------------------- MODULE TimingGen -------------------------------
(***************************************************************************)
(* The video timing generator (timing_gen.sv): two counters that walk over *)
(* a frame, and the flags that are switched when they reach a boundary.    *)
(* A direction of the frame is a record of the six times it consists of,   *)
(* in the order in which they pass: synchronization, back porch, border,   *)
(* active pixels, border, front porch.  They are inputs, held constant.    *)
(***************************************************************************)
EXTENDS Integers

CONSTANTS
    W16,        \* numbers of 16 bits
    Hor,        \* the times of a line, in pixels
    Ver         \* the times of a frame, in lines

VARIABLES
    op_start,   \* clocks since the reset, up to three
    h_cnt, v_cnt,
    h_de, v_de,
    ht_sync, vt_sync

vars == << op_start, h_cnt, v_cnt, h_de, v_de, ht_sync, vt_sync >>

(***************************************************************************)
(* The boundaries, in 16 bits                                              *)
(***************************************************************************)
Total(t) == (t.sync + t.back + t.before + t.addr + t.after + t.front) % W16
Start(t) == (t.sync + t.back + t.before) % W16

\* The number before n, of 16 bits.
Before(n) == (n + W16 - 1) % W16

h_end == h_cnt >= Before(Total(Hor))
v_end == v_cnt >= Before(Total(Ver))
HR_boundary == h_cnt = Before(Start(Hor))
HL_boundary == h_cnt = Before(Start(Hor) + Hor.addr)
\* The literal of timing_gen.sv:86 has 32 bits: a start of 0 has no number
\* before it.
VT_boundary == v_cnt + 1 = Start(Ver)
VB_boundary == v_cnt = Before(Start(Ver) + Ver.addr)

t_de == v_de /\ h_de

\* op_start[2], and op_start[2:1] = 01
Running == op_start = 3
Starting == op_start = 2

(***************************************************************************)
(* The specification                                                       *)
(***************************************************************************)
Init == /\ op_start = 0 /\ h_cnt = 0 /\ v_cnt = 0
        /\ h_de = FALSE /\ v_de = FALSE /\ ht_sync = FALSE /\ vt_sync = FALSE

\* A flag that is set, else cleared, else kept.
Flag(flag, set, clear) == set \/ (flag /\ ~clear)

Count == /\ op_start' = IF Running THEN 3 ELSE op_start + 1
         /\ h_cnt' = IF ~Running THEN h_cnt ELSE IF h_end THEN 0 ELSE (h_cnt + 1) % W16
         /\ v_cnt' = IF ~(Running /\ h_end) THEN v_cnt
                     ELSE IF v_end THEN 0 ELSE (v_cnt + 1) % W16

Flags ==
    /\ h_de' = Flag(h_de, HR_boundary, HL_boundary)
    /\ v_de' = Flag(v_de, VT_boundary /\ h_end, VB_boundary /\ h_end)
    /\ ht_sync' = Flag(ht_sync, Starting \/ h_end, h_cnt = Before(Hor.sync))
    /\ vt_sync' = Flag(vt_sync, Starting \/ (v_end /\ h_end),
                       v_cnt = Before(Ver.sync) /\ h_end)

Clk == Count /\ Flags

Reset == /\ op_start' = 0 /\ h_cnt' = 0 /\ v_cnt' = 0
         /\ h_de' = FALSE /\ v_de' = FALSE /\ ht_sync' = FALSE /\ vt_sync' = FALSE

Next == Clk \/ Reset

Spec == Init /\ [][Next]_vars

(***************************************************************************)
(* Properties                                                              *)
(***************************************************************************)
Active(t, n) == t.sync + t.back + t.before <= n /\ n < t.sync + t.back + t.before + t.addr

\* Data are enabled for exactly the active pixels of a frame.
EnabledWhenActive == t_de <=> Active(Hor, h_cnt) /\ Active(Ver, v_cnt)

\* Once the counters run, each sync flag is high for its sync time.
SyncWhenDue == Running => /\ ht_sync <=> h_cnt < Hor.sync
                          /\ vt_sync <=> v_cnt < Ver.sync
===============================================================================
