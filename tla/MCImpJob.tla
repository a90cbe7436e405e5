------------------------------- MODULE MCImpJob -------------------------------
(***************************************************************************)
(* Jobs for the registers of one channel, and the stores that set them up: *)
(* the firmware's (2-sim/sim_soc/firmware/main.c) and the same byte by     *)
(* byte.  Bytes of four values give sizes up to 15 and 256 addresses; for  *)
(* the firmware's own write job they have 256, and addresses are counted   *)
(* modulo 2^24.                                                            *)
(***************************************************************************)
EXTENDS ImpJob

Cfg(h, v, x, y, b, p) == [hsize |-> h, vsize |-> v, minx |-> x, miny |-> y,
                          baddr |-> b, pitch |-> p]

\* C's stores through pointers to UV8, UV16 and UV32.
UV8(at, v) == [at |-> at, bytes |-> << v >>]
UV16(at, v) == [at |-> at, bytes |-> << v % B, v \div B >>]
UV32(at, v) == [at |-> at, bytes |-> << v % B, (v \div B) % B, (v \div W16) % B,
                                        (v \div (W16 * B)) % B >>]

\* main.c:44-50, what it does for reads.
Stores(c) == << UV32(Ch, c.baddr), UV32(Ch + 4, c.pitch),
                UV16(Ch + 8, c.hsize), UV16(Ch + 10, c.vsize),
                UV8(Ch + 12, c.minx), UV8(Ch + 13, c.miny), UV8(Ch + 14, 1) >>

ByteStores(c) ==
    LET q == UV32(0, c.baddr).bytes \o UV32(0, c.pitch).bytes
             \o UV16(0, c.hsize).bytes \o UV16(0, c.vsize).bytes
             \o << c.minx, c.miny, 1 >>
    IN  [i \in 1 .. Len(q) |-> UV8(Ch + i - 1, q[i])]

\* The start bit is cleared before a job is set up (main.c, which runs each
\* of its jobs once, finds it cleared by the reset).
Cleared(stores) == << UV8(Ch + 14, 0) >> \o stores

\* Rows that abut, as in the frame that main.c reads; overlapping rows; rows
\* with gaps that reach past the last address, of a rectangle that is shifted
\* to the right; one row; the tallest column, whose last row is the last value
\* of ycnt.
ReadJobs == { Cfg(5, 2, 0, 0, 128, 20), Cfg(3, 2, 0, 0, 16, 4),
              Cfg(2, 3, 2, 2, 252, 64), Cfg(6, 1, 0, 1, 244, 200),
              Cfg(1, 15, 0, 1, 20, 68) }

ReadPrograms == {[job |-> c, stores |-> Cleared(Stores(c))] : c \in ReadJobs}
    \cup {[job |-> c, stores |-> Cleared(ByteStores(c))] : c \in ReadJobs}

\* Software that wants IsRegionScan must choose jobs like these.
ASSUME JobsFit == \A c \in ReadJobs : Fits(c)

ASSUME JobsSound == \A p \in ReadPrograms : Sound(p)

\* main.c:34-40: the write job, five pixels wide and eight lines high at the
\* start of RAM1.
WriteJob == Cfg(5, 8, 0, 0, 18 * W16, 32)
WriteStores == << UV32(0, 18 * W16), UV32(4, 32),
                  UV8(8, 5), UV8(9, 8), UV8(10, 0), UV8(11, 0), UV8(12, 1) >>
WritePrograms == {[job |-> WriteJob, stores |-> WriteStores]}

Jobs == {p.job : p \in Programs}
===============================================================================
