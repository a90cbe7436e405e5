---------------------------- MODULE TimingGenProofs ----------------------------
(***************************************************************************)
(* The frame of the timing generator, for times of any length that fit the *)
(* counters: its boundaries are sums less one in 16 bits, and its flags    *)
(* are switched, not computed, so that they are right at a pixel only if   *)
(* they were right at every one before.                                    *)
(***************************************************************************)
EXTENDS TimingGen, RingLemmas

Sum3(t) == t.sync + t.back + t.before
Sum6(t) == t.sync + t.back + t.before + t.addr + t.after + t.front

\* Times that fit a counter, with a synchronization and with active pixels.
\* Without an active pixel the enable is set and cleared at one boundary, where
\* setting wins; without a synchronization the sync flag is never cleared.
Fits(t) == /\ t.sync \in Nat /\ t.back \in Nat /\ t.before \in Nat
           /\ t.addr \in Nat /\ t.after \in Nat /\ t.front \in Nat
           /\ t.sync >= 1 /\ t.addr >= 1
           /\ Sum6(t) < W16

Setting == W16 \in Nat /\ Fits(Hor) /\ Fits(Ver)

(***************************************************************************)
(* The strengthening                                                       *)
(***************************************************************************)
Counting == /\ op_start \in 0 .. 3
            /\ h_cnt \in 0 .. Sum6(Hor) - 1
            /\ v_cnt \in 0 .. Sum6(Ver) - 1
            /\ ~Running => h_cnt = 0 /\ v_cnt = 0

\* A line whose active pixels begin at pixel 1 is enabled while the counters
\* wait at 0 to be started.
Early == h_cnt = 0 /\ v_cnt = 0 /\ Sum3(Hor) = 1

Switched == /\ h_de \in BOOLEAN /\ v_de \in BOOLEAN
            /\ Active(Hor, h_cnt) => h_de
            /\ h_de => Active(Hor, h_cnt) \/ Early
            /\ v_de <=> Active(Ver, v_cnt)

Synced == /\ ht_sync \in BOOLEAN /\ vt_sync \in BOOLEAN
          /\ SyncWhenDue

IInv == Counting /\ Switched /\ Synced

(***************************************************************************)
(* The boundaries are the numbers they are meant to be                     *)
(***************************************************************************)
LEMMA BeforeExact ==
    ASSUME Setting, NEW n \in 1 .. W16 - 1
    PROVE  Before(n) = n - 1
<1>1. W16 \in Nat \ {0} /\ n - 1 \in 0 .. W16 - 1
  BY DEF Setting, Fits, Sum6
<1>2. n + W16 - 1 = (W16 * 1) + (n - 1)
  BY <1>1
<1> QED
  BY <1>1, <1>2, DivModUnique DEF Before

LEMMA SumsExact ==
    ASSUME Setting, NEW t, Fits(t)
    PROVE  /\ Total(t) = Sum6(t) /\ Start(t) = Sum3(t)
           /\ Sum6(t) \in 2 .. W16 - 1 /\ Sum3(t) \in 1 .. W16 - 1
           /\ Sum3(t) + t.addr \in 2 .. W16 - 1
           /\ Sum3(t) + t.addr <= Sum6(t)
           /\ t.sync \in 1 .. W16 - 1 /\ t.sync <= Sum3(t)
<1>1. /\ Sum6(t) \in 2 .. W16 - 1 /\ Sum3(t) \in 1 .. W16 - 1
      /\ Sum3(t) + t.addr \in 2 .. W16 - 1 /\ Sum3(t) + t.addr <= Sum6(t)
      /\ t.sync \in 1 .. W16 - 1 /\ t.sync <= Sum3(t)
  BY DEF Setting, Fits, Sum6, Sum3
<1>2. W16 \in Nat \ {0}
  BY DEF Setting, Fits, Sum6
<1>3. Sum6(t) \in 0 .. W16 - 1 /\ Sum3(t) \in 0 .. W16 - 1
  BY <1>1, <1>2
<1>4. Total(t) = Sum6(t)
  BY <1>2, <1>3, ModSmall DEF Total, Sum6
<1>5. Start(t) = Sum3(t)
  BY <1>2, <1>3, ModSmall DEF Start, Sum3
<1> QED
  BY <1>1, <1>4, <1>5

LEMMA Boundaries ==
    ASSUME Setting, Counting
    PROVE  /\ h_end <=> h_cnt = Sum6(Hor) - 1
           /\ v_end <=> v_cnt = Sum6(Ver) - 1
           /\ HR_boundary <=> h_cnt = Sum3(Hor) - 1
           /\ HL_boundary <=> h_cnt = (Sum3(Hor) + Hor.addr) - 1
           /\ VT_boundary <=> v_cnt = Sum3(Ver) - 1
           /\ VB_boundary <=> v_cnt = (Sum3(Ver) + Ver.addr) - 1
           /\ Before(Hor.sync) = Hor.sync - 1
           /\ Before(Ver.sync) = Ver.sync - 1
<1>1. Fits(Hor) /\ Fits(Ver) /\ W16 \in Nat
  BY DEF Setting
<1>2. /\ Total(Hor) = Sum6(Hor) /\ Start(Hor) = Sum3(Hor)
      /\ Sum6(Hor) \in 2 .. W16 - 1 /\ Sum3(Hor) \in 1 .. W16 - 1
      /\ Sum3(Hor) + Hor.addr \in 2 .. W16 - 1 /\ Hor.sync \in 1 .. W16 - 1
  BY <1>1, SumsExact
<1>3. /\ Total(Ver) = Sum6(Ver) /\ Start(Ver) = Sum3(Ver)
      /\ Sum6(Ver) \in 2 .. W16 - 1 /\ Sum3(Ver) \in 1 .. W16 - 1
      /\ Sum3(Ver) + Ver.addr \in 2 .. W16 - 1 /\ Ver.sync \in 1 .. W16 - 1
  BY <1>1, SumsExact
<1>4. /\ Before(Sum6(Hor)) = Sum6(Hor) - 1 /\ Before(Sum6(Ver)) = Sum6(Ver) - 1
      /\ Before(Sum3(Hor)) = Sum3(Hor) - 1
      /\ Before(Sum3(Hor) + Hor.addr) = (Sum3(Hor) + Hor.addr) - 1
      /\ Before(Sum3(Ver) + Ver.addr) = (Sum3(Ver) + Ver.addr) - 1
      /\ Before(Hor.sync) = Hor.sync - 1 /\ Before(Ver.sync) = Ver.sync - 1
  <2>1. \A n \in 1 .. W16 - 1 : Before(n) = n - 1
    BY BeforeExact
  <2>2. /\ Sum6(Hor) \in 1 .. W16 - 1 /\ Sum6(Ver) \in 1 .. W16 - 1
        /\ Sum3(Hor) + Hor.addr \in 1 .. W16 - 1
        /\ Sum3(Ver) + Ver.addr \in 1 .. W16 - 1
    BY <1>1, <1>2, <1>3
  <2> QED
    BY <1>2, <1>3, <2>1, <2>2
<1>5. h_cnt \in 0 .. Sum6(Hor) - 1 /\ v_cnt \in 0 .. Sum6(Ver) - 1
  BY DEF Counting
<1>6. /\ h_end <=> h_cnt = Sum6(Hor) - 1
      /\ v_end <=> v_cnt = Sum6(Ver) - 1
  BY <1>1, <1>2, <1>3, <1>4, <1>5 DEF h_end, v_end
<1>7. /\ HR_boundary <=> h_cnt = Sum3(Hor) - 1
      /\ HL_boundary <=> h_cnt = (Sum3(Hor) + Hor.addr) - 1
      /\ VB_boundary <=> v_cnt = (Sum3(Ver) + Ver.addr) - 1
  BY <1>2, <1>3, <1>4 DEF HR_boundary, HL_boundary, VB_boundary
<1>8. VT_boundary <=> v_cnt = Sum3(Ver) - 1
  BY <1>3, <1>5 DEF VT_boundary
<1> QED
  BY <1>4, <1>6, <1>7, <1>8

(***************************************************************************)
(* A clock                                                                 *)
(***************************************************************************)
LEMMA CountExact ==
    ASSUME Setting, Counting, Count
    PROVE  /\ h_cnt' = IF ~Running THEN h_cnt ELSE IF h_end THEN 0 ELSE h_cnt + 1
           /\ v_cnt' = IF ~(Running /\ h_end) THEN v_cnt
                       ELSE IF v_end THEN 0 ELSE v_cnt + 1
           /\ Counting'
<1>1. /\ Sum6(Hor) \in 2 .. W16 - 1 /\ Sum6(Ver) \in 2 .. W16 - 1
      /\ Fits(Hor) /\ Fits(Ver) /\ W16 \in Nat \ {0}
  BY SumsExact DEF Setting
<1>2. /\ h_end <=> h_cnt = Sum6(Hor) - 1
      /\ v_end <=> v_cnt = Sum6(Ver) - 1
  BY Boundaries
<1>3. h_cnt \in 0 .. Sum6(Hor) - 1 /\ v_cnt \in 0 .. Sum6(Ver) - 1
  BY DEF Counting
<1>4. (h_cnt + 1) % W16 = h_cnt + 1 /\ (v_cnt + 1) % W16 = v_cnt + 1
  <2>1. h_cnt + 1 \in 0 .. W16 - 1 /\ v_cnt + 1 \in 0 .. W16 - 1
    BY <1>1, <1>3
  <2> QED
    BY <1>1, <2>1, ModSmall
<1>5. /\ h_cnt' = IF ~Running THEN h_cnt ELSE IF h_end THEN 0 ELSE h_cnt + 1
      /\ v_cnt' = IF ~(Running /\ h_end) THEN v_cnt
                  ELSE IF v_end THEN 0 ELSE v_cnt + 1
  BY <1>4 DEF Count
<1>6. op_start' \in 0 .. 3 /\ (Running => Running')
  BY DEF Counting, Count, Running
<1>7. /\ h_cnt' \in 0 .. Sum6(Hor) - 1
      /\ v_cnt' \in 0 .. Sum6(Ver) - 1
  <2>1. h_cnt' \in 0 .. Sum6(Hor) - 1
    BY <1>1, <1>2, <1>3, <1>5
  <2>2. v_cnt' \in 0 .. Sum6(Ver) - 1
    BY <1>1, <1>2, <1>3, <1>5
  <2> QED
    BY <2>1, <2>2
<1>8. ~Running' => h_cnt' = 0 /\ v_cnt' = 0
  BY <1>5, <1>6 DEF Counting
<1> QED
  BY <1>5, <1>6, <1>7, <1>8 DEF Counting, Sum6

LEMMA DataFlags ==
    ASSUME Setting, Counting, Switched, Count, Flags
    PROVE  Switched'
<1> DEFINE s == Sum3(Hor)   e == Sum3(Hor) + Hor.addr   n == Sum6(Hor)
           S == Sum3(Ver)   E == Sum3(Ver) + Ver.addr   N == Sum6(Ver)
<1>1. /\ s \in Nat /\ e \in Nat /\ n \in Nat /\ 1 <= s /\ s < e /\ e <= n
      /\ S \in Nat /\ E \in Nat /\ N \in Nat /\ 1 <= S /\ S < E /\ E <= N
  <2>1. Fits(Hor) /\ Fits(Ver)
    BY DEF Setting
  <2> QED
    BY <2>1 DEF Fits, Sum3, Sum6
<1>2. /\ h_end <=> h_cnt = n - 1
      /\ v_end <=> v_cnt = N - 1
      /\ HR_boundary <=> h_cnt = s - 1
      /\ HL_boundary <=> h_cnt = e - 1
      /\ VT_boundary <=> v_cnt = S - 1
      /\ VB_boundary <=> v_cnt = E - 1
  <2>1. /\ h_end <=> h_cnt = n - 1
        /\ v_end <=> v_cnt = N - 1
    BY Boundaries
  <2>2. /\ HR_boundary <=> h_cnt = s - 1
        /\ HL_boundary <=> h_cnt = e - 1
    BY Boundaries
  <2>3. /\ VT_boundary <=> v_cnt = S - 1
        /\ VB_boundary <=> v_cnt = E - 1
    BY Boundaries
  <2> QED
    BY <2>1, <2>2, <2>3
<1>3. /\ h_cnt' = IF ~Running THEN h_cnt ELSE IF h_end THEN 0 ELSE h_cnt + 1
      /\ v_cnt' = IF ~(Running /\ h_end) THEN v_cnt
                  ELSE IF v_end THEN 0 ELSE v_cnt + 1
      /\ h_cnt \in 0 .. n - 1 /\ v_cnt \in 0 .. N - 1
      /\ ~Running => h_cnt = 0 /\ v_cnt = 0
  BY CountExact DEF Counting
<1>4. /\ Active(Hor, h_cnt) <=> s <= h_cnt /\ h_cnt < e
      /\ Active(Ver, v_cnt) <=> S <= v_cnt /\ v_cnt < E
      /\ Active(Hor, h_cnt)' <=> s <= h_cnt' /\ h_cnt' < e
      /\ Active(Ver, v_cnt)' <=> S <= v_cnt' /\ v_cnt' < E
  BY DEF Active, Sum3
<1>5. /\ Early <=> h_cnt = 0 /\ v_cnt = 0 /\ s = 1
      /\ Early' <=> h_cnt' = 0 /\ v_cnt' = 0 /\ s = 1
  BY DEF Early, Sum3
<1>6. /\ h_de' <=> HR_boundary \/ (h_de /\ ~HL_boundary)
      /\ v_de' <=> (VT_boundary /\ h_end) \/ (v_de /\ ~(VB_boundary /\ h_end))
  BY DEF Flags, Flag
<1>7. h_de' \in BOOLEAN /\ v_de' \in BOOLEAN
  BY DEF Flags, Flag, HR_boundary, VT_boundary, h_end, Switched
<1>8. /\ (s <= h_cnt /\ h_cnt < e) => h_de
      /\ h_de => (s <= h_cnt /\ h_cnt < e) \/ (h_cnt = 0 /\ v_cnt = 0 /\ s = 1)
      /\ v_de <=> S <= v_cnt /\ v_cnt < E
  BY <1>4, <1>5 DEF Switched
<1> HIDE DEF s, e, n, S, E, N
<1>9. CASE ~Running
  <2>1. h_cnt = 0 /\ v_cnt = 0 /\ h_cnt' = 0 /\ v_cnt' = 0
    BY <1>3, <1>9
  <2>2. ~h_end /\ ~VB_boundary
    BY <1>1, <1>2, <2>1
  <2>3. v_de' <=> v_de
    BY <1>6, <2>2
  <2>4. h_de' => s = 1
    BY <1>1, <1>2, <1>6, <1>8, <2>1
  <2>5. /\ ~(s <= h_cnt' /\ h_cnt' < e)
        /\ v_de' <=> S <= v_cnt' /\ v_cnt' < E
    BY <1>1, <1>8, <2>1, <2>3
  <2> QED
    BY <1>4, <1>5, <1>7, <2>1, <2>4, <2>5 DEF Switched
<1>10. CASE Running
  <2>1. h_cnt' = IF h_end THEN 0 ELSE h_cnt + 1
    BY <1>3, <1>10
  <2>2. v_cnt' = IF ~h_end THEN v_cnt ELSE IF v_end THEN 0 ELSE v_cnt + 1
    BY <1>3, <1>10
  <2>3. h_de' <=> s <= h_cnt' /\ h_cnt' < e
    <3>1. CASE h_end
      <4>1. h_cnt = n - 1 /\ h_cnt' = 0
        BY <1>2, <2>1, <3>1
      <4>2. ~HR_boundary
        BY <1>1, <1>2, <4>1
      <4>3. ~(h_de /\ ~HL_boundary)
        BY <1>1, <1>2, <1>8, <4>1
      <4> QED
        BY <1>1, <1>6, <4>1, <4>2, <4>3
    <3>2. CASE ~h_end
      <4>1. h_cnt' = h_cnt + 1 /\ h_cnt \in Nat
        BY <1>1, <1>3, <2>1, <3>2
      <4> QED
        BY <1>1, <1>2, <1>6, <1>8, <4>1
    <3> QED
      BY <3>1, <3>2
  <2>4. v_de' <=> S <= v_cnt' /\ v_cnt' < E
    <3>1. CASE ~h_end
      BY <1>6, <1>8, <2>2, <3>1
    <3>2. CASE h_end /\ v_end
      <4>1. v_cnt = N - 1 /\ v_cnt' = 0
        BY <1>2, <2>2, <3>2
      <4> QED
        BY <1>1, <1>2, <1>6, <1>8, <3>2, <4>1
    <3>3. CASE h_end /\ ~v_end
      <4>1. v_cnt' = v_cnt + 1 /\ v_cnt \in Nat
        BY <1>1, <1>3, <2>2, <3>3
      <4> QED
        BY <1>1, <1>2, <1>6, <1>8, <3>3, <4>1
    <3> QED
      BY <3>1, <3>2, <3>3
  <2> QED
    BY <1>4, <1>7, <2>3, <2>4 DEF Switched
<1> QED
  BY <1>9, <1>10

LEMMA SyncFlags ==
    ASSUME Setting, Counting, Synced, Count, Flags
    PROVE  Synced'
<1> DEFINE n == Sum6(Hor)   N == Sum6(Ver)
<1>1. /\ Hor.sync \in Nat /\ 1 <= Hor.sync /\ Hor.sync < n /\ n \in Nat
      /\ Ver.sync \in Nat /\ 1 <= Ver.sync /\ Ver.sync < N /\ N \in Nat
  <2>1. Fits(Hor) /\ Fits(Ver)
    BY DEF Setting
  <2> QED
    BY <2>1 DEF Fits, Sum6
<1>2. /\ h_end <=> h_cnt = n - 1
      /\ v_end <=> v_cnt = N - 1
      /\ Before(Hor.sync) = Hor.sync - 1
      /\ Before(Ver.sync) = Ver.sync - 1
  BY Boundaries
<1>3. /\ h_cnt' = IF ~Running THEN h_cnt ELSE IF h_end THEN 0 ELSE h_cnt + 1
      /\ v_cnt' = IF ~(Running /\ h_end) THEN v_cnt
                  ELSE IF v_end THEN 0 ELSE v_cnt + 1
      /\ h_cnt \in 0 .. n - 1 /\ v_cnt \in 0 .. N - 1
      /\ ~Running => h_cnt = 0 /\ v_cnt = 0
  BY CountExact DEF Counting
<1>4. /\ ht_sync' <=> Starting \/ h_end \/ (ht_sync /\ ~(h_cnt = Hor.sync - 1))
      /\ vt_sync' <=> \/ Starting \/ (v_end /\ h_end)
                      \/ (vt_sync /\ ~(v_cnt = Ver.sync - 1 /\ h_end))
  BY <1>2 DEF Flags, Flag
<1>5. ht_sync' \in BOOLEAN /\ vt_sync' \in BOOLEAN
  BY DEF Flags, Flag, Starting, Synced
<1>6. Running => /\ ht_sync <=> h_cnt < Hor.sync
                 /\ vt_sync <=> v_cnt < Ver.sync
  BY DEF Synced, SyncWhenDue
<1>7. Running' => Running \/ Starting
  BY DEF Counting, Count, Running, Starting
<1>8. Starting => ~Running
  BY DEF Starting, Running
<1> HIDE DEF n, N
<1>9. CASE Starting
  <2>1. h_cnt' = 0 /\ v_cnt' = 0
    BY <1>3, <1>8, <1>9
  <2>2. /\ ht_sync' <=> h_cnt' < Hor.sync
        /\ vt_sync' <=> v_cnt' < Ver.sync
    BY <1>1, <1>4, <1>9, <2>1
  <2> QED
    BY <1>5, <2>2 DEF Synced, SyncWhenDue
<1>10. CASE Running
  <2>1. ht_sync' <=> h_cnt' < Hor.sync
    <3>1. CASE h_end
      BY <1>1, <1>3, <1>4, <1>10, <3>1
    <3>2. CASE ~h_end
      <4>1. h_cnt' = h_cnt + 1 /\ h_cnt \in Nat
        BY <1>1, <1>3, <1>10, <3>2
      <4> QED
        BY <1>1, <1>4, <1>6, <1>8, <1>10, <3>2, <4>1
    <3> QED
      BY <3>1, <3>2
  <2>2. vt_sync' <=> v_cnt' < Ver.sync
    <3>1. CASE ~h_end
      BY <1>3, <1>4, <1>6, <1>8, <1>10, <3>1
    <3>2. CASE h_end /\ v_end
      BY <1>1, <1>3, <1>4, <1>10, <3>2
    <3>3. CASE h_end /\ ~v_end
      <4>1. v_cnt' = v_cnt + 1 /\ v_cnt \in Nat
        BY <1>1, <1>3, <1>10, <3>3
      <4> QED
        BY <1>1, <1>4, <1>6, <1>8, <1>10, <3>3, <4>1
    <3> QED
      BY <3>1, <3>2, <3>3
  <2> QED
    BY <1>5, <2>1, <2>2 DEF Synced, SyncWhenDue
<1>11. CASE ~Running /\ ~Starting
  BY <1>5, <1>7, <1>11 DEF Synced, SyncWhenDue
<1> QED
  BY <1>9, <1>10, <1>11

(***************************************************************************)
(* The theorems                                                            *)
(***************************************************************************)
LEMMA Corner ==
    ASSUME Setting
    PROVE  /\ ~Active(Hor, 0) /\ ~Active(Ver, 0)
           /\ 0 \in 0 .. Sum6(Hor) - 1 /\ 0 \in 0 .. Sum6(Ver) - 1
<1>1. Fits(Hor) /\ Fits(Ver)
  BY DEF Setting
<1> QED
  BY <1>1 DEF Fits, Active, Sum6

LEMMA InitIInv ==
    ASSUME Setting, Init
    PROVE  IInv
<1>1. h_cnt = 0 /\ v_cnt = 0 /\ h_de = FALSE /\ v_de = FALSE
      /\ ht_sync = FALSE /\ vt_sync = FALSE /\ op_start = 0
  BY DEF Init
<1>2. Counting
  BY <1>1, Corner DEF Counting
<1>3. Switched
  <2>1. ~Active(Hor, h_cnt) /\ ~Active(Ver, v_cnt)
    BY <1>1, Corner
  <2> QED
    BY <1>1, <2>1 DEF Switched
<1>4. Synced
  <2>1. ~Running
    BY <1>1 DEF Running
  <2> QED
    BY <1>1, <2>1 DEF Synced, SyncWhenDue
<1> QED
  BY <1>2, <1>3, <1>4 DEF IInv

LEMMA ResetIInv ==
    ASSUME Setting, Reset
    PROVE  IInv'
<1>1. h_cnt' = 0 /\ v_cnt' = 0 /\ h_de' = FALSE /\ v_de' = FALSE
      /\ ht_sync' = FALSE /\ vt_sync' = FALSE /\ op_start' = 0
  BY DEF Reset
<1>2. Counting'
  BY <1>1, Corner DEF Counting, Sum6
<1>3. Switched'
  <2>1. ~Active(Hor, h_cnt') /\ ~Active(Ver, v_cnt')
    BY <1>1, Corner
  <2>2. ~Active(Hor, h_cnt)' /\ ~Active(Ver, v_cnt)'
    BY <2>1 DEF Active
  <2> QED
    BY <1>1, <2>2 DEF Switched
<1>4. Synced'
  <2>1. ~Running'
    BY <1>1 DEF Running
  <2> QED
    BY <1>1, <2>1 DEF Synced, SyncWhenDue
<1> QED
  BY <1>2, <1>3, <1>4 DEF IInv

\* The counters stay in the frame and each flag agrees with its counter, from
\* any reset on.
THEOREM Inductive == Setting => (Spec => []IInv)
<1> SUFFICES ASSUME Setting PROVE Spec => []IInv
  OBVIOUS
<1>1. Init => IInv
  BY InitIInv
<1>2. IInv /\ [Next]_vars => IInv'
  <2> SUFFICES ASSUME IInv, [Next]_vars PROVE IInv'
    OBVIOUS
  <2>1. CASE Clk
    <3>1. Counting'
      BY <2>1, CountExact DEF Clk, IInv
    <3>2. Switched'
      BY <2>1, DataFlags DEF Clk, IInv
    <3>3. Synced'
      BY <2>1, SyncFlags DEF Clk, IInv
    <3> QED
      BY <3>1, <3>2, <3>3 DEF IInv
  <2>2. CASE Reset
    BY <2>2, ResetIInv
  <2>3. CASE UNCHANGED vars
    BY <2>3 DEF vars, IInv, Counting, Switched, Synced, SyncWhenDue, Running, Early, Active
  <2> QED
    BY <2>1, <2>2, <2>3 DEF Next
<1> QED
  BY <1>1, <1>2, PTL DEF Spec

\* Data are enabled for exactly the active pixels of every frame
\* (timing_gen.sv:89, :99 and :112), although the line's flag may be early.
THEOREM DataEnable == Setting => (Spec => []EnabledWhenActive)
<1> SUFFICES ASSUME Setting PROVE Spec => []EnabledWhenActive
  OBVIOUS
<1>1. IInv => EnabledWhenActive
  <2> SUFFICES ASSUME IInv PROVE EnabledWhenActive
    OBVIOUS
  <2>1. Sum3(Ver) \in Nat /\ Sum3(Ver) >= 1
    <3>1. Fits(Ver)
      BY DEF Setting
    <3> QED
      BY <3>1 DEF Fits, Sum3
  <2>2. ~Active(Ver, 0)
    BY <2>1 DEF Active, Sum3
  <2>3. ~(Early /\ v_de)
    BY <2>2 DEF IInv, Switched, Early
  <2> QED
    BY <2>3 DEF EnabledWhenActive, t_de, IInv, Switched
<1> QED
  BY <1>1, Inductive, PTL

\* Once the counters run, each sync flag is high for its sync time, from the
\* first frame on (timing_gen.sv:129 and :143).
THEOREM Syncs == Setting => (Spec => []SyncWhenDue)
<1> SUFFICES ASSUME Setting PROVE Spec => []SyncWhenDue
  OBVIOUS
<1>1. IInv => SyncWhenDue
  BY DEF IInv, Synced
<1> QED
  BY <1>1, Inductive, PTL
===============================================================================
