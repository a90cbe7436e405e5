--------------------------------- MODULE LLMF ---------------------------------
(***************************************************************************)
(* The median of a window of five by five pixels (LLMF_5x5.sv): its rows   *)
(* are sorted, then the columns of what results, then three diagonals of   *)
(* that, and the middle one of three values of the diagonals is the        *)
(* output.  Each stage ends in a register, so that a window's value comes  *)
(* three clocks after it.  All sorters are built from sorters of three     *)
(* (sort_3_value.sv, sort_4_value.sv, sort_5_value.sv); they give the      *)
(* largest value first.                                                    *)
(***************************************************************************)
EXTENDS Integers

CONSTANTS
    Pixel,      \* values of a pixel: 0 .. 255 in the code
    Inputs      \* windows that may come: all, or for TLC a few

Five == 0 .. 4
Windows == [Five -> [Five -> Pixel]]

VARIABLES
    pip_row,    \* sorted rows: of row i the k-th largest value
    pip_col,    \* sorted columns: of column k the j-th largest value
    pip_dia,    \* one value of each diagonal
    past        \* (history) the windows of the last three clocks

vars == << pip_row, pip_col, pip_dia, past >>

(***************************************************************************)
(* The sorters                                                             *)
(***************************************************************************)
sort_3(a, b, c) ==
    IF a > b /\ a > c THEN IF b > c THEN << a, b, c >> ELSE << a, c, b >>
    ELSE IF b >= a /\ b > c THEN IF a > c THEN << b, a, c >> ELSE << b, c, a >>
    ELSE IF a > b THEN << c, a, b >> ELSE << c, b, a >>

sort_4(a, b, c, d) ==
    LET u0 == sort_3(a, b, c)
        u1 == sort_3(d, u0[2], u0[1])
        u2 == sort_3(u1[3], u1[2], u0[3])
    IN  << u1[1], u2[1], u2[2], u2[3] >>

sort_5(a, b, c, d, e) ==
    LET u0 == sort_3(a, b, c)
        u1 == sort_3(d, e, u0[1])
        u2 == sort_3(u1[2], u1[3], u0[2])
        u3 == sort_3(u2[2], u2[3], u0[3])
    IN  << u1[1], u2[1], u3[1], u3[2], u3[3] >>

(***************************************************************************)
(* The stages                                                              *)
(***************************************************************************)
Rows(w) == [i \in Five |-> sort_5(w[i][0], w[i][1], w[i][2], w[i][3], w[i][4])]

Cols(r) == [k \in 1 .. 5 |-> sort_5(r[0][k], r[1][k], r[2][k], r[3][k], r[4][k])]

dia_0(c) == sort_4(c[2][5], c[3][4], c[4][3], c[5][2])[1]
dia_1(c) == sort_5(c[1][5], c[2][4], c[3][3], c[4][2], c[5][1])[3]
dia_2(c) == sort_4(c[1][4], c[3][3], c[3][2], c[4][1])[4]

Dias(c) == << dia_0(c), dia_1(c), dia_2(c) >>

value_Med == sort_3(pip_dia[1], pip_dia[2], pip_dia[3])[2]

(***************************************************************************)
(* The specification                                                       *)
(***************************************************************************)
Black == [i \in Five |-> [j \in Five |-> 0]]

Init == /\ pip_row = [i \in Five |-> [k \in 1 .. 5 |-> 0]]
        /\ pip_col = [k \in 1 .. 5 |-> [j \in 1 .. 5 |-> 0]]
        /\ pip_dia = << 0, 0, 0 >>
        /\ past = << Black, Black, Black >>

\* A window enters; those before it move on.
Clk == \E w \in Inputs :
          /\ pip_row' = Rows(w)
          /\ pip_col' = Cols(pip_row)
          /\ pip_dia' = Dias(pip_col)
          /\ past' = << w, past[1], past[2] >>

Reset == /\ pip_row' = [i \in Five |-> [k \in 1 .. 5 |-> 0]]
         /\ pip_col' = [k \in 1 .. 5 |-> [j \in 1 .. 5 |-> 0]]
         /\ pip_dia' = << 0, 0, 0 >>
         /\ past' = << Black, Black, Black >>

Next == Clk \/ Reset

Spec == Init /\ [][Next]_vars

(***************************************************************************)
(* Properties                                                              *)
(***************************************************************************)
\* How many pixels of a row, of a window, are x or brighter.
Bright(v, x) == IF v >= x THEN 1 ELSE 0
BrightInRow(row, x) == Bright(row[0], x) + Bright(row[1], x) + Bright(row[2], x)
                       + Bright(row[3], x) + Bright(row[4], x)
BrightIn(w, x) == BrightInRow(w[0], x) + BrightInRow(w[1], x) + BrightInRow(w[2], x)
                  + BrightInRow(w[3], x) + BrightInRow(w[4], x)

\* v is the median of w: the thirteenth largest of its pixels.
IsMedian(v, w) == \A x \in Pixel : v >= x <=> BrightIn(w, x) >= 13

\* The output is the median of the window of three clocks before.  (It is
\* not: dia_2 takes pip_Third_col[2] where the diagonal has
\* pip_Third_col[1].)
OutputIsMedian == IsMedian(value_Med, past[3])

\* What it is instead: the thirteenth, fourteenth or fifteenth largest.
OutputNearMedian ==
    \A x \in Pixel : /\ value_Med >= x => BrightIn(past[3], x) >= 13
                     /\ BrightIn(past[3], x) >= 15 => value_Med >= x
===============================================================================
