------------------------------ MODULE LLMFProofs ------------------------------
(***************************************************************************)
(* What the median filter computes, for pixels of any width.  A sorter is  *)
(* characterised by the ranks of its outputs: whatever the threshold x,    *)
(* its k-th output reaches x exactly when k of its inputs do.  All that    *)
(* follows counts bright pixels.                                           *)
(***************************************************************************)
EXTENDS LLMF, TLAPS

\* sort_3: k of the inputs reach x if and only if the k-th output does.
LEMMA Sort3Rank ==
    ASSUME NEW a \in Int, NEW b \in Int, NEW c \in Int, NEW x \in Int
    PROVE  LET s == sort_3(a, b, c)
               n == Bright(a, x) + Bright(b, x) + Bright(c, x)
           IN  /\ s[1] \in Int /\ s[2] \in Int /\ s[3] \in Int
               /\ s[1] >= x <=> n >= 1
               /\ s[2] >= x <=> n >= 2
               /\ s[3] >= x <=> n >= 3
<1>1. CASE a > b /\ a > c
  BY <1>1 DEF sort_3, Bright
<1>2. CASE ~(a > b /\ a > c) /\ b >= a /\ b > c
  BY <1>2 DEF sort_3, Bright
<1>3. CASE ~(a > b /\ a > c) /\ ~(b >= a /\ b > c)
  BY <1>3 DEF sort_3, Bright
<1>4. QED
  BY <1>1, <1>2, <1>3

\* sort_4, the first and the last output of which are used.
LEMMA Sort4Rank ==
    ASSUME NEW a \in Int, NEW b \in Int, NEW c \in Int, NEW d \in Int, NEW x \in Int
    PROVE  LET s == sort_4(a, b, c, d)
               n == Bright(a, x) + Bright(b, x) + Bright(c, x) + Bright(d, x)
           IN  /\ s[1] \in Int /\ s[4] \in Int
               /\ s[1] >= x <=> n >= 1
               /\ s[4] >= x <=> n >= 4
<1> DEFINE u0 == sort_3(a, b, c)
           u1 == sort_3(d, u0[2], u0[1])
           u2 == sort_3(u1[3], u1[2], u0[3])
<1>1. /\ u0[1] \in Int /\ u0[2] \in Int /\ u0[3] \in Int
      /\ u0[1] >= x <=> Bright(a, x) + Bright(b, x) + Bright(c, x) >= 1
      /\ u0[2] >= x <=> Bright(a, x) + Bright(b, x) + Bright(c, x) >= 2
      /\ u0[3] >= x <=> Bright(a, x) + Bright(b, x) + Bright(c, x) >= 3
  BY Sort3Rank
<1>2. /\ u1[1] \in Int /\ u1[2] \in Int /\ u1[3] \in Int
      /\ u1[1] >= x <=> Bright(d, x) + Bright(u0[2], x) + Bright(u0[1], x) >= 1
      /\ u1[2] >= x <=> Bright(d, x) + Bright(u0[2], x) + Bright(u0[1], x) >= 2
      /\ u1[3] >= x <=> Bright(d, x) + Bright(u0[2], x) + Bright(u0[1], x) >= 3
  BY <1>1, Sort3Rank
<1>3. /\ u2[3] \in Int
      /\ u2[3] >= x <=> Bright(u1[3], x) + Bright(u1[2], x) + Bright(u0[3], x) >= 3
  BY <1>1, <1>2, Sort3Rank
<1>4. sort_4(a, b, c, d) = << u1[1], u2[1], u2[2], u2[3] >>
  BY DEF sort_4
<1> HIDE DEF u0, u1, u2
<1>5. QED
  BY <1>1, <1>2, <1>3, <1>4 DEF Bright

\* sort_5
LEMMA Sort5Rank ==
    ASSUME NEW a \in Int, NEW b \in Int, NEW c \in Int, NEW d \in Int, NEW e \in Int,
           NEW x \in Int
    PROVE  LET s == sort_5(a, b, c, d, e)
               n == Bright(a, x) + Bright(b, x) + Bright(c, x) + Bright(d, x) + Bright(e, x)
           IN  \A k \in 1 .. 5 : s[k] \in Int /\ (s[k] >= x <=> n >= k)
<1> DEFINE u0 == sort_3(a, b, c)
           u1 == sort_3(d, e, u0[1])
           u2 == sort_3(u1[2], u1[3], u0[2])
           u3 == sort_3(u2[2], u2[3], u0[3])
<1>1. /\ u0[1] \in Int /\ u0[2] \in Int /\ u0[3] \in Int
      /\ u0[1] >= x <=> Bright(a, x) + Bright(b, x) + Bright(c, x) >= 1
      /\ u0[2] >= x <=> Bright(a, x) + Bright(b, x) + Bright(c, x) >= 2
      /\ u0[3] >= x <=> Bright(a, x) + Bright(b, x) + Bright(c, x) >= 3
  BY Sort3Rank
<1>2. /\ u1[1] \in Int /\ u1[2] \in Int /\ u1[3] \in Int
      /\ u1[1] >= x <=> Bright(d, x) + Bright(e, x) + Bright(u0[1], x) >= 1
      /\ u1[2] >= x <=> Bright(d, x) + Bright(e, x) + Bright(u0[1], x) >= 2
      /\ u1[3] >= x <=> Bright(d, x) + Bright(e, x) + Bright(u0[1], x) >= 3
  BY <1>1, Sort3Rank
<1>3. /\ u2[1] \in Int /\ u2[2] \in Int /\ u2[3] \in Int
      /\ u2[1] >= x <=> Bright(u1[2], x) + Bright(u1[3], x) + Bright(u0[2], x) >= 1
      /\ u2[2] >= x <=> Bright(u1[2], x) + Bright(u1[3], x) + Bright(u0[2], x) >= 2
      /\ u2[3] >= x <=> Bright(u1[2], x) + Bright(u1[3], x) + Bright(u0[2], x) >= 3
  BY <1>1, <1>2, Sort3Rank
<1>4. /\ u3[1] \in Int /\ u3[2] \in Int /\ u3[3] \in Int
      /\ u3[1] >= x <=> Bright(u2[2], x) + Bright(u2[3], x) + Bright(u0[3], x) >= 1
      /\ u3[2] >= x <=> Bright(u2[2], x) + Bright(u2[3], x) + Bright(u0[3], x) >= 2
      /\ u3[3] >= x <=> Bright(u2[2], x) + Bright(u2[3], x) + Bright(u0[3], x) >= 3
  BY <1>1, <1>3, Sort3Rank
<1>5. sort_5(a, b, c, d, e) = << u1[1], u2[1], u3[1], u3[2], u3[3] >>
  BY DEF sort_5
<1> DEFINE s == sort_5(a, b, c, d, e)
           n == Bright(a, x) + Bright(b, x) + Bright(c, x) + Bright(d, x) + Bright(e, x)
<1> HIDE DEF u0, u1, u2, u3
<1>6. /\ s[1] \in Int /\ (s[1] >= x <=> n >= 1)
      /\ s[2] \in Int /\ (s[2] >= x <=> n >= 2)
  BY <1>1, <1>2, <1>3, <1>5 DEF Bright
<1>7. /\ s[3] \in Int /\ (s[3] >= x <=> n >= 3)
      /\ s[4] \in Int /\ (s[4] >= x <=> n >= 4)
      /\ s[5] \in Int /\ (s[5] >= x <=> n >= 5)
  BY <1>1, <1>2, <1>3, <1>4, <1>5 DEF Bright
<1> HIDE DEF s, n
<1>8. \A k \in 1 .. 5 : s[k] \in Int /\ (s[k] >= x <=> n >= k)
  BY <1>6, <1>7
<1>9. QED
  BY <1>8 DEF s, n

(***************************************************************************)
(* The stages                                                              *)
(***************************************************************************)
\* How many rows have k bright pixels or more: how far column k is bright
\* when the rows, and then the columns, have been sorted.
Reach(w, x, k) == Bright(BrightInRow(w[0], x), k) + Bright(BrightInRow(w[1], x), k)
                  + Bright(BrightInRow(w[2], x), k) + Bright(BrightInRow(w[3], x), k)
                  + Bright(BrightInRow(w[4], x), k)

Grids == [Five -> [Five -> Int]]

LEMMA RowRank ==
    ASSUME NEW w \in Grids, NEW x \in Int, NEW i \in Five, NEW k \in 1 .. 5
    PROVE  /\ Rows(w)[i][k] \in Int
           /\ Rows(w)[i][k] >= x <=> BrightInRow(w[i], x) >= k
<1>1. /\ w[i][0] \in Int /\ w[i][1] \in Int /\ w[i][2] \in Int
      /\ w[i][3] \in Int /\ w[i][4] \in Int
  BY DEF Grids, Five
<1>2. Rows(w)[i] = sort_5(w[i][0], w[i][1], w[i][2], w[i][3], w[i][4])
  BY DEF Rows
<1>3. QED
  BY <1>1, <1>2, Sort5Rank DEF BrightInRow

LEMMA GridRank ==
    ASSUME NEW w \in Grids, NEW x \in Int, NEW k \in 1 .. 5, NEW j \in 1 .. 5
    PROVE  /\ Cols(Rows(w))[k][j] \in Int
           /\ Cols(Rows(w))[k][j] >= x <=> Reach(w, x, k) >= j
<1> DEFINE r == Rows(w)
<1>1. \A i \in Five : r[i][k] \in Int /\ (r[i][k] >= x <=> BrightInRow(w[i], x) >= k)
  BY RowRank
<1>2. \A i \in Five : Bright(r[i][k], x) = Bright(BrightInRow(w[i], x), k)
  BY <1>1 DEF Bright
<1>3. Cols(r)[k] = sort_5(r[0][k], r[1][k], r[2][k], r[3][k], r[4][k])
  BY DEF Cols
<1> HIDE DEF r
<1>4. /\ r[0][k] \in Int /\ r[1][k] \in Int /\ r[2][k] \in Int
      /\ r[3][k] \in Int /\ r[4][k] \in Int
  BY <1>1 DEF Five
<1>5. /\ Cols(r)[k][j] \in Int
      /\ Cols(r)[k][j] >= x <=> Bright(r[0][k], x) + Bright(r[1][k], x) + Bright(r[2][k], x)
                                + Bright(r[3][k], x) + Bright(r[4][k], x) >= j
  BY <1>3, <1>4, Sort5Rank
<1>6. Bright(r[0][k], x) + Bright(r[1][k], x) + Bright(r[2][k], x)
        + Bright(r[3][k], x) + Bright(r[4][k], x) = Reach(w, x, k)
  BY <1>2 DEF Reach, Five
<1>7. QED
  BY <1>5, <1>6 DEF r

\* Columns are bright no further than those before them, and as far together
\* as there are bright pixels.
LEMMA ReachShape ==
    ASSUME NEW w \in Grids, NEW x \in Int
    PROVE  /\ \A k \in 1 .. 5 : Reach(w, x, k) \in 0 .. 5
           /\ Reach(w, x, 1) >= Reach(w, x, 2) /\ Reach(w, x, 2) >= Reach(w, x, 3)
           /\ Reach(w, x, 3) >= Reach(w, x, 4) /\ Reach(w, x, 4) >= Reach(w, x, 5)
           /\ BrightIn(w, x) = Reach(w, x, 1) + Reach(w, x, 2) + Reach(w, x, 3)
                               + Reach(w, x, 4) + Reach(w, x, 5)
<1> DEFINE n(i) == BrightInRow(w[i], x)
<1>1. \A i \in Five : n(i) \in 0 .. 5
  BY DEF BrightInRow, Bright
<1>2. \A i \in Five : n(i) = Bright(n(i), 1) + Bright(n(i), 2) + Bright(n(i), 3)
                            + Bright(n(i), 4) + Bright(n(i), 5)
  BY <1>1 DEF Bright
<1>3. \A i \in Five, k \in 1 .. 5 : Bright(n(i), k) \in 0 .. 1
  BY <1>1 DEF Bright
<1>4. \A i \in Five, k \in 1 .. 4 : Bright(n(i), k) >= Bright(n(i), k + 1)
  BY <1>1 DEF Bright
<1>5. BrightIn(w, x) = n(0) + n(1) + n(2) + n(3) + n(4)
  BY DEF BrightIn
<1>6. \A k \in 1 .. 5 : Reach(w, x, k) = Bright(n(0), k) + Bright(n(1), k) + Bright(n(2), k)
                                        + Bright(n(3), k) + Bright(n(4), k)
  BY DEF Reach
<1> HIDE DEF n
<1>7. \A k \in 1 .. 5 : Reach(w, x, k) \in 0 .. 5
  BY <1>3, <1>6 DEF Five
<1>8. \A k \in 1 .. 4 : Reach(w, x, k) >= Reach(w, x, k + 1)
  BY <1>3, <1>4, <1>6 DEF Five
<1>9. BrightIn(w, x) = Reach(w, x, 1) + Reach(w, x, 2) + Reach(w, x, 3)
                       + Reach(w, x, 4) + Reach(w, x, 5)
  <2> DEFINE b(i, k) == Bright(n(i), k)
  <2>1. \A i \in Five : /\ n(i) = b(i, 1) + b(i, 2) + b(i, 3) + b(i, 4) + b(i, 5)
                        /\ b(i, 1) \in Int /\ b(i, 2) \in Int /\ b(i, 3) \in Int
                        /\ b(i, 4) \in Int /\ b(i, 5) \in Int
    BY <1>2, <1>3
  <2>2. /\ Reach(w, x, 1) = b(0, 1) + b(1, 1) + b(2, 1) + b(3, 1) + b(4, 1)
        /\ Reach(w, x, 2) = b(0, 2) + b(1, 2) + b(2, 2) + b(3, 2) + b(4, 2)
        /\ Reach(w, x, 3) = b(0, 3) + b(1, 3) + b(2, 3) + b(3, 3) + b(4, 3)
        /\ Reach(w, x, 4) = b(0, 4) + b(1, 4) + b(2, 4) + b(3, 4) + b(4, 4)
        /\ Reach(w, x, 5) = b(0, 5) + b(1, 5) + b(2, 5) + b(3, 5) + b(4, 5)
    BY <1>6
  <2> HIDE DEF b
  <2>3. 0 \in Five /\ 1 \in Five /\ 2 \in Five /\ 3 \in Five /\ 4 \in Five
    BY DEF Five
  <2>4. QED
    BY <1>5, <2>1, <2>2, <2>3
<1>10. QED
  BY <1>7, <1>8, <1>9

\* What the three stages and the last sorter make of a window.
Filtered(w) == LET d == Dias(Cols(Rows(w))) IN sort_3(d[1], d[2], d[3])[2]

\* The same with a wire of dia_2 from column t: the third in the code, the
\* second on a true diagonal.
FilteredFrom(t, w) ==
    LET c == Cols(Rows(w))
    IN  sort_3(dia_0(c), dia_1(c), sort_4(c[1][4], c[t][3], c[3][2], c[4][1])[4])[2]

\* How many of the three diagonals' values reach the threshold, in terms of
\* how far the columns are bright.
Diagonals(c1, c2, c3, c4, c5, ct) ==
    (IF c2 >= 5 \/ c3 >= 4 \/ c4 >= 3 \/ c5 >= 2 THEN 1 ELSE 0)
    + (IF Bright(c1, 5) + Bright(c2, 4) + Bright(c3, 3) + Bright(c4, 2) + Bright(c5, 1) >= 3
       THEN 1 ELSE 0)
    + (IF c1 >= 4 /\ ct >= 3 /\ c3 >= 2 /\ c4 >= 1 THEN 1 ELSE 0)

LEMMA FilteredRank ==
    ASSUME NEW w \in Grids, NEW x \in Int, NEW t \in {2, 3}
    PROVE  /\ FilteredFrom(t, w) \in Int
           /\ FilteredFrom(t, w) >= x <=>
                Diagonals(Reach(w, x, 1), Reach(w, x, 2), Reach(w, x, 3),
                          Reach(w, x, 4), Reach(w, x, 5), Reach(w, x, t)) >= 2
<1> DEFINE c == Cols(Rows(w))
           R(k) == Reach(w, x, k)
<1>1. \A k \in 1 .. 5, j \in 1 .. 5 : c[k][j] \in Int /\ (c[k][j] >= x <=> R(k) >= j)
  BY GridRank
<1>2. \A k \in 1 .. 5, j \in 1 .. 5 : Bright(c[k][j], x) = Bright(R(k), j)
  BY <1>1 DEF Bright
<1>3. \A k \in 1 .. 5 : R(k) \in 0 .. 5
  BY ReachShape
<1> DEFINE d0 == dia_0(c)
           d1 == dia_1(c)
           d2 == sort_4(c[1][4], c[t][3], c[3][2], c[4][1])[4]
<1>4. FilteredFrom(t, w) = sort_3(d0, d1, d2)[2]
  BY DEF FilteredFrom
<1> HIDE DEF c, R
<1>5. d0 \in Int /\ (d0 >= x <=> R(2) >= 5 \/ R(3) >= 4 \/ R(4) >= 3 \/ R(5) >= 2)
  <2>1. c[2][5] \in Int /\ c[3][4] \in Int /\ c[4][3] \in Int /\ c[5][2] \in Int
    BY <1>1
  <2>2. /\ d0 \in Int
        /\ d0 >= x <=> Bright(c[2][5], x) + Bright(c[3][4], x)
                       + Bright(c[4][3], x) + Bright(c[5][2], x) >= 1
    BY <2>1, Sort4Rank DEF dia_0
  <2>3. d0 >= x <=> Bright(R(2), 5) + Bright(R(3), 4) + Bright(R(4), 3) + Bright(R(5), 2) >= 1
    BY <2>2, <1>2
  <2>4. QED
    BY <2>2, <2>3, <1>3 DEF Bright
<1>6. d1 \in Int /\ (d1 >= x <=> Bright(R(1), 5) + Bright(R(2), 4) + Bright(R(3), 3)
                                 + Bright(R(4), 2) + Bright(R(5), 1) >= 3)
  <2>1. /\ c[1][5] \in Int /\ c[2][4] \in Int /\ c[3][3] \in Int
        /\ c[4][2] \in Int /\ c[5][1] \in Int
    BY <1>1
  <2>2. /\ d1 \in Int
        /\ d1 >= x <=> Bright(c[1][5], x) + Bright(c[2][4], x) + Bright(c[3][3], x)
                       + Bright(c[4][2], x) + Bright(c[5][1], x) >= 3
    <3>1. \A k \in 1 .. 5 :
            LET v == sort_5(c[1][5], c[2][4], c[3][3], c[4][2], c[5][1])[k]
            IN  /\ v \in Int
                /\ v >= x <=> Bright(c[1][5], x) + Bright(c[2][4], x) + Bright(c[3][3], x)
                              + Bright(c[4][2], x) + Bright(c[5][1], x) >= k
      BY <2>1, Sort5Rank
    <3>2. d1 = sort_5(c[1][5], c[2][4], c[3][3], c[4][2], c[5][1])[3]
      BY DEF dia_1
    <3> HIDE DEF d1
    <3>3. QED
      BY <3>1, <3>2
  <2>3. QED
    BY <2>2, <1>2
<1>7. d2 \in Int /\ (d2 >= x <=> R(1) >= 4 /\ R(t) >= 3 /\ R(3) >= 2 /\ R(4) >= 1)
  <2>1. c[1][4] \in Int /\ c[t][3] \in Int /\ c[3][2] \in Int /\ c[4][1] \in Int
    BY <1>1
  <2>2. /\ d2 \in Int
        /\ d2 >= x <=> Bright(c[1][4], x) + Bright(c[t][3], x)
                       + Bright(c[3][2], x) + Bright(c[4][1], x) >= 4
    BY <2>1, Sort4Rank
  <2>3. d2 >= x <=> Bright(R(1), 4) + Bright(R(t), 3) + Bright(R(3), 2) + Bright(R(4), 1) >= 4
    BY <2>2, <1>2
  <2>4. QED
    BY <2>2, <2>3, <1>3 DEF Bright
<1> HIDE DEF d0, d1, d2
<1>8. /\ FilteredFrom(t, w) \in Int
      /\ FilteredFrom(t, w) >= x <=> Bright(d0, x) + Bright(d1, x) + Bright(d2, x) >= 2
  <2>1. d0 \in Int /\ d1 \in Int /\ d2 \in Int
    BY <1>5, <1>6, <1>7
  <2>2. LET v == sort_3(d0, d1, d2)[2]
        IN  v \in Int /\ (v >= x <=> Bright(d0, x) + Bright(d1, x) + Bright(d2, x) >= 2)
    BY <2>1, Sort3Rank
  <2>3. QED
    BY <2>2, <1>4
<1>9. Bright(d0, x) + Bright(d1, x) + Bright(d2, x) = Diagonals(R(1), R(2), R(3), R(4), R(5), R(t))
  BY <1>5, <1>6, <1>7 DEF Diagonals, Bright
<1>10. QED
  BY <1>8, <1>9 DEF R

\* The arithmetic of the diagonals: with the code's wire thirteen bright
\* pixels at least, and fifteen are enough; with the other exactly thirteen.
LEMMA DiagonalsCount ==
    ASSUME NEW c1 \in 0 .. 5, NEW c2 \in 0 .. 5, NEW c3 \in 0 .. 5,
           NEW c4 \in 0 .. 5, NEW c5 \in 0 .. 5,
           c1 >= c2, c2 >= c3, c3 >= c4, c4 >= c5
    PROVE  LET n == c1 + c2 + c3 + c4 + c5
           IN  /\ Diagonals(c1, c2, c3, c4, c5, c3) >= 2 => n >= 13
               /\ n >= 15 => Diagonals(c1, c2, c3, c4, c5, c3) >= 2
               /\ Diagonals(c1, c2, c3, c4, c5, c2) >= 2 <=> n >= 13
BY DEF Diagonals, Bright

\* Whatever the window, the filter gives the thirteenth, fourteenth or
\* fifteenth largest of its pixels.
LEMMA NearMedian ==
    ASSUME NEW w \in Grids, NEW x \in Int
    PROVE  /\ Filtered(w) >= x => BrightIn(w, x) >= 13
           /\ BrightIn(w, x) >= 15 => Filtered(w) >= x
<1>1. Filtered(w) = FilteredFrom(3, w)
  BY DEF Filtered, FilteredFrom, Dias, dia_2
<1>2. QED
  BY <1>1, FilteredRank, ReachShape, DiagonalsCount

\* One wire would make it exact: with pip_Third_col[1] in place of
\* pip_Third_col[2] the filter gives the median of every window.
THEOREM TrueDiagonal ==
    ASSUME NEW w \in Grids, Pixel \subseteq Int
    PROVE  IsMedian(FilteredFrom(2, w), w)
<1> SUFFICES ASSUME NEW x \in Pixel
             PROVE  FilteredFrom(2, w) >= x <=> BrightIn(w, x) >= 13
  BY DEF IsMedian
<1>1. x \in Int
  OBVIOUS
<1>2. QED
  BY <1>1, FilteredRank, ReachShape, DiagonalsCount

(***************************************************************************)
(* The pipeline                                                            *)
(***************************************************************************)
Pixels == Pixel \subseteq Int /\ 0 \in Pixel /\ Inputs \subseteq Windows

\* Each register holds its stage's result for the window of its age.
Pipeline == /\ past \in Windows \X Windows \X Windows
            /\ pip_row = Rows(past[1])
            /\ pip_col = Cols(Rows(past[2]))
            /\ pip_dia = Dias(Cols(Rows(past[3])))

\* The values that the registers are reset to are those of a black window.
LEMMA BlackStages ==
    /\ Rows(Black) = [i \in Five |-> [k \in 1 .. 5 |-> 0]]
    /\ Cols(Rows(Black)) = [k \in 1 .. 5 |-> [j \in 1 .. 5 |-> 0]]
    /\ Dias(Cols(Rows(Black))) = << 0, 0, 0 >>
<1> DEFINE zeros == [k \in 1 .. 5 |-> 0]
<1>1. sort_3(0, 0, 0) = << 0, 0, 0 >>
  BY DEF sort_3
<1>2. sort_5(0, 0, 0, 0, 0) = << 0, 0, 0, 0, 0 >>
  BY <1>1 DEF sort_5
<1>3. sort_4(0, 0, 0, 0) = << 0, 0, 0, 0 >>
  BY <1>1 DEF sort_4
<1>4. zeros = << 0, 0, 0, 0, 0 >>
  OBVIOUS
<1>5. Rows(Black) = [i \in Five |-> zeros]
  BY <1>2, <1>4 DEF Rows, Black, Five
<1>6. Cols([i \in Five |-> zeros]) = [k \in 1 .. 5 |-> zeros]
  BY <1>2, <1>4 DEF Cols, Five
<1>7. Dias([k \in 1 .. 5 |-> zeros]) = << 0, 0, 0 >>
  BY <1>2, <1>3 DEF Dias, dia_0, dia_1, dia_2
<1>8. QED
  BY <1>5, <1>6, <1>7

LEMMA InitPipeline == ASSUME Pixels, Init PROVE Pipeline
<1>1. Black \in Windows
  BY DEF Pixels, Windows, Black
<1>2. QED
  BY <1>1, BlackStages DEF Init, Pipeline

LEMMA StepPipeline == ASSUME Pixels, Pipeline, [Next]_vars PROVE Pipeline'
<1>1. CASE Clk
  <2>1. PICK w \in Inputs : /\ pip_row' = Rows(w)
                            /\ pip_col' = Cols(pip_row)
                            /\ pip_dia' = Dias(pip_col)
                            /\ past' = << w, past[1], past[2] >>
    BY <1>1 DEF Clk
  <2>2. w \in Windows
    BY DEF Pixels
  <2>3. QED
    BY <2>1, <2>2 DEF Pipeline
<1>2. CASE Reset
  <2>1. Black \in Windows
    BY DEF Pixels, Windows, Black
  <2>2. QED
    BY <1>2, <2>1, BlackStages DEF Reset, Pipeline
<1>3. CASE UNCHANGED vars
  BY <1>3 DEF vars, Pipeline
<1>4. QED
  BY <1>1, <1>2, <1>3 DEF Next

\* In every state of the pipeline, for pixels of any width, the output is the
\* thirteenth, fourteenth or fifteenth largest pixel of the window of three
\* clocks before.
THEOREM MedianNear == Pixels => (Spec => []OutputNearMedian)
<1> SUFFICES ASSUME Pixels PROVE Spec => []OutputNearMedian
  OBVIOUS
<1>1. Pipeline => OutputNearMedian
  <2> SUFFICES ASSUME Pipeline PROVE OutputNearMedian
    OBVIOUS
  <2>1. past[3] \in Windows
    BY DEF Pipeline
  <2>2. Windows \subseteq Grids
    BY DEF Pixels, Windows, Grids
  <2>3. value_Med = Filtered(past[3])
    BY DEF value_Med, Pipeline, Filtered
  <2>4. QED
    BY <2>1, <2>2, <2>3, NearMedian DEF OutputNearMedian, Pixels
<1>2. Init => Pipeline
  BY InitPipeline
<1>3. Pipeline /\ [Next]_vars => Pipeline'
  BY StepPipeline
<1>4. QED
  BY <1>1, <1>2, <1>3, PTL DEF Spec

\* The window of the run: thirteen bright pixels, and a dark output.
Missed == [i \in Five |-> [j \in Five |->
              IF j < (IF i <= 1 THEN 5 ELSE IF i = 2 THEN 2 ELSE IF i = 3 THEN 1 ELSE 0)
              THEN 1 ELSE 0]]

\* That it may miss the median does not depend on the width: a window of two
\* colours is enough.
THEOREM MedianMissed ==
    {0, 1} \subseteq Pixel => Missed \in Windows /\ ~IsMedian(Filtered(Missed), Missed)
<1>1. /\ BrightInRow(Missed[0], 1) = 5 /\ BrightInRow(Missed[1], 1) = 5
      /\ BrightInRow(Missed[2], 1) = 2 /\ BrightInRow(Missed[3], 1) = 1
      /\ BrightInRow(Missed[4], 1) = 0
  BY DEF Missed, Five, BrightInRow, Bright
<1>2. /\ Reach(Missed, 1, 1) = 4 /\ Reach(Missed, 1, 2) = 3 /\ Reach(Missed, 1, 3) = 2
      /\ Reach(Missed, 1, 4) = 2 /\ Reach(Missed, 1, 5) = 2
  BY <1>1 DEF Reach, Bright
<1>3. BrightIn(Missed, 1) = 13
  BY <1>1 DEF BrightIn
<1>4. Missed \in Grids
  BY DEF Missed, Grids
<1>5. ~(Filtered(Missed) >= 1)
  <2>1. Filtered(Missed) = FilteredFrom(3, Missed)
    BY DEF Filtered, FilteredFrom, Dias, dia_2
  <2>2. QED
    BY <2>1, <1>2, <1>4, FilteredRank DEF Diagonals, Bright
<1>6. Missed \in [Five -> [Five -> {0, 1}]]
  BY DEF Missed
<1>7. QED
  BY <1>3, <1>5, <1>6 DEF IsMedian, Windows
===============================================================================
