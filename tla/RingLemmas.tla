------------------------------ MODULE RingLemmas -------------------------------
(***************************************************************************)
(* Facts about numbers of a fixed width.  First \div and %, which the      *)
(* proofs about registers and row-major addresses use.  Then why two       *)
(* pointers into a circular memory hold a queue: they are positions on a   *)
(* ring of twice the memory's length N, so that an empty memory is told    *)
(* from a full one.  All FIFOs of the repository are built so.             *)
(***************************************************************************)
EXTENDS Integers, Sequences, TLAPS

(***************************************************************************)
(* \div and %                                                              *)
(***************************************************************************)
\* Division with remainder: what \div and % mean.
LEMMA DivMod ==
    ASSUME NEW M \in Nat \ {0}, NEW x \in Int
    PROVE  /\ x = (M * (x \div M)) + (x % M)
           /\ x \div M \in Int
           /\ x % M \in 0 .. M-1
OBVIOUS

\* A value that fits a register is stored as it is.
LEMMA ModSmall ==
    ASSUME NEW M \in Nat \ {0}, NEW x \in 0 .. M-1
    PROVE  x % M = x
OBVIOUS

\* The only multiple of M strictly between -M and M is 0.
LEMMA MultipleSmall ==
    ASSUME NEW M \in Nat \ {0}, NEW d \in Int, M * d < M, -M < M * d
    PROVE  d = 0
<1>1. CASE d >= 1
  <2>1. M * d >= M
    BY <1>1
  <2> QED
    BY <2>1
<1>2. CASE d <= -1
  <2>1. M * d <= -M
    BY <1>2
  <2> QED
    BY <2>1
<1> QED
  BY <1>1, <1>2

\* Quotient and remainder are unique.
LEMMA DivModUnique ==
    ASSUME NEW M \in Nat \ {0}, NEW q \in Int, NEW r \in 0 .. M-1
    PROVE  /\ ((M * q) + r) \div M = q
           /\ ((M * q) + r) % M = r
<1> DEFINE x == (M * q) + r
           p == x \div M
           s == x % M
<1>1. x \in Int
  OBVIOUS
<1>2. x = (M * p) + s /\ p \in Int /\ s \in 0 .. M-1
  BY <1>1, DivMod
<1>3. x = (M * q) + r
  OBVIOUS
<1> HIDE DEF x, p, s
<1>4. M * (p - q) = r - s
  BY <1>2, <1>3
<1>5. p - q = 0
  <2>1. r - s < M /\ -M < r - s
    BY <1>2
  <2>2. p - q \in Int
    BY <1>2
  <2> QED
    BY <1>4, <2>1, <2>2, MultipleSmall
<1>6. p = q
  BY <1>2, <1>5
<1>7. s = r
  BY <1>2, <1>3, <1>6
<1> QED
  BY <1>6, <1>7 DEF x, p, s

\* A multiple of M added before the remainder is taken makes no difference.
LEMMA ModMultiple ==
    ASSUME NEW M \in Nat \ {0}, NEW x \in Int, NEW k \in Int
    PROVE  (x + (k * M)) % M = x % M
<1> DEFINE q == x \div M
           r == x % M
<1>1. x = (M * q) + r /\ q \in Int /\ r \in 0 .. M-1
  BY DivMod
<1> HIDE DEF q, r
<1>2. x + (k * M) = (M * (q + k)) + r
  BY <1>1
<1>3. q + k \in Int
  BY <1>1
<1>4. (x + (k * M)) % M = r
  BY <1>1, <1>2, <1>3, DivModUnique
<1> QED
  BY <1>4 DEF r

\* An adder may drop its carry before or after the sum.
LEMMA ModPlus ==
    ASSUME NEW M \in Nat \ {0}, NEW a \in Int, NEW b \in Int
    PROVE  ((a % M) + b) % M = (a + b) % M
<1> DEFINE q == a \div M
           r == a % M
<1>1. a = (M * q) + r /\ q \in Int /\ r \in 0 .. M-1
  BY DivMod
<1> HIDE DEF q, r
<1>2. r + b = (a + b) + ((-q) * M)
  BY <1>1
<1>3. a + b \in Int /\ -q \in Int
  BY <1>1
<1>4. (r + b) % M = (a + b) % M
  BY <1>2, <1>3, ModMultiple
<1> QED
  BY <1>4 DEF r

(***************************************************************************)
(* The ring                                                                *)
(***************************************************************************)
\* A number less than one turn too far, back on the ring; the memory's cell
\* for it.
Turn(N, p) == IF p >= 2*N THEN p - 2*N ELSE p
Fold(N, p) == IF p >= N THEN p - N ELSE p

\* The number of words between the pointers, and the cell of the i-th.
Gap(N, w, r) == IF w >= r THEN w - r ELSE w + 2*N - r
Cell(N, r, i) == Fold(N, Turn(N, r + i - 1))

Words(N, m, w, r) == [i \in 1 .. Gap(N, w, r) |-> m[Cell(N, r, i)]]

\* One more word at the back.
LEMMA AppendWord ==
    ASSUME NEW S, NEW n \in Nat, NEW q \in [1 .. n -> S], NEW d \in S,
           NEW t \in [1 .. n+1 -> S],
           \A i \in 1 .. n : t[i] = q[i],
           t[n+1] = d
    PROVE  t = Append(q, d) /\ Len(q) = n
<1>1. q \in Seq(S) /\ Len(q) = n
  OBVIOUS
<1>2. t \in Seq(S) /\ Len(t) = n + 1
  OBVIOUS
<1>3. /\ Append(q, d) \in Seq(S) /\ Len(Append(q, d)) = n + 1
      /\ \A i \in 1 .. n : Append(q, d)[i] = q[i]
      /\ Append(q, d)[n+1] = d
  BY <1>1
<1>4. \A i \in 1 .. n+1 : t[i] = Append(q, d)[i]
  <2> TAKE i \in 1 .. n+1
  <2>1. i \in 1 .. n \/ i = n+1
    OBVIOUS
  <2> QED
    BY <1>3, <2>1
<1>5. t = Append(q, d)
  BY <1>2, <1>3, <1>4
<1> QED
  BY <1>1, <1>5

\* One word less at the front.
LEMMA TailWord ==
    ASSUME NEW S, NEW n \in Nat, n >= 1, NEW q \in [1 .. n -> S],
           NEW t \in [1 .. n-1 -> S],
           \A i \in 1 .. n-1 : t[i] = q[i+1]
    PROVE  t = Tail(q) /\ q # << >> /\ Len(q) = n
<1>1. q \in Seq(S) /\ Len(q) = n /\ q # << >>
  OBVIOUS
<1>2. t \in Seq(S) /\ Len(t) = n - 1
  OBVIOUS
<1>3. /\ Tail(q) \in Seq(S) /\ Len(Tail(q)) = n - 1
      /\ \A i \in 1 .. n-1 : Tail(q)[i] = q[i+1]
  BY <1>1
<1>4. t = Tail(q)
  BY <1>2, <1>3
<1> QED
  BY <1>1, <1>4

\* The cells on a ring of positions: where the next word goes, that no word
\* is there yet, and how the words move up when the first one leaves.
LEMMA RingCells ==
    ASSUME NEW N \in Nat \ {0},
           NEW w \in 0 .. 2*N-1, NEW r \in 0 .. 2*N-1, Gap(N, w, r) <= N
    PROVE  /\ Gap(N, w, r) \in 0 .. N
           /\ Gap(N, w, r) = 0 <=> w = r
           /\ \A i \in 1 .. N+1 : Cell(N, r, i) \in 0 .. N-1
           /\ Cell(N, r, Gap(N, w, r) + 1) = Fold(N, w)
           /\ Gap(N, w, r) < N =>
                 /\ \A i \in 1 .. Gap(N, w, r) : Cell(N, r, i) # Fold(N, w)
                 /\ Gap(N, Turn(N, w + 1), r) = Gap(N, w, r) + 1
           /\ Gap(N, w, r) > 0 =>
                 /\ \A i \in 1 .. N : Cell(N, Turn(N, r + 1), i) = Cell(N, r, i+1)
                 /\ Gap(N, w, Turn(N, r + 1)) = Gap(N, w, r) - 1
<1>1. Gap(N, w, r) \in 0 .. N /\ (Gap(N, w, r) = 0 <=> w = r)
  BY DEF Gap
<1>2. \A i \in 1 .. N+1 : Cell(N, r, i) \in 0 .. N-1
  BY DEF Cell, Fold, Turn
<1>3. Cell(N, r, Gap(N, w, r) + 1) = Fold(N, w)
  BY DEF Cell, Fold, Turn, Gap
<1>4. ASSUME Gap(N, w, r) < N
      PROVE  /\ \A i \in 1 .. Gap(N, w, r) : Cell(N, r, i) # Fold(N, w)
             /\ Gap(N, Turn(N, w + 1), r) = Gap(N, w, r) + 1
  BY <1>4 DEF Cell, Fold, Turn, Gap
<1>5. ASSUME Gap(N, w, r) > 0
      PROVE  /\ \A i \in 1 .. N : Cell(N, Turn(N, r + 1), i) = Cell(N, r, i+1)
             /\ Gap(N, w, Turn(N, r + 1)) = Gap(N, w, r) - 1
  BY <1>5 DEF Cell, Fold, Turn, Gap
<1> QED
  BY <1>1, <1>2, <1>3, <1>4, <1>5

\* The words are a sequence.
LEMMA WordsType ==
    ASSUME NEW N \in Nat \ {0}, NEW S, NEW m \in [0 .. N-1 -> S],
           NEW w \in 0 .. 2*N-1, NEW r \in 0 .. 2*N-1, Gap(N, w, r) <= N
    PROVE  Words(N, m, w, r) \in [1 .. Gap(N, w, r) -> S]
<1>1. \A i \in 1 .. Gap(N, w, r) : Cell(N, r, i) \in 0 .. N-1
  <2>1. Gap(N, w, r) \in 0 .. N
    BY RingCells
  <2>2. \A i \in 1 .. N+1 : Cell(N, r, i) \in 0 .. N-1
    BY RingCells
  <2> QED
    BY <2>1, <2>2
<1> QED
  BY <1>1 DEF Words

\* A memory with its pointers; what a step may do to them (write a word where
\* there is a free cell, read one where there is one, or both, or neither); and
\* what that must be for the words between the pointers.
Ring(N, S, m, w, r) == /\ N \in Nat \ {0}
                       /\ w \in 0 .. 2*N-1 /\ r \in 0 .. 2*N-1
                       /\ m \in [0 .. N-1 -> S]
                       /\ Gap(N, w, r) <= N

Moved(N, d, m, w, r, m2, w2, r2) ==
    /\ \/ w2 = w /\ m2 = m
       \/ /\ Gap(N, w, r) < N
          /\ w2 = Turn(N, w + 1)
          /\ m2 = [m EXCEPT ![Fold(N, w)] = d]
    /\ \/ r2 = r
       \/ Gap(N, w, r) > 0 /\ r2 = Turn(N, r + 1)

After(q, took, wrote, d) ==
    LET rest == IF took THEN Tail(q) ELSE q
    IN  IF wrote THEN Append(rest, d) ELSE rest

Queued(N, d, q, t, wrote, took) == /\ wrote => Len(q) < N
                                   /\ took => q # << >>
                                   /\ t = After(q, took, wrote, d)

LEMMA RingStep ==
    ASSUME NEW N, NEW S, NEW d \in S, NEW m, NEW w, NEW r, NEW m2, NEW w2, NEW r2,
           Ring(N, S, m, w, r), Moved(N, d, m, w, r, m2, w2, r2)
    PROVE  Queued(N, d, Words(N, m, w, r), Words(N, m2, w2, r2), w2 # w, r2 # r)
<1> DEFINE q == Words(N, m, w, r)
           t == Words(N, m2, w2, r2)
           n == Gap(N, w, r)
           wr == n < N /\ w2 = Turn(N, w + 1) /\ m2 = [m EXCEPT ![Fold(N, w)] = d]
           rd == n > 0 /\ r2 = Turn(N, r + 1)
<1>10. /\ N \in Nat \ {0} /\ m \in [0 .. N-1 -> S]
       /\ w \in 0 .. 2*N-1 /\ r \in 0 .. 2*N-1 /\ Gap(N, w, r) <= N
  BY DEF Ring
<1>11. /\ (w2 = w /\ m2 = m) \/ wr
       /\ r2 = r \/ rd
  BY DEF Moved
<1> USE <1>10, <1>11
<1>1. n \in 0 .. N
  BY RingCells
<1>2. q \in [1 .. n -> S]
  BY WordsType
<1>3. \A i \in 1 .. n : q[i] = m[Cell(N, r, i)]
  BY DEF Words
<1>4. /\ \A i \in 1 .. N+1 : Cell(N, r, i) \in 0 .. N-1
      /\ Cell(N, r, n+1) = Fold(N, w)
      /\ n < N => \A i \in 1 .. n : Cell(N, r, i) # Fold(N, w)
      /\ n < N => Gap(N, Turn(N, w + 1), r) = n + 1
      /\ n > 0 => \A i \in 1 .. N : Cell(N, Turn(N, r + 1), i) = Cell(N, r, i+1)
      /\ n > 0 => Gap(N, w, Turn(N, r + 1)) = n - 1
  <2>1. \A i \in 1 .. N+1 : Cell(N, r, i) \in 0 .. N-1
    BY RingCells
  <2>4. Cell(N, r, n+1) = Fold(N, w)
    BY RingCells
  <2>2. ASSUME n < N
        PROVE  /\ \A i \in 1 .. n : Cell(N, r, i) # Fold(N, w)
               /\ Gap(N, Turn(N, w + 1), r) = n + 1
    BY <2>2, RingCells
  <2>3. ASSUME n > 0
        PROVE  /\ \A i \in 1 .. N : Cell(N, Turn(N, r + 1), i) = Cell(N, r, i+1)
               /\ Gap(N, w, Turn(N, r + 1)) = n - 1
    BY <2>3, RingCells
  <2> QED
    BY <2>1, <2>2, <2>3, <2>4
<1>9. (wr <=> w2 # w) /\ (rd <=> r2 # r)
  BY DEF Turn
<1>5. CASE ~wr /\ ~rd
  BY <1>5, <1>9 DEF Queued, After
<1>6. CASE wr /\ ~rd
  <2>1. n < N /\ r2 = r /\ Gap(N, w2, r2) = n + 1
    BY <1>4, <1>6
  <2>2. t = [i \in 1 .. n+1 |-> m2[Cell(N, r, i)]]
    BY <2>1 DEF Words
  <2>3. /\ Fold(N, w) \in 0 .. N-1
        /\ m2 \in [0 .. N-1 -> S] /\ m2[Fold(N, w)] = d
        /\ \A c \in 0 .. N-1 : c # Fold(N, w) => m2[c] = m[c]
    <3>1. Fold(N, w) \in 0 .. N-1
      BY <1>1, <1>4
    <3> QED
      BY <1>6, <3>1
  <2>4. \A i \in 1 .. n+1 : Cell(N, r, i) \in 0 .. N-1
    BY <1>1, <1>4
  <2>5. t \in [1 .. n+1 -> S]
    BY <2>2, <2>3, <2>4
  <2>6. t[n+1] = d
    <3>1. n+1 \in 1 .. n+1
      BY <1>1
    <3>2. t[n+1] = m2[Cell(N, r, n+1)]
      BY <2>2, <3>1
    <3> QED
      BY <1>4, <2>3, <3>2
  <2>7. ASSUME NEW i \in 1 .. n PROVE t[i] = q[i]
    <3>1. Cell(N, r, i) # Fold(N, w) /\ Cell(N, r, i) \in 0 .. N-1 /\ i \in 1 .. n+1
      BY <1>1, <1>4, <2>1, <2>4
    <3> QED
      BY <1>3, <2>2, <2>3, <3>1
  <2> HIDE DEF q, t, n
  <2>8. t = Append(q, d) /\ Len(q) = n
    BY <1>1, <1>2, <2>5, <2>6, <2>7, AppendWord
  <2> QED
    BY <1>6, <1>9, <2>1, <2>8 DEF Queued, After, q, t, n
<1>7. CASE ~wr /\ rd
  <2>1. n > 0 /\ m2 = m /\ Gap(N, w2, r2) = n - 1
    BY <1>4, <1>7
  <2>2. t = [i \in 1 .. n-1 |-> m[Cell(N, Turn(N, r + 1), i)]]
    BY <1>7, <2>1 DEF Words
  <2>3. \A i \in 1 .. n-1 : Cell(N, Turn(N, r + 1), i) = Cell(N, r, i+1)
    BY <1>1, <1>4, <2>1
  <2>4. \A i \in 1 .. n-1 : t[i] = q[i+1]
    BY <1>1, <1>3, <2>2, <2>3
  <2>5. t \in [1 .. n-1 -> S]
    <3>1. \A i \in 1 .. n-1 : q[i+1] \in S
      BY <1>1, <1>2
    <3> QED
      BY <2>2, <2>4, <3>1
  <2> HIDE DEF q, t, n
  <2>6. t = Tail(q) /\ q # << >>
    BY <1>1, <1>2, <2>1, <2>4, <2>5, TailWord
  <2> QED
    BY <1>7, <1>9, <2>6 DEF Queued, After, q, t
<1>8. CASE wr /\ rd
  <2>1. n > 0 /\ n < N
    BY <1>8
  <2>2. Gap(N, w2, r2) = n
    BY <1>1, <1>8, <2>1 DEF Gap, Turn
  <2>3. t = [i \in 1 .. n |-> m2[Cell(N, Turn(N, r + 1), i)]]
    BY <1>8, <2>2 DEF Words
  <2>4. /\ Fold(N, w) \in 0 .. N-1
        /\ m2 \in [0 .. N-1 -> S] /\ m2[Fold(N, w)] = d
        /\ \A c \in 0 .. N-1 : c # Fold(N, w) => m2[c] = m[c]
    <3>1. Fold(N, w) \in 0 .. N-1
      BY <1>1, <1>4
    <3> QED
      BY <1>8, <3>1
  <2>5. \A i \in 1 .. n : t[i] = m2[Cell(N, r, i+1)]
    <3>1. \A i \in 1 .. n : Cell(N, Turn(N, r + 1), i) = Cell(N, r, i+1)
      BY <1>1, <1>4, <2>1
    <3> QED
      BY <2>3, <3>1
  <2>6. t[n] = d
    <3>1. n \in 1 .. n
      BY <1>1, <2>1
    <3>2. t[n] = m2[Cell(N, r, n+1)]
      BY <2>5, <3>1
    <3> QED
      BY <1>4, <2>4, <3>2
  <2>7. ASSUME NEW i \in 1 .. n-1 PROVE t[i] = q[i+1]
    <3>1. i+1 \in 1 .. n /\ i \in 1 .. n /\ i+1 \in 1 .. N+1
      BY <1>1
    <3>2. Cell(N, r, i+1) # Fold(N, w) /\ Cell(N, r, i+1) \in 0 .. N-1
      BY <1>4, <2>1, <3>1
    <3> QED
      BY <1>3, <2>4, <2>5, <3>1, <3>2
  <2>8. t \in [1 .. n -> S]
    <3>1. \A i \in 1 .. n : Cell(N, r, i+1) \in 0 .. N-1
      BY <1>1, <1>4
    <3>2. \A i \in 1 .. n : t[i] \in S
      BY <2>4, <2>5, <3>1
    <3> QED
      BY <2>3, <3>2
  <2> DEFINE u == [i \in 1 .. n-1 |-> q[i+1]]
  <2>9. u \in [1 .. n-1 -> S]
    BY <1>1, <1>2
  <2>10. \A i \in 1 .. n-1 : u[i] = q[i+1]
    OBVIOUS
  <2> HIDE DEF q, t, n, u
  <2>11. u = Tail(q) /\ q # << >> /\ Len(q) = n
    BY <1>1, <1>2, <2>1, <2>9, <2>10, TailWord
  <2>12. t = Append(u, d)
    <3> DEFINE k == n - 1
    <3>1. k \in Nat /\ k + 1 = n
      BY <1>1, <2>1
    <3>2. u \in [1 .. k -> S] /\ t \in [1 .. k+1 -> S] /\ t[k+1] = d
      BY <2>6, <2>8, <2>9, <3>1
    <3>3. \A i \in 1 .. k : t[i] = u[i]
      BY <2>7, <2>10
    <3> HIDE DEF k
    <3> QED
      BY <3>1, <3>2, <3>3, AppendWord
  <2> QED
    BY <1>8, <1>9, <2>1, <2>11, <2>12 DEF Queued, After, q, t, n
<1> QED
  BY <1>5, <1>6, <1>7, <1>8

\* The word at the front is that of the cell that the read pointer points to.
LEMMA FrontWord ==
    ASSUME NEW N, NEW S, NEW m, NEW w, NEW r, Ring(N, S, m, w, r)
    PROVE  /\ Words(N, m, w, r) \in Seq(S)
           /\ Len(Words(N, m, w, r)) = Gap(N, w, r)
           /\ Gap(N, w, r) \in 0 .. N
           /\ Gap(N, w, r) > 0 => Head(Words(N, m, w, r)) = m[Fold(N, r)]
<1> DEFINE q == Words(N, m, w, r)
           n == Gap(N, w, r)
<1>1. n \in 0 .. N /\ n \in Nat
  BY RingCells DEF Ring
<1>2. q \in [1 .. n -> S]
  BY WordsType DEF Ring
<1>3. n > 0 => q[1] = m[Fold(N, r)]
  BY <1>1 DEF Words, Cell, Turn, Ring
<1> HIDE DEF q, n
<1> QED
  BY <1>1, <1>2, <1>3 DEF q, n

(***************************************************************************)
(* Pointers of one bit more than an address are positions on the ring      *)
(***************************************************************************)
LEMMA PointerBits ==
    ASSUME NEW N \in Nat \ {0}, NEW p \in 0 .. 2*N-1
    PROVE  (p % N) = Fold(N, p) /\ ((p + 1) % (2*N)) = Turn(N, p + 1)
<1>1. (p % N) = Fold(N, p)
  <2>1. CASE p < N
    <3>1. p \in 0 .. N-1
      BY <2>1
    <3> QED
      BY <2>1, <3>1, ModSmall DEF Fold
  <2>2. CASE p >= N
    <3> DEFINE x == p - N
    <3>1. x \in 0 .. N-1 /\ p = (N * 1) + x
      BY <2>2
    <3> HIDE DEF x
    <3>2. ((N * 1) + x) % N = x
      BY <3>1, DivModUnique
    <3>3. Fold(N, p) = x
      BY <2>2 DEF Fold, x
    <3> QED
      BY <3>1, <3>2, <3>3
  <2> QED
    BY <2>1, <2>2
<1>2. ((p + 1) % (2*N)) = Turn(N, p + 1)
  <2>1. 2*N \in Nat \ {0}
    OBVIOUS
  <2>2. CASE p + 1 < 2*N
    <3>1. p + 1 \in 0 .. 2*N - 1
      BY <2>2
    <3>2. (p + 1) % (2*N) = p + 1
      BY <2>1, <3>1, ModSmall
    <3> QED
      BY <2>2, <3>2 DEF Turn
  <2>3. CASE p + 1 >= 2*N
    <3>1. p + 1 = ((2*N) * 1) + 0 /\ 0 \in 0 .. 2*N - 1
      BY <2>3
    <3>2. (((2*N) * 1) + 0) % (2*N) = 0
      BY <2>1, <3>1, DivModUnique
    <3>3. Turn(N, p + 1) = 0
      BY <2>3, <3>1 DEF Turn
    <3> QED
      BY <3>1, <3>2, <3>3
  <2> QED
    BY <2>2, <2>3
<1> QED
  BY <1>1, <1>2

\* The difference of the pointers counts the words.
LEMMA CountBits ==
    ASSUME NEW N \in Nat \ {0}, NEW w \in 0 .. 2*N-1, NEW r \in 0 .. 2*N-1
    PROVE  (w + 2*N - r) % (2*N) = Gap(N, w, r)
<1> DEFINE T == 2*N
           g == Gap(N, w, r)
<1>1. T \in Nat \ {0} /\ g \in 0 .. T - 1
  BY DEF Gap
<1>2. CASE w >= r
  <2>1. w + 2*N - r = (T * 1) + g
    BY <1>2 DEF Gap
  <2> HIDE DEF T, g
  <2>2. ((T * 1) + g) % T = g
    BY <1>1, DivModUnique
  <2> QED
    BY <2>1, <2>2 DEF T, g
<1>3. CASE w < r
  <2>1. w + 2*N - r = g
    BY <1>3 DEF Gap
  <2> HIDE DEF T, g
  <2>2. g % T = g
    BY <1>1, ModSmall
  <2> QED
    BY <2>1, <2>2 DEF T, g
<1> QED
  BY <1>2, <1>3

\* A cell counted from the read pointer, in the pointer's low bits.
LEMMA CellBits ==
    ASSUME NEW N \in Nat \ {0}, NEW r \in 0 .. 2*N-1, NEW i \in 1 .. N
    PROVE  (r + i - 1) % N = Cell(N, r, i)
<1> DEFINE x == r + i - 1
<1>1. x \in 0 .. (2*N + N) - 1
  OBVIOUS
<1> HIDE DEF x
<1>2. CASE x < 2*N
  <2>1. x \in 0 .. 2*N-1
    BY <1>1, <1>2
  <2>2. (x % N) = Fold(N, x)
    BY <2>1, PointerBits
  <2>3. Turn(N, x) = x
    BY <1>1, <1>2 DEF Turn
  <2> QED
    BY <2>2, <2>3 DEF Cell, x
<1>3. CASE x >= 2*N
  <2> DEFINE y == x - 2*N
  <2>1. y \in 0 .. N-1 /\ x = (N * 2) + y /\ Turn(N, x) = y /\ Fold(N, y) = y
    BY <1>1, <1>3 DEF Turn, Fold
  <2> HIDE DEF y
  <2>2. ((N * 2) + y) % N = y
    <3>1. \A k \in Int : ((N * k) + y) % N = y
      BY <2>1, DivModUnique
    <3> QED
      BY <3>1
  <2>3. (x % N) = y
    BY <2>1, <2>2
  <2> QED
    BY <2>1, <2>3 DEF Cell, x
<1> QED
  BY <1>1, <1>2, <1>3

\* The words, as the FIFOs of one clock write them down.
LEMMA WordsInBits ==
    ASSUME NEW N, NEW S, NEW m, NEW w, NEW r, Ring(N, S, m, w, r)
    PROVE  [i \in 1 .. ((w + 2*N - r) % (2*N)) |-> m[(r + i - 1) % N]] = Words(N, m, w, r)
<1>1. /\ N \in Nat \ {0} /\ w \in 0 .. 2*N-1 /\ r \in 0 .. 2*N-1
      /\ Gap(N, w, r) \in 0 .. N
  BY RingCells DEF Ring
<1>2. (w + 2*N - r) % (2*N) = Gap(N, w, r)
  BY <1>1, CountBits
<1>3. \A i \in 1 .. Gap(N, w, r) : (r + i - 1) % N = Cell(N, r, i)
  <2> TAKE i \in 1 .. Gap(N, w, r)
  <2>1. i \in 1 .. N
    BY <1>1
  <2> QED
    BY <1>1, <2>1, CellBits
<1> QED
  BY <1>2, <1>3 DEF Words

\* Full and empty, told apart by the pointers' highest bit.
LEMMA FlagsInBits ==
    ASSUME NEW N, NEW S, NEW m, NEW w, NEW r, Ring(N, S, m, w, r)
    PROVE  LET wrapped == (w >= N) # (r >= N) IN
           /\ wrapped /\ w % N = r % N <=> Gap(N, w, r) = N
           /\ ~wrapped /\ w % N = r % N <=> Gap(N, w, r) = 0
           /\ w = r <=> Gap(N, w, r) = 0
<1>1. N \in Nat \ {0} /\ w \in 0 .. 2*N-1 /\ r \in 0 .. 2*N-1
  BY DEF Ring
<1>2. w % N = Fold(N, w) /\ r % N = Fold(N, r)
  BY <1>1, PointerBits
<1> QED
  BY <1>1, <1>2 DEF Fold, Gap
\* A clock that writes d when wrote holds and reads when took does, each only
\* when there is a cell or a word for it, keeps the ring and steps the queue.
Clocked(N, S, d, wrote, took, m, w, r, m2, w2, r2) ==
    /\ wrote \in BOOLEAN /\ took \in BOOLEAN
    /\ wrote => d \in S
    /\ IF wrote THEN /\ Gap(N, w, r) < N
                     /\ m2 = [m EXCEPT ![w % N] = d]
                     /\ w2 = (w + 1) % (2*N)
                ELSE m2 = m /\ w2 = w
    /\ IF took THEN Gap(N, w, r) > 0 /\ r2 = (r + 1) % (2*N)
               ELSE r2 = r

LEMMA RingClock ==
    ASSUME NEW N, NEW S, NEW d, NEW m, NEW w, NEW r, NEW m2, NEW w2, NEW r2,
           NEW wrote, NEW took,
           Ring(N, S, m, w, r), Clocked(N, S, d, wrote, took, m, w, r, m2, w2, r2)
    PROVE  /\ Ring(N, S, m2, w2, r2)
           /\ Queued(N, d, Words(N, m, w, r), Words(N, m2, w2, r2), wrote, took)
<1>1. /\ N \in Nat \ {0} /\ w \in 0 .. 2*N-1 /\ r \in 0 .. 2*N-1
      /\ m \in [0 .. N-1 -> S] /\ Gap(N, w, r) \in 0 .. N
  BY FrontWord DEF Ring
<1>2. /\ w % N = Fold(N, w)
      /\ (w + 1) % (2*N) = Turn(N, w + 1) /\ (r + 1) % (2*N) = Turn(N, r + 1)
  BY <1>1, PointerBits
<1>3. /\ wrote \in BOOLEAN /\ took \in BOOLEAN /\ (wrote => d \in S)
      /\ IF wrote THEN /\ Gap(N, w, r) < N
                      /\ m2 = [m EXCEPT ![Fold(N, w)] = d]
                      /\ w2 = Turn(N, w + 1)
                 ELSE m2 = m /\ w2 = w
      /\ IF took THEN Gap(N, w, r) > 0 /\ r2 = Turn(N, r + 1)
                ELSE r2 = r
  BY <1>2 DEF Clocked
<1>4. (wrote <=> w2 # w) /\ (took <=> r2 # r)
  BY <1>1, <1>3 DEF Turn
<1>5. Moved(N, d, m, w, r, m2, w2, r2)
  BY <1>3 DEF Moved
<1>6. Ring(N, S, m2, w2, r2)
  <2>1. m2 \in [0 .. N-1 -> S]
    BY <1>1, <1>3
  <2>2. w2 \in 0 .. 2*N-1 /\ r2 \in 0 .. 2*N-1
    BY <1>1, <1>3 DEF Turn
  <2>3. Gap(N, w2, r2) <= N
    BY <1>1, <1>3 DEF Turn, Gap
  <2> QED
    BY <1>1, <2>1, <2>2, <2>3 DEF Ring
<1>9. (w2 # w) = wrote /\ (r2 # r) = took
  BY <1>3, <1>4
<1>7. CASE d \in S
  <2>1. Queued(N, d, Words(N, m, w, r), Words(N, m2, w2, r2), w2 # w, r2 # r)
    BY <1>5, <1>7, RingStep
  <2> QED
    BY <1>6, <1>9, <2>1
<1>8. CASE ~wrote
  <2>1. CASE S = {}
    <3>1. 0 \in 0 .. N-1 /\ m[0] \in S
      BY <1>1
    <3> QED
      BY <2>1, <3>1
  <2>2. CASE S # {}
    <3>1. PICK e : e \in S
      BY <2>2
    <3>2. Moved(N, e, m, w, r, m2, w2, r2)
      BY <1>3, <1>8 DEF Moved
    <3>3. Queued(N, e, Words(N, m, w, r), Words(N, m2, w2, r2), w2 # w, r2 # r)
      BY <3>1, <3>2, RingStep
    <3>4. Queued(N, d, Words(N, m, w, r), Words(N, m2, w2, r2), w2 # w, r2 # r)
      BY <1>4, <1>8, <3>3 DEF Queued, After
    <3> QED
      BY <1>6, <1>9, <3>4
  <2> QED
    BY <2>1, <2>2
<1> QED
  BY <1>3, <1>7, <1>8
===============================================================================
