---------------------------- MODULE ConsoleProofs ----------------------------
(***************************************************************************)
(* Proofs about Console, for any size of the display, of the input buffer  *)
(* and of readline()'s buffer, any keys and any input.                     *)
(***************************************************************************)
EXTENDS Console, SequenceTheorems, TLAPS

-----------------------------------------------------------------------------
(***************************************************************************)
(* The display: what cga_putc() does to the cursor.                        *)
(***************************************************************************)
Cells == 0 .. CRT_SIZE - 1

(* A display between two characters, and one before the test for the last  *)
(* row.                                                                    *)
OnDisplay(d) == /\ d \in [cells : [Cells -> Int], pos : Nat]
                /\ d.pos < CRT_SIZE

Unscrolled(d) == /\ d \in [cells : [Cells -> Int], pos : Nat]
                 /\ d.pos < CRT_SIZE + CRT_COLS

LEMMA Sizes ==
  /\ CRT_SIZE \in Nat /\ CRT_COLS \in Nat /\ CRT_ROWS \in Nat
  /\ 0 < CRT_COLS /\ CRT_COLS <= CRT_SIZE
<1>1. \A a, b \in Nat \ {0} : a * b \in Nat /\ b <= a * b
  OBVIOUS
<1> QED BY <1>1, ConsoleAssumption DEF CRT_SIZE

(* The display moves up by a row, or not at all. *)
Shifted(d, e, n) ==
  /\ n \in Nat /\ n <= d.pos
  /\ e.pos = d.pos - n
  /\ \A i \in Cells : i + n \in Cells => e.cells[i] = d.cells[i + n]

LEMMA ScrollIs ==
  ASSUME NEW d, Unscrolled(d)
  PROVE  /\ OnDisplay(Scroll(d))
         /\ \E n \in Nat : Shifted(d, Scroll(d), n)
<1>0. /\ d \in [cells : [Cells -> Int], pos : Nat]
      /\ d.cells \in [Cells -> Int] /\ d.pos \in Nat
      /\ d.pos < CRT_SIZE + CRT_COLS
  BY DEF Unscrolled
<1>1. CASE d.pos < CRT_SIZE
  <2>1. Scroll(d) = d
    BY <1>1 DEF Scroll
  <2>2. \A i \in Cells : i + 0 = i
    BY Sizes DEF Cells
  <2>3. Shifted(d, d, 0)
    BY <1>0, <2>2 DEF Shifted
  <2> QED BY <1>0, <1>1, <2>1, <2>3 DEF OnDisplay
<1>2. CASE ~(d.pos < CRT_SIZE)
  <2> DEFINE up == [i \in Cells |->
                      IF i < CRT_SIZE - CRT_COLS THEN d.cells[i + CRT_COLS] ELSE Space]
             e == [cells |-> up, pos |-> d.pos - CRT_COLS]
  <2>1. Scroll(d) = e
    BY <1>2 DEF Scroll, Cells
  <2>2. ASSUME NEW i \in Cells
        PROVE  i < CRT_SIZE - CRT_COLS <=> i + CRT_COLS \in Cells
    BY Sizes DEF Cells
  <2>3. up \in [Cells -> Int]
    BY <1>0, <2>2 DEF Space
  <2>4. d.pos - CRT_COLS \in Nat /\ d.pos - CRT_COLS < CRT_SIZE
    BY <1>0, <1>2, Sizes
  <2>5. OnDisplay(e)
    BY <2>3, <2>4 DEF OnDisplay
  <2>6. \A i \in Cells : i + CRT_COLS \in Cells => up[i] = d.cells[i + CRT_COLS]
    BY <2>2
  <2>7. Shifted(d, e, CRT_COLS)
    BY <1>0, <1>2, <2>6, Sizes DEF Shifted
  <2> HIDE DEF e
  <2> QED BY <2>1, <2>5, <2>7, Sizes
<1> QED BY <1>1, <1>2

LEMMA ScrollKeeps ==
  ASSUME NEW d, OnDisplay(d)
  PROVE  Scroll(d) = d
  BY DEF OnDisplay, Scroll

LEMMA ModBounds ==
  ASSUME NEW a \in Nat, NEW k \in Nat \ {0}
  PROVE  a % k \in 0 .. k - 1 /\ a % k <= a
<1>1. a % k \in 0 .. k - 1 /\ a \div k \in Nat /\ a = k * (a \div k) + (a % k)
  OBVIOUS
<1> DEFINE q == a \div k
<1>2. q \in Nat
  BY <1>1
<1> HIDE DEF q
<1>3. k * q \in Nat
  BY <1>2
<1> QED BY <1>1, <1>3 DEF q

LEMMA LineStartIs ==
  ASSUME NEW pos \in Nat
  PROVE  LineStart(pos) \in Nat /\ LineStart(pos) <= pos
<1>1. pos % CRT_COLS \in 0 .. CRT_COLS - 1 /\ pos % CRT_COLS <= pos
  BY ModBounds, ConsoleAssumption
<1> QED BY <1>1, ConsoleAssumption DEF LineStart

(* A glyph: it is the character before the cursor, which has not left the  *)
(* display.                                                                *)
LEMMA GlyphIs ==
  ASSUME NEW d, OnDisplay(d), NEW c \in Int
  PROVE  /\ OnDisplay(PutGlyph(d, c))
         /\ \E n \in Nat :
              Shifted([cells |-> [d.cells EXCEPT ![d.pos] = c],
                       pos |-> d.pos + 1], PutGlyph(d, c), n)
<1> DEFINE e == [cells |-> [d.cells EXCEPT ![d.pos] = c], pos |-> d.pos + 1]
<1>1. d.cells \in [Cells -> Int] /\ d.pos \in Nat /\ d.pos < CRT_SIZE
  BY DEF OnDisplay
<1> DEFINE f == [d.cells EXCEPT ![d.pos] = c]
<1>5. f \in [Cells -> Int]
  BY <1>1
<1>2. Unscrolled(e)
  <2> HIDE DEF f
  <2>1. d.pos + 1 \in Nat /\ d.pos + 1 < CRT_SIZE + CRT_COLS
    BY <1>1, Sizes
  <2>2. Unscrolled([cells |-> f, pos |-> d.pos + 1])
    BY <1>5, <2>1 DEF Unscrolled
  <2> QED BY <2>2, Zenon DEF f
<1>3. PutGlyph(d, c) = Scroll(e)
  BY DEF PutGlyph
<1> HIDE DEF e
<1>4. OnDisplay(Scroll(e)) /\ \E n \in Nat : Shifted(e, Scroll(e), n)
  BY <1>2, ScrollIs
<1> QED BY <1>3, <1>4 DEF e

LEMMA PutcOnDisplay ==
  ASSUME NEW d, OnDisplay(d), NEW c \in Int
  PROVE  OnDisplay(CgaPutc(d, c))
<1>0. /\ d.cells \in [Cells -> Int] /\ d.pos \in Nat /\ d.pos < CRT_SIZE
      /\ d \in [cells : [Cells -> Int], pos : Nat] /\ Space \in Int
  BY DEF OnDisplay, Space
<1>1. CASE c = 8
  <2>1. CASE d.pos = 0
    BY <1>1, <2>1, ScrollKeeps DEF CgaPutc
  <2>2. CASE d.pos # 0
    <3> DEFINE e == [cells |-> [d.cells EXCEPT ![d.pos - 1] = Space],
                     pos |-> d.pos - 1]
    <3> DEFINE f == [d.cells EXCEPT ![d.pos - 1] = Space]
    <3>3. f \in [Cells -> Int]
      BY <1>0
    <3>4. d.pos - 1 \in Nat /\ d.pos - 1 < CRT_SIZE
      BY <1>0, <2>2, Sizes
    <3>1. OnDisplay(e)
      <4> HIDE DEF f
      <4>1. OnDisplay([cells |-> f, pos |-> d.pos - 1])
        BY <3>3, <3>4 DEF OnDisplay
      <4> QED BY <4>1, Zenon DEF f
    <3>2. CgaPutc(d, c) = Scroll(e)
      BY <1>1, <2>2 DEF CgaPutc
    <3> HIDE DEF e
    <3> QED BY <3>1, <3>2, ScrollKeeps
  <2> QED BY <2>1, <2>2
<1>2. CASE c = 10
  <2> DEFINE e == [d EXCEPT !.pos = LineStart(d.pos + CRT_COLS)]
  <2>1. LineStart(d.pos + CRT_COLS) \in Nat
        /\ LineStart(d.pos + CRT_COLS) <= d.pos + CRT_COLS
    BY <1>0, Sizes, LineStartIs
  <2>2. Unscrolled(e)
    BY <1>0, <2>1, Sizes DEF Unscrolled
  <2>3. CgaPutc(d, c) = Scroll(e)
    BY <1>2 DEF CgaPutc
  <2> HIDE DEF e
  <2> QED BY <2>2, <2>3, ScrollIs
<1>3. CASE c = 13
  <2> DEFINE e == [d EXCEPT !.pos = LineStart(d.pos)]
  <2>1. LineStart(d.pos) \in Nat /\ LineStart(d.pos) <= d.pos
    BY <1>0, LineStartIs
  <2>2. Unscrolled(e)
    BY <1>0, <2>1, Sizes DEF Unscrolled
  <2>3. CgaPutc(d, c) = Scroll(e)
    BY <1>3 DEF CgaPutc
  <2> HIDE DEF e
  <2> QED BY <2>2, <2>3, ScrollIs
<1>4. CASE c = 9
  <2> DEFINE blank(x) == PutGlyph(x, Space)
             e == blank(blank(blank(blank(blank(d)))))
  <2>1. ASSUME NEW x, OnDisplay(x) PROVE OnDisplay(blank(x))
    BY <1>0, <2>1, GlyphIs
  <2>2. CgaPutc(d, c) = Scroll(e)
    BY <1>4 DEF CgaPutc
  <2> HIDE DEF blank
  <2>3. OnDisplay(e)
    BY <2>1
  <2> HIDE DEF e
  <2> QED BY <2>2, <2>3, ScrollKeeps
<1>5. CASE c \notin {8, 9, 10, 13}
  <2>1. CgaPutc(d, c) = PutGlyph(d, c)
    BY <1>5 DEF CgaPutc
  <2> QED BY <2>1, GlyphIs
<1> QED BY <1>1, <1>2, <1>3, <1>4, <1>5

-----------------------------------------------------------------------------
(***************************************************************************)
(* The line that readline() has, before the cursor.                        *)
(***************************************************************************)
OnLine(d, l) ==
  /\ \A j \in 1 .. Len(l) : d.pos >= j => d.cells[d.pos - j] = l[Len(l) + 1 - j]
  /\ d.pos > Len(l) => d.cells[d.pos - Len(l) - 1] = Prompt

LEMMA ShiftedLine ==
  ASSUME NEW d, NEW e, NEW n, NEW l \in Seq(Int), OnLine(d, l), Shifted(d, e, n),
         d.pos \in Nat, d.pos <= CRT_SIZE
  PROVE  OnLine(e, l)
<1>1. /\ n \in Nat /\ n <= d.pos /\ e.pos = d.pos - n /\ e.pos \in Nat
      /\ \A i \in Cells : i + n \in Cells => e.cells[i] = d.cells[i + n]
  BY DEF Shifted
<1>2. ASSUME NEW j \in Nat, 1 <= j, e.pos >= j
      PROVE  d.pos >= j /\ e.cells[e.pos - j] = d.cells[d.pos - j]
  <2>1. /\ e.pos - j \in Cells /\ d.pos - j \in Cells
        /\ (e.pos - j) + n = d.pos - j /\ d.pos >= j
    <3> DEFINE p == d.pos
               q == e.pos
    <3>1. /\ p \in Nat /\ q \in Nat /\ q = p - n /\ n <= p /\ p <= CRT_SIZE
          /\ n \in Nat /\ j \in Nat /\ 1 <= j /\ q >= j
      BY <1>1, <1>2
    <3> HIDE DEF p, q
    <3>2. /\ q - j \in 0 .. CRT_SIZE - 1 /\ p - j \in 0 .. CRT_SIZE - 1
          /\ (q - j) + n = p - j /\ p >= j
      BY <3>1, Sizes
    <3> QED BY <3>2 DEF Cells, p, q
  <2> QED BY <1>1, <2>1
<1>3. Len(l) \in Nat
  OBVIOUS
<1>4. ASSUME NEW j \in 1 .. Len(l), e.pos >= j
      PROVE  e.cells[e.pos - j] = l[Len(l) + 1 - j]
  BY <1>2, <1>3, <1>4 DEF OnLine
<1>5. ASSUME e.pos > Len(l)
      PROVE  e.cells[e.pos - Len(l) - 1] = Prompt
  <2> DEFINE j == Len(l) + 1
  <2>1. j \in Nat /\ 1 <= j /\ e.pos >= j /\ d.pos > Len(l)
    BY <1>1, <1>3, <1>5
  <2>2. e.cells[e.pos - j] = d.cells[d.pos - j]
    BY <1>2, <2>1
  <2>3. e.pos - j = e.pos - Len(l) - 1 /\ d.pos - j = d.pos - Len(l) - 1
    BY <1>1, <1>3
  <2> QED BY <2>1, <2>2, <2>3 DEF OnLine
<1> QED BY <1>4, <1>5 DEF OnLine

(* The character that was i places before the cursor, at p on a display of *)
(* size cells, is j places before it when the cursor has moved to q.       *)
LEMMA IndexAfterGlyph ==
  ASSUME NEW size \in Nat, NEW p \in Nat, p < size, NEW q, q = p + 1,
         NEW j \in Nat, 2 <= j, j <= q, NEW i, i = j - 1
  PROVE  /\ i \in Nat /\ 1 <= i /\ p >= i
         /\ q - j = p - i
         /\ p - i \in 0 .. size - 1 /\ p - i # p
  OBVIOUS

LEMMA IndexAfterErase ==
  ASSUME NEW size \in Nat, NEW p \in Nat, p < size, NEW q, q = p - 1,
         NEW j \in Nat, 1 <= j, j <= q, NEW i, i = j + 1
  PROVE  /\ i \in Nat /\ 1 <= i /\ p >= i
         /\ q - j = p - i
         /\ p - i \in 0 .. size - 1 /\ p - i # p - 1
  OBVIOUS

LEMMA WithoutLast ==
  ASSUME NEW l \in Seq(Int), l # <<>>
  PROVE  LET m == SubSeq(l, 1, Len(l) - 1)
         IN  /\ m \in Seq(Int) /\ Len(m) = Len(l) - 1
             /\ \A i \in 1 .. Len(m) : m[i] = l[i]
<1> DEFINE n == Len(l) - 1
           m == SubSeq(l, 1, n)
<1>1. n \in Nat /\ \A i \in 1 .. n : l[i] \in Int
  OBVIOUS
<1> HIDE DEF n
<1>2. /\ m \in Seq(Int)
      /\ Len(m) = IF 1 <= n THEN n - 1 + 1 ELSE 0
      /\ \A i \in 1 .. n - 1 + 1 : m[i] = l[1 + i - 1]
  BY <1>1, SubSeqProperties
<1> HIDE DEF m
<1>3. Len(m) = n
  BY <1>1, <1>2
<1>4. ASSUME NEW i \in 1 .. Len(m) PROVE m[i] = l[i]
  <2>1. i \in 1 .. n - 1 + 1 /\ 1 + i - 1 = i
    BY <1>1, <1>3
  <2> QED BY <1>2, <2>1
<1>5. /\ m \in Seq(Int) /\ Len(m) = n
      /\ \A i \in 1 .. Len(m) : m[i] = l[i]
  BY <1>2, <1>3, <1>4
<1> QED BY <1>5, Zenon DEF m, n

LEMMA GlyphLine ==
  ASSUME NEW d, OnDisplay(d), NEW c \in Int, NEW l \in Seq(Int), OnLine(d, l)
  PROVE  OnLine(PutGlyph(d, c), Append(l, c))
<1> DEFINE e == [cells |-> [d.cells EXCEPT ![d.pos] = c], pos |-> d.pos + 1]
           m == Append(l, c)
<1>1. d.cells \in [Cells -> Int] /\ d.pos \in Nat /\ d.pos < CRT_SIZE
  BY DEF OnDisplay
<1>2. /\ m \in Seq(Int) /\ Len(l) \in Nat /\ Len(m) = Len(l) + 1
      /\ m[Len(l) + 1] = c /\ \A i \in 1 .. Len(l) : m[i] = l[i]
  OBVIOUS
<1>3. d.pos \in Cells
  BY <1>1, Sizes DEF Cells
<1>4. /\ e.pos = d.pos + 1 /\ e.cells[d.pos] = c
      /\ \A i \in Cells : i # d.pos => e.cells[i] = d.cells[i]
  BY <1>1, <1>3
<1>5. PICK n \in Nat : Shifted(e, PutGlyph(d, c), n)
  BY GlyphIs
<1> HIDE DEF e, m
<1>6. ASSUME NEW j \in 1 .. Len(m), e.pos >= j
      PROVE  e.cells[e.pos - j] = m[Len(m) + 1 - j]
  <2>1. CASE j = 1
    <3>1. e.pos - j = d.pos /\ Len(m) + 1 - j = Len(l) + 1
      BY <1>1, <1>2, <1>4, <2>1
    <3> QED BY <1>2, <1>4, <3>1
  <2>2. CASE j # 1
    <3> DEFINE i == j - 1
               p == d.pos
               q == e.pos
    <3>0. /\ j \in Nat /\ 2 <= j /\ j <= q /\ j <= Len(l) + 1
          /\ p \in Nat /\ p < CRT_SIZE /\ q = p + 1 /\ i = j - 1
      BY <1>1, <1>2, <1>4, <1>6, <2>2
    <3>5. /\ i \in 1 .. Len(l) /\ Len(l) + 1 - i \in 1 .. Len(l)
          /\ Len(m) + 1 - j = Len(l) + 1 - i
      BY <1>2, <3>0
    <3> HIDE DEF p, q, i
    <3>4. /\ i \in Nat /\ 1 <= i /\ p >= i /\ q - j = p - i
          /\ p - i \in 0 .. CRT_SIZE - 1 /\ p - i # p
      BY <3>0, Sizes, IndexAfterGlyph
    <3>1. /\ i \in 1 .. Len(l) /\ d.pos >= i /\ e.pos - j = d.pos - i
          /\ Len(m) + 1 - j = Len(l) + 1 - i
          /\ Len(l) + 1 - i \in 1 .. Len(l)
          /\ d.pos - i \in Cells /\ d.pos - i # d.pos
      BY <3>4, <3>5 DEF Cells, p, q
    <3>2. d.cells[d.pos - i] = l[Len(l) + 1 - i]
      BY <3>1 DEF OnLine
    <3> QED BY <1>2, <1>4, <3>1, <3>2
  <2> QED BY <2>1, <2>2
<1>7. ASSUME e.pos > Len(m) PROVE e.cells[e.pos - Len(m) - 1] = Prompt
  <2> DEFINE i == d.pos - Len(l) - 1
             n0 == Len(l)
             p == d.pos
  <2>0. p \in Nat /\ p < CRT_SIZE /\ n0 \in Nat /\ e.pos = p + 1 /\ Len(m) = n0 + 1
    BY <1>1, <1>2, <1>4
  <2> HIDE DEF p, n0
  <2>3. e.pos - Len(m) - 1 = p - n0 - 1 /\ p > n0
    BY <1>7, <2>0
  <2>4. p - n0 - 1 \in 0 .. CRT_SIZE - 1 /\ p - n0 - 1 # p
    BY <2>0, <2>3, Sizes
  <2>1. /\ e.pos - Len(m) - 1 = i /\ i \in Cells /\ i # d.pos
        /\ d.pos > Len(l)
    BY <2>3, <2>4 DEF Cells, p, n0
  <2>2. d.cells[i] = Prompt
    BY <2>1 DEF OnLine
  <2> HIDE DEF i
  <2> QED BY <1>4, <2>1, <2>2
<1>8. OnLine(e, m)
  BY <1>6, <1>7 DEF OnLine
<1>9. e.pos \in Nat /\ e.pos <= CRT_SIZE
  BY <1>1, <1>4, Sizes
<1>10. OnLine(PutGlyph(d, c), m)
  BY <1>2, <1>5, <1>8, <1>9, ShiftedLine
<1> QED BY <1>10 DEF m

(* A new prompt begins a line. *)
LEMMA PromptLine ==
  ASSUME NEW d, OnDisplay(d)
  PROVE  OnLine(CgaPutc(d, Prompt), <<>>)
<1> DEFINE e == [cells |-> [d.cells EXCEPT ![d.pos] = Prompt], pos |-> d.pos + 1]
<1>1. d.cells \in [Cells -> Int] /\ d.pos \in Nat /\ d.pos < CRT_SIZE
  BY DEF OnDisplay
<1>2. d.pos \in Cells
  BY <1>1, Sizes DEF Cells
<1>3. e.pos = d.pos + 1 /\ e.cells[d.pos] = Prompt
  BY <1>1, <1>2
<1>4. Prompt \in Int
  BY DEF Prompt
<1>5. PICK n \in Nat : Shifted(e, PutGlyph(d, Prompt), n)
  BY <1>4, GlyphIs
<1> HIDE DEF e
<1>6. e.pos \in Nat /\ e.pos <= CRT_SIZE /\ e.pos - 0 - 1 = d.pos
  BY <1>1, <1>3, Sizes
<1>7. <<>> \in Seq(Int) /\ Len(<<>>) = 0
  OBVIOUS
<1>8. OnLine(e, <<>>)
  BY <1>3, <1>6, <1>7 DEF OnLine
<1>9. OnLine(PutGlyph(d, Prompt), <<>>)
  BY <1>5, <1>6, <1>7, <1>8, ShiftedLine
<1>10. CgaPutc(d, Prompt) = PutGlyph(d, Prompt)
  BY DEF CgaPutc, Prompt
<1> QED BY <1>9, <1>10

(* A backspace takes away the last character of the line, also when it is  *)
(* the first of the display.                                               *)
LEMMA EraseLine ==
  ASSUME NEW d, OnDisplay(d), NEW l \in Seq(Int), l # <<>>, OnLine(d, l)
  PROVE  OnLine(CgaPutc(d, 8), SubSeq(l, 1, Len(l) - 1))
<1> DEFINE m == SubSeq(l, 1, Len(l) - 1)
<1>1. d.cells \in [Cells -> Int] /\ d.pos \in Nat /\ d.pos < CRT_SIZE
  BY DEF OnDisplay
<1>2. Len(l) \in Nat /\ Len(l) >= 1
  OBVIOUS
<1>3. m \in Seq(Int) /\ Len(m) = Len(l) - 1 /\ \A i \in 1 .. Len(m) : m[i] = l[i]
  BY WithoutLast
<1> HIDE DEF m
<1>4. CASE d.pos = 0
  <2>1. CgaPutc(d, 8) = d
    BY <1>4, ScrollKeeps DEF CgaPutc
  <2>2. OnLine(d, m)
    BY <1>2, <1>3, <1>4 DEF OnLine
  <2> QED BY <2>1, <2>2 DEF m
<1>5. CASE d.pos # 0
  <2> DEFINE e == [cells |-> [d.cells EXCEPT ![d.pos - 1] = Space],
                   pos |-> d.pos - 1]
  <2>1. CgaPutc(d, 8) = Scroll(e)
    BY <1>5 DEF CgaPutc
  <2>2. e.pos = d.pos - 1 /\ e.pos \in Nat /\ e.pos < CRT_SIZE
    BY <1>1, <1>5, Sizes
  <2>3. \A i \in Cells : i # d.pos - 1 => e.cells[i] = d.cells[i]
    BY <1>1
  <2>4. Scroll(e) = e
    BY <2>2 DEF Scroll
  <2> HIDE DEF e
  <2>5. ASSUME NEW j \in 1 .. Len(m), e.pos >= j
        PROVE  e.cells[e.pos - j] = m[Len(m) + 1 - j]
    <3> DEFINE i == j + 1
               p == d.pos
               q == e.pos
    <3>0. /\ j \in Nat /\ 1 <= j /\ j <= q /\ j <= Len(l) - 1
          /\ p \in Nat /\ p < CRT_SIZE /\ q = p - 1 /\ i = j + 1
      BY <1>1, <1>2, <1>3, <2>2, <2>5
    <3> HIDE DEF p, q, i
    <3>5. /\ i \in 1 .. Len(l) /\ Len(l) + 1 - i \in 1 .. Len(m)
          /\ Len(m) + 1 - j = Len(l) + 1 - i
      <4> DEFINE n == Len(l)
      <4>1. n \in Nat /\ Len(m) = n - 1 /\ j <= n - 1
        BY <1>2, <1>3, <3>0
      <4> HIDE DEF n
      <4>2. /\ i \in 1 .. n /\ n + 1 - i \in 1 .. n - 1
            /\ n - 1 + 1 - j = n + 1 - i
        BY <3>0, <4>1
      <4> QED BY <4>1, <4>2 DEF n
    <3>4. /\ i \in Nat /\ p >= i /\ q - j = p - i
          /\ p - i \in 0 .. CRT_SIZE - 1 /\ p - i # p - 1
      BY <3>0, Sizes, IndexAfterErase
    <3>1. /\ i \in 1 .. Len(l) /\ d.pos >= i /\ e.pos - j = d.pos - i
          /\ Len(m) + 1 - j = Len(l) + 1 - i /\ Len(l) + 1 - i \in 1 .. Len(m)
          /\ d.pos - i \in Cells /\ d.pos - i # d.pos - 1
      BY <3>4, <3>5 DEF Cells, p, q
    <3>2. d.cells[d.pos - i] = l[Len(l) + 1 - i]
      BY <3>1 DEF OnLine
    <3> QED BY <1>3, <2>3, <3>1, <3>2
  <2>6. ASSUME e.pos > Len(m) PROVE e.cells[e.pos - Len(m) - 1] = Prompt
    <3> DEFINE i == d.pos - Len(l) - 1
               n0 == Len(l)
               p == d.pos
    <3>0. /\ p \in Nat /\ p < CRT_SIZE /\ n0 \in Nat /\ n0 >= 1
          /\ e.pos = p - 1 /\ Len(m) = n0 - 1
      BY <1>1, <1>2, <1>3, <2>2
    <3> HIDE DEF p, n0
    <3>3. e.pos - Len(m) - 1 = p - n0 - 1 /\ p > n0
      BY <2>6, <3>0
    <3>4. p - n0 - 1 \in 0 .. CRT_SIZE - 1 /\ p - n0 - 1 # p - 1
      BY <3>0, <3>3, Sizes
    <3>1. /\ e.pos - Len(m) - 1 = i /\ i \in Cells /\ i # d.pos - 1
          /\ d.pos > Len(l)
      BY <3>3, <3>4 DEF Cells, p, n0
    <3>2. d.cells[i] = Prompt
      BY <3>1 DEF OnLine
    <3> HIDE DEF i
    <3> QED BY <2>3, <3>1, <3>2
  <2>7. OnLine(e, m)
    BY <2>5, <2>6 DEF OnLine
  <2> QED BY <2>1, <2>4, <2>7 DEF m
<1> QED BY <1>4, <1>5

(***************************************************************************)
(* What readline() and the monitor do to the display and to the line.      *)
(***************************************************************************)
DisplayInv ==
  /\ OnDisplay(Display)
  /\ line \in Seq(Int)
  /\ OnLine(Display, line)

LEMMA EditDisplay ==
  ASSUME DisplayInv, NEW c \in Int, Edit(c)
  PROVE  DisplayInv'
<1>1. OnDisplay(Display) /\ line \in Seq(Int) /\ OnLine(Display, line)
  BY DEF DisplayInv
<1>2. /\ Display' = [cells |-> Echo(c).cells, pos |-> Echo(c).pos]
      /\ ~Ends(c)
      /\ line' = IF Erases(c) THEN SubSeq(line, 1, Len(line) - 1)
                 ELSE IF Appends(c) THEN Append(line, c) ELSE line
  BY DEF Edit, Show, Display
<1>3. OnDisplay(Echo(c)) /\ OnLine(Echo(c), line') /\ line' \in Seq(Int)
  <2>1. CASE Erases(c)
    <3>1. line # <<>>
      BY <2>1 DEF Erases
    <3>2. line' = SubSeq(line, 1, Len(line) - 1)
      BY <1>2, <2>1
    <3>4. Echo(c) = CgaPutc(Display, 8)
      BY <2>1 DEF Echo, Appends, Ends
    <3>3. SubSeq(line, 1, Len(line) - 1) \in Seq(Int)
      BY <1>1, <3>1, WithoutLast
    <3>5. OnDisplay(CgaPutc(Display, 8))
      BY <1>1, PutcOnDisplay
    <3>6. OnLine(CgaPutc(Display, 8), SubSeq(line, 1, Len(line) - 1))
      BY <1>1, <3>1, EraseLine
    <3> QED BY <3>2, <3>3, <3>4, <3>5, <3>6
  <2>2. CASE Appends(c)
    <3>1. ~Erases(c) /\ c >= 32
      BY <2>2 DEF Appends, Space
    <3>2. line' = Append(line, c) /\ Echo(c) = CgaPutc(Display, c)
      BY <1>2, <2>2, <3>1 DEF Echo
    <3>3. CgaPutc(Display, c) = PutGlyph(Display, c)
      BY <3>1 DEF CgaPutc
    <3>4. OnDisplay(PutGlyph(Display, c))
      BY <1>1, GlyphIs
    <3>5. OnLine(PutGlyph(Display, c), Append(line, c))
      BY <1>1, GlyphLine
    <3>6. Append(line, c) \in Seq(Int)
      BY <1>1
    <3> QED BY <3>2, <3>3, <3>4, <3>5, <3>6
  <2>3. CASE ~Erases(c) /\ ~Appends(c)
    <3>1. line' = line /\ Echo(c) = Display
      BY <1>2, <2>3 DEF Echo
    <3> QED BY <1>1, <3>1
  <2> QED BY <2>1, <2>2, <2>3
<1> DEFINE e == Echo(c)
<1> HIDE DEF e
<1>4. [cells |-> e.cells, pos |-> e.pos] = e
  BY <1>3 DEF OnDisplay, e
<1>5. Display' = e
  BY <1>2, <1>4 DEF e
<1> QED BY <1>3, <1>5 DEF DisplayInv, e

(* Output ends with a new prompt. *)
LEMMA PromptDisplay ==
  ASSUME NEW d, OnDisplay(d), NEW out \in Output,
         Show(CgaPutc(CgaPutc(d, out), Prompt)), line' = <<>>
  PROVE  DisplayInv'
<1> DEFINE f == CgaPutc(d, out)
           e == CgaPutc(f, Prompt)
<1>1. OnDisplay(f)
  BY PutcOnDisplay, ConsoleAssumption
<1>2. Prompt \in Int /\ <<>> \in Seq(Int)
  BY DEF Prompt
<1> HIDE DEF f
<1>3. OnDisplay(e) /\ OnLine(e, <<>>)
  BY <1>1, <1>2, PutcOnDisplay, PromptLine
<1>4. Display' = [cells |-> e.cells, pos |-> e.pos]
  BY DEF Show, Display, f
<1> HIDE DEF e
<1>5. Display' = e
  BY <1>3, <1>4 DEF OnDisplay
<1> QED BY <1>2, <1>3, <1>5 DEF DisplayInv

LEMMA FinishDisplay ==
  ASSUME DisplayInv, NEW c \in Int, Finish(c)
  PROVE  DisplayInv'
<1>1. Echo(c) = CgaPutc(Display, 10)
  BY DEF Finish, Ends, Echo
<1>2. OnDisplay(Echo(c))
  BY <1>1, PutcOnDisplay DEF DisplayInv
<1>3. PICK out \in Output : Show(CgaPutc(CgaPutc(Echo(c), out), Prompt))
  BY DEF Finish
<1> QED BY <1>2, <1>3, PromptDisplay DEF Finish

LEMMA InterruptDisplay ==
  ASSUME DisplayInv, KbdInterrupt
  PROVE  DisplayInv'
<1>1. OnDisplay(CgaPutc(Display, 10))
  BY PutcOnDisplay DEF DisplayInv
<1>2. PICK out \in Output :
        Show(CgaPutc(CgaPutc(CgaPutc(Display, 10), out), Prompt))
  BY DEF KbdInterrupt
<1> QED BY <1>1, <1>2, PromptDisplay DEF KbdInterrupt

LEMMA InitDisplay ==
  ASSUME Init
  PROVE  DisplayInv
<1>1. PICK pos \in 0 .. CRT_SIZE - 1 :
        LET d == CgaPutc([cells |-> [i \in 0 .. CRT_SIZE - 1 |-> Space],
                          pos |-> pos], Prompt)
        IN  crt_buf = d.cells /\ crt_pos = d.pos /\ line = <<>>
  BY DEF Init
<1> DEFINE d == [cells |-> [i \in Cells |-> Space], pos |-> pos]
           e == CgaPutc(d, Prompt)
<1>2. OnDisplay(d)
  BY Sizes DEF OnDisplay, Cells, Space
<1>3. Prompt \in Int /\ <<>> \in Seq(Int)
  BY DEF Prompt
<1>4. crt_buf = e.cells /\ crt_pos = e.pos /\ line = <<>>
  BY <1>1 DEF Cells
<1> HIDE DEF d
<1>5. OnDisplay(e) /\ OnLine(e, <<>>)
  BY <1>2, <1>3, PutcOnDisplay, PromptLine
<1> HIDE DEF e
<1>6. Display = e
  BY <1>4, <1>5 DEF OnDisplay, Display
<1> QED BY <1>3, <1>4, <1>5, <1>6 DEF DisplayInv

-----------------------------------------------------------------------------
(***************************************************************************)
(* The input buffer, a ring.                                               *)
(***************************************************************************)
N     == CONSBUFSIZE
Slots == 0 .. N - 1

LEMMA RingSize == N \in Nat /\ 0 < N
  BY ConsoleAssumption DEF N

LEMMA ModIs ==
  ASSUME NEW x \in Int, NEW n \in Nat \ {0}
  PROVE  /\ x \in 0 .. n - 1 => x % n = x
         /\ x \in -n .. -1 => x % n = x + n
         /\ x = n => x % n = 0
<1> DEFINE q == x \div n
           p == n * q
<1>1. x % n \in 0 .. n - 1 /\ q \in Int /\ p \in Int /\ x = p + (x % n)
  OBVIOUS
<1>2. /\ q >= 1 => p >= n
      /\ q >= 2 => p >= n + n
      /\ q <= -1 => p <= -n
      /\ q <= -2 => p <= -n - n
      /\ q = 0 => p = 0
      /\ q = 1 => p = n
      /\ q = -1 => p = -n
  <2> SUFFICES ASSUME NEW z \in Int
               PROVE  /\ z >= 1 => n * z >= n
                      /\ z >= 2 => n * z >= n + n
                      /\ z <= -1 => n * z <= -n
                      /\ z <= -2 => n * z <= -n - n
                      /\ z = 0 => n * z = 0
                      /\ z = 1 => n * z = n
                      /\ z = -1 => n * z = -n
    BY <1>1
  <2>1. z >= 1 => n * z >= n
    OBVIOUS
  <2>2. z >= 2 => n * z >= n + n
    OBVIOUS
  <2>3. z <= -1 => n * z <= -n
    OBVIOUS
  <2>4. z <= -2 => n * z <= -n - n
    OBVIOUS
  <2>5. (z = 0 => n * z = 0) /\ (z = 1 => n * z = n) /\ (z = -1 => n * z = -n)
    OBVIOUS
  <2> QED BY <2>1, <2>2, <2>3, <2>4, <2>5
<1> HIDE DEF p, q
<1>3. q <= -2 \/ q = -1 \/ q = 0 \/ q = 1 \/ q >= 2
  BY <1>1
<1> DEFINE r == x % n
<1>4. r \in 0 .. n - 1 /\ x = p + r /\ p \in Int /\ q \in Int
  BY <1>1
<1> HIDE DEF r
<1>5. /\ x \in 0 .. n - 1 => r = x
      /\ x \in -n .. -1 => r = x + n
      /\ x = n => r = 0
  BY <1>2, <1>3, <1>4
<1> QED BY <1>5 DEF r

(* How long ago a character was put into slot x, when w is the next slot.  *)
Age(w, x) == IF x < w THEN w - x ELSE (w - x) + N

Following(w) == IF w = N - 1 THEN 0 ELSE w + 1

(* How many characters there are from slot r on. *)
Between(w, r) == IF r <= w THEN w - r ELSE (w - r) + N

LEMMA FollowingIs ==
  ASSUME NEW w \in Slots
  PROVE  (w + 1) % N = Following(w) /\ Following(w) \in Slots
<1>1. w + 1 \in Int /\ N \in Nat \ {0} /\ (w + 1 = N \/ w + 1 \in 0 .. N - 1)
  BY RingSize DEF Slots
<1> DEFINE v == w + 1
           n == N
<1>2. v \in Int /\ n \in Nat \ {0} /\ (v = n \/ v \in 0 .. n - 1)
  BY <1>1
<1> HIDE DEF v, n
<1>3. v % n = IF v = n THEN 0 ELSE v
  BY <1>2, ModIs
<1>4. (w + 1) % N = IF w + 1 = N THEN 0 ELSE w + 1
  BY <1>3, Zenon DEF v, n
<1> QED BY <1>4, RingSize DEF Slots, Following

LEMMA WaitingIs ==
  ASSUME NEW w \in Slots, NEW r \in Slots
  PROVE  (w - r) % N = Between(w, r) /\ Between(w, r) \in 0 .. N - 1
<1> DEFINE v == w - r
           n == N
<1>1. v \in Int /\ n \in Nat \ {0} /\ (v \in 0 .. n - 1 \/ v \in -n .. -1)
  BY RingSize DEF Slots
<1> HIDE DEF v, n
<1>2. v % n = IF v >= 0 THEN v ELSE v + n
  BY <1>1, ModIs
<1>3. (w - r) % N = IF w - r >= 0 THEN w - r ELSE (w - r) + N
  BY <1>2, Zenon DEF v, n
<1> QED BY <1>3, RingSize DEF Slots, Between

(* The i-th character that is waiting. *)
LEMMA WaitingAge ==
  ASSUME NEW w \in Slots, NEW r \in Slots, NEW i \in 1 .. Between(w, r)
  PROVE  /\ (r + i - 1) % N \in Slots
         /\ Age(w, (r + i - 1) % N) = Between(w, r) - i + 1
<1> DEFINE v == r + i - 1
           n == N
           x == IF v < n THEN v ELSE v - n
<1>1. n \in Nat \ {0} /\ Between(w, r) \in 0 .. n - 1 /\ r \in 0 .. n - 1
  BY RingSize, WaitingIs DEF Slots
<1>2. v \in Nat /\ v < n + n
  BY <1>1
<1>3. v % n = x
  <2> HIDE DEF v, n
  <2>1. CASE v < n
    <3>1. v \in Int /\ v \in 0 .. n - 1
      BY <1>1, <1>2, <2>1
    <3>2. v % n = v
      BY <1>1, <3>1, ModIs
    <3> QED BY <2>1, <3>2
  <2>2. CASE v >= n
    <3> DEFINE u == v - n
               q == v \div n
               m == v % n
               p == n * q
    <3>1. q \in Int /\ m \in 0 .. n - 1 /\ p \in Int /\ v = p + m
      BY <1>1, <1>2
    <3>2. (q <= 0 => p <= 0) /\ (q >= 2 => p >= n + n) /\ (q = 1 => p = n)
      <4>1. \A z \in Int : z <= 0 => n * z <= 0
        BY <1>1
      <4>2. \A z \in Int : z >= 2 => n * z >= n + n
        BY <1>1
      <4>3. n * 1 = n
        BY <1>1
      <4> QED BY <3>1, <4>1, <4>2, <4>3
    <3> HIDE DEF p, q, m
    <3>3. m = v - n
      BY <1>1, <1>2, <2>2, <3>1, <3>2
    <3> QED BY <2>2, <3>3, <1>1, <1>2 DEF m
  <2> QED BY <1>1, <1>2, <2>1, <2>2
<1>4. x \in Slots /\ Age(w, x) = Between(w, r) - i + 1
  BY RingSize DEF Slots, Between, Age
<1>5. (r + i - 1) % N = x
  BY <1>3
<1> HIDE DEF x, v, n
<1> QED BY <1>4, <1>5

(***************************************************************************)
(* What cons_intr() keeps: the characters in the buffer carry consecutive  *)
(* numbers, going back from the slot that is next; those that wait were    *)
(* all typed after the one that was read last.                             *)
(***************************************************************************)
BufferInv ==
  /\ wpos \in Slots /\ rpos \in Slots /\ typed \in Nat /\ last \in Nat
  /\ buf \in [Slots -> [c : Int, no : Nat]]
  /\ \A x \in Slots :
       Age(wpos, x) <= typed => buf[x].no = typed - Age(wpos, x) + 1
  /\ Between(wpos, rpos) <= typed
  /\ last <= typed - Between(wpos, rpos)

(* Going on to the next slot makes everything older, but the slot filled.  *)
LEMMA AgeFollowing ==
  ASSUME NEW w \in Slots, NEW x \in Slots
  PROVE  /\ Age(w, x) \in 1 .. N
         /\ x = w => Age(Following(w), x) = 1
         /\ x # w => Age(Following(w), x) = Age(w, x) + 1
  BY RingSize DEF Slots, Age, Following

LEMMA BetweenFollowing ==
  ASSUME NEW w \in Slots, NEW r \in Slots
  PROVE  /\ Between(w, r) \in 0 .. N - 1
         /\ Between(Following(w), r) \in 0 .. Between(w, r) + 1
         /\ r # w => /\ Between(w, r) >= 1
                     /\ Between(w, Following(r)) = Between(w, r) - 1
                     /\ Age(w, r) = Between(w, r)
  BY RingSize DEF Slots, Between, Following, Age

LEMMA StashBuffer ==
  ASSUME BufferInv, NEW s, NEW c \in Int,
         Input(Stash([Cons EXCEPT !.shift = s], c)), UNCHANGED <<rpos, last>>
  PROVE  BufferInv'
<1>1. CASE c = 0
  <2>1. wpos' = wpos /\ typed' = typed /\ buf' = buf
    BY <1>1 DEF Input, Stash, Cons
  <2> QED BY <2>1 DEF BufferInv, Slots, Age, Between, N
<1>2. CASE c # 0
  <2> DEFINE new == [c |-> c, no |-> typed + 1]
  <2>1. /\ wpos' = (wpos + 1) % N /\ typed' = typed + 1
        /\ buf' = [buf EXCEPT ![wpos] = new]
    BY <1>2 DEF Input, Stash, Cons, N
  <2>2. /\ wpos \in Slots /\ rpos \in Slots /\ typed \in Nat /\ last \in Nat
        /\ buf \in [Slots -> [c : Int, no : Nat]]
    BY DEF BufferInv
  <2>3. wpos' = Following(wpos) /\ wpos' \in Slots
    BY <2>1, <2>2, FollowingIs
  <2>4. new \in [c : Int, no : Nat] /\ new.no = typed + 1
    BY <2>2
  <2> HIDE DEF new
  <2>5. buf' \in [Slots -> [c : Int, no : Nat]]
    BY <2>1, <2>2, <2>4
  <2>6. ASSUME NEW x \in Slots, Age(wpos', x) <= typed'
        PROVE  buf'[x].no = typed' - Age(wpos', x) + 1
    <3>1. CASE x = wpos
      <4>1. buf'[x] = new /\ Age(wpos', x) = 1
        BY <2>1, <2>2, <2>3, <3>1, AgeFollowing
      <4> QED BY <2>1, <2>2, <2>4, <4>1
    <3>2. CASE x # wpos
      <4>1. buf'[x] = buf[x]
        BY <2>1, <2>2, <3>2
      <4>2. Age(wpos', x) = Age(wpos, x) + 1 /\ Age(wpos, x) \in 1 .. N
        BY <2>2, <2>3, <3>2, AgeFollowing
      <4>3. Age(wpos, x) <= typed
        BY <2>1, <2>2, <2>6, <4>2, RingSize
      <4>4. buf[x].no = typed - Age(wpos, x) + 1
        BY <4>3 DEF BufferInv
      <4> QED BY <2>1, <2>2, <4>1, <4>2, <4>4, RingSize
    <3> QED BY <3>1, <3>2
  <2>7. /\ Between(wpos, rpos) \in 0 .. N - 1
        /\ Between(wpos', rpos) \in 0 .. Between(wpos, rpos) + 1
    BY <2>2, <2>3, BetweenFollowing
  <2>8. rpos' = rpos /\ last' = last
    OBVIOUS
  <2>9. Between(wpos, rpos) <= typed /\ last <= typed - Between(wpos, rpos)
    BY DEF BufferInv
  <2>10. /\ Between(wpos', rpos') <= typed'
         /\ last' <= typed' - Between(wpos', rpos')
    <3> DEFINE b == Between(wpos, rpos)
               bb == Between(wpos', rpos)
    <3>1. b \in 0 .. N - 1 /\ bb \in 0 .. b + 1 /\ b <= typed /\ last <= typed - b
      BY <2>7, <2>9
    <3> HIDE DEF b, bb
    <3>2. bb <= typed + 1 /\ last <= typed + 1 - bb
      BY <2>2, <3>1, RingSize
    <3>3. Between(wpos', rpos') = bb
      BY <2>8 DEF bb
    <3> QED BY <2>1, <2>2, <2>8, <3>1, <3>2, <3>3
  <2>11. wpos' \in Slots /\ rpos' \in Slots /\ typed' \in Nat /\ last' \in Nat
    BY <2>1, <2>2, <2>3, <2>8
  <2> QED BY <2>5, <2>6, <2>10, <2>11, Zenon DEF BufferInv, Slots, N, Age, Between
<1> QED BY <1>1, <1>2

(* One character, or none, comes out of kbd_proc_data(). *)
LEMMA KbdProcIs ==
  ASSUME NEW data
  PROVE  \E s, c : /\ c \in Int
                   /\ KbdProcData(Cons, data) = Stash([Cons EXCEPT !.shift = s], c)
<1>1. CASE data = Escape \/ data >= 128
  <2>1. \E s : KbdProcData(Cons, data) = [Cons EXCEPT !.shift = s]
    BY <1>1 DEF KbdProcData, KbdRelease
  <2>2. PICK s : KbdProcData(Cons, data) = [Cons EXCEPT !.shift = s]
    BY <2>1
  <2>3. Stash([Cons EXCEPT !.shift = s], 0) = [Cons EXCEPT !.shift = s]
    BY DEF Stash
  <2>4. KbdProcData(Cons, data) = Stash([Cons EXCEPT !.shift = s], 0) /\ 0 \in Int
    BY <2>2, <2>3
  <2> QED BY <2>4, Zenon
<1>2. CASE ~(data = Escape \/ data >= 128)
  <2>1. \E s, code : KbdPress(Cons, data)
                       = Stash([Cons EXCEPT !.shift = s], Capitals(s, Charcode(s, code)))
    BY DEF KbdPress
  <2>2. \A s, code : Charcode(s, code) \in Int
    BY DEF Charcode, Ctlmap, Shiftmap, Normalmap
  <2>3. \A s : \A c \in Int : Capitals(s, c) \in Int
    BY DEF Capitals
  <2>4. KbdProcData(Cons, data) = KbdPress(Cons, data)
    BY <1>2 DEF KbdProcData
  <2> QED BY <2>1, <2>2, <2>3, <2>4
<1> QED BY <1>1, <1>2

LEMMA GetcharBuffer ==
  ASSUME BufferInv, Getchar
  PROVE  BufferInv'
<1>1. /\ wpos \in Slots /\ rpos \in Slots /\ typed \in Nat /\ last \in Nat
      /\ buf \in [Slots -> [c : Int, no : Nat]]
      /\ wpos' = wpos /\ typed' = typed /\ buf' = buf
  BY DEF BufferInv, Getchar
<1>2. CASE rpos = wpos
  <2>1. rpos' = rpos /\ last' = last
    BY <1>2 DEF Getchar
  <2> QED BY <1>1, <2>1 DEF BufferInv, Slots, N, Age, Between
<1>3. CASE rpos # wpos
  <2>1. rpos' = (rpos + 1) % N /\ last' = buf[rpos].no
    BY <1>3 DEF Getchar, N
  <2>2. rpos' = Following(rpos) /\ rpos' \in Slots
    BY <1>1, <2>1, FollowingIs
  <2>3. /\ Between(wpos, rpos) \in 1 .. N - 1
        /\ Between(wpos, rpos') = Between(wpos, rpos) - 1
        /\ Age(wpos, rpos) = Between(wpos, rpos)
    BY <1>1, <1>3, <2>2, BetweenFollowing, RingSize
  <2>4. Between(wpos, rpos) <= typed
    BY DEF BufferInv
  <2>5. buf[rpos].no = typed - Between(wpos, rpos) + 1
    BY <1>1, <2>3, <2>4 DEF BufferInv
  <2>6. Between(wpos', rpos') = Between(wpos, rpos) - 1
    BY <1>1, <2>3
  <2>7. /\ Between(wpos', rpos') <= typed'
        /\ last' <= typed' - Between(wpos', rpos') /\ last' \in Nat
    BY <1>1, <2>1, <2>3, <2>4, <2>5, <2>6, RingSize
  <2>8. \A x \in Slots :
          Age(wpos', x) <= typed' => buf'[x].no = typed' - Age(wpos', x) + 1
    BY <1>1 DEF BufferInv
  <2>9. wpos' \in Slots /\ typed' \in Nat /\ buf' \in [Slots -> [c : Int, no : Nat]]
    BY <1>1
  <2> QED BY <2>2, <2>7, <2>8, <2>9, Zenon DEF BufferInv, Slots, N, Age, Between
<1> QED BY <1>2, <1>3

LEMMA GetcharDisplay ==
  ASSUME BufferInv, DisplayInv, Getchar
  PROVE  DisplayInv'
<1>1. CASE rpos = wpos
  <2>1. UNCHANGED <<line, crt_buf, crt_pos>>
    BY <1>1 DEF Getchar
  <2> QED BY <2>1 DEF DisplayInv, Display, OnDisplay, OnLine, Cells, CRT_SIZE, Prompt
<1>2. CASE rpos # wpos
  <2>1. buf[rpos].c \in Int
    BY DEF BufferInv
  <2>2. Edit(buf[rpos].c) \/ Finish(buf[rpos].c)
    BY <1>2 DEF Getchar
  <2> QED BY <2>1, <2>2, EditDisplay, FinishDisplay
<1> QED BY <1>1, <1>2

LEMMA KeptBuffer ==
  ASSUME BufferInv, UNCHANGED <<buf, wpos, typed, rpos, last>>
  PROVE  BufferInv'
  BY DEF BufferInv, Slots, N, Age, Between

LEMMA KeptDisplay ==
  ASSUME DisplayInv, UNCHANGED <<line, crt_buf, crt_pos>>
  PROVE  DisplayInv'
  BY DEF DisplayInv, Display, OnDisplay, OnLine, Cells, CRT_SIZE, Prompt

LEMMA SerialBuffer ==
  ASSUME BufferInv, SerialIntr, rx \in Int
  PROVE  BufferInv'
<1>1. UNCHANGED <<rpos, last>>
  BY DEF SerialIntr, unchangedReader
<1>2. CASE rx = 0
  BY <1>1, <1>2, KeptBuffer DEF SerialIntr
<1>3. CASE rx # 0
  <2>1. Input(Stash(Cons, rx))
    BY <1>3 DEF SerialIntr
  <2>2. Cons = [Cons EXCEPT !.shift = shift]
    BY DEF Cons
  <2>3. Input(Stash([Cons EXCEPT !.shift = shift], rx))
    BY <2>1, <2>2, Zenon
  <2> QED BY <1>1, <2>3, StashBuffer
<1> QED BY <1>2, <1>3

LEMMA KbdBuffer ==
  ASSUME BufferInv, KbdIntr
  PROVE  BufferInv'
<1>1. Input(KbdProcData(Cons, Head(kbd))) /\ UNCHANGED <<rpos, last>>
  BY DEF KbdIntr, unchangedReader
<1>2. PICK s, c : /\ c \in Int
                  /\ KbdProcData(Cons, Head(kbd)) = Stash([Cons EXCEPT !.shift = s], c)
  BY KbdProcIs
<1>3. Input(Stash([Cons EXCEPT !.shift = s], c))
  BY <1>1, <1>2, Zenon
<1> QED BY <1>1, <1>2, <1>3, StashBuffer

-----------------------------------------------------------------------------
(***************************************************************************)
(* The display and the input buffer together: what readline() puts on the  *)
(* display comes out of the buffer.                                        *)
(***************************************************************************)
InputInv == rx \in Int /\ BufferInv /\ DisplayInv

LEMMA InitInput == Init => InputInv
<1> SUFFICES ASSUME Init PROVE InputInv
  OBVIOUS
<1>1. /\ rx = 0 /\ rpos = 0 /\ wpos = 0 /\ typed = 0 /\ last = 0
      /\ buf = [i \in Slots |-> [c |-> 0, no |-> 0]]
  BY DEF Init, Slots, N
<1>2. \A x \in Slots : Age(0, x) \in 1 .. N
  BY RingSize DEF Age, Slots
<1>3. Between(0, 0) = 0 /\ 0 \in Slots
  BY RingSize DEF Between, Slots
<1>4. BufferInv
  BY <1>1, <1>2, <1>3 DEF BufferInv
<1> QED BY <1>1, <1>4, InitDisplay DEF InputInv

LEMMA StepInput == InputInv /\ [Next]_vars => InputInv'
<1> SUFFICES ASSUME InputInv, [Next]_vars PROVE InputInv'
  OBVIOUS
<1>0. rx \in Int /\ BufferInv /\ DisplayInv
  BY DEF InputInv
<1>1. ASSUME NEW k \in Keys, Press(k) \/ Release(k) PROVE InputInv'
  <2>1. UNCHANGED <<rx, buf, wpos, typed, rpos, last, line, crt_buf, crt_pos>>
    BY <1>1 DEF Press, Release, unchangedKernel
  <2> QED BY <1>0, <2>1, KeptBuffer, KeptDisplay DEF InputInv
<1>2. ASSUME NEW c \in SerialChars, SerialByte(c) PROVE InputInv'
  <2>1. /\ UNCHANGED <<buf, wpos, typed, rpos, last, line, crt_buf, crt_pos>>
        /\ rx' = c /\ c \in Int
    BY <1>2, ConsoleAssumption DEF SerialByte, unchangedKernel
  <2> QED BY <1>0, <2>1, KeptBuffer, KeptDisplay DEF InputInv
<1>3. CASE SerialIntr
  <2>1. UNCHANGED <<line, crt_buf, crt_pos>> /\ rx' \in Int
    BY <1>0, <1>3 DEF SerialIntr, unchangedReader
  <2> QED BY <1>0, <1>3, <2>1, SerialBuffer, KeptDisplay DEF InputInv
<1>4. CASE KbdIntr
  <2>1. UNCHANGED <<line, crt_buf, crt_pos, rx>>
    BY <1>4 DEF KbdIntr, unchangedReader
  <2> QED BY <1>0, <1>4, <2>1, KbdBuffer, KeptDisplay DEF InputInv
<1>5. CASE Getchar
  <2>1. rx' = rx
    BY <1>5 DEF Getchar
  <2> QED BY <1>0, <1>5, <2>1, GetcharBuffer, GetcharDisplay DEF InputInv
<1>6. CASE KbdInterrupt
  <2>1. UNCHANGED <<rx, buf, wpos, typed, rpos, last>>
    BY <1>6 DEF KbdInterrupt
  <2> QED BY <1>0, <1>6, <2>1, KeptBuffer, InterruptDisplay DEF InputInv
<1>7. CASE UNCHANGED vars
  <2>1. UNCHANGED <<rx, buf, wpos, typed, rpos, last, line, crt_buf, crt_pos>>
    BY <1>7 DEF vars
  <2> QED BY <1>0, <2>1, KeptBuffer, KeptDisplay DEF InputInv
<1> QED BY <1>1, <1>2, <1>3, <1>4, <1>5, <1>6, <1>7 DEF Next

(* The invariant of the path of a character: from the serial port or the   *)
(* keyboard through cons_intr()'s ring and readline() to the display.      *)
THEOREM ConsoleInvariant == Spec => []InputInv
<1> QED BY InitInput, StepInput, PTL DEF Spec

(* cga_putc() leaves the cursor on the display after every character that  *)
(* is echoed or printed, wherever the BIOS left it, for any size of the    *)
(* display.                                                                *)
THEOREM CursorStaysOnDisplay == Spec => []CursorOnDisplay
<1>1. ASSUME InputInv PROVE CursorOnDisplay
  <2>1. crt_pos \in Nat /\ crt_pos < CRT_SIZE
    BY <1>1 DEF InputInv, DisplayInv, OnDisplay, Display
  <2> QED BY <2>1, Sizes DEF CursorOnDisplay
<1> QED BY <1>1, ConsoleInvariant, PTL

(* What stands before the cursor is the line that readline() returns, and  *)
(* the prompt before it, through scrolling and editing, for any input and  *)
(* any size of the display and of readline()'s buffer.                     *)
THEOREM LineIsOnDisplay == Spec => []LineOnDisplay
<1>1. InputInv => LineOnDisplay
  BY DEF InputInv, DisplayInv, OnLine, Display, LineOnDisplay
<1> QED BY <1>1, ConsoleInvariant, PTL

(* However far cons_intr() gets ahead of cons_getc(), the characters left  *)
(* in the buffer are the newest ones, in order, and none is read twice.    *)
THEOREM NewestAreKept == Spec => []NewestKept
<1>1. ASSUME InputInv PROVE NewestKept
  <2>1. wpos \in Slots /\ rpos \in Slots /\ typed \in Nat /\ last \in Nat
    BY <1>1 DEF InputInv, BufferInv
  <2>2. Waiting = Between(wpos, rpos) /\ Between(wpos, rpos) \in 0 .. N - 1
    BY <2>1, WaitingIs DEF Waiting, N
  <2>3. Between(wpos, rpos) <= typed /\ last <= typed - Between(wpos, rpos)
    BY <1>1 DEF InputInv, BufferInv
  <2>4. ASSUME NEW i \in 1 .. Between(wpos, rpos)
        PROVE  buf[(rpos + i - 1) % N].no = typed - Between(wpos, rpos) + i
    <3> DEFINE x == (rpos + i - 1) % N
               b == Between(wpos, rpos)
    <3>1. x \in Slots /\ Age(wpos, x) = b - i + 1
      BY <2>1, WaitingAge
    <3>2. \A y \in Slots : Age(wpos, y) <= typed => buf[y].no = typed - Age(wpos, y) + 1
      BY <1>1 DEF InputInv, BufferInv
    <3>3. b \in Int /\ b <= typed /\ i \in 1 .. b
      BY <2>2, <2>3
    <3> HIDE DEF x, b
    <3>4. b - i + 1 <= typed /\ typed - (b - i + 1) + 1 = typed - b + i
      BY <2>1, <3>3
    <3>5. buf[x].no = typed - b + i
      BY <3>1, <3>2, <3>4
    <3> QED BY <3>5 DEF x, b
  <2>5. wpos \in 0 .. CONSBUFSIZE - 1
    BY <2>1 DEF Slots, N
  <2> QED BY <2>2, <2>3, <2>4, <2>5 DEF NewestKept, N
<1> QED BY <1>1, ConsoleInvariant, PTL

-----------------------------------------------------------------------------
(***************************************************************************)
(* The modifiers.  The bytes b that have not been read, when kbd_proc_data() *)
(* is in state s, stand for keys that go down or up.                       *)
(***************************************************************************)
Modifiers == {"CTL", "SHIFT", "ALT"}
Flags     == Modifiers \cup {"CAPSLOCK", "NUMLOCK", "SCROLLLOCK", "E0ESC"}

Escaped(s, b, p) == IF p = 1 THEN "E0ESC" \in s ELSE b[p - 1] = Escape

KeyAt(s, b, p) == (IF b[p] < 128 THEN b[p] ELSE b[p] - 128)
                    + (IF Escaped(s, b, p) THEN 128 ELSE 0)

Presses(s, b, p, m)  == b[p] < 128 /\ m \in Shiftcode(KeyAt(s, b, p))
Releases(s, b, p, m) == /\ b[p] >= 128 /\ b[p] # Escape
                        /\ m \in Shiftcode(KeyAt(s, b, p))

(* An escape is followed by a key code, also when it has been read. *)
WellFormed(s, b) ==
  /\ b \in Seq(0 .. 255)
  /\ \A p \in 1 .. Len(b) : b[p] = Escape => p < Len(b) /\ b[p + 1] # Escape
  /\ "E0ESC" \in s => b # <<>> /\ b[1] # Escape

(* When all of b has been read, m is not in force. *)
Quiet(s, b, m) ==
  \/ m \notin s /\ \A p \in 1 .. Len(b) : ~Presses(s, b, p, m)
  \/ \E p \in 1 .. Len(b) : /\ Releases(s, b, p, m)
                            /\ \A q \in p + 1 .. Len(b) : ~Presses(s, b, q, m)

LEMMA BytesAre ==
  ASSUME NEW k \in Keys, NEW up \in BOOLEAN
  PROVE  /\ k \in 1 .. 255 /\ k # 128 /\ k # 96 /\ k # 224
         /\ k < 128 => Bytes(k, up) = <<k + (IF up THEN 128 ELSE 0)>>
         /\ k > 128 => Bytes(k, up) = <<224, k - 128 + (IF up THEN 128 ELSE 0)>>
<1>1. k \in 1 .. 255 /\ k % 128 \notin {0, 96}
  BY ConsoleAssumption
<1>2. /\ k # 128 /\ k # 96 /\ k # 224
      /\ k < 128 => k % 128 = k
      /\ k > 128 => k % 128 = k - 128
  BY <1>1
<1> QED BY <1>1, <1>2 DEF Bytes, Escape

(* The bytes that key k sends are one more event, of key k. *)
Sent(s, b, n, k, up) ==
  /\ Len(n) \in Nat /\ Len(n) > Len(b)
  /\ \A p \in 1 .. Len(b), m \in Modifiers :
       /\ Presses(s, n, p, m) <=> Presses(s, b, p, m)
       /\ Releases(s, n, p, m) <=> Releases(s, b, p, m)
  /\ \A p \in Len(b) + 1 .. Len(n), m \in Modifiers :
       /\ Presses(s, n, p, m) <=> p = Len(n) /\ ~up /\ m \in Shiftcode(k)
       /\ Releases(s, n, p, m) <=> p = Len(n) /\ up /\ m \in Shiftcode(k)

LEMMA Elements ==
  ASSUME NEW S, NEW b \in Seq(S)
  PROVE  Len(b) \in Nat /\ \A p \in 1 .. Len(b) : b[p] \in S
  OBVIOUS

LEMMA FirstOne ==
  ASSUME NEW S, NEW b \in Seq(S), b # <<>>
  PROVE  Head(b) \in S /\ Head(b) = b[1]
  OBVIOUS

LEMMA OneMore ==
  ASSUME NEW S, NEW b \in Seq(S), NEW c \in S
  PROVE  LET n == b \o <<c>>
         IN  /\ n \in Seq(S) /\ Len(n) = Len(b) + 1 /\ n[Len(b) + 1] = c
             /\ \A p \in 1 .. Len(b) : n[p] = b[p]
  OBVIOUS

LEMMA TwoMore ==
  ASSUME NEW S, NEW b \in Seq(S), NEW c \in S, NEW d \in S
  PROVE  LET n == b \o <<c, d>>
         IN  /\ n \in Seq(S) /\ Len(n) = Len(b) + 2
             /\ n[Len(b) + 1] = c /\ n[Len(b) + 2] = d
             /\ \A p \in 1 .. Len(b) : n[p] = b[p]
  OBVIOUS

LEMMA SendIs ==
  ASSUME NEW s, NEW b, WellFormed(s, b), NEW k \in Keys, NEW up \in BOOLEAN
  PROVE  WellFormed(s, b \o Bytes(k, up)) /\ Sent(s, b, b \o Bytes(k, up), k, up)
<1> DEFINE n == b \o Bytes(k, up)
           u == IF up THEN 128 ELSE 0
           L == Len(b)
<1>a. b \in Seq(0 .. 255)
  BY DEF WellFormed
<1>0. L \in Nat /\ \A p \in 1 .. L : b[p] \in 0 .. 255
  BY <1>a, Elements
<1>1. u \in {0, 128} /\ (u = 128 <=> up)
  OBVIOUS
<1>2. /\ k \in 1 .. 255 /\ k # 128 /\ k # 96 /\ k # 224
      /\ k < 128 => Bytes(k, up) = <<k + u>>
      /\ k > 128 => Bytes(k, up) = <<224, k - 128 + u>>
  BY BytesAre
<1>3. /\ \A p \in 1 .. L : b[p] = Escape => p < L /\ b[p + 1] # Escape
      /\ "E0ESC" \in s => L > 0 /\ b[1] # Escape
  BY <1>0 DEF WellFormed
<1>7. ASSUME k < 128
      PROVE  Len(n) = L + 1 /\ n[L + 1] = k + u
  <2> DEFINE c == k + u
  <2>1. c \in 0 .. 255
    BY <1>1, <1>2, <1>7
  <2>2. n = b \o <<c>>
    BY <1>2, <1>7
  <2> HIDE DEF c, n, u
  <2>3. Len(n) = L + 1 /\ n[L + 1] = c
    BY <1>a, <2>1, <2>2, OneMore
  <2> QED BY <2>3 DEF c
<1>8. ASSUME k > 128
      PROVE  Len(n) = L + 2 /\ n[L + 1] = 224 /\ n[L + 2] = k - 128 + u
  <2> DEFINE c == k - 128 + u
  <2>1. c \in 0 .. 255 /\ 224 \in 0 .. 255
    BY <1>1, <1>2, <1>8
  <2>2. n = b \o <<224, c>>
    BY <1>2, <1>8
  <2> HIDE DEF c, n, u
  <2>3. Len(n) = L + 2 /\ n[L + 1] = 224 /\ n[L + 2] = c
    BY <1>a, <2>1, <2>2, TwoMore
  <2> QED BY <2>3 DEF c
<1>4. n \in Seq(0 .. 255) /\ \A p \in 1 .. L : n[p] = b[p]
  <2>1. \A c \in 0 .. 255 : n = b \o <<c>> =>
          n \in Seq(0 .. 255) /\ \A p \in 1 .. L : n[p] = b[p]
    BY <1>a, OneMore
  <2>2. \A c, d \in 0 .. 255 : n = b \o <<c, d>> =>
          n \in Seq(0 .. 255) /\ \A p \in 1 .. L : n[p] = b[p]
    BY <1>a, TwoMore
  <2>3. CASE k < 128
    <3>1. k + u \in 0 .. 255
      BY <1>1, <1>2, <2>3
    <3>3. n = b \o <<k + u>>
      BY <1>2, <2>3
    <3> HIDE DEF n, u, L
    <3>2. n \in Seq(0 .. 255) /\ \A p \in 1 .. L : n[p] = b[p]
      BY <2>1, <3>1, <3>3, Zenon
    <3> QED BY <3>2 DEF n, L
  <2>4. CASE k > 128
    <3>1. k - 128 + u \in 0 .. 255 /\ 224 \in 0 .. 255
      BY <1>1, <1>2, <2>4
    <3>3. n = b \o <<224, k - 128 + u>>
      BY <1>2, <2>4
    <3> HIDE DEF n, u, L
    <3>2. n \in Seq(0 .. 255) /\ \A p \in 1 .. L : n[p] = b[p]
      BY <2>2, <3>1, <3>3, Zenon
    <3> QED BY <3>2 DEF n, L
  <2> QED BY <1>2, <2>3, <2>4
<1>9. \A p \in 1 .. Len(n) : n[p] \in 0 .. 255
  <2> HIDE DEF n
  <2> QED BY <1>4, Elements
<1>5. CASE k < 128
  <2>1. Len(n) = L + 1 /\ n[L + 1] = k + u
    BY <1>5, <1>7
  <2> HIDE DEF n, L, u
  <2>2. /\ n[L + 1] # Escape /\ (n[L + 1] < 128 <=> ~up)
    BY <1>1, <1>2, <1>5, <2>1 DEF Escape
  <2>3. ~Escaped(s, n, L + 1)
    <3>1. CASE L = 0
      BY <1>3, <3>1 DEF Escaped
    <3>2. CASE L # 0
      <4>1. L + 1 # 1 /\ L + 1 - 1 = L /\ L \in 1 .. L
        BY <1>0, <3>2
      <4>2. n[L] = b[L] /\ b[L] # Escape
        BY <1>3, <1>4, <4>1
      <4> QED BY <4>1, <4>2 DEF Escaped
    <3> QED BY <3>1, <3>2
  <2>4. KeyAt(s, n, L + 1) = k
    BY <1>1, <1>2, <1>5, <2>1, <2>3 DEF KeyAt
  <2>5. \A m \in Modifiers :
          /\ Presses(s, n, L + 1, m) <=> ~up /\ m \in Shiftcode(k)
          /\ Releases(s, n, L + 1, m) <=> up /\ m \in Shiftcode(k)
    <3>2. Len(n) = L + 1 /\ Len(n) \in 1 .. Len(n)
      BY <1>0, <2>1
    <3>3. n[Len(n)] \in 0 .. 255
      BY <1>9, <3>2
    <3>1. n[L + 1] \in 0 .. 255
      BY <3>2, <3>3
    <3> QED BY <3>1, <2>2, <2>4 DEF Presses, Releases
  <2>6. ASSUME NEW p \in 1 .. L, NEW m \in Modifiers
        PROVE  /\ Presses(s, n, p, m) <=> Presses(s, b, p, m)
               /\ Releases(s, n, p, m) <=> Releases(s, b, p, m)
    <3>1. n[p] = b[p] /\ (p # 1 => n[p - 1] = b[p - 1])
      BY <1>0, <1>4
    <3> QED BY <3>1 DEF Presses, Releases, KeyAt, Escaped
  <2>7. Sent(s, b, n, k, up)
    <3>1. \A p \in L + 1 .. Len(n) : p = L + 1 /\ p = Len(n)
      BY <1>0, <2>1
    <3> QED BY <1>0, <2>1, <2>5, <2>6, <3>1 DEF Sent, L
  <2>8. WellFormed(s, n)
    <3>1. ASSUME NEW p \in 1 .. Len(n), n[p] = Escape
          PROVE  p < Len(n) /\ n[p + 1] # Escape
      <4>1. p \in 1 .. L /\ b[p] = Escape
        BY <1>0, <1>4, <2>1, <2>2, <3>1
      <4>2. p < L /\ b[p + 1] # Escape
        BY <1>3, <4>1
      <4> QED BY <1>0, <1>4, <2>1, <4>1, <4>2
    <3>2. "E0ESC" \in s => n # <<>> /\ n[1] # Escape
      BY <1>0, <1>3, <1>4, <2>1
    <3> QED BY <1>4, <3>1, <3>2 DEF WellFormed
  <2> QED BY <2>7, <2>8 DEF n
<1>6. CASE k > 128
  <2>1. Len(n) = L + 2 /\ n[L + 1] = Escape /\ n[L + 2] = k - 128 + u
    BY <1>6, <1>8 DEF Escape
  <2> HIDE DEF n, L, u
  <2>2. /\ n[L + 2] # Escape /\ (n[L + 2] < 128 <=> ~up) /\ n[L + 1] >= 128
    BY <1>1, <1>2, <1>6, <2>1 DEF Escape
  <2>3. Escaped(s, n, L + 2)
    <3> DEFINE i == L + 2
               j == L + 1
    <3>1. i # 1 /\ i - 1 = j
      BY <1>0
    <3>2. n[j] = Escape
      BY <2>1
    <3> HIDE DEF i, j
    <3>3. Escaped(s, n, i)
      BY <3>1, <3>2 DEF Escaped
    <3> QED BY <3>3 DEF i
  <2>4. KeyAt(s, n, L + 2) = k
    BY <1>1, <1>2, <1>6, <2>1, <2>3 DEF KeyAt
  <2>5. \A m \in Modifiers :
          /\ Presses(s, n, L + 2, m) <=> ~up /\ m \in Shiftcode(k)
          /\ Releases(s, n, L + 2, m) <=> up /\ m \in Shiftcode(k)
          /\ ~Presses(s, n, L + 1, m) /\ ~Releases(s, n, L + 1, m)
    <3>4. Len(n) = L + 2 /\ Len(n) \in 1 .. Len(n)
      BY <1>0, <2>1
    <3>5. n[Len(n)] \in 0 .. 255
      BY <1>9, <3>4
    <3>1. n[L + 2] \in 0 .. 255
      BY <3>4, <3>5
    <3>2. \A m \in Modifiers : ~Presses(s, n, L + 1, m) /\ ~Releases(s, n, L + 1, m)
      <4> DEFINE x == n[L + 1]
      <4>1. x = 224
        BY <2>1 DEF Escape
      <4> HIDE DEF x
      <4>2. ~(x < 128) /\ ~(x # Escape)
        BY <4>1 DEF Escape
      <4> QED BY <4>2 DEF Presses, Releases, x
    <3>3. \A m \in Modifiers :
            /\ Presses(s, n, L + 2, m) <=> ~up /\ m \in Shiftcode(k)
            /\ Releases(s, n, L + 2, m) <=> up /\ m \in Shiftcode(k)
      BY <3>1, <2>2, <2>4 DEF Presses, Releases
    <3> QED BY <3>2, <3>3
  <2>6. ASSUME NEW p \in 1 .. L, NEW m \in Modifiers
        PROVE  /\ Presses(s, n, p, m) <=> Presses(s, b, p, m)
               /\ Releases(s, n, p, m) <=> Releases(s, b, p, m)
    <3>1. n[p] = b[p] /\ (p # 1 => n[p - 1] = b[p - 1])
      BY <1>0, <1>4
    <3> QED BY <3>1 DEF Presses, Releases, KeyAt, Escaped
  <2>7. Sent(s, b, n, k, up)
    <3>1. \A p \in L + 1 .. Len(n) : /\ p = L + 1 => p # Len(n)
                                     /\ p # L + 1 => p = L + 2 /\ p = Len(n)
      BY <1>0, <2>1
    <3> QED BY <1>0, <2>1, <2>5, <2>6, <3>1 DEF Sent, L
  <2>8. WellFormed(s, n)
    <3>1. ASSUME NEW p \in 1 .. Len(n), n[p] = Escape
          PROVE  p < Len(n) /\ n[p + 1] # Escape
      <4>1. CASE p \in 1 .. L
        <5>1. p < L /\ b[p + 1] # Escape
          BY <1>3, <1>4, <3>1, <4>1
        <5> QED BY <1>0, <1>4, <2>1, <4>1, <5>1
      <4>2. CASE p = L + 1
        <5>1. p + 1 = L + 2
          BY <1>0, <4>2
        <5> QED BY <1>0, <2>1, <2>2, <4>2, <5>1
      <4>3. p \in 1 .. L \/ p = L + 1
        BY <1>0, <2>1, <2>2, <3>1
      <4> QED BY <4>1, <4>2, <4>3
    <3>2. "E0ESC" \in s => n # <<>> /\ n[1] # Escape
      BY <1>0, <1>3, <1>4, <2>1
    <3> QED BY <1>4, <3>1, <3>2 DEF WellFormed
  <2> QED BY <2>7, <2>8 DEF n
<1> QED BY <1>2, <1>5, <1>6

(* When kbd_proc_data() has read a byte, the others mean what they meant.  *)
Taken(s, b, s2, t) ==
  /\ Len(b) = Len(t) + 1
  /\ \A p \in 1 .. Len(t), m \in Modifiers :
       /\ Presses(s2, t, p, m) <=> Presses(s, b, p + 1, m)
       /\ Releases(s2, t, p, m) <=> Releases(s, b, p + 1, m)

LEMMA TakeIs ==
  ASSUME NEW s, NEW b, WellFormed(s, b), b # <<>>,
         NEW s2, "E0ESC" \in s2 <=> Head(b) = Escape
  PROVE  WellFormed(s2, Tail(b)) /\ Taken(s, b, s2, Tail(b))
<1> DEFINE t == Tail(b)
<1>1. b \in Seq(0 .. 255)
  BY DEF WellFormed
<1>2. /\ t \in Seq(0 .. 255) /\ Len(t) \in Nat /\ Len(b) = Len(t) + 1
      /\ \A p \in 1 .. Len(t) : t[p] = b[p + 1]
      /\ Head(b) = b[1]
  <2> DEFINE S == 0 .. 255
  <2>1. b \in Seq(S)
    BY <1>1
  <2> HIDE DEF S
  <2>2. t \in Seq(S) /\ Len(t) \in Nat /\ Len(b) = Len(t) + 1 /\ Head(b) = b[1]
    BY <2>1
  <2>3. \A p \in 1 .. Len(t) : t[p] = b[p + 1]
    BY <2>1
  <2> QED BY <2>2, <2>3 DEF S
<1> HIDE DEF t
<1>3. \A p \in 1 .. Len(t) : Escaped(s2, t, p) <=> Escaped(s, b, p + 1)
  <2> SUFFICES ASSUME NEW p \in 1 .. Len(t)
               PROVE  Escaped(s2, t, p) <=> Escaped(s, b, p + 1)
    OBVIOUS
  <2> DEFINE q == p + 1
  <2>1. q # 1 /\ q - 1 = p
    BY <1>2
  <2> HIDE DEF q
  <2>2. Escaped(s, b, q) <=> b[p] = Escape
    BY <2>1 DEF Escaped
  <2>3. CASE p = 1
    <3>1. Escaped(s2, t, p) <=> "E0ESC" \in s2
      BY <2>3 DEF Escaped
    <3> QED BY <1>2, <2>2, <2>3, <3>1 DEF q
  <2>4. CASE p # 1
    <3> DEFINE r == p - 1
    <3>1. r \in 1 .. Len(t) /\ r + 1 = p
      BY <1>2, <2>4
    <3>2. t[r] = b[p]
      BY <1>2, <3>1
    <3>3. Escaped(s2, t, p) <=> t[r] = Escape
      BY <2>4 DEF Escaped
    <3> QED BY <2>2, <3>2, <3>3 DEF q
  <2> QED BY <2>3, <2>4
<1>4. ASSUME NEW p \in 1 .. Len(t), NEW m \in Modifiers
      PROVE  /\ Presses(s2, t, p, m) <=> Presses(s, b, p + 1, m)
             /\ Releases(s2, t, p, m) <=> Releases(s, b, p + 1, m)
  <2> DEFINE q == p + 1
  <2>1. t[p] = b[q] /\ (Escaped(s2, t, p) <=> Escaped(s, b, q))
    BY <1>2, <1>3
  <2> HIDE DEF q
  <2>2. KeyAt(s2, t, p) = KeyAt(s, b, q)
    BY <2>1 DEF KeyAt
  <2>3. /\ Presses(s2, t, p, m) <=> Presses(s, b, q, m)
        /\ Releases(s2, t, p, m) <=> Releases(s, b, q, m)
    BY <2>1, <2>2 DEF Presses, Releases
  <2> QED BY <2>3, Zenon DEF q
<1>5. Taken(s, b, s2, t)
  BY <1>2, <1>4 DEF Taken
<1>6. ASSUME NEW p \in 1 .. Len(b), b[p] = Escape
      PROVE  p < Len(b) /\ b[p + 1] # Escape
  BY <1>6 DEF WellFormed
<1>7. ASSUME NEW p \in 1 .. Len(t), t[p] = Escape
      PROVE  p < Len(t) /\ t[p + 1] # Escape
  <2> DEFINE q == p + 1
             r == q + 1
  <2>1. q \in 1 .. Len(b) /\ t[p] = b[q]
    BY <1>2
  <2> HIDE DEF q
  <2>2. q < Len(b) /\ b[r] # Escape
    BY <1>6, <1>7, <2>1
  <2>3. p < Len(t)
    BY <1>2, <2>2 DEF q
  <2>4. q \in 1 .. Len(t)
    BY <1>2, <2>3 DEF q
  <2>5. t[q] = b[r]
    BY <1>2, <2>4
  <2> QED BY <2>2, <2>3, <2>5 DEF q
<1>8. ASSUME "E0ESC" \in s2 PROVE t # <<>> /\ t[1] # Escape
  <2>1. 1 \in 1 .. Len(b) /\ b[1] = Escape
    BY <1>2, <1>8
  <2>2. 1 < Len(b) /\ b[1 + 1] # Escape
    BY <1>6, <2>1
  <2>3. 1 \in 1 .. Len(t)
    BY <1>2, <2>2
  <2>4. t[1] = b[1 + 1]
    BY <1>2, <2>3
  <2> QED BY <1>2, <2>2, <2>3, <2>4
<1>9. WellFormed(s2, t)
  BY <1>2, <1>7, <1>8 DEF WellFormed
<1> QED BY <1>5, <1>9 DEF t

(* What kbd_proc_data() makes of the byte that it reads. *)
LEMMA ReadIs ==
  ASSUME NEW b, WellFormed(shift, b), b # <<>>, shift \subseteq Flags,
         Input(KbdProcData(Cons, Head(b)))
  PROVE  /\ shift' \subseteq Flags
         /\ "E0ESC" \in shift' <=> Head(b) = Escape
         /\ \A m \in Modifiers :
              /\ Releases(shift, b, 1, m) => m \notin shift'
              /\ m \in shift' => m \in shift \/ Presses(shift, b, 1, m)
<1> DEFINE data == Head(b)
<1>1. b \in Seq(0 .. 255)
  BY DEF WellFormed
<1>2. data \in 0 .. 255 /\ b[1] = data
  BY <1>1, FirstOne
<1>3. data = Escape => "E0ESC" \notin shift
  BY <1>2 DEF WellFormed
<1> DEFINE esc == "E0ESC" \in shift
           key == KeyAt(shift, b, 1)
<1>4. key = (IF data < 128 THEN data ELSE data - 128) + (IF esc THEN 128 ELSE 0)
  BY <1>2 DEF KeyAt, Escaped
<1>5. \A k : Shiftcode(k) \subseteq Modifiers
  BY DEF Shiftcode, Modifiers
<1>6. \A k : Togglecode(k) \subseteq {"CAPSLOCK", "NUMLOCK", "SCROLLLOCK"}
  BY DEF Togglecode
<1>7. \A m \in Modifiers :
        /\ Presses(shift, b, 1, m) <=> data < 128 /\ m \in Shiftcode(key)
        /\ Releases(shift, b, 1, m) <=>
             data >= 128 /\ data # Escape /\ m \in Shiftcode(key)
  BY <1>2 DEF Presses, Releases
<1>8. CASE data = Escape
  <2>1. shift' = shift \cup {"E0ESC"}
    BY <1>8 DEF Input, KbdProcData, Cons
  <2>2. ~(data < 128)
    BY <1>8 DEF Escape
  <2> QED BY <1>7, <1>8, <2>1, <2>2 DEF Flags, Modifiers
<1>9. CASE data # Escape /\ data >= 128
  <2>1. shift' = shift \ (Shiftcode(ReleasedAs(shift, data)) \cup {"E0ESC"})
    BY <1>9 DEF Input, KbdProcData, KbdRelease, Cons
  <2>2. ReleasedAs(shift, data) = key
    <3> HIDE DEF data, key
    <3> QED BY <1>2, <1>4, <1>9 DEF ReleasedAs
  <2>3. ~(data < 128)
    <3> HIDE DEF data
    <3> QED BY <1>2, <1>9
  <2> HIDE DEF key
  <2> QED BY <1>7, <1>9, <2>1, <2>2, <2>3
<1>10. CASE data # Escape /\ data < 128
  <2> DEFINE down == (shift \ {"E0ESC"}) \cup Shiftcode(key)
             now  == (down \ Togglecode(key)) \cup (Togglecode(key) \ down)
  <2>1. key = IF esc THEN data + 128 ELSE data
    <3> HIDE DEF data, key
    <3> QED BY <1>2, <1>4, <1>10
  <2>2. ~(data >= 128)
    <3> HIDE DEF data
    <3> QED BY <1>2, <1>10
  <2>3. shift' = now
    <3>1. KbdProcData(Cons, data) = KbdPress(Cons, data)
      BY <1>10, <2>2 DEF KbdProcData
    <3>2. KbdPress(Cons, data).shift = now
      <4> HIDE DEF key
      <4> QED BY <2>1 DEF KbdPress, Cons, Stash
    <3> QED BY <3>1, <3>2 DEF Input
  <2> HIDE DEF key
  <2>4. Shiftcode(key) \subseteq Modifiers
        /\ Togglecode(key) \subseteq {"CAPSLOCK", "NUMLOCK", "SCROLLLOCK"}
    BY <1>5, <1>6
  <2>5. now \subseteq Flags /\ "E0ESC" \notin now
    BY <2>4 DEF Flags, Modifiers
  <2>6. \A m \in Modifiers : m \in now => m \in shift \/ m \in Shiftcode(key)
    BY <2>4 DEF Modifiers
  <2> HIDE DEF now
  <2> QED BY <1>7, <1>10, <2>2, <2>3, <2>5, <2>6
<1>11. data < 128 \/ data >= 128
  <2> HIDE DEF data
  <2> QED BY <1>2
<1> QED BY <1>8, <1>9, <1>10, <1>11

(* An event of another key changes nothing, and a release settles it. *)
LEMMA QuietSent ==
  ASSUME NEW s, NEW b, NEW n, NEW k, NEW up \in BOOLEAN, NEW m \in Modifiers,
         Len(b) \in Nat, Sent(s, b, n, k, up),
         \/ m \notin Shiftcode(k) /\ Quiet(s, b, m)
         \/ m \in Shiftcode(k) /\ up
  PROVE  Quiet(s, n, m)
<1>1. /\ Len(n) \in Nat /\ Len(n) > Len(b)
      /\ \A p \in 1 .. Len(b) :
           /\ Presses(s, n, p, m) <=> Presses(s, b, p, m)
           /\ Releases(s, n, p, m) <=> Releases(s, b, p, m)
      /\ \A p \in Len(b) + 1 .. Len(n) :
           /\ Presses(s, n, p, m) <=> p = Len(n) /\ ~up /\ m \in Shiftcode(k)
           /\ Releases(s, n, p, m) <=> p = Len(n) /\ up /\ m \in Shiftcode(k)
  BY DEF Sent
<1>2. CASE m \in Shiftcode(k) /\ up
  <2>1. Len(n) \in Len(b) + 1 .. Len(n) /\ Len(n) \in 1 .. Len(n)
    BY <1>1
  <2>2. Releases(s, n, Len(n), m)
    BY <1>1, <1>2, <2>1
  <2>3. \A q \in Len(n) + 1 .. Len(n) : FALSE
    BY <1>1
  <2> QED BY <2>1, <2>2, <2>3 DEF Quiet
<1>3. CASE m \notin Shiftcode(k) /\ Quiet(s, b, m)
  <2>1. \A p \in Len(b) + 1 .. Len(n) : ~Presses(s, n, p, m)
    BY <1>1, <1>3
  <2>2. \A p \in 1 .. Len(n) : p \in 1 .. Len(b) \/ p \in Len(b) + 1 .. Len(n)
    BY <1>1
  <2>3. CASE m \notin s /\ \A p \in 1 .. Len(b) : ~Presses(s, b, p, m)
    <3>1. \A p \in 1 .. Len(n) : ~Presses(s, n, p, m)
      BY <1>1, <2>1, <2>2, <2>3
    <3> QED BY <2>3, <3>1 DEF Quiet
  <2>4. ASSUME NEW p \in 1 .. Len(b), Releases(s, b, p, m),
               \A q \in p + 1 .. Len(b) : ~Presses(s, b, q, m)
        PROVE  Quiet(s, n, m)
    <3>1. p \in 1 .. Len(n) /\ Releases(s, n, p, m)
      BY <1>1, <2>4
    <3>2. ASSUME NEW q \in p + 1 .. Len(n) PROVE ~Presses(s, n, q, m)
      <4>1. CASE q <= Len(b)
        <5>1. q \in 1 .. Len(b) /\ q \in p + 1 .. Len(b)
          BY <4>1
        <5> QED BY <1>1, <2>4, <5>1
      <4>2. CASE q > Len(b)
        <5>1. q \in Len(b) + 1 .. Len(n)
          BY <1>1, <4>2
        <5> QED BY <2>1, <5>1
      <4> QED BY <1>1, <4>1, <4>2
    <3> QED BY <3>1, <3>2 DEF Quiet
  <2> QED BY <1>3, <2>3, <2>4 DEF Quiet
<1> QED BY <1>2, <1>3

LEMMA QuietTaken ==
  ASSUME NEW s, NEW b, NEW s2, NEW t, NEW m \in Modifiers, Len(t) \in Nat,
         Taken(s, b, s2, t), Quiet(s, b, m),
         Releases(s, b, 1, m) => m \notin s2,
         m \in s2 => m \in s \/ Presses(s, b, 1, m)
  PROVE  Quiet(s2, t, m)
<1>1. /\ Len(b) = Len(t) + 1
      /\ \A p \in 1 .. Len(t) :
           /\ Presses(s2, t, p, m) <=> Presses(s, b, p + 1, m)
           /\ Releases(s2, t, p, m) <=> Releases(s, b, p + 1, m)
  BY DEF Taken
<1>2. CASE m \notin s /\ \A p \in 1 .. Len(b) : ~Presses(s, b, p, m)
  <2>1. 1 \in 1 .. Len(b) /\ \A p \in 1 .. Len(t) : p + 1 \in 1 .. Len(b)
    BY <1>1
  <2>2. m \notin s2 /\ \A p \in 1 .. Len(t) : ~Presses(s2, t, p, m)
    BY <1>1, <1>2, <2>1
  <2> QED BY <2>2 DEF Quiet
<1>3. ASSUME NEW p \in 1 .. Len(b), Releases(s, b, p, m),
             \A q \in p + 1 .. Len(b) : ~Presses(s, b, q, m)
      PROVE  Quiet(s2, t, m)
  <2>1. \A i \in p .. Len(t) : 1 <= i => ~Presses(s2, t, i, m)
    <3> SUFFICES ASSUME NEW i \in p .. Len(t), 1 <= i PROVE ~Presses(s2, t, i, m)
      OBVIOUS
    <3> DEFINE q == i + 1
    <3>1. q \in p + 1 .. Len(b) /\ i \in 1 .. Len(t)
      BY <1>1
    <3>2. ~Presses(s, b, q, m)
      BY <1>3, <3>1
    <3>3. Presses(s2, t, i, m) <=> Presses(s, b, q, m)
      BY <1>1, <3>1
    <3> QED BY <3>2, <3>3
  <2>2. CASE p = 1
    <3>1. m \notin s2
      BY <1>3, <2>2
    <3>2. \A i \in 1 .. Len(t) : ~Presses(s2, t, i, m)
      BY <2>1, <2>2
    <3> QED BY <3>1, <3>2 DEF Quiet
  <2>3. CASE p # 1
    <3> DEFINE i == p - 1
    <3>1. i \in 1 .. Len(t) /\ i + 1 = p
      BY <1>1, <2>3
    <3>2. Releases(s2, t, i, m)
      <4> HIDE DEF i
      <4>1. Releases(s2, t, i, m) <=> Releases(s, b, i + 1, m)
        BY <1>1, <3>1
      <4> QED BY <1>3, <3>1, <4>1
    <3>3. \A q \in i + 1 .. Len(t) : ~Presses(s2, t, q, m)
      BY <2>1, <3>1
    <3> HIDE DEF i
    <3> QED BY <3>1, <3>2, <3>3 DEF Quiet
  <2> QED BY <2>2, <2>3
<1> QED BY <1>2, <1>3 DEF Quiet

(***************************************************************************)
(* A modifier none of whose keys is down has been cleared, or will have    *)
(* been when the bytes on their way have been read.                        *)
(***************************************************************************)
HeldDown(m) == \E k \in held : m \in Shiftcode(k)

ModifierInv ==
  /\ held \subseteq Keys /\ shift \subseteq Flags
  /\ WellFormed(shift, kbd)
  /\ \A m \in Modifiers : HeldDown(m) \/ Quiet(shift, kbd, m)

LEMMA InitModifiers == Init => ModifierInv
<1> SUFFICES ASSUME Init PROVE ModifierInv
  OBVIOUS
<1>1. kbd = <<>> /\ held = {} /\ shift = {}
  BY DEF Init
<1>2. kbd \in Seq(0 .. 255) /\ Len(kbd) = 0 /\ \A p \in 1 .. Len(kbd) : FALSE
  BY <1>1
<1>3. WellFormed(shift, kbd)
  BY <1>1, <1>2 DEF WellFormed
<1>4. \A m \in Modifiers : Quiet(shift, kbd, m)
  BY <1>1, <1>2 DEF Quiet
<1> QED BY <1>1, <1>3, <1>4 DEF ModifierInv

LEMMA KeyModifiers ==
  ASSUME ModifierInv, NEW k \in Keys, Press(k) \/ Release(k)
  PROVE  ModifierInv'
<1>1. /\ held \subseteq Keys /\ shift \subseteq Flags /\ WellFormed(shift, kbd)
      /\ \A m \in Modifiers : HeldDown(m) \/ Quiet(shift, kbd, m)
  BY DEF ModifierInv
<1>2. shift' = shift
  BY DEF Press, Release, unchangedKernel
<1>3. Len(kbd) \in Nat
  <2>1. kbd \in Seq(0 .. 255)
    BY <1>1 DEF WellFormed
  <2> QED BY <2>1, Elements
<1>4. CASE Press(k)
  <2>1. held' = held \cup {k} /\ kbd' = kbd \o Bytes(k, FALSE)
    BY <1>4 DEF Press
  <2>2. WellFormed(shift, kbd') /\ Sent(shift, kbd, kbd', k, FALSE)
    BY <1>1, <2>1, SendIs
  <2>3. ASSUME NEW m \in Modifiers
        PROVE  HeldDown(m)' \/ Quiet(shift, kbd', m)
    <3>1. CASE m \in Shiftcode(k) \/ HeldDown(m)
      BY <2>1, <3>1 DEF HeldDown
    <3>2. CASE ~(m \in Shiftcode(k) \/ HeldDown(m))
      BY <1>1, <1>3, <2>2, <3>2, QuietSent
    <3> QED BY <3>1, <3>2
  <2> QED BY <1>1, <1>2, <2>1, <2>2, <2>3 DEF ModifierInv
<1>5. CASE Release(k)
  <2>1. held' = held \ {k} /\ kbd' = kbd \o Bytes(k, TRUE)
    BY <1>5 DEF Release
  <2>2. WellFormed(shift, kbd') /\ Sent(shift, kbd, kbd', k, TRUE)
    BY <1>1, <2>1, SendIs
  <2>3. ASSUME NEW m \in Modifiers
        PROVE  HeldDown(m)' \/ Quiet(shift, kbd', m)
    <3>1. CASE m \in Shiftcode(k)
      BY <1>3, <2>2, <3>1, QuietSent
    <3>2. CASE m \notin Shiftcode(k) /\ HeldDown(m)
      BY <2>1, <3>2 DEF HeldDown
    <3>3. CASE m \notin Shiftcode(k) /\ ~HeldDown(m)
      BY <1>1, <1>3, <2>2, <3>3, QuietSent
    <3> QED BY <3>1, <3>2, <3>3
  <2> QED BY <1>1, <1>2, <2>1, <2>2, <2>3 DEF ModifierInv
<1> QED BY <1>4, <1>5

LEMMA KbdModifiers ==
  ASSUME ModifierInv, KbdIntr
  PROVE  ModifierInv'
<1>1. /\ held \subseteq Keys /\ shift \subseteq Flags /\ WellFormed(shift, kbd)
      /\ \A m \in Modifiers : HeldDown(m) \/ Quiet(shift, kbd, m)
  BY DEF ModifierInv
<1>2. /\ kbd # <<>> /\ kbd' = Tail(kbd) /\ held' = held
      /\ Input(KbdProcData(Cons, Head(kbd)))
  BY DEF KbdIntr, unchangedReader
<1>3. /\ shift' \subseteq Flags
      /\ "E0ESC" \in shift' <=> Head(kbd) = Escape
      /\ \A m \in Modifiers :
           /\ Releases(shift, kbd, 1, m) => m \notin shift'
           /\ m \in shift' => m \in shift \/ Presses(shift, kbd, 1, m)
  BY <1>1, <1>2, ReadIs
<1>4. WellFormed(shift', Tail(kbd)) /\ Taken(shift, kbd, shift', Tail(kbd))
  BY <1>1, <1>2, <1>3, TakeIs
<1>5. Len(kbd') \in Nat
  <2>1. kbd' \in Seq(0 .. 255)
    BY <1>2, <1>4 DEF WellFormed
  <2> QED BY <2>1, Elements
<1>6. ASSUME NEW m \in Modifiers
      PROVE  HeldDown(m)' \/ Quiet(shift', kbd', m)
  <2>1. CASE HeldDown(m)
    BY <1>2, <2>1 DEF HeldDown
  <2>2. CASE Quiet(shift, kbd, m)
    BY <1>2, <1>3, <1>4, <1>5, <2>2, QuietTaken
  <2> QED BY <1>1, <2>1, <2>2
<1> QED BY <1>1, <1>2, <1>3, <1>4, <1>6 DEF ModifierInv

LEMMA StepModifiers == ModifierInv /\ [Next]_vars => ModifierInv'
<1> SUFFICES ASSUME ModifierInv, [Next]_vars PROVE ModifierInv'
  OBVIOUS
<1>1. ASSUME UNCHANGED <<kbd, held, shift>> PROVE ModifierInv'
  BY <1>1 DEF ModifierInv, HeldDown
<1>2. ASSUME NEW c \in SerialChars, SerialByte(c) PROVE ModifierInv'
  BY <1>1, <1>2 DEF SerialByte, unchangedKernel
<1>3. CASE SerialIntr
  <2>1. shift' = shift
    <3>1. CASE rx = 0
      BY <1>3, <3>1 DEF SerialIntr
    <3>2. CASE rx # 0
      BY <1>3, <3>2 DEF SerialIntr, Input, Stash, Cons
    <3> QED BY <3>1, <3>2
  <2> QED BY <1>1, <1>3, <2>1 DEF SerialIntr, unchangedReader
<1>4. CASE Getchar
  BY <1>1, <1>4 DEF Getchar
<1>5. CASE KbdInterrupt
  BY <1>1, <1>5 DEF KbdInterrupt
<1>6. CASE UNCHANGED vars
  BY <1>1, <1>6 DEF vars
<1> QED BY <1>2, <1>3, <1>4, <1>5, <1>6, KeyModifiers, KbdModifiers DEF Next

(* kbd_proc_data()'s state follows the keys, escapes included, however far *)
(* reading lags behind them.                                               *)
THEOREM ModifiersFollowKeys == Spec => []ModifierInv
<1> QED BY InitModifiers, StepModifiers, PTL DEF Spec

(* No modifier stays in force when all bytes have been read and none of    *)
(* its keys is down, for any keyboard and in any order of presses and      *)
(* releases.                                                               *)
THEOREM ModifiersDoNotStick == Spec => []NoStuckModifiers
<1>1. ASSUME ModifierInv PROVE NoStuckModifiers
  <2> SUFFICES ASSUME kbd = <<>>,
                      NEW m \in shift \ {"CAPSLOCK", "NUMLOCK", "SCROLLLOCK"}
               PROVE  \E k \in held : m \in Shiftcode(k)
    BY DEF NoStuckModifiers
  <2>1. "E0ESC" \notin shift
    BY <1>1 DEF ModifierInv, WellFormed
  <2>2. m \in Modifiers
    BY <1>1, <2>1 DEF ModifierInv, Flags
  <2>3. \A p \in 1 .. Len(kbd) : FALSE
    OBVIOUS
  <2>4. ~Quiet(shift, kbd, m)
    BY <2>3 DEF Quiet
  <2> QED BY <1>1, <2>2, <2>4 DEF ModifierInv, HeldDown
<1> QED BY <1>1, ModifiersFollowKeys, PTL
=============================================================================
