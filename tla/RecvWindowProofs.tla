--------------------------- MODULE RecvWindowProofs ---------------------------
(***************************************************************************)
(* Proofs about the window of RecvReorder: the buffer stays within it, the *)
(* frames of a session go up in order, and the newest frame is accepted.   *)
(* Each rests on what SN_LESS means for the numbers the sender counts      *)
(* with, which the code never sees.                                        *)
(***************************************************************************)
EXTENDS RecvReorderProofs

Half == SN \div 2
Quarter == SN \div 4

\* The sizes of the sequence space and of the window.
LEMMA Sizes == /\ SN \in Nat /\ SN >= 8 /\ WSIZE \in Nat /\ WSIZE >= 2
               /\ Half \in Nat /\ SN = 2 * Half
               /\ Quarter \in Nat /\ 2 * Quarter <= Half /\ WSIZE <= Quarter
               /\ Unset \in Nat /\ Unset \notin SeqSpace
<1>1. SN \in Nat /\ SN >= 8 /\ WSIZE \in Nat /\ WSIZE >= 2 /\ SN % 2 = 0 /\ 4 * WSIZE <= SN
  BY SpaceAssumption
<1>2. Half \in Nat /\ SN = 2 * Half
  BY <1>1 DEF Half
<1>3. Quarter \in Nat /\ 4 * Quarter <= SN /\ WSIZE <= Quarter
  BY <1>1 DEF Quarter
<1>4. Unset \in Nat /\ Unset \notin SeqSpace
  BY <1>1 DEF Unset, SeqSpace
<1> QED
  BY <1>1, <1>2, <1>3, <1>4

\* The remainder is the only number of the space a multiple of its size away.
LEMMA Remainder ==
    \A a, q, r \in Int : r \in 0 .. SN - 1 /\ a = q * SN + r => a % SN = r
  BY Sizes

\* A reduced number lies in the sequence space.
LEMMA InSpace ==
    \A a \in Int : a % SN \in 0 .. SN - 1 /\ a % SN \in Int
  BY Sizes

\* Every number is a multiple of the size of the space and its remainder.
LEMMA Quotient ==
    \A a \in Int : \E q \in Int : a = q * SN + (a % SN)
<1> TAKE a \in Int
<1>1. a \div SN \in Int /\ a = (a \div SN) * SN + (a % SN)
  BY Sizes
<1> QED
  BY <1>1

\* Reducing a summand does not change the reduced sum.
LEMMA ReduceSum ==
    \A a, c \in Int : ((a % SN) + c) % SN = (a + c) % SN
<1> TAKE a, c \in Int
<1>1. PICK q \in Int : a = q * SN + (a % SN)
  BY Quotient
<1> DEFINE s == a % SN
           t == (s + c) % SN
<1>2. s \in Int
  BY InSpace
<1>3. s + c \in Int
  BY <1>2
<1>4. t \in Int /\ t \in 0 .. SN - 1
  BY <1>3, InSpace
<1>5. PICK p \in Int : s + c = p * SN + t
  BY <1>3, Quotient
<1> HIDE DEF s, t
<1>6. a + c = (q + p) * SN + t
  <2>1. a = q * SN + s
    BY <1>1 DEF s
  <2>2. (q + p) * SN = q * SN + p * SN
    BY Sizes
  <2>3. q * SN \in Int /\ p * SN \in Int
    BY Sizes
  <2> QED
    BY <2>1, <2>2, <2>3, <1>2, <1>4, <1>5
<1>7. q + p \in Int /\ a + c \in Int
  OBVIOUS
<1>8. (a + c) % SN = t
  BY <1>4, <1>6, <1>7, Remainder
<1> QED
  BY <1>8 DEF s, t

\* Nor does reducing what is subtracted.
LEMMA ReduceDiff ==
    \A a, b \in Int : (a - (b % SN)) % SN = (a - b) % SN
<1> TAKE a, b \in Int
<1>1. PICK q \in Int : b = q * SN + (b % SN)
  BY Quotient
<1> DEFINE s == b % SN
           t == (a - s) % SN
<1>2. s \in Int
  BY InSpace
<1>3. a - s \in Int
  BY <1>2
<1>4. t \in Int /\ t \in 0 .. SN - 1
  BY <1>3, InSpace
<1>5. PICK p \in Int : a - s = p * SN + t
  BY <1>3, Quotient
<1> HIDE DEF s, t
<1>6. a - b = (p - q) * SN + t
  <2>1. b = q * SN + s
    BY <1>1 DEF s
  <2>2. (p - q) * SN = p * SN - q * SN
    BY Sizes
  <2>3. q * SN \in Int /\ p * SN \in Int
    BY Sizes
  <2> QED
    BY <2>1, <2>2, <2>3, <1>2, <1>4, <1>5
<1>7. p - q \in Int /\ a - b \in Int
  OBVIOUS
<1>8. (a - b) % SN = t
  BY <1>4, <1>6, <1>7, Remainder
<1> QED
  BY <1>8 DEF s, t

\* A difference may be taken before or after both numbers are reduced.
LEMMA SpaceDiff ==
    \A a, b \in Int : ((a % SN) - (b % SN)) % SN = (a - b) % SN
<1> TAKE a, b \in Int
<1>1. a % SN \in Int /\ b % SN \in Int /\ 0 - b \in Int
  BY InSpace
<1>2. ((a % SN) - (b % SN)) % SN = ((a % SN) - b) % SN
  BY <1>1, ReduceDiff, Zenon
<1>3. ((a % SN) + (0 - b)) % SN = (a + (0 - b)) % SN
  BY <1>1, ReduceSum, Zenon
<1>4. (a % SN) + (0 - b) = (a % SN) - b /\ a + (0 - b) = a - b
  BY <1>1
<1> QED
  BY <1>2, <1>3, <1>4, Zenon

\* The remainder of a number less than the sequence space away from zero.
LEMMA SmallRemainder ==
    \A d \in Int : 0 - SN <= d /\ d < SN => d % SN = IF d >= 0 THEN d ELSE d + SN
<1> SUFFICES ASSUME NEW d \in Int, 0 - SN <= d, d < SN
             PROVE  d % SN = IF d >= 0 THEN d ELSE d + SN
  OBVIOUS
<1>1. CASE d >= 0
  <2>1. d = 0 * SN + d /\ d \in 0 .. SN - 1
    BY <1>1, Sizes
  <2> QED
    BY <1>1, <2>1, Remainder
<1>2. CASE d < 0
  <2>1. d = (0 - 1) * SN + (d + SN) /\ d + SN \in 0 .. SN - 1 /\ 0 - 1 \in Int
    BY <1>2, Sizes
  <2> QED
    BY <1>2, <2>1, Remainder
<1> QED
  BY <1>1, <1>2

\* SN_LESS on two reduced numbers compares the numbers themselves, as long as
\* they are less than half of the sequence space apart.
LEMMA LessIsBehind ==
    ASSUME NEW a \in Int, NEW b \in Int, a - b < Half, b - a <= Half
    PROVE  SN_LESS(a % SN, b % SN) <=> a < b
<1>1. ((a % SN) - (b % SN)) % SN = (a - b) % SN
  BY SpaceDiff, Zenon
<1>2. (a - b) % SN = IF a - b >= 0 THEN a - b ELSE a - b + SN
  BY Sizes, SmallRemainder
<1>3. SN_LESS(a % SN, b % SN) <=> (a - b) % SN >= Half
  BY <1>1, Zenon DEF SN_LESS, Half
<1> QED
  BY <1>2, <1>3, Sizes

\* Two numbers with the same reduction less than the sequence space apart are equal.
LEMMA SameNumber ==
    ASSUME NEW a \in Int, NEW b \in Int, a - b < SN, b - a < SN, a % SN = b % SN
    PROVE  a = b
<1>1. ((a % SN) - (b % SN)) % SN = (a - b) % SN
  BY SpaceDiff, Zenon
<1>2. (a - b) % SN = IF a - b >= 0 THEN a - b ELSE a - b + SN
  BY Sizes, SmallRemainder
<1>3. (a % SN) - (b % SN) = 0
  BY InSpace
<1>4. 0 % SN = 0
  BY Sizes, SmallRemainder
<1>5. (a - b) % SN = 0
  BY <1>1, <1>3, <1>4, Zenon
<1> QED
  BY <1>2, <1>5, Sizes

-----------------------------------------------------------------------------
\* check_indicate_seq in the numbers of the sender: the window starts at some
\* number w that is not above n, and afterwards at n + 1, at n + 1 - WSIZE or
\* still at w.
LEMMA NextWindowStart ==
    ASSUME NEW ind \in SeqSpace, NEW n \in Nat, ~BelowWindow(ind, n % SN)
    PROVE  \E w \in Int :
              /\ ind = w % SN /\ w <= n /\ n - w < Half
              /\ \/ n = w /\ NextWindow(ind, n % SN) = (n + 1) % SN
                 \/ n - w >= WSIZE /\ NextWindow(ind, n % SN) = (n + 1 - WSIZE) % SN
                 \/ n - w >= 1 /\ n - w < WSIZE /\ NextWindow(ind, n % SN) = ind
<1> DEFINE seq == n % SN
           d == (seq - ind) % SN
           w == n - d
           wend == (ind + WSIZE - 1) % SN
<1>1. n \in Int /\ seq \in Int /\ ind \in Int /\ seq - ind \in Int
  BY Sizes, InSpace DEF SeqSpace
<1>2. seq \in 0 .. SN - 1 /\ ind \in 0 .. SN - 1
  BY <1>1, InSpace DEF SeqSpace
<1>3. d = IF seq - ind >= 0 THEN seq - ind ELSE seq - ind + SN
  <2>1. 0 - SN <= seq - ind /\ seq - ind < SN
    BY <1>2, Sizes
  <2> QED
    BY <2>1, <1>1, SmallRemainder
<1>8. ind # Unset
  BY Sizes
<1>4. d \in Int /\ 0 <= d /\ d < Half
  <2>1. ~SN_LESS(seq, ind)
    BY <1>8 DEF BelowWindow
  <2>2. ~(d >= Half)
    BY <2>1 DEF SN_LESS, Half
  <2>3. d \in Int /\ 0 <= d
    BY <1>1, InSpace
  <2> QED
    BY <2>2, <2>3, Sizes
<1>5. w \in Int /\ ind = w % SN
  <2>1. w \in Int
    BY <1>1, <1>4
  <2>2. (n - d) % SN = (n - (seq - ind)) % SN
    BY <1>1, ReduceDiff, Zenon
  <2>3. ((n % SN) + (ind - seq)) % SN = (n + (ind - seq)) % SN
    <3>1. ind - seq \in Int
      BY <1>1
    <3> QED
      BY <3>1, <1>1, ReduceSum, Zenon
  <2>4. (n % SN) + (ind - seq) = ind /\ n + (ind - seq) = n - (seq - ind)
    BY <1>1
  <2>5. ind % SN = ind
    BY <1>1, <1>2, Sizes, SmallRemainder
  <2>6. (n - d) % SN = ind
    BY <2>2, <2>3, <2>4, <2>5, Zenon
  <2> QED
    BY <2>1, <2>6
<1>6. (seq + 1) % SN = (n + 1) % SN
  BY <1>1, ReduceSum
<1>7. SN_LESS(wend, seq) <=> d >= WSIZE
  <2> DEFINE e == WSIZE - 1
  <2>0. e \in Int
    BY Sizes
  <2>1. ((w % SN) + e) % SN = (w + e) % SN
    BY <2>0, <1>5, ReduceSum, Zenon
  <2>2. w + e \in Int /\ (w + e) - n < Half /\ n - (w + e) <= Half
    BY <1>1, <1>4, Sizes
  <2>3. SN_LESS((w + e) % SN, n % SN) <=> w + e < n
    BY <2>2, <1>1, LessIsBehind
  <2>4. ind + WSIZE - 1 = ind + e
    BY <1>1, Sizes
  <2>5. wend = (w + e) % SN
    BY <2>1, <2>4, <1>5, Zenon
  <2>6. SN_LESS(wend, seq) <=> w + e < n
    BY <2>3, <2>5, Zenon
  <2>7. (w + e < n) <=> d >= WSIZE
    BY <1>1, <1>4, Sizes
  <2> QED
    BY <2>6, <2>7, Zenon
<1> DEFINE v == NextWindow(ind, seq)
<1>14. v = IF ind = Unset \/ seq = ind THEN (seq + 1) % SN
                   ELSE IF SN_LESS(wend, seq)
                   THEN IF seq >= WSIZE - 1 THEN seq + 1 - WSIZE
                        ELSE (SN - 1) - (WSIZE - (seq + 1)) + 1
                   ELSE ind
  BY Zenon DEF NextWindow
<1>15. w = n - d
  OBVIOUS
<1>16. (seq = ind) <=> d = 0
  BY <1>2, <1>3, Sizes
<1> HIDE DEF v, w, wend, d
<1>9. CASE d = 0
  <2>2. v = (n + 1) % SN
    BY <1>14, <1>6, <1>9, <1>16
  <2> QED
    BY <2>2, <1>9, <1>1, <1>4, <1>5, <1>15, Sizes DEF v
<1>10. CASE d >= WSIZE
  <2>2. v = IF seq >= WSIZE - 1 THEN seq + 1 - WSIZE
                               ELSE (SN - 1) - (WSIZE - (seq + 1)) + 1
    BY <1>14, <1>16, <1>4, <1>7, <1>8, <1>10, Sizes
  <2> DEFINE e == 1 - WSIZE
  <2>3. e \in Int
    BY Sizes
  <2>4. (seq + e) % SN = (n + e) % SN
    BY <2>3, <1>1, ReduceSum
  <2>5. n + e = n + 1 - WSIZE
    BY <1>1, Sizes
  <2>6. seq + e \in Int /\ 0 - SN <= seq + e /\ seq + e < SN
    BY <1>2, Sizes
  <2>7. (seq + e) % SN = IF seq + e >= 0 THEN seq + e ELSE seq + e + SN
    BY <2>6, SmallRemainder
  <2>8. v = IF seq + e >= 0 THEN seq + e ELSE seq + e + SN
    BY <2>2, <1>2, Sizes
  <2>9. v = (n + 1 - WSIZE) % SN
    BY <2>4, <2>5, <2>7, <2>8, Zenon
  <2>10. n - w >= WSIZE /\ w <= n /\ n - w < Half
    BY <1>10, <1>1, <1>4, <1>15, Sizes
  <2> QED
    BY <2>9, <2>10, <1>5 DEF v
<1>11. CASE d >= 1 /\ d < WSIZE
  <2>2. v = ind
    BY <1>14, <1>16, <1>7, <1>8, <1>11, <1>4, Sizes
  <2>3. n - w >= 1 /\ n - w < WSIZE /\ w <= n /\ n - w < Half
    BY <1>11, <1>1, <1>4, <1>15, Sizes
  <2> QED
    BY <2>2, <2>3, <1>5 DEF v
<1> QED
  BY <1>4, <1>9, <1>10, <1>11, Sizes

\* An unset window starts behind the frame.
LEMMA NextWindowUnset ==
    ASSUME NEW n \in Nat
    PROVE  NextWindow(Unset, n % SN) = (n + 1) % SN
<1>1. ((n % SN) + 1) % SN = (n + 1) % SN
  BY ReduceSum
<1> QED
  BY <1>1 DEF NextWindow

\* A number the new window is behind is one of the last WSIZE - 1 up to the
\* frame, or above it.
LEMMA AheadOfWindow ==
    ASSUME NEW ind \in SeqSpace \cup {Unset}, NEW x \in Nat, NEW y \in Int,
           y - x < WSIZE, x - y < Quarter,
           ~BelowWindow(ind, x % SN), SN_LESS(NextWindow(ind, x % SN), y % SN)
    PROVE  y >= x + 2 - WSIZE
<1> DEFINE v == NextWindow(ind, x % SN)
<1>1. SN_LESS(v, y % SN)
  OBVIOUS
<1> HIDE DEF v
<1>2. ASSUME NEW a \in Int, v = a % SN, a - y < Half, y - a <= Half
      PROVE  a < y
  BY <1>1, <1>2, LessIsBehind
<1>3. CASE v = (x + 1) % SN
  <2>1. x + 1 \in Int /\ (x + 1) - y < Half /\ y - (x + 1) <= Half
    BY Sizes
  <2>2. x + 1 < y
    BY <1>3, <2>1, <1>2
  <2> QED
    BY <2>2, Sizes
<1>4. CASE ind = Unset
  BY <1>3, <1>4, NextWindowUnset DEF v
<1>5. CASE ind \in SeqSpace
  <2>1. PICK w \in Int :
              /\ ind = w % SN /\ w <= x /\ x - w < Half
              /\ \/ x = w /\ v = (x + 1) % SN
                 \/ x - w >= WSIZE /\ v = (x + 1 - WSIZE) % SN
                 \/ x - w >= 1 /\ x - w < WSIZE /\ v = ind
    BY <1>5, NextWindowStart DEF v
  <2>2. CASE v = (x + 1 - WSIZE) % SN
    <3>1. x + 1 - WSIZE \in Int /\ (x + 1 - WSIZE) - y < Half /\ y - (x + 1 - WSIZE) <= Half
      BY Sizes
    <3>2. x + 1 - WSIZE < y
      BY <2>2, <3>1, <1>2
    <3> QED
      BY <3>2, Sizes
  <2>3. CASE x - w >= 1 /\ x - w < WSIZE /\ v = ind
    <3>1. w - y < Half /\ y - w <= Half
      BY <2>3, Sizes
    <3>2. w < y
      BY <2>1, <2>3, <3>1, <1>2
    <3> QED
      BY <2>3, <3>2, Sizes
  <2> QED
    BY <2>1, <2>2, <2>3, <1>3
<1> QED
  BY <1>4, <1>5

-----------------------------------------------------------------------------
(***************************************************************************)
(* The buffer. BufferWithinWindow is not inductive: it counts frames, and  *)
(* only their numbers bound the count. What a step preserves is that the   *)
(* buffer is sorted without repetition (Apart), close below the highest    *)
(* number (Near), and spans less than the window once the last frames are  *)
(* left out, one for each control operation (Spans).                       *)
(***************************************************************************)
Apart == \A i, j \in 1 .. Len(queue) : i < j => queue[j].n - queue[i].n >= j - i

Near == \A i \in 1 .. Len(queue) : queue[i].n <= hiRx /\ hiRx - queue[i].n < Quarter

\* The frame in hand on its way to the window is what the peer may send ...
Entering ==
    rpc = "enter" /\ rframe.kind # "nonqos" =>
        /\ hiRx - WSIZE < rframe.n /\ rframe.n <= hiRx + Quarter
        /\ \A i \in 1 .. Len(queue) : rframe.n - queue[i].n < Quarter

\* ... and in the lock it is one of the last WSIZE numbers.
AtWindow == rpc = "locked" => hiRx - WSIZE < rframe.n /\ rframe.n <= hiRx

\* Reordering was switched on by a control operation.
Started == enable \/ cpc = "addba" \/ rpc \in {"locked", "drain"} => ctrl >= 1

\* Without its last k frames the buffer spans less than the window.
Span(k) ==
    \A i \in 1 .. Len(queue) - k : queue[Len(queue) - k].n - queue[i].n <= WSIZE - 2

\* While R drains, that holds from the first frame the window is behind of.
DrainSpan ==
    \A i \in 1 .. Len(queue) - ctrl :
        SN_LESS(indicate_seq, SeqNum(queue[i])) =>
            queue[Len(queue) - ctrl].n - queue[i].n <= WSIZE - 2

\* Span(ctrl + 1) holds also then: a control operation that unsets the window in
\* the middle of the drain falls back on it.
Spans == /\ rpc # "drain" => Span(ctrl)
         /\ rpc = "drain" => DrainSpan
         /\ Span(ctrl + 1)

WindowInv == Apart /\ Near /\ Entering /\ AtWindow /\ Started /\ Spans

\* The types the lemmas below need of the frames held and of the one in hand.
LEMMA HeldNumbers ==
    ASSUME TypeOK
    PROVE  /\ Len(queue) \in Nat /\ ctrl \in Nat /\ hiRx \in Int
           /\ \A i \in 1 .. Len(queue) :
                 queue[i] \in Frame /\ queue[i].n \in Nat /\ SeqNum(queue[i]) = queue[i].n % SN
           /\ rframe \in Frame /\ rframe.n \in Nat /\ SeqNum(rframe) = rframe.n % SN
<1>1. queue \in Seq(Frame) /\ rframe \in Frame
  BY DEF TypeOK
<1>2. \A f \in Frame : f.n \in Nat /\ SeqNum(f) = f.n % SN
  BY DEF Frame, SeqNum
<1> QED
  BY <1>1, <1>2 DEF TypeOK

\* A longer tail left out, the rest of the buffer spans no more.
LEMMA SpanShrinks ==
    ASSUME TypeOK, Apart, NEW k \in Nat, Span(k)
    PROVE  Span(k + 1)
<1> SUFFICES ASSUME NEW i \in 1 .. Len(queue) - (k + 1)
             PROVE  queue[Len(queue) - (k + 1)].n - queue[i].n <= WSIZE - 2
  BY DEF Span
<1>0. Len(queue) \in Nat /\ \A j \in 1 .. Len(queue) : queue[j].n \in Nat
  BY HeldNumbers
<1> DEFINE a == Len(queue) - k
           b == Len(queue) - (k + 1)
<1>1. a \in 1 .. Len(queue) /\ b \in 1 .. Len(queue) /\ b < a /\ a - b = 1 /\ i \in 1 .. a
      /\ i \in 1 .. Len(queue)
  BY <1>0
<1>2. queue[a].n - queue[i].n <= WSIZE - 2
  BY <1>1 DEF Span
<1>3. queue[a].n - queue[b].n >= a - b
  BY <1>1 DEF Apart
<1>4. queue[a].n \in Nat /\ queue[b].n \in Nat /\ queue[i].n \in Nat
  BY <1>0, <1>1
<1> HIDE DEF a, b
<1>5. queue[b].n - queue[i].n <= WSIZE - 2
  BY <1>0, <1>1, <1>2, <1>3, <1>4, Sizes
<1> QED
  BY <1>5 DEF b

\* The frame in hand compares with a held one as their numbers do.
LEMMA InHandCompares ==
    ASSUME TypeOK, Near, AtWindow, rpc = "locked", NEW i \in 1 .. Len(queue)
    PROVE  /\ SN_LESS(SeqNum(queue[i]), SeqNum(rframe)) <=> queue[i].n < rframe.n
           /\ SeqNum(queue[i]) = SeqNum(rframe) <=> queue[i].n = rframe.n
<1> DEFINE a == queue[i].n
           b == rframe.n
<1>1. a \in Nat /\ b \in Nat /\ SeqNum(queue[i]) = a % SN /\ SeqNum(rframe) = b % SN
      /\ hiRx \in Int
  BY HeldNumbers
<1>2. a <= hiRx /\ hiRx - a < Quarter /\ hiRx - WSIZE < b /\ b <= hiRx
  BY DEF Near, AtWindow
<1> HIDE DEF a, b
<1>3. a - b < Half /\ b - a <= Half /\ a - b < SN /\ b - a < SN /\ a \in Int /\ b \in Int
  BY <1>1, <1>2, Sizes
<1>4. SN_LESS(a % SN, b % SN) <=> a < b
  BY <1>3, LessIsBehind
<1>5. a % SN = b % SN <=> a = b
  BY <1>3, SameNumber
<1> QED
  BY <1>1, <1>4, <1>5, Zenon DEF a, b

\* The frame goes between the lower numbers and the higher ones.
LEMMA InsertSorts ==
    ASSUME TypeOK, Apart, Near, AtWindow, rpc = "locked", ~Duplicate(SeqNum(rframe))
    PROVE  \E p \in 1 .. Len(queue) + 1 :
              /\ Len(InsertFrame(rframe)) = Len(queue) + 1
              /\ \A i \in 1 .. Len(queue) + 1 :
                    InsertFrame(rframe)[i] = IF i < p THEN queue[i]
                                             ELSE IF i = p THEN rframe ELSE queue[i - 1]
              /\ \A i \in 1 .. p - 1 : queue[i].n < rframe.n
              /\ \A i \in p .. Len(queue) : rframe.n < queue[i].n
<1> DEFINE p == InsertPos(SeqNum(rframe))
           L == Len(queue)
<1>0. L \in Nat /\ rframe.n \in Nat /\ \A i \in 1 .. L : queue[i].n \in Nat
  BY HeldNumbers
<1>1. queue \in Seq(Frame) /\ rframe \in Frame
  BY DEF TypeOK
<1>2. /\ p \in 1 .. L + 1
      /\ \A i \in 1 .. p - 1 : SN_LESS(SeqNum(queue[i]), SeqNum(rframe))
      /\ p <= L => ~SN_LESS(SeqNum(queue[p]), SeqNum(rframe))
  BY <1>1, InsertPosFound
<1>3. /\ Len(InsertFrame(rframe)) = L + 1
      /\ \A i \in 1 .. L + 1 :
            InsertFrame(rframe)[i] = IF i < p THEN queue[i]
                                     ELSE IF i = p THEN rframe ELSE queue[i - 1]
  BY <1>1, InsertFrameAdds
<1>4. p <= L => SeqNum(queue[p]) # SeqNum(rframe)
  BY DEF Duplicate
<1> HIDE DEF p
<1>5. ASSUME NEW i \in 1 .. p - 1 PROVE queue[i].n < rframe.n
  <2>1. i \in 1 .. L
    BY <1>0, <1>2
  <2> QED
    BY <2>1, <1>2, InHandCompares
<1>6. ASSUME NEW i \in p .. L PROVE rframe.n < queue[i].n
  <2>1. p \in 1 .. L /\ i \in 1 .. L /\ p <= L
    BY <1>0, <1>2
  <2>2. ~(queue[p].n < rframe.n) /\ queue[p].n # rframe.n
    BY <2>1, <1>2, <1>4, InHandCompares
  <2>3. i = p \/ (p < i /\ queue[i].n - queue[p].n >= i - p)
    BY <2>1 DEF Apart
  <2> QED
    BY <2>1, <2>2, <2>3, <1>0
<1> QED
  BY <1>2, <1>3, <1>5, <1>6

\* enqueue_reorder_recvframe behind check_indicate_seq keeps the buffer sorted and
\* within the window.
LEMMA EnqueueWindow ==
    ASSUME TypeOK, TypeOK', WindowInv, ReorderEnqueue
    PROVE  WindowInv'
<1> DEFINE L == Len(queue)
           x == rframe.n
           m(i) == queue[i].n
           m2(i) == queue'[i].n
<1>1. /\ L \in Nat /\ ctrl \in Nat /\ hiRx \in Int /\ x \in Nat
      /\ \A i \in 1 .. L : m(i) \in Nat
      /\ SeqNum(rframe) = x % SN
  BY HeldNumbers
<1>2. /\ rpc = "locked" /\ queue' = InsertFrame(rframe) /\ rpc' = "drain"
      /\ ~BelowWindow(indicate_seq, x % SN) /\ ~Duplicate(SeqNum(rframe))
      /\ indicate_seq' = NextWindow(indicate_seq, x % SN)
      /\ hiRx' = hiRx /\ ctrl' = ctrl
  BY <1>1 DEF ReorderEnqueue, histVars
<1>3. ctrl >= 1 /\ Span(ctrl) /\ hiRx - WSIZE < x /\ x <= hiRx
  BY <1>2 DEF WindowInv, Started, Spans, AtWindow
<1>4. PICK p \in 1 .. L + 1 :
              /\ Len(queue') = L + 1
              /\ \A i \in 1 .. L + 1 :
                    queue'[i] = IF i < p THEN queue[i] ELSE IF i = p THEN rframe ELSE queue[i - 1]
              /\ \A i \in 1 .. p - 1 : queue[i].n < x
              /\ \A i \in p .. L : x < queue[i].n
  BY <1>2, InsertSorts DEF WindowInv
<1>5. \A i, j \in 1 .. L : i < j => m(j) - m(i) >= j - i
  BY DEF WindowInv, Apart
<1>6. /\ \A i \in 1 .. p - 1 : m2(i) = m(i)
      /\ m2(p) = x
      /\ \A i \in p + 1 .. L + 1 : m2(i) = m(i - 1)
  BY <1>1, <1>4
<1>7. \A i \in 1 .. L : m(i) <= hiRx /\ hiRx - m(i) < Quarter
  BY DEF WindowInv, Near
<1>8. \A i \in 1 .. L - ctrl : m(L - ctrl) - m(i) <= WSIZE - 2
  BY <1>3 DEF Span
<1>9. (\A i \in 1 .. p - 1 : m(i) < x) /\ (\A i \in p .. L : x < m(i))
  BY <1>4
<1>10. Len(queue') = L + 1
  BY <1>4
<1> HIDE DEF L, x, m, m2
<1>11. \A i \in 1 .. p - 1 : x - m(i) >= p - i
  <2> TAKE i \in 1 .. p - 1
  <2>1. i \in 1 .. L /\ p - 1 \in 1 .. L /\ p - 1 \in 1 .. p - 1
    BY <1>1
  <2>2. i = p - 1 \/ m(p - 1) - m(i) >= p - 1 - i
    BY <2>1, <1>1, <1>5
  <2> QED
    BY <2>1, <2>2, <1>1, <1>9
<1>12. \A j \in p .. L : m(j) - x >= j + 1 - p
  <2> TAKE j \in p .. L
  <2>1. j \in 1 .. L /\ p \in 1 .. L /\ p \in p .. L
    BY <1>1
  <2>2. j = p \/ m(j) - m(p) >= j - p
    BY <2>1, <1>1, <1>5
  <2> QED
    BY <2>1, <2>2, <1>1, <1>9
<1>13. \A i \in 1 .. L + 1 : m2(i) \in Nat /\ m2(i) <= hiRx /\ hiRx - m2(i) < Quarter
  <2> TAKE i \in 1 .. L + 1
  <2>1. CASE i = p
    BY <2>1, <1>1, <1>3, <1>6, Sizes
  <2>2. CASE i < p
    BY <2>2, <1>1, <1>6, <1>7
  <2>3. CASE i > p
    <3>1. i \in p + 1 .. L + 1 /\ i - 1 \in 1 .. L
      BY <2>3, <1>1
    <3> QED
      BY <3>1, <1>1, <1>6, <1>7
  <2> QED
    BY <2>1, <2>2, <2>3, <1>1
<1>14. \A i, j \in 1 .. L + 1 : i < j => m2(j) - m2(i) >= j - i
  <2> SUFFICES ASSUME NEW i \in 1 .. L + 1, NEW j \in 1 .. L + 1, i < j
               PROVE  m2(j) - m2(i) >= j - i
    OBVIOUS
  <2>1. CASE j < p
    BY <2>1, <1>1, <1>5, <1>6
  <2>2. CASE j = p
    BY <2>2, <1>1, <1>6, <1>11
  <2>3. CASE j > p /\ i > p
    <3>1. m2(j) = m(j - 1) /\ m2(i) = m(i - 1)
      BY <2>3, <1>1, <1>6
    <3>2. j - 1 \in 1 .. L /\ i - 1 \in 1 .. L /\ i - 1 < j - 1
      BY <2>3, <1>1
    <3>3. m(j - 1) - m(i - 1) >= (j - 1) - (i - 1)
      BY <3>2, <1>5
    <3> QED
      BY <3>1, <3>3, <1>1
  <2>4. CASE j > p /\ i <= p
    <3>1. m2(j) = m(j - 1) /\ j - 1 \in p .. L /\ j - 1 \in 1 .. L
      BY <2>4, <1>1, <1>6
    <3>2. m(j - 1) - x >= (j - 1) + 1 - p
      BY <3>1, <1>12
    <3>3. i = p \/ (m2(i) = m(i) /\ i \in 1 .. L /\ x - m(i) >= p - i)
      BY <2>4, <1>1, <1>6, <1>11
    <3> QED
      BY <3>1, <3>2, <3>3, <1>1, <1>6
  <2> QED
    BY <2>1, <2>2, <2>3, <2>4, <1>1
<1>15. \A i \in 1 .. L - ctrl : m2(L - ctrl) - m2(i) <= WSIZE - 2
  <2> SUFFICES ASSUME NEW b \in 1 .. L, b = L - ctrl, NEW i \in 1 .. b
               PROVE  m2(b) - m2(i) <= WSIZE - 2
    BY <1>1, <1>3
  <2>1. i \in 1 .. L /\ b < L
    BY <1>1, <1>3
  <2>2. \A k \in 1 .. b : m(b) - m(k) <= WSIZE - 2
    BY <1>8
  <2>3. CASE b < p
    BY <2>1, <2>2, <2>3, <1>1, <1>6
  <2>4. CASE b = p
    <3>1. m2(b) = x /\ x < m(b)
      BY <2>1, <2>4, <1>1, <1>6, <1>9
    <3>2. i = p \/ m2(i) = m(i)
      BY <2>1, <2>4, <1>1, <1>6
    <3> QED
      BY <2>1, <2>2, <2>4, <3>1, <3>2, <1>1, Sizes
  <2>5. CASE b > p
    <3>1. m2(b) = m(b - 1) /\ b - 1 \in 1 .. L /\ m(b) - m(b - 1) >= 1
      BY <2>1, <2>5, <1>1, <1>5, <1>6
    <3>2. CASE i = p
      BY <2>1, <3>1, <3>2, <1>1, <1>3, <1>6, <1>7, Sizes
    <3>3. CASE i < p
      BY <2>1, <2>2, <3>1, <3>3, <1>1, <1>6, Sizes
    <3>4. CASE i > p
      <4>1. i - 1 \in 1 .. b /\ i - 1 \in 1 .. L /\ m2(i) = m(i - 1)
        BY <2>1, <3>4, <1>1, <1>6
      <4> QED
        BY <2>1, <2>2, <3>1, <4>1, <1>1, Sizes
    <3> QED
      BY <3>2, <3>3, <3>4, <2>1, <1>1
  <2> QED
    BY <2>3, <2>4, <2>5, <2>1, <1>1
<1>16. \A i \in 1 .. L + 1 - ctrl :
          m2(i) >= x + 2 - WSIZE => m2(L + 1 - ctrl) - m2(i) <= WSIZE - 2
  <2> SUFFICES ASSUME NEW b \in 1 .. L, b = L + 1 - ctrl, NEW i \in 1 .. b,
                      m2(i) >= x + 2 - WSIZE
               PROVE  m2(b) - m2(i) <= WSIZE - 2
    BY <1>1, <1>3
  <2>1. i \in 1 .. L /\ L - ctrl = b - 1 /\ m2(i) \in Nat
    BY <1>1, <1>3, <1>13
  <2>2. \A k \in 1 .. b - 1 : m(b - 1) - m(k) <= WSIZE - 2
    BY <1>8, <2>1
  <2>3. CASE b < p
    <3>1. m2(b) = m(b) /\ m(b) < x /\ m(b) \in Nat
      BY <2>1, <2>3, <1>1, <1>6, <1>9
    <3> QED
      BY <3>1, <2>1, <1>1, Sizes
  <2>4. CASE b = p
    BY <2>1, <2>4, <1>1, <1>6, Sizes
  <2>5. CASE b > p
    <3>1. m2(b) = m(b - 1) /\ b - 1 \in 1 .. L /\ m(b) - m(b - 1) >= 1
      BY <2>1, <2>5, <1>1, <1>5, <1>6
    <3>2. CASE i = p
      BY <2>1, <3>1, <3>2, <1>1, <1>3, <1>6, <1>7, Sizes
    <3>3. CASE i < p
      <4>1. i \in 1 .. b - 1 /\ m2(i) = m(i)
        BY <2>1, <2>5, <3>3, <1>1, <1>6
      <4> QED
        BY <2>2, <3>1, <4>1
    <3>4. CASE i > p
      <4>1. i - 1 \in 1 .. b - 1 /\ m2(i) = m(i - 1)
        BY <2>1, <3>4, <1>1, <1>6
      <4> QED
        BY <2>2, <3>1, <4>1
    <3> QED
      BY <3>2, <3>3, <3>4, <2>1, <1>1
  <2> QED
    BY <2>3, <2>4, <2>5, <2>1, <1>1
<1>17. \A i \in 1 .. L + 1 :
          SN_LESS(indicate_seq', SeqNum(queue'[i])) => m2(i) >= x + 2 - WSIZE
  <2> SUFFICES ASSUME NEW i \in 1 .. L + 1, SN_LESS(indicate_seq', SeqNum(queue'[i]))
               PROVE  m2(i) >= x + 2 - WSIZE
    OBVIOUS
  <2>1. queue' \in Seq(Frame) /\ indicate_seq \in SeqSpace \cup {Unset}
    BY DEF TypeOK
  <2>2. queue'[i] \in Frame
    BY <2>1, <1>10
  <2>3. SeqNum(queue'[i]) = m2(i) % SN
    BY DEF SeqNum, m2
  <2>4. m2(i) \in Int /\ m2(i) - x < WSIZE /\ x - m2(i) < Quarter
    BY <1>1, <1>3, <1>13, Sizes
  <2>5. SN_LESS(NextWindow(indicate_seq, x % SN), m2(i) % SN)
    BY <2>3, <1>2
  <2> QED
    BY <2>1, <2>4, <2>5, <1>1, <1>2, AheadOfWindow
<1>18. Apart'
  BY <1>10, <1>14 DEF Apart, m2
<1>19. Near'
  BY <1>2, <1>10, <1>13 DEF Near, m2
<1>20. DrainSpan'
  <2> SUFFICES ASSUME NEW i \in 1 .. Len(queue') - ctrl,
                      SN_LESS(indicate_seq', SeqNum(queue'[i]))
               PROVE  queue'[Len(queue') - ctrl].n - queue'[i].n <= WSIZE - 2
    BY <1>2 DEF DrainSpan
  <2>1. i \in 1 .. L + 1 - ctrl /\ i \in 1 .. L + 1
    BY <1>1, <1>10
  <2>2. m2(L + 1 - ctrl) - m2(i) <= WSIZE - 2
    BY <2>1, <1>16, <1>17
  <2> QED
    BY <2>1, <2>2, <1>1, <1>10 DEF m2
<1>21. Span(ctrl + 1)'
  <2> SUFFICES ASSUME NEW i \in 1 .. Len(queue') - (ctrl + 1)
               PROVE  queue'[Len(queue') - (ctrl + 1)].n - queue'[i].n <= WSIZE - 2
    BY <1>2 DEF Span
  <2>1. Len(queue') - (ctrl + 1) = L - ctrl
    BY <1>1, <1>10
  <2>2. i \in 1 .. L - ctrl
    BY <2>1
  <2> QED
    BY <2>1, <2>2, <1>15 DEF m2
<1>22. Entering' /\ AtWindow' /\ Started' /\ Spans'
  BY <1>2, <1>3, <1>20, <1>21 DEF Entering, AtWindow, Started, Spans
<1> QED
  BY <1>18, <1>19, <1>22 DEF WindowInv

\* A turn of the drain loop takes the lowest number out, and what the window is
\* behind of stays within the span.
LEMMA IndicateWindow ==
    ASSUME TypeOK, TypeOK', WindowInv, IndicateHead,
           UNCHANGED <<hiRx, ctrl, rpc, rframe, enable, cpc>>,
           rpc # "locked"
    PROVE  WindowInv'
<1> DEFINE L == Len(queue)
<1>1. /\ L \in Nat /\ ctrl \in Nat /\ hiRx \in Int
      /\ \A i \in 1 .. L : queue[i].n \in Nat /\ SeqNum(queue[i]) = queue[i].n % SN
  BY HeldNumbers
<1>2. queue \in Seq(Frame) /\ queue # << >> /\ queue' = Tail(queue)
  BY DEF IndicateHead, HeadReady, TypeOK
<1>3. L >= 1 /\ Head(queue) = queue[1]
  BY <1>1, <1>2
<1>4. Len(queue') = L - 1 /\ \A i \in 1 .. L - 1 : queue'[i] = queue[i + 1]
  BY <1>2, HeadTailProperties
<1>5. Apart'
  <2>1. SUFFICES ASSUME NEW i \in 1 .. L - 1, NEW j \in 1 .. L - 1, i < j
                 PROVE  queue'[j].n - queue'[i].n >= j - i
    BY <1>4 DEF Apart
  <2>2. i + 1 \in 1 .. L /\ j + 1 \in 1 .. L /\ i + 1 < j + 1
    BY <1>1, <2>1
  <2>3. queue[j + 1].n - queue[i + 1].n >= (j + 1) - (i + 1)
    BY <2>2 DEF WindowInv, Apart
  <2>4. queue'[j] = queue[j + 1] /\ queue'[i] = queue[i + 1]
    BY <2>1, <1>4
  <2>5. queue[j + 1].n \in Nat /\ queue[i + 1].n \in Nat
    BY <2>2, <1>1
  <2> QED
    BY <2>3, <2>4, <2>5, <1>1
<1>6. Near'
  <2>1. SUFFICES ASSUME NEW i \in 1 .. L - 1
                 PROVE  queue'[i].n <= hiRx /\ hiRx - queue'[i].n < Quarter
    BY <1>4 DEF Near
  <2>2. i + 1 \in 1 .. L
    BY <1>1
  <2> QED
    BY <2>2, <1>4 DEF WindowInv, Near
<1>7. Entering'
  <2>1. SUFFICES ASSUME rpc = "enter", rframe.kind # "nonqos", NEW i \in 1 .. L - 1
                 PROVE  rframe.n - queue'[i].n < Quarter
    BY <1>4 DEF WindowInv, Entering
  <2>2. i + 1 \in 1 .. L
    BY <1>1
  <2> QED
    BY <2>1, <2>2, <1>4 DEF WindowInv, Entering
<1>8. ASSUME NEW k \in Nat, Span(k)
      PROVE  \A i \in 1 .. Len(queue') - k :
                queue'[Len(queue') - k].n - queue'[i].n <= WSIZE - 2
  <2> TAKE i \in 1 .. Len(queue') - k
  <2>1. i \in 1 .. L - 1 /\ i + 1 \in 1 .. L - k /\ L - 1 - k \in 1 .. L - 1
        /\ (L - 1 - k) + 1 = L - k
    BY <1>1, <1>4
  <2>2. queue'[i] = queue[i + 1] /\ queue'[L - 1 - k] = queue[L - k]
    BY <2>1, <1>4
  <2> QED
    BY <2>1, <2>2, <1>4, <1>8 DEF Span
<1>9. ASSUME NEW i \in 2 .. L, SN_LESS(indicate_seq', SeqNum(queue[i]))
      PROVE  SN_LESS(indicate_seq, SeqNum(queue[i]))
  <2> DEFINE a == queue[1].n
             y == queue[i].n
  <2>1. CASE indicate_seq # SeqNum(Head(queue))
    BY <1>9, <2>1 DEF IndicateHead
  <2>2. CASE indicate_seq = SeqNum(Head(queue))
    <3>0. 1 \in 1 .. L /\ i \in 1 .. L /\ 1 < i
      BY <1>1, <1>3
    <3>1. a \in Nat /\ y \in Nat /\ SeqNum(queue[1]) = a % SN /\ SeqNum(queue[i]) = y % SN
      BY <3>0, <1>1
    <3>2. y - a >= i - 1 /\ y <= hiRx /\ hiRx - a < Quarter
      BY <3>0 DEF WindowInv, Apart, Near
    <3>3. indicate_seq = a % SN /\ indicate_seq' = ((a % SN) + 1) % SN
      BY <2>2, <3>1, <1>3 DEF IndicateHead
    <3>4. ((a % SN) + 1) % SN = (a + 1) % SN
      <4>1. a \in Int /\ 1 \in Int
        BY <3>1
      <4> QED
        BY <4>1, ReduceSum, Zenon
    <3> HIDE DEF a, y
    <3>5. (a + 1) - y < Half /\ y - (a + 1) <= Half /\ a - y < Half /\ y - a <= Half
          /\ a + 1 \in Int /\ a \in Int /\ y \in Int
      BY <3>0, <3>1, <3>2, <1>1, Sizes
    <3>6. SN_LESS((a + 1) % SN, y % SN)
      BY <3>1, <3>3, <3>4, <1>9
    <3>7. a + 1 < y
      BY <3>5, <3>6, LessIsBehind
    <3>8. a < y
      BY <3>5, <3>7
    <3>9. SN_LESS(a % SN, y % SN)
      BY <3>5, <3>8, LessIsBehind
    <3> QED
      BY <3>1, <3>3, <3>9
  <2> QED
    BY <2>1, <2>2
<1>10. ASSUME DrainSpan PROVE DrainSpan'
  <2> SUFFICES ASSUME NEW i \in 1 .. Len(queue') - ctrl,
                      SN_LESS(indicate_seq', SeqNum(queue'[i]))
               PROVE  queue'[Len(queue') - ctrl].n - queue'[i].n <= WSIZE - 2
    BY DEF DrainSpan
  <2>1. i \in 1 .. L - 1 /\ i + 1 \in 1 .. L - ctrl /\ L - 1 - ctrl \in 1 .. L - 1
        /\ (L - 1 - ctrl) + 1 = L - ctrl /\ i + 1 \in 2 .. L
    BY <1>1, <1>4
  <2>2. queue'[i] = queue[i + 1] /\ queue'[L - 1 - ctrl] = queue[L - ctrl]
    BY <2>1, <1>4
  <2>3. SN_LESS(indicate_seq, SeqNum(queue[i + 1]))
    BY <2>1, <2>2, <1>9
  <2> QED
    BY <2>1, <2>2, <2>3, <1>4, <1>10 DEF DrainSpan
<1>11. Spans'
  <2>1. ASSUME NEW k \in Nat, Span(k) PROVE Span(k)'
    BY <2>1, <1>8 DEF Span
  <2>2. ctrl + 1 \in Nat /\ ctrl' = ctrl /\ rpc' = rpc
    BY <1>1
  <2>3. Span(ctrl + 1)' /\ (rpc # "drain" => Span(ctrl)')
    BY <2>2, <1>1, <1>8 DEF WindowInv, Spans, Span
  <2> QED
    BY <2>2, <2>3, <1>10 DEF WindowInv, Spans
<1>12. AtWindow' /\ Started'
  BY DEF WindowInv, AtWindow, Started
<1> QED
  BY <1>5, <1>6, <1>7, <1>11, <1>12 DEF WindowInv

\* A frame that leaves the receive path, or never had a part in it, disturbs nothing.
LEMMA LeaveWindow ==
    ASSUME WindowInv, UNCHANGED <<queue, hiRx, ctrl, cpc, enable>>,
           rpc # "drain", rpc' \in {"idle", "bypass"}
    PROVE  WindowInv'
<1>1. Apart' /\ Near' /\ Started'
  BY DEF WindowInv, Apart, Near, Started
<1>2. Entering' /\ AtWindow'
  BY DEF Entering, AtWindow
<1>3. Spans'
  BY DEF WindowInv, Spans, Span
<1> QED
  BY <1>1, <1>2, <1>3 DEF WindowInv

\* Nor does a step of another thread that leaves the buffer alone.
LEMMA AsideWindow ==
    ASSUME WindowInv, UNCHANGED <<queue, hiRx, ctrl, rpc, rframe>>,
           rpc = "drain" => indicate_seq' = indicate_seq, Started'
    PROVE  WindowInv'
<1>1. Apart' /\ Near'
  BY DEF WindowInv, Apart, Near
<1>2. Entering' /\ AtWindow'
  BY DEF WindowInv, Entering, AtWindow
<1>3. Spans'
  BY DEF WindowInv, Spans, Span, DrainSpan
<1> QED
  BY <1>1, <1>2, <1>3 DEF WindowInv

\* A control operation in the middle of a step of the tasklet leaves one more frame
\* held: that is what ctrl counts.
LEMMA ControlWindow ==
    ASSUME TypeOK, WindowInv, UNCHANGED <<queue, hiRx, rpc, rframe>>, ctrl' = ctrl + 1
    PROVE  WindowInv'
<1>1. Apart' /\ Near'
  BY DEF WindowInv, Apart, Near
<1>2. Entering' /\ AtWindow'
  BY DEF WindowInv, Entering, AtWindow
<1>3. ctrl \in Nat /\ ctrl' >= 1
  BY DEF TypeOK
<1>4. Started'
  BY <1>3 DEF Started
<1>5. Span(ctrl + 1) /\ Span((ctrl + 1) + 1)
  BY <1>3, SpanShrinks DEF WindowInv, Spans
<1>6. Span(ctrl)' /\ Span(ctrl + 1)'
  BY <1>5 DEF Span
<1>7. DrainSpan'
  BY <1>6 DEF DrainSpan, Span
<1> QED
  BY <1>1, <1>2, <1>4, <1>6, <1>7 DEF WindowInv, Spans

\* The frame comes to the window: it may be the new highest number.
LEMMA ReachWindow ==
    ASSUME TypeOK, TypeOK', WindowInv, ReachesWindow,
           UNCHANGED <<queue, ctrl, cpc, rframe, enable>>,
           rpc = "enter", rframe.kind # "nonqos", rpc' \in {"locked", "bypass"},
           rpc' = "locked" => enable
    PROVE  WindowInv'
<1>0. /\ Len(queue) \in Nat /\ hiRx \in Int /\ rframe.n \in Nat
      /\ \A i \in 1 .. Len(queue) : queue[i].n \in Nat
  BY HeldNumbers
<1>1. hiRx' = IF rframe.n > hiRx THEN rframe.n ELSE hiRx
  BY DEF ReachesWindow
<1>2. hiRx - WSIZE < rframe.n /\ \A i \in 1 .. Len(queue) : rframe.n - queue[i].n < Quarter
  BY DEF WindowInv, Entering
<1>3. Apart'
  BY DEF WindowInv, Apart
<1>4. Near'
  <2>1. SUFFICES ASSUME NEW i \in 1 .. Len(queue)
                 PROVE  queue[i].n <= hiRx' /\ hiRx' - queue[i].n < Quarter
    BY DEF Near
  <2>2. queue[i].n <= hiRx /\ hiRx - queue[i].n < Quarter
    BY DEF WindowInv, Near
  <2> QED
    BY <2>2, <1>0, <1>1, <1>2
<1>5. AtWindow'
  BY <1>0, <1>1, <1>2, Sizes DEF AtWindow
<1>6. Entering'
  BY DEF Entering
<1>7. Started'
  BY DEF WindowInv, Started
<1>8. Spans'
  BY DEF WindowInv, Spans, Span
<1> QED
  BY <1>3, <1>4, <1>5, <1>6, <1>7, <1>8 DEF WindowInv

\* The drain loop ends when the window is behind the first frame held, and so the
\* buffer spans less than the window.
LEMMA WaitWindow ==
    ASSUME TypeOK, WindowInv, rpc = "drain", queue # << >>, ~HeadReady,
           UNCHANGED <<queue, hiRx, ctrl, cpc, enable>>, rpc' = "idle"
    PROVE  WindowInv'
<1> DEFINE b == Len(queue) - ctrl
<1>0. /\ Len(queue) \in Nat /\ ctrl \in Nat
      /\ \A i \in 1 .. Len(queue) : queue[i].n \in Nat
  BY HeldNumbers
<1>1. queue \in Seq(Frame)
  BY DEF TypeOK
<1>2. Head(queue) = queue[1] /\ Len(queue) >= 1
  BY <1>0, <1>1
<1>3. SN_LESS(indicate_seq, SeqNum(queue[1]))
  BY <1>2 DEF HeadReady
<1>4. Span(ctrl)
  <2>1. SUFFICES ASSUME NEW i \in 1 .. b PROVE queue[b].n - queue[i].n <= WSIZE - 2
    BY DEF Span
  <2>2. 1 \in 1 .. b /\ 1 \in 1 .. Len(queue) /\ i \in 1 .. Len(queue) /\ b \in 1 .. Len(queue)
    BY <1>0
  <2>3. queue[b].n - queue[1].n <= WSIZE - 2
    BY <2>2, <1>3 DEF WindowInv, Spans, DrainSpan
  <2>4. i = 1 \/ queue[i].n - queue[1].n >= i - 1
    BY <2>2, <1>0 DEF WindowInv, Apart
  <2>5. queue[b].n \in Nat /\ queue[1].n \in Nat /\ queue[i].n \in Nat
    BY <2>2, <1>0
  <2> HIDE DEF b
  <2> QED
    BY <2>2, <2>3, <2>4, <2>5, <1>0, Sizes
<1>5. Apart' /\ Near' /\ Started'
  BY DEF WindowInv, Apart, Near, Started
<1>6. Entering' /\ AtWindow'
  BY DEF Entering, AtWindow
<1>7. Spans'
  BY <1>4 DEF WindowInv, Spans, Span
<1> QED
  BY <1>5, <1>6, <1>7 DEF WindowInv

\* Every step keeps the buffer within the window.
LEMMA WindowStep == IndInv /\ IndInv' /\ WindowInv /\ [Next]_vars => WindowInv'
<1> SUFFICES ASSUME IndInv, IndInv', WindowInv, [Next]_vars PROVE WindowInv'
  OBVIOUS
<1>0. TypeOK /\ TypeOK' /\ LockExclusive
  BY DEF IndInv
<1> USE DEF ctlVars, poolVars, histVars, sessVars
<1>st. Started
  BY DEF WindowInv
<1>1. CASE \E n \in FirstSeq .. LastSeq, k \in FrameKinds : RecvFrame(n, k)
  <2>1. PICK n \in FirstSeq .. LastSeq, k \in FrameKinds : RecvFrame(n, k)
    BY <1>1
  <2>2. /\ PeerMaySend(n) /\ rframe' = [n |-> n, kind |-> k]
        /\ UNCHANGED <<queue, hiRx, ctrl, cpc, enable>> /\ rpc = "idle" /\ rpc' = "enter"
    BY <2>1 DEF RecvFrame
  <2>3. Entering'
    BY <2>2 DEF Entering, PeerMaySend, Quarter
  <2>4. Apart' /\ Near' /\ Started' /\ AtWindow' /\ Spans'
    BY <2>2 DEF WindowInv, Apart, Near, Started, AtWindow, Spans, Span
  <2> QED
    BY <2>3, <2>4 DEF WindowInv
<1>2. CASE RecvNonQos
  <2>1. /\ rframe'.kind = "nonqos"
        /\ UNCHANGED <<queue, hiRx, ctrl, cpc, enable>> /\ rpc = "idle" /\ rpc' = "enter"
    BY <1>2 DEF RecvNonQos, NoFrame
  <2>2. Entering'
    BY <2>1 DEF Entering
  <2>3. Apart' /\ Near' /\ Started' /\ AtWindow' /\ Spans'
    BY <2>1 DEF WindowInv, Apart, Near, Started, AtWindow, Spans, Span
  <2> QED
    BY <2>2, <2>3 DEF WindowInv
<1>3. CASE ReorderBadHeader \/ ReorderNonQos \/ ReorderDropOld \/ ReorderDropDuplicate
           \/ ReorderBypassEnd
  <2>1. /\ UNCHANGED <<queue, hiRx, ctrl, cpc, enable>> /\ rpc # "drain" /\ rpc' = "idle"
    BY <1>3 DEF ReorderBadHeader, ReorderNonQos, ReorderDropOld, ReorderDropDuplicate,
                ReorderBypassEnd
  <2> QED
    BY <2>1, LeaveWindow
<1>4. CASE ReorderBypass
  BY <1>0, <1>4, ReachWindow DEF ReorderBypass
<1>5. CASE ReorderLock
  BY <1>0, <1>5, ReachWindow DEF ReorderLock
<1>6. CASE ReorderEnqueue
  BY <1>0, <1>6, EnqueueWindow
<1>7. CASE RecvIndicate
  BY <1>0, <1>7, IndicateWindow DEF RecvIndicate
<1>8. CASE TimerIndicate
  BY <1>0, <1>8, IndicateWindow DEF TimerIndicate, LockExclusive
<1>9. CASE RecvWait
  BY <1>0, <1>9, WaitWindow DEF RecvWait
<1>10. CASE RecvEmpty
  <2>1. /\ queue = << >> /\ UNCHANGED <<queue, hiRx, ctrl, cpc, enable>> /\ rpc' = "cancel"
    BY <1>10 DEF RecvEmpty
  <2>2. Len(queue) = 0 /\ Len(queue') = 0
    BY <2>1
  <2>3. ctrl \in Nat
    BY <1>0 DEF TypeOK
  <2>4. Apart' /\ Near' /\ Started' /\ Entering' /\ AtWindow'
    BY <2>1, <2>2 DEF WindowInv, Apart, Near, Started, Entering, AtWindow
  <2>5. Spans'
    BY <2>1, <2>2, <2>3 DEF Spans, Span
  <2> QED
    BY <2>4, <2>5 DEF WindowInv
<1>11. CASE RecvCancelTimer
  BY <1>11, LeaveWindow DEF RecvCancelTimer
<1>12. CASE OnDelba \/ AddBaReset \/ SendDelba \/ JoinReset
  <2>1. UNCHANGED <<queue, hiRx, rpc, rframe>> /\ ctrl' = ctrl + 1
    BY <1>12 DEF OnDelba, AddBaReset, SendDelba, JoinReset
  <2> QED
    BY <1>0, <2>1, ControlWindow
<1>13. CASE AddBaEnable(0) \/ AddBaEnable(37)
  <2>1. UNCHANGED <<queue, hiRx, ctrl, rpc, rframe, indicate_seq>> /\ cpc = "addba"
    BY <1>13 DEF AddBaEnable
  <2>2. Started'
    BY <2>1, <1>st DEF Started
  <2> QED
    BY <2>1, <2>2, AsideWindow
<1>14. CASE TimerForce
  <2>1. UNCHANGED <<queue, hiRx, ctrl, rpc, rframe, enable, cpc>> /\ rpc # "drain"
    BY <1>14 DEF TimerForce, LockFree
  <2>2. Started'
    BY <2>1, <1>st DEF Started
  <2> QED
    BY <2>1, <2>2, AsideWindow
<1>15. CASE TimerFires \/ TimerStopped \/ TimerNothing \/ TimerDone \/ Stop
            \/ UNCHANGED vars
  <2>1. UNCHANGED <<queue, hiRx, ctrl, rpc, rframe, enable, cpc, indicate_seq>>
    BY <1>15 DEF TimerFires, TimerStopped, TimerNothing, TimerDone, Stop, vars
  <2>2. Started'
    BY <2>1, <1>st DEF Started
  <2> QED
    BY <2>1, <2>2, AsideWindow
<1> QED
  BY <1>1, <1>2, <1>3, <1>4, <1>5, <1>6, <1>7, <1>8, <1>9, <1>10, <1>11, <1>12, <1>13,
     <1>14, <1>15
  DEF Next, RStep, TStep, CStep, Arrival, Control

\* Nothing is held at first.
LEMMA WindowInit == Init => WindowInv
<1> SUFFICES ASSUME Init PROVE WindowInv
  OBVIOUS
<1>1. Len(queue) = 0 /\ ctrl = 0 /\ rpc = "idle" /\ enable = FALSE /\ cpc = "idle"
  BY DEF Init
<1> QED
  BY <1>1 DEF WindowInv, Apart, Near, Entering, AtWindow, Started, Spans, Span

\* A sorted buffer that spans less than the window holds fewer frames than it.
LEMMA WindowBounds == TypeOK /\ WindowInv => BufferWithinWindow
<1> SUFFICES ASSUME TypeOK, WindowInv, LockFree PROVE Len(queue) < WSIZE + ctrl
  BY DEF BufferWithinWindow
<1>0. Len(queue) \in Nat /\ ctrl \in Nat /\ \A i \in 1 .. Len(queue) : queue[i].n \in Nat
  BY HeldNumbers
<1> SUFFICES ASSUME Len(queue) >= WSIZE + ctrl PROVE FALSE
  BY <1>0, Sizes
<1> DEFINE b == Len(queue) - ctrl
<1>1. 1 \in 1 .. b /\ 1 \in 1 .. Len(queue) /\ b \in 1 .. Len(queue) /\ 1 < b /\ b >= WSIZE
  BY <1>0, Sizes
<1>2. queue[b].n - queue[1].n <= WSIZE - 2
  BY <1>1 DEF WindowInv, Spans, Span, LockFree
<1>3. queue[b].n - queue[1].n >= b - 1
  BY <1>1 DEF WindowInv, Apart
<1>4. queue[b].n \in Nat /\ queue[1].n \in Nat
  BY <1>0, <1>1
<1> HIDE DEF b
<1> QED
  BY <1>0, <1>1, <1>2, <1>3, <1>4, Sizes

\* recv_indicatepkt_reorder never holds as many frames as the window is wide, but
\* for one more for each control operation.
THEOREM BufferIsBounded == Spec => []BufferWithinWindow
<1>1. IndInv /\ WindowInv => BufferWithinWindow
  BY WindowBounds DEF IndInv
<1> QED
  BY <1>1, InitInv, StepInv, WindowInit, WindowStep, PTL DEF Spec

-----------------------------------------------------------------------------
(***************************************************************************)
(* A session. indicate_seq stands for a number w of the sender. It is at   *)
(* most one above the highest number, less than a quarter of the sequence  *)
(* space below it, or less than half while a fresh frame is at the window; *)
(* so SN_LESS compares frames with w as their numbers do, and all that     *)
(* went up is below w.                                                     *)
(***************************************************************************)
\* A fresh frame is above everything held.
FreshIsNewest ==
    rpc = "locked" /\ fresh =>
        rframe.n = hiRx /\ \A i \in 1 .. Len(queue) : queue[i].n < hiRx

Reach == IF rpc = "locked" /\ fresh THEN 2 * Quarter ELSE Quarter

StartsAt(w) ==
    /\ indicate_seq = w % SN
    /\ w <= hiRx + 1 /\ hiRx - w < Reach
    /\ rpc = "locked" /\ fresh => w <= hiRx
    /\ \A k \in 1 .. Len(up) : up[k] < w

SessionRuns == session => enable /\ rpc # "bypass"

SessionWindow ==
    session => IF indicate_seq = Unset
               THEN up = << >> /\ rpc # "drain" /\ tpc # "drain"
               ELSE \E w \in Int : StartsAt(w)

\* What is held is above what went up.
UpBelow ==
    session => \A k \in 1 .. Len(up), i \in 1 .. Len(queue) : up[k] < queue[i].n

SessionInv == /\ FreshIsNewest /\ SessionRuns /\ SessionWindow /\ UpBelow
              /\ InOrderWithinSession

\* In a session the window that check_indicate_seq leaves starts close to the
\* highest number, above all that went up, and the frame it accepts is above them too.
LEMMA SessionNextWindow ==
    ASSUME TypeOK, WindowInv, SessionInv, session, rpc = "locked",
           ~BelowWindow(indicate_seq, SeqNum(rframe))
    PROVE  /\ \A k \in 1 .. Len(up) : up[k] < rframe.n
           /\ NextWindow(indicate_seq, SeqNum(rframe)) # Unset
           /\ \E w \in Int : /\ NextWindow(indicate_seq, SeqNum(rframe)) = w % SN
                             /\ w <= hiRx + 1 /\ hiRx - w < Quarter
                             /\ \A k \in 1 .. Len(up) : up[k] < w
<1> DEFINE x == rframe.n
           v == NextWindow(indicate_seq, x % SN)
<1>1. x \in Nat /\ hiRx \in Int /\ SeqNum(rframe) = x % SN
  BY HeldNumbers
<1>2. hiRx - WSIZE < x /\ x <= hiRx
  BY DEF WindowInv, AtWindow
<1>3. indicate_seq \in SeqSpace \cup {Unset} /\ up \in Seq(Nat)
  BY DEF TypeOK
<1>4. ~BelowWindow(indicate_seq, x % SN)
  BY <1>1
<1>5. fresh => x = hiRx
  BY DEF SessionInv, FreshIsNewest
<1>u. Len(up) \in Nat /\ \A k \in 1 .. Len(up) : up[k] \in Nat
  BY <1>3
<1> SUFFICES /\ \A k \in 1 .. Len(up) : up[k] < x
             /\ \E w \in Int : /\ v = w % SN
                               /\ w <= hiRx + 1 /\ hiRx - w < Quarter
                               /\ \A k \in 1 .. Len(up) : up[k] < w
  <2>1. \A w \in Int : w % SN \in 0 .. SN - 1
    BY InSpace
  <2>2. \A w \in Int : w % SN # Unset
    BY <2>1, Sizes DEF SeqSpace
  <2> QED
    BY <2>2, <1>1
<1>6. CASE indicate_seq = Unset
  <2>1. up = << >>
    BY <1>6 DEF SessionInv, SessionWindow
  <2>2. Len(up) = 0
    BY <2>1
  <2>3. v = (x + 1) % SN
    BY <1>1, <1>6, NextWindowUnset
  <2>4. x + 1 \in Int /\ x + 1 <= hiRx + 1 /\ hiRx - (x + 1) < Quarter
    BY <1>1, <1>2, Sizes
  <2> HIDE DEF x, v
  <2> QED
    BY <2>2, <2>3, <2>4
<1>7. CASE indicate_seq # Unset
  <2>1. PICK w \in Int : StartsAt(w)
    BY <1>7 DEF SessionInv, SessionWindow
  <2>2. /\ indicate_seq = w % SN /\ w <= hiRx + 1 /\ hiRx - w < 2 * Quarter
        /\ fresh \/ hiRx - w < Quarter
        /\ \A k \in 1 .. Len(up) : up[k] < w
    BY <2>1, <1>1, Sizes DEF StartsAt, Reach
  <2>3. PICK w1 \in Int :
              /\ indicate_seq = w1 % SN /\ w1 <= x /\ x - w1 < Half
              /\ \/ x = w1 /\ v = (x + 1) % SN
                 \/ x - w1 >= WSIZE /\ v = (x + 1 - WSIZE) % SN
                 \/ x - w1 >= 1 /\ x - w1 < WSIZE /\ v = indicate_seq
    <3>1. indicate_seq \in SeqSpace
      BY <1>3, <1>7
    <3> QED
      BY <3>1, <1>1, <1>4, NextWindowStart
  <2> HIDE DEF x, v
  <2>4. w - w1 < SN /\ w1 - w < SN /\ w % SN = w1 % SN
    BY <2>2, <2>3, <1>1, <1>2, Sizes
  <2>5. w = w1
    BY <2>4, SameNumber
  <2>6. \A k \in 1 .. Len(up) : up[k] < x
    BY <2>2, <2>3, <2>5, <1>1, <1>u
  <2>7. CASE v = (x + 1) % SN
    <3>1. x + 1 \in Int /\ x + 1 <= hiRx + 1 /\ hiRx - (x + 1) < Quarter
      BY <1>1, <1>2, Sizes
    <3>2. \A k \in 1 .. Len(up) : up[k] < x + 1
      BY <2>6, <1>1, <1>u
    <3> QED
      BY <2>6, <2>7, <3>1, <3>2
  <2>8. CASE x - w >= WSIZE /\ v = (x + 1 - WSIZE) % SN
    <3> DEFINE a == x + 1 - WSIZE
    <3>1. a \in Int /\ w <= a /\ a <= hiRx + 1
      BY <2>8, <1>1, <1>2, Sizes
    <3>2. hiRx - a < Quarter
      <4>1. CASE fresh
        BY <4>1, <1>1, <1>5, Sizes DEF x
      <4>2. CASE hiRx - w < Quarter
        BY <4>2, <3>1, <1>1, Sizes
      <4> QED
        BY <4>1, <4>2, <2>2
    <3>3. v = a % SN
      BY <2>8
    <3> HIDE DEF a
    <3>4. \A k \in 1 .. Len(up) : up[k] < a
      BY <2>2, <3>1, <1>u
    <3> QED
      BY <2>6, <3>1, <3>2, <3>3, <3>4
  <2>9. CASE x - w >= 1 /\ x - w < WSIZE /\ v = indicate_seq
    <3>1. hiRx - w < Quarter
      <4>1. CASE fresh
        BY <4>1, <2>9, <1>1, <1>5, Sizes DEF x
      <4> QED
        BY <4>1, <2>2
    <3> QED
      BY <2>2, <2>6, <2>9, <3>1
  <2> QED
    BY <2>3, <2>5, <2>7, <2>8, <2>9
<1> QED
  BY <1>6, <1>7

\* In a session check_indicate_seq accepts a number above all the earlier ones.
LEMMA FreshNotBelow ==
    ASSUME TypeOK, WindowInv, SessionInv, session, rpc = "locked", fresh
    PROVE  ~BelowWindow(indicate_seq, SeqNum(rframe))
<1>1. rframe.n \in Nat /\ hiRx \in Int /\ SeqNum(rframe) = rframe.n % SN
  BY HeldNumbers
<1>2. rframe.n = hiRx
  BY DEF SessionInv, FreshIsNewest
<1>3. CASE indicate_seq = Unset
  BY <1>3 DEF BelowWindow
<1>4. CASE indicate_seq # Unset
  <2>1. PICK w \in Int : StartsAt(w)
    BY <1>4 DEF SessionInv, SessionWindow
  <2>2. indicate_seq = w % SN /\ w <= hiRx /\ hiRx - w < 2 * Quarter
    BY <2>1 DEF StartsAt, Reach
  <2>3. hiRx - w < Half /\ w - hiRx <= Half /\ ~(hiRx < w)
    BY <2>2, <1>1, Sizes
  <2>4. ~SN_LESS(hiRx % SN, w % SN)
    BY <2>3, <1>1, LessIsBehind
  <2> QED
    BY <2>2, <2>4, <1>1, <1>2 DEF BelowWindow
<1> QED
  BY <1>3, <1>4

\* The buffer holds no such number yet.
LEMMA FreshNotDuplicate ==
    ASSUME TypeOK, WindowInv, SessionInv, rpc = "locked", fresh
    PROVE  ~Duplicate(SeqNum(rframe))
<1> DEFINE p == InsertPos(SeqNum(rframe))
<1>1. SUFFICES ASSUME p <= Len(queue), SeqNum(queue[p]) = SeqNum(rframe) PROVE FALSE
  BY DEF Duplicate
<1>2. p \in 1 .. Len(queue) + 1
  BY InsertPosFound DEF TypeOK
<1> HIDE DEF p
<1>3. Len(queue) \in Nat /\ queue \in Seq(Frame) /\ hiRx \in Int
  BY DEF TypeOK
<1>4. p \in 1 .. Len(queue)
  BY <1>1, <1>2, <1>3
<1>5. queue[p].n = rframe.n
  BY <1>1, <1>4, InHandCompares DEF WindowInv
<1>6. queue[p].n < hiRx /\ rframe.n = hiRx
  BY <1>4 DEF SessionInv, FreshIsNewest
<1> QED
  BY <1>3, <1>5, <1>6

\* Steps that leave the window and the buffer alone.
LEMMA AsideSession ==
    ASSUME SessionInv, UNCHANGED <<indicate_seq, queue, hiRx, fresh, session, up, enable>>,
           \/ UNCHANGED <<rpc, rframe>>
           \/ rpc # "locked" /\ rpc' \in {"idle", "enter", "cancel"},
           tpc' = tpc \/ tpc' # "drain"
    PROVE  SessionInv'
<1>1. FreshIsNewest'
  BY DEF SessionInv, FreshIsNewest
<1>2. SessionRuns' /\ UpBelow' /\ InOrderWithinSession'
  BY DEF SessionInv, SessionRuns, UpBelow, InOrderWithinSession
<1>3. ASSUME NEW w \in Int, StartsAt(w) PROVE StartsAt(w)'
  BY <1>3 DEF StartsAt, Reach
<1>4. SessionWindow'
  <2>1. CASE ~session
    BY <2>1 DEF SessionWindow
  <2>2. CASE session /\ indicate_seq = Unset
    BY <2>2 DEF SessionInv, SessionWindow
  <2>3. CASE session /\ indicate_seq # Unset
    <3>1. PICK w \in Int : StartsAt(w)
      BY <2>3 DEF SessionInv, SessionWindow
    <3> QED
      BY <2>3, <3>1, <1>3 DEF SessionWindow
  <2> QED
    BY <2>1, <2>2, <2>3
<1> QED
  BY <1>1, <1>2, <1>4 DEF SessionInv

\* Outside a session only the order of what went up remains to be said.
LEMMA OutsideSession ==
    ASSUME SessionInv, ~session', up' = up,
           rpc' = "locked" => UNCHANGED <<rpc, rframe, fresh, hiRx, queue>>
    PROVE  SessionInv'
<1>1. FreshIsNewest'
  BY DEF SessionInv, FreshIsNewest
<1>2. SessionRuns' /\ SessionWindow' /\ UpBelow' /\ InOrderWithinSession'
  BY DEF SessionInv, SessionRuns, SessionWindow, UpBelow, InOrderWithinSession
<1> QED
  BY <1>1, <1>2 DEF SessionInv

\* check_indicate_seq accepted the frame, and the tasklet goes on with it or drops
\* it as a duplicate.
LEMMA AcceptSession ==
    ASSUME TypeOK, WindowInv, SessionInv, rpc = "locked",
           ~BelowWindow(indicate_seq, SeqNum(rframe)),
           indicate_seq' = NextWindow(indicate_seq, SeqNum(rframe)),
           UNCHANGED <<hiRx, session, up>>, rpc' # "locked"
    PROVE  SessionWindow'
<1> SUFFICES ASSUME session
             PROVE  /\ indicate_seq' # Unset
                    /\ \E w \in Int : StartsAt(w)'
  BY DEF SessionWindow
<1>1. /\ indicate_seq' # Unset
      /\ \E w \in Int : /\ indicate_seq' = w % SN
                        /\ w <= hiRx + 1 /\ hiRx - w < Quarter
                        /\ \A k \in 1 .. Len(up) : up[k] < w
  BY SessionNextWindow
<1>2. PICK w \in Int : /\ indicate_seq' = w % SN
                       /\ w <= hiRx + 1 /\ hiRx - w < Quarter
                       /\ \A k \in 1 .. Len(up) : up[k] < w
  BY <1>1
<1>3. StartsAt(w)'
  BY <1>2 DEF StartsAt, Reach
<1> QED
  BY <1>1, <1>3

\* The frame is put into the buffer, above all that went up.
LEMMA EnqueueSession ==
    ASSUME TypeOK, TypeOK', WindowInv, SessionInv, ReorderEnqueue
    PROVE  SessionInv'
<1>1. /\ rpc = "locked" /\ rpc' = "drain" /\ queue' = InsertFrame(rframe)
      /\ ~BelowWindow(indicate_seq, SeqNum(rframe)) /\ ~Duplicate(SeqNum(rframe))
      /\ indicate_seq' = NextWindow(indicate_seq, SeqNum(rframe))
      /\ UNCHANGED <<hiRx, session, up, enable>>
  BY DEF ReorderEnqueue, histVars, sessVars
<1>2. SessionWindow'
  BY <1>1, AcceptSession
<1>3. FreshIsNewest' /\ SessionRuns' /\ InOrderWithinSession'
  BY <1>1 DEF SessionInv, FreshIsNewest, SessionRuns, InOrderWithinSession
<1>4. UpBelow'
  <2>1. SUFFICES ASSUME session, NEW k \in 1 .. Len(up), NEW i \in 1 .. Len(queue')
                 PROVE  up[k] < queue'[i].n
    BY <1>1 DEF UpBelow
  <2>2. PICK p \in 1 .. Len(queue) + 1 :
              /\ Len(queue') = Len(queue) + 1
              /\ \A j \in 1 .. Len(queue) + 1 :
                    queue'[j] = IF j < p THEN queue[j] ELSE IF j = p THEN rframe ELSE queue[j - 1]
    BY <1>1, InsertSorts DEF WindowInv
  <2>3. Len(queue) \in Nat
    BY HeldNumbers
  <2>4. CASE i = p
    <3>1. up[k] < rframe.n
      BY <2>1, <1>1, SessionNextWindow
    <3> QED
      BY <2>2, <2>3, <2>4, <3>1
  <2>5. CASE i < p
    BY <2>1, <2>2, <2>3, <2>5 DEF SessionInv, UpBelow
  <2>6. CASE i > p
    <3>1. i - 1 \in 1 .. Len(queue) /\ queue'[i] = queue[i - 1]
      BY <2>2, <2>3, <2>6
    <3> QED
      BY <2>1, <3>1 DEF SessionInv, UpBelow
  <2> QED
    BY <2>2, <2>3, <2>4, <2>5, <2>6
<1> QED
  BY <1>2, <1>3, <1>4 DEF SessionInv

\* The frame comes to the window.
LEMMA LockSession ==
    ASSUME TypeOK, WindowInv, SessionInv, ReorderLock
    PROVE  SessionInv'
<1>0. /\ Len(queue) \in Nat /\ hiRx \in Int /\ rframe.n \in Nat
      /\ \A i \in 1 .. Len(queue) : queue[i].n \in Nat
  BY HeldNumbers
<1>1. /\ rpc = "enter" /\ rpc' = "locked" /\ rframe.kind # "nonqos"
      /\ UNCHANGED <<indicate_seq, queue, session, up, enable, rframe, tpc>>
      /\ tpc # "drain" /\ ReachesWindow
  BY DEF ReorderLock, LockFree, ctlVars, sessVars
<1>2. \/ rframe.n > hiRx /\ hiRx' = rframe.n
      \/ ~fresh' /\ hiRx' = hiRx
  BY <1>1 DEF ReachesWindow
<1>3. rframe.n <= hiRx + Quarter
  BY <1>1 DEF WindowInv, Entering
<1>4. FreshIsNewest'
  <2>1. \A i \in 1 .. Len(queue) : queue[i].n <= hiRx
    BY DEF WindowInv, Near
  <2> QED
    BY <2>1, <1>0, <1>1, <1>2 DEF FreshIsNewest
<1>5. SessionRuns' /\ UpBelow' /\ InOrderWithinSession'
  BY <1>1 DEF SessionInv, SessionRuns, UpBelow, InOrderWithinSession
<1>6. ASSUME NEW w \in Int, StartsAt(w) PROVE StartsAt(w)'
  <2>1. /\ indicate_seq' = w % SN /\ w <= hiRx + 1 /\ hiRx - w < Quarter
        /\ \A k \in 1 .. Len(up') : up'[k] < w
    BY <1>1, <1>6 DEF StartsAt, Reach
  <2>2. CASE ~fresh' /\ hiRx' = hiRx
    BY <2>1, <2>2 DEF StartsAt, Reach
  <2>3. CASE rframe.n > hiRx /\ hiRx' = rframe.n
    <3>1. fresh' = TRUE
      BY <1>1, <2>3 DEF ReachesWindow
    <3>2. w <= hiRx' /\ hiRx' - w < 2 * Quarter /\ w <= hiRx' + 1
      BY <2>1, <2>3, <1>0, <1>3, Sizes
    <3> QED
      BY <2>1, <3>1, <3>2, <1>1 DEF StartsAt, Reach
  <2> QED
    BY <2>2, <2>3, <1>2
<1>7. SessionWindow'
  <2>1. CASE ~session
    BY <2>1, <1>1 DEF SessionWindow
  <2>2. CASE session /\ indicate_seq = Unset
    BY <2>2, <1>1 DEF SessionInv, SessionWindow
  <2>3. CASE session /\ indicate_seq # Unset
    <3>1. PICK w \in Int : StartsAt(w)
      BY <2>3 DEF SessionInv, SessionWindow
    <3> QED
      BY <2>3, <3>1, <1>1, <1>6 DEF SessionWindow
  <2> QED
    BY <2>1, <2>2, <2>3
<1> QED
  BY <1>4, <1>5, <1>7 DEF SessionInv

\* A turn of the drain loop hands up a number above the earlier ones, and the
\* window stays above it.
LEMMA IndicateSession ==
    ASSUME TypeOK, WindowInv, SessionInv, IndicateHead, rpc # "locked",
           rpc = "drain" \/ tpc = "drain",
           UNCHANGED <<hiRx, fresh, session, enable, rpc, rframe, tpc>>
    PROVE  SessionInv'
<1> DEFINE L == Len(queue)
           a == queue[1].n
<1>1. /\ L \in Nat /\ hiRx \in Int
      /\ \A i \in 1 .. L : queue[i].n \in Nat /\ SeqNum(queue[i]) = queue[i].n % SN
  BY HeldNumbers
<1>2. queue \in Seq(Frame) /\ queue # << >> /\ queue' = Tail(queue) /\ up \in Seq(Nat)
      /\ ~SN_LESS(indicate_seq, SeqNum(Head(queue)))
      /\ indicate_seq' = IF indicate_seq = SeqNum(Head(queue))
                         THEN (indicate_seq + 1) % SN ELSE indicate_seq
  BY DEF IndicateHead, HeadReady, TypeOK
<1>3. L >= 1 /\ Head(queue) = queue[1]
  BY <1>1, <1>2
<1>4. Len(queue') = L - 1 /\ \A i \in 1 .. L - 1 : queue'[i] = queue[i + 1]
  BY <1>2, HeadTailProperties
<1>5. 1 \in 1 .. L
  BY <1>1, <1>3
<1>6. a \in Nat /\ SeqNum(Head(queue)) = a % SN /\ a <= hiRx /\ hiRx - a < Quarter
  BY <1>1, <1>3, <1>5 DEF WindowInv, Near
<1>7. up' = up \/ (session /\ up' = Append(up, a))
  BY <1>3 DEF IndicateHead, HandedUp
<1>8. ~session => up' = up
  BY DEF IndicateHead, HandedUp
<1>9. CASE ~session
  BY <1>8, <1>9, OutsideSession
<1>10. CASE session
  <2>1. Len(up) \in Nat /\ \A k \in 1 .. Len(up) : up[k] \in Nat
    BY <1>2
  <2>2. \A k \in 1 .. Len(up) : up[k] < a
    BY <1>5, <1>10 DEF SessionInv, UpBelow
  <2>3. indicate_seq # Unset
    BY <1>10 DEF SessionInv, SessionWindow
  <2>4. PICK w \in Int : StartsAt(w)
    BY <1>10, <2>3 DEF SessionInv, SessionWindow
  <2>5. indicate_seq = w % SN /\ w <= hiRx + 1 /\ hiRx - w < Quarter
        /\ \A k \in 1 .. Len(up) : up[k] < w
    BY <2>4 DEF StartsAt, Reach
  <2> HIDE DEF a
  <2>6. w - a < Half /\ a - w <= Half /\ w - a < SN /\ a - w < SN /\ a \in Int
    BY <2>5, <1>1, <1>6, Sizes
  <2>7. a <= w
    <3>1. ~SN_LESS(w % SN, a % SN)
      BY <1>2, <1>6, <2>5
    <3> QED
      BY <3>1, <2>6, LessIsBehind
  <2>8. PICK w2 \in Int : /\ indicate_seq' = w2 % SN /\ a < w2 /\ w <= w2
                          /\ w2 <= hiRx + 1 /\ hiRx - w2 < Quarter
    <3>1. CASE a = w
      <4>1. ((w % SN) + 1) % SN = (w + 1) % SN
        <5>1. 1 \in Int
          OBVIOUS
        <5> QED
          BY <5>1, ReduceSum, Zenon
      <4>2. indicate_seq' = (w + 1) % SN
        BY <4>1, <3>1, <1>2, <1>6, <2>5
      <4>3. w + 1 \in Int /\ a < w + 1 /\ w <= w + 1 /\ w + 1 <= hiRx + 1
            /\ hiRx - (w + 1) < Quarter
        BY <3>1, <1>1, <1>6, <2>5, Sizes
      <4> QED
        BY <4>2, <4>3
    <3>2. CASE a # w
      <4>1. w % SN # a % SN
        BY <3>2, <2>6, SameNumber
      <4>2. indicate_seq' = w % SN
        BY <4>1, <1>2, <1>6, <2>5
      <4>3. a < w /\ w <= w
        BY <3>2, <2>6, <2>7
      <4> QED
        BY <4>2, <4>3, <2>5
    <3> QED
      BY <3>1, <3>2
  <2>9. indicate_seq' # Unset
    <3>1. w2 % SN \in 0 .. SN - 1
      BY InSpace
    <3> QED
      BY <3>1, <2>8, Sizes DEF SeqSpace
  <2>10. /\ Len(up') \in Nat
         /\ \A k \in 1 .. Len(up') : up'[k] \in Nat /\ up'[k] <= a
         /\ \A j, k \in 1 .. Len(up') : j < k => up'[j] < up'[k]
    <3>0. \A j, k \in 1 .. Len(up) : j < k => up[j] < up[k]
      BY DEF SessionInv, InOrderWithinSession
    <3>1. CASE up' = up
      BY <3>0, <3>1, <2>1, <2>2, <1>6
    <3>2. CASE up' = Append(up, a)
      <4>1. /\ Len(up') = Len(up) + 1 /\ up'[Len(up) + 1] = a
            /\ \A k \in 1 .. Len(up) : up'[k] = up[k]
        BY <3>2, <1>2, <1>6, AppendProperties
      <4>2. ASSUME NEW k \in 1 .. Len(up') PROVE k \in 1 .. Len(up) \/ k = Len(up) + 1
        BY <4>1, <2>1
      <4>3. ASSUME NEW k \in 1 .. Len(up') PROVE up'[k] \in Nat /\ up'[k] <= a
        BY <4>1, <4>2, <2>1, <2>2, <1>6
      <4>4. ASSUME NEW j \in 1 .. Len(up'), NEW k \in 1 .. Len(up'), j < k
            PROVE  up'[j] < up'[k]
        <5>1. j \in 1 .. Len(up)
          BY <4>1, <4>4, <2>1
        <5>2. CASE k \in 1 .. Len(up)
          BY <5>1, <5>2, <4>1, <4>4, <3>0
        <5>3. CASE k = Len(up) + 1
          BY <5>1, <5>3, <4>1, <2>2
        <5> QED
          BY <4>2, <5>2, <5>3
      <4> QED
        BY <4>1, <4>3, <4>4, <2>1
    <3> QED
      BY <3>1, <3>2, <1>7
  <2>11. StartsAt(w2)'
    <3>1. \A k \in 1 .. Len(up') : up'[k] < w2
      BY <2>8, <2>10, <1>6
    <3> QED
      BY <3>1, <2>8 DEF StartsAt, Reach
  <2>12. SessionWindow'
    BY <2>9, <2>11 DEF SessionWindow
  <2>13. UpBelow'
    <3>1. SUFFICES ASSUME NEW k \in 1 .. Len(up'), NEW i \in 1 .. L - 1
                   PROVE  up'[k] < queue'[i].n
      BY <1>4 DEF UpBelow
    <3>2. i + 1 \in 1 .. L /\ 1 < i + 1 /\ queue'[i] = queue[i + 1]
      BY <1>1, <1>4
    <3>3. queue[i + 1].n - queue[1].n >= (i + 1) - 1
      BY <3>2, <1>5 DEF WindowInv, Apart
    <3>4. queue[i + 1].n \in Nat /\ queue[1].n = a
      BY <3>2, <1>1 DEF a
    <3> QED
      BY <3>2, <3>3, <3>4, <2>10, <1>6
  <2>14. FreshIsNewest' /\ SessionRuns'
    BY DEF SessionInv, FreshIsNewest, SessionRuns
  <2>15. InOrderWithinSession'
    BY <2>10 DEF InOrderWithinSession
  <2> QED
    BY <2>12, <2>13, <2>14, <2>15 DEF SessionInv
<1> QED
  BY <1>9, <1>10

\* The timer moves the window to the first frame held, which is above all that
\* went up.
LEMMA ForceSession ==
    ASSUME TypeOK, WindowInv, SessionInv, TimerForce
    PROVE  SessionInv'
<1>1. /\ queue # << >> /\ indicate_seq' = SeqNum(Head(queue)) /\ rpc \notin {"locked", "drain"}
      /\ UNCHANGED <<queue, hiRx, fresh, session, up, enable, rpc, rframe>>
  BY DEF TimerForce, LockFree, histVars, sessVars
<1>2. /\ Len(queue) \in Nat /\ hiRx \in Int /\ queue \in Seq(Frame)
      /\ \A i \in 1 .. Len(queue) : queue[i].n \in Nat /\ SeqNum(queue[i]) = queue[i].n % SN
  BY HeldNumbers DEF TypeOK
<1>3. 1 \in 1 .. Len(queue) /\ Head(queue) = queue[1]
  BY <1>1, <1>2
<1> DEFINE a == queue[1].n
<1>4. a \in Nat /\ indicate_seq' = a % SN /\ a <= hiRx /\ hiRx - a < Quarter
  BY <1>1, <1>2, <1>3 DEF WindowInv, Near
<1>5. FreshIsNewest' /\ SessionRuns' /\ UpBelow' /\ InOrderWithinSession'
  BY <1>1 DEF SessionInv, FreshIsNewest, SessionRuns, UpBelow, InOrderWithinSession
<1>6. SessionWindow'
  <2>1. SUFFICES ASSUME session PROVE indicate_seq' # Unset /\ \E w \in Int : StartsAt(w)'
    BY <1>1 DEF SessionWindow
  <2>2. \A k \in 1 .. Len(up') : up'[k] < a
    BY <2>1, <1>1, <1>3 DEF SessionInv, UpBelow
  <2>3. PICK w \in Int : w = a
    BY <1>4
  <2>4. /\ indicate_seq' = w % SN /\ w <= hiRx + 1 /\ hiRx - w < Quarter
        /\ \A k \in 1 .. Len(up') : up'[k] < w
    BY <2>2, <2>3, <1>2, <1>4
  <2>5. StartsAt(w)'
    BY <2>4, <1>1 DEF StartsAt, Reach
  <2>6. w % SN \in 0 .. SN - 1
    BY InSpace
  <2>7. indicate_seq' # Unset
    BY <2>4, <2>6, Sizes DEF SeqSpace
  <2> QED
    BY <2>5, <2>7
<1> QED
  BY <1>5, <1>6 DEF SessionInv

\* check_indicate_seq refused the frame: in a session it was not a fresh one, so the
\* window is as close to the highest number as before.
LEMMA DropOldSession ==
    ASSUME TypeOK, WindowInv, SessionInv, ReorderDropOld
    PROVE  SessionInv'
<1>1. /\ rpc = "locked" /\ rpc' = "idle" /\ BelowWindow(indicate_seq, SeqNum(rframe))
      /\ UNCHANGED <<indicate_seq, queue, hiRx, fresh, session, up, enable, rframe, tpc>>
  BY DEF ReorderDropOld, ctlVars, histVars, sessVars
<1>2. session => ~fresh
  BY <1>1, FreshNotBelow
<1>3. FreshIsNewest' /\ SessionRuns' /\ UpBelow' /\ InOrderWithinSession'
  BY <1>1 DEF SessionInv, FreshIsNewest, SessionRuns, UpBelow, InOrderWithinSession
<1>4. SessionWindow'
  <2>1. CASE ~session
    BY <2>1, <1>1 DEF SessionWindow
  <2>2. CASE session
    <3>1. indicate_seq # Unset
      BY <1>1 DEF BelowWindow
    <3>2. PICK w \in Int : StartsAt(w)
      BY <2>2, <3>1 DEF SessionInv, SessionWindow
    <3>3. StartsAt(w)'
      BY <2>2, <3>2, <1>1, <1>2 DEF StartsAt, Reach
    <3> QED
      BY <3>1, <3>3, <1>1 DEF SessionWindow
  <2> QED
    BY <2>1, <2>2
<1> QED
  BY <1>3, <1>4 DEF SessionInv

\* Reordering is switched on, with an unset window, or off.
LEMMA EnableSession ==
    ASSUME SessionInv, NEW st \in {0, 37}, AddBaEnable(st)
    PROVE  SessionInv'
<1>1. /\ UNCHANGED <<queue, hiRx, fresh, rpc, rframe, tpc, indicate_seq>> /\ up' = << >>
  BY DEF AddBaEnable, histVars
<1>2. session' => enable' /\ indicate_seq = Unset /\ NoStepUnderWay
  BY Zenon DEF AddBaEnable
<1>3. Len(up') = 0
  BY <1>1
<1>4. FreshIsNewest'
  BY <1>1 DEF SessionInv, FreshIsNewest
<1>5. UpBelow' /\ InOrderWithinSession'
  BY <1>3 DEF UpBelow, InOrderWithinSession
<1>6. SessionRuns' /\ SessionWindow'
  BY <1>1, <1>2 DEF SessionRuns, SessionWindow, NoStepUnderWay
<1> QED
  BY <1>4, <1>5, <1>6 DEF SessionInv

\* Every step keeps the session in order.
LEMMA SessionStep ==
    IndInv /\ IndInv' /\ WindowInv /\ SessionInv /\ [Next]_vars => SessionInv'
<1> SUFFICES ASSUME IndInv, IndInv', WindowInv, SessionInv, [Next]_vars PROVE SessionInv'
  OBVIOUS
<1>0. TypeOK /\ TypeOK' /\ LockExclusive
  BY DEF IndInv
<1>on. SessionRuns
  BY DEF SessionInv
<1> USE DEF ctlVars, poolVars, histVars, sessVars
<1>1. CASE \E n \in FirstSeq .. LastSeq, k \in FrameKinds : RecvFrame(n, k)
  BY <1>1, AsideSession DEF RecvFrame
<1>2. CASE RecvNonQos \/ ReorderBadHeader \/ ReorderNonQos \/ RecvWait \/ RecvEmpty
           \/ RecvCancelTimer
  <2>1. /\ UNCHANGED <<indicate_seq, queue, hiRx, fresh, session, up, enable, tpc>>
        /\ rpc # "locked" /\ rpc' \in {"idle", "enter", "cancel"}
    BY <1>2 DEF RecvNonQos, ReorderBadHeader, ReorderNonQos, RecvWait, RecvEmpty,
                RecvCancelTimer
  <2> QED
    BY <2>1, AsideSession
<1>3. CASE ReorderBypass
  <2>1. ~session /\ ~session' /\ up' = up /\ rpc' # "locked"
    BY <1>3, <1>on DEF ReorderBypass, SessionRuns
  <2> QED
    BY <2>1, OutsideSession
<1>4. CASE ReorderBypassEnd
  <2>1. ~session /\ ~session' /\ up' = up /\ rpc' # "locked"
    BY <1>4, <1>on DEF ReorderBypassEnd, SessionRuns
  <2> QED
    BY <2>1, OutsideSession
<1>5. CASE ReorderLock
  BY <1>0, <1>5, LockSession
<1>6. CASE ReorderDropOld
  BY <1>0, <1>6, DropOldSession
<1>7. CASE ReorderDropDuplicate
  <2>1. /\ rpc = "locked" /\ rpc' = "idle"
        /\ ~BelowWindow(indicate_seq, SeqNum(rframe))
        /\ indicate_seq' = NextWindow(indicate_seq, SeqNum(rframe))
        /\ UNCHANGED <<queue, hiRx, session, up, enable>>
    BY <1>7 DEF ReorderDropDuplicate
  <2>2. SessionWindow'
    BY <1>0, <2>1, AcceptSession
  <2>3. FreshIsNewest' /\ SessionRuns' /\ UpBelow' /\ InOrderWithinSession'
    BY <2>1 DEF SessionInv, FreshIsNewest, SessionRuns, UpBelow, InOrderWithinSession
  <2> QED
    BY <2>2, <2>3 DEF SessionInv
<1>8. CASE ReorderEnqueue
  BY <1>0, <1>8, EnqueueSession
<1>9. CASE RecvIndicate
  BY <1>0, <1>9, IndicateSession DEF RecvIndicate
<1>10. CASE TimerIndicate
  BY <1>0, <1>10, IndicateSession DEF TimerIndicate, LockExclusive
<1>11. CASE OnDelba \/ AddBaReset \/ SendDelba \/ JoinReset
  <2>1. ~session' /\ UNCHANGED <<up, rpc, rframe, fresh, hiRx, queue>>
    BY <1>11 DEF OnDelba, AddBaReset, SendDelba, JoinReset
  <2> QED
    BY <2>1, OutsideSession
<1>12. CASE AddBaEnable(0) \/ AddBaEnable(37)
  BY <1>12, EnableSession
<1>13. CASE TimerForce
  BY <1>0, <1>13, ForceSession
<1>14. CASE TimerFires \/ TimerStopped \/ TimerNothing \/ TimerDone \/ Stop
            \/ UNCHANGED vars
  <2>1. /\ UNCHANGED <<indicate_seq, queue, hiRx, fresh, session, up, enable, rpc, rframe>>
        /\ tpc' = tpc \/ tpc' # "drain"
    BY <1>14 DEF TimerFires, TimerStopped, TimerNothing, TimerDone, Stop, vars
  <2> QED
    BY <2>1, AsideSession
<1> QED
  BY <1>1, <1>2, <1>3, <1>4, <1>5, <1>6, <1>7, <1>8, <1>9, <1>10, <1>11, <1>12, <1>13,
     <1>14
  DEF Next, RStep, TStep, CStep, Arrival, Control

\* At first there is no session.
LEMMA SessionInit == Init => SessionInv
<1> SUFFICES ASSUME Init PROVE SessionInv
  OBVIOUS
<1>1. ~session /\ rpc = "idle" /\ up = << >>
  BY DEF Init
<1>2. Len(up) = 0
  BY <1>1
<1> QED
  BY <1>1, <1>2 DEF SessionInv, FreshIsNewest, SessionRuns, SessionWindow, UpBelow,
                    InOrderWithinSession

\* recv_indicatepkts_in_order hands the frames of a session up in the order of the
\* sender's numbers, none twice, across every wrap of the sequence space.
THEOREM SessionIsInOrder == Spec => []InOrderWithinSession
<1>1. SessionInv => InOrderWithinSession
  BY DEF SessionInv
<1> QED
  BY <1>1, InitInv, StepInv, WindowInit, WindowStep, SessionInit, SessionStep, PTL DEF Spec

\* In a session check_indicate_seq and enqueue_reorder_recvframe never refuse a frame
\* that is numbered above all the earlier ones.
THEOREM NewestIsAccepted == Spec => NewestAcceptedInSession
<1>1. ASSUME IndInv, WindowInv, SessionInv, [Next]_vars
      PROVE  [rpc = "locked" /\ rpc' = "idle" /\ session => ~fresh]_vars
  <2> SUFFICES ASSUME Next, rpc = "locked", rpc' = "idle", session, fresh PROVE FALSE
    BY <1>1
  <2>0. TypeOK
    BY <1>1 DEF IndInv
  <2> USE DEF ctlVars, poolVars, histVars, sessVars
  <2>1. ~BelowWindow(indicate_seq, SeqNum(rframe)) /\ ~Duplicate(SeqNum(rframe))
    BY <1>1, <2>0, FreshNotBelow, FreshNotDuplicate
  <2>2. ~RStep
    BY <2>1 DEF RStep, ReorderBadHeader, ReorderNonQos, ReorderBypass, ReorderBypassEnd,
                ReorderLock, ReorderDropOld, ReorderDropDuplicate, ReorderEnqueue,
                RecvIndicate, RecvWait, RecvEmpty, RecvCancelTimer
  <2>3. ~TStep
    BY DEF TStep, TimerFires, TimerStopped, TimerNothing, TimerForce, TimerIndicate, TimerDone
  <2>4. ~CStep /\ ~Control /\ ~Stop
    BY DEF CStep, AddBaEnable, Control, AddBaReset, SendDelba, JoinReset, Stop
  <2>5. ~Arrival
    BY DEF Arrival, RecvFrame, RecvNonQos, OnDelba
  <2> QED
    BY <2>2, <2>3, <2>4, <2>5 DEF Next
<1> QED
  BY <1>1, InitInv, StepInv, WindowInit, WindowStep, SessionInit, SessionStep, PTL
  DEF Spec, NewestAcceptedInSession
=============================================================================
