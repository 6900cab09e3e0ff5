---------------------------- MODULE PsiCheckProofs ----------------------------
(***************************************************************************)
(* PsiCheck proved for every size of payload and header, every set of      *)
(* lengths, every period of the counter and any number of sections and     *)
(* faults: a CRC error means a damaged section, and a section nothing      *)
(* happened to that fits the buffer is received once, in order.            *)
(*                                                                         *)
(* Init builds the stream with folds; StreamLaid says of it only where its *)
(* sections are (Layout): section n has the cells a[n] + 1 up to e[n].     *)
(* The invariant IInv then holds of a, e and the number n of the section   *)
(* in progress:                                                            *)
(*   NetInv      the counter expected is behind the sender's by the loss   *)
(*   PacketInv   the payload at hand is that of the last packet sent       *)
(*   SectionInv  what was put together are the first cells of section n,   *)
(*               and i_need is what its header or it still needs           *)
(*   PointerInv  p_new_pos is where the first section begins in the packet *)
(*   CountInv    sections nothing happened to are received before the      *)
(*               place reached in the stream and not yet behind it         *)
(*   OrderInv    what is received is in order but for disturbed sections,  *)
(*               and comes from no later than the packet at hand           *)
(*                                                                         *)
(* Inductions over the sections and over the folds go by the least number  *)
(* that would fail (Least, ByStep).                                        *)
(***************************************************************************)
EXTENDS PsiCheck, FiniteSetTheorems, SequenceTheorems, WellFoundedInduction, TLAPS

(* Induction over the natural numbers: a least number that is not in T has a
   predecessor that is. *)
LEMMA Least ==
  ASSUME NEW S, S \subseteq Nat, S # {}
  PROVE  \E x \in S : \A y \in S : x <= y
<1>1. PICK x \in S : \A y \in S : ~ (<<y, x>> \in OpToRel(<, Nat))
  BY NatLessThanWellFounded, WFMin
<1>2. ASSUME NEW y \in S PROVE x <= y
  <2>1. <<y, x>> \in Nat \X Nat /\ <<y, x>>[1] = y /\ <<y, x>>[2] = x
    OBVIOUS
  <2>2. ~ (y < x)
    BY <1>1, <2>1 DEF OpToRel
  <2> QED BY <2>2
<1> QED BY <1>1, <1>2

LEMMA ByStep ==
  ASSUME NEW T, 0 \in T, \A n \in Nat : n \in T => n + 1 \in T
  PROVE  \A n \in Nat : n \in T
<1> SUFFICES ASSUME Nat \ T # {} PROVE FALSE
  OBVIOUS
<1>1. PICK n \in Nat \ T : \A k \in Nat \ T : n <= k
  <2> DEFINE S == Nat \ T
  <2>1. S \subseteq Nat /\ S # {}
    OBVIOUS
  <2> HIDE DEF S
  <2>2. \E x \in S : \A y \in S : x <= y
    BY <2>1, Least
  <2> QED BY <2>2 DEF S
<1>2. n # 0 /\ n - 1 \in Nat /\ ~ (n <= n - 1)
  OBVIOUS
<1>3. n - 1 \in T
  BY <1>1, <1>2
<1>4. (n - 1) + 1 \in T /\ (n - 1) + 1 = n
  BY <1>2, <1>3
<1> QED BY <1>4

LEMMA LeastIsMin ==
  ASSUME NEW S, S \subseteq Nat, S # {}
  PROVE  Min(S) \in S /\ \A y \in S : Min(S) <= y
<1>1. \E x \in S : \A y \in S : x <= y
  BY Least
<1> QED BY <1>1 DEF Min

-----------------------------------------------------------------------------
(* The boundaries of packets: Cut(i) is the number of cells in i packets. *)

Cut(i) == i * Cells

LEMMA CutNext ==
  ASSUME NEW i \in Nat
  PROVE  Cut(i) \in Nat /\ Cut(i + 1) = Cut(i) + Cells /\ Cut(0) = 0
  BY SizesAssumption DEF Cut

LEMMA CutLess ==
  ASSUME NEW i \in Nat, NEW j \in Nat, Cut(i) < Cut(j)
  PROVE  Cut(i) + Cells <= Cut(j)
<1>1. Cells \in Nat
  BY SizesAssumption
<1>2. CASE j <= i
  <2>1. PICK d \in Nat : i = j + d
    <3>1. i - j \in Nat /\ i = j + (i - j)
      BY <1>2
    <3> QED BY <3>1
  <2>2. i * Cells = j * Cells + d * Cells /\ d * Cells \in Nat /\ j * Cells \in Nat
    BY <1>1, <2>1
  <2> QED BY <2>2 DEF Cut
<1>3. CASE i < j
  <2>1. PICK d \in Nat : j = i + 1 + d
    <3>1. j - i - 1 \in Nat /\ j = i + 1 + (j - i - 1)
      BY <1>3
    <3> QED BY <3>1
  <2>2. j * Cells = i * Cells + Cells + d * Cells /\ d * Cells \in Nat /\ i * Cells \in Nat
    BY <1>1, <2>1
  <2> QED BY <1>1, <2>2 DEF Cut
<1> QED BY <1>2, <1>3

LEMMA ModSmall ==
  ASSUME NEW x \in 0 .. Cells - 1
  PROVE  x % Cells = x
  BY SizesAssumption

(* What Stuffed adds: as much as there is to the next boundary, and no more. *)
LEMMA StuffedTo ==
  ASSUME NEW t \in Seq(Nat \X Nat)
  PROVE  \E q \in Nat :
           /\ Len(Stuffed(t)) = Cut(q) /\ Len(t) <= Cut(q) /\ Cut(q) < Len(t) + Cells
           /\ Stuffed(t) \in Seq(Nat \X Nat)
           /\ \A i \in 1 .. Len(t) : Stuffed(t)[i] = t[i]
           /\ \A i \in Len(t) + 1 .. Cut(q) : Stuffed(t)[i] = Stuffing
<1> DEFINE len == Len(t)
           d == len \div Cells
           r == len % Cells
           more == (Cells - r) % Cells
           fill == [i \in 1 .. more |-> Stuffing]
<1>1. len \in Nat /\ Cells \in Nat /\ Cells > 0
  BY SizesAssumption
<1>2. len = Cells * d + r /\ r \in 0 .. Cells - 1 /\ d \in Nat
  <2> HIDE DEF len
  <2> QED BY <1>1
<1>3. more = IF r = 0 THEN 0 ELSE Cells - r
  <2> HIDE DEF r, d
  <2>1. CASE r = 0
    BY <1>1, <1>2, <2>1
  <2>2. CASE r # 0
    <3>1. Cells - r \in 1 .. Cells - 1
      BY <1>1, <1>2, <2>2
    <3>2. Cells - r \in 0 .. Cells - 1
      BY <3>1, <1>1
    <3>3. (Cells - r) % Cells = Cells - r
      BY <3>2, ModSmall
    <3> QED BY <3>3, <2>2
  <2> QED BY <2>1, <2>2
<1>4. fill \in Seq(Nat \X Nat) /\ Len(fill) = more /\ \A i \in 1 .. more : fill[i] = Stuffing
  <2>1. more \in Nat
    BY <1>1, <1>2, <1>3
  <2>2. Stuffing \in Nat \X Nat
    BY DEF Stuffing
  <2> HIDE DEF more
  <2> QED BY <2>1, <2>2
<1>5. Stuffed(t) = t \o fill
  BY DEF Stuffed
<1> HIDE DEF fill, more
<1>6. /\ Stuffed(t) \in Seq(Nat \X Nat) /\ Len(Stuffed(t)) = len + more
      /\ \A i \in 1 .. Len(t) : Stuffed(t)[i] = t[i]
      /\ \A i \in Len(t) + 1 .. len + more : Stuffed(t)[i] = Stuffing
  <2>0. more \in Nat
    BY <1>1, <1>2, <1>3
  <2>1. \A i \in Len(t) + 1 .. len + more : Stuffed(t)[i] = fill[i - Len(t)] /\ i - Len(t) \in 1 .. more
    <3> SUFFICES ASSUME NEW i \in Len(t) + 1 .. len + more
                 PROVE  Stuffed(t)[i] = fill[i - Len(t)] /\ i - Len(t) \in 1 .. more
      OBVIOUS
    <3>1. Len(t) \in Nat /\ len = Len(t) /\ i \in Nat /\ Len(t) < i /\ i <= Len(t) + more
      BY <2>0
    <3>2. Stuffed(t)[i] = fill[i - Len(t)]
      BY <1>4, <1>5, <3>1
    <3> QED BY <2>0, <3>1, <3>2
  <2>2. Len(Stuffed(t)) = len + more /\ Stuffed(t) \in Seq(Nat \X Nat)
    BY <1>4, <1>5, ConcatProperties
  <2>3. \A i \in 1 .. Len(t) : Stuffed(t)[i] = t[i]
    BY <1>4, <1>5
  <2> QED BY <1>4, <2>1, <2>2, <2>3
<1> HIDE DEF len, d, r
<1>7. \E q \in Nat : len + more = Cut(q) /\ len <= Cut(q) /\ Cut(q) < len + Cells
  <2>1. CASE r = 0
    BY <1>1, <1>2, <1>3, <2>1 DEF Cut
  <2>2. CASE r # 0
    <3>1. len + more = (d + 1) * Cells
      BY <1>1, <1>2, <1>3, <2>2
    <3>2. d + 1 \in Nat /\ Cut(d + 1) = len + more
      BY <1>2, <3>1 DEF Cut
    <3>3. len <= len + more /\ len + more < len + Cells
      BY <1>1, <1>2, <1>3, <2>2
    <3> QED BY <3>2, <3>3
  <2> QED BY <2>1, <2>2
<1>8. PICK q \in Nat : len + more = Cut(q) /\ len <= Cut(q) /\ Cut(q) < len + Cells
  BY <1>7
<1>9. Len(t) = len
  BY DEF len
<1> QED BY <1>6, <1>8, <1>9

-----------------------------------------------------------------------------
(* Where the sections are in the stream: section n is its cells a[n] + 1 up to
   e[n], and what is in no section is stuffing, up to the end of the packet. *)

Sections == [1 .. MaxSections -> [length : Lengths, fill : BOOLEAN]]
Places == [1 .. MaxSections -> Nat]

Ordered(ss, s, a, e, k) ==
  \A n \in 1 .. k :
    /\ e[n] = a[n] + HeaderCells + ss[n].length /\ e[n] <= Len(s)
    /\ \A m \in n + 1 .. k : e[n] <= a[m]
Placed(s, a, e, k) == \A n \in 1 .. k : \A i \in a[n] + 1 .. e[n] : s[i] = <<n, i - a[n]>>
Covered(s, a, e, k) ==
  \A i \in 1 .. Len(s) : s[i] = Stuffing \/ \E n \in 1 .. k : a[n] < i /\ i <= e[n]
Filled(s) ==
  \A q, i, j \in Nat :
    Cut(q) < i /\ i <= j /\ j <= Cut(q) + Cells /\ i <= Len(s) /\ s[i] = Stuffing
      => j <= Len(s) /\ s[j] = Stuffing

Laid(ss, s, a, e, k) ==
  /\ s \in Seq(Nat \X Nat) /\ a \in Places /\ e \in Places
  /\ Ordered(ss, s, a, e, k) /\ Placed(s, a, e, k) /\ Covered(s, a, e, k) /\ Filled(s)

Layout(ss, s, a, e) ==
  /\ ss \in Sections /\ Laid(ss, s, a, e, MaxSections)
  /\ \E q \in Nat : Len(s) = Cut(q)

(* One more section. *)
LEMMA LaidNext ==
  ASSUME NEW ss \in Sections, NEW k \in Nat, k + 1 \in 1 .. MaxSections,
         NEW s, NEW a, NEW e, Laid(ss, s, a, e, k)
  PROVE  LET t == s \o [i \in 1 .. HeaderCells + ss[k + 1].length |-> <<k + 1, i>>]
         IN  Laid(ss, t, [a EXCEPT ![k + 1] = Len(s)], [e EXCEPT ![k + 1] = Len(t)], k + 1)
<1> DEFINE total == HeaderCells + ss[k + 1].length
           cells == [i \in 1 .. total |-> <<k + 1, i>>]
           t == s \o cells
           b == [a EXCEPT ![k + 1] = Len(s)]
           f == [e EXCEPT ![k + 1] = Len(t)]
<1>1. total \in Nat /\ total > 0
  <2>1. ss[k + 1].length \in Nat
    BY SizesAssumption DEF Sections
  <2> QED BY <2>1, SizesAssumption
<1>2. cells \in Seq(Nat \X Nat) /\ Len(cells) = total /\ \A i \in 1 .. total : cells[i] = <<k + 1, i>>
  <2> HIDE DEF total
  <2> QED BY <1>1
<1>3. s \in Seq(Nat \X Nat) /\ a \in Places /\ e \in Places
  BY DEF Laid
<1> HIDE DEF cells, total, b, f
<1>4. /\ t \in Seq(Nat \X Nat) /\ Len(t) = Len(s) + total
      /\ \A i \in 1 .. Len(s) : t[i] = s[i]
  <2>1. s \in Seq(Nat \X Nat) /\ cells \in Seq(Nat \X Nat)
    BY <1>2, <1>3
  <2>2. /\ s \o cells \in Seq(Nat \X Nat)
        /\ Len(s \o cells) = Len(s) + Len(cells)
        /\ \A i \in 1 .. Len(s) + Len(cells) :
             (s \o cells)[i] = IF i <= Len(s) THEN s[i] ELSE cells[i - Len(s)]
    BY <2>1, ConcatProperties
  <2>3. \A i \in 1 .. Len(s) : i <= Len(s) /\ i \in 1 .. Len(s) + Len(cells)
    BY <2>1, LenProperties
  <2> QED BY <1>2, <2>2, <2>3
<1>5. \A i \in Len(s) + 1 .. Len(t) : t[i] = <<k + 1, i - Len(s)>>
  <2> SUFFICES ASSUME NEW i \in Len(s) + 1 .. Len(t)
               PROVE  t[i] = <<k + 1, i - Len(s)>>
    OBVIOUS
  <2>1. Len(s) \in Nat /\ Len(t) = Len(s) + total
    BY <1>3, <1>4
  <2>2. i - Len(s) \in 1 .. total
    <3> HIDE DEF t
    <3> QED BY <1>1, <2>1
  <2>3. t[i] = cells[i - Len(s)]
    BY <1>2, <1>3, <1>4, <2>1, <2>2
  <2> QED BY <1>2, <2>2, <2>3
<1> HIDE DEF t
<1>6. /\ b \in Places /\ f \in Places
      /\ b[k + 1] = Len(s) /\ f[k + 1] = Len(t)
      /\ \A n \in 1 .. k : b[n] = a[n] /\ f[n] = e[n]
  <2>1. Len(s) \in Nat /\ Len(t) \in Nat
    BY <1>3, <1>4, LenProperties
  <2> QED BY <1>3, <2>1 DEF Places, b, f
<1>7. /\ Len(s) \in Nat /\ Len(t) \in Nat
      /\ \A n \in 1 .. k + 1 : n \in 1 .. k \/ n = k + 1
      /\ \A n \in 1 .. k : a[n] \in Nat /\ e[n] \in Nat /\ e[n] <= Len(s)
  <2>1. 1 .. k \subseteq 1 .. MaxSections
    BY SizesAssumption
  <2>2. \A n \in 1 .. k : e[n] <= Len(s)
    BY DEF Laid, Ordered
  <2>3. Len(s) \in Nat /\ Len(t) \in Nat
    BY <1>3, <1>4, LenProperties
  <2>4. \A n \in 1 .. k + 1 : n \in 1 .. k \/ n = k + 1
    OBVIOUS
  <2> QED BY <1>3, <2>1, <2>2, <2>3, <2>4 DEF Places
<1>8. Ordered(ss, t, b, f, k + 1)
  <2>1. ASSUME NEW n \in 1 .. k
        PROVE  /\ f[n] = b[n] + HeaderCells + ss[n].length /\ f[n] <= Len(t)
               /\ \A m \in n + 1 .. k + 1 : f[n] <= b[m]
    <3>1. /\ e[n] = a[n] + HeaderCells + ss[n].length /\ e[n] <= Len(s)
          /\ \A m \in n + 1 .. k : e[n] <= a[m]
      BY DEF Laid, Ordered
    <3>2. \A m \in n + 1 .. k + 1 : m \in n + 1 .. k \/ m = k + 1
      OBVIOUS
    <3>3. n + 1 .. k \subseteq 1 .. k
      OBVIOUS
    <3>4. \A m \in n + 1 .. k + 1 : f[n] <= b[m]
      BY <1>6, <3>1, <3>2, <3>3
    <3>5. f[n] = b[n] + HeaderCells + ss[n].length
      BY <1>6, <3>1
    <3>6. f[n] <= Len(t)
      BY <1>1, <1>4, <1>6, <1>7, <3>1
    <3> QED BY <3>4, <3>5, <3>6
  <2>2. /\ f[k + 1] = b[k + 1] + HeaderCells + ss[k + 1].length /\ f[k + 1] <= Len(t)
    <3>1. ss[k + 1].length \in Nat /\ HeaderCells \in Nat
      BY SizesAssumption DEF Sections
    <3> QED BY <3>1, <1>4, <1>6, <1>7 DEF total
  <2>3. (k + 1) + 1 .. k + 1 = {}
    OBVIOUS
  <2> QED BY <1>7, <2>1, <2>2, <2>3 DEF Ordered
<1>9. Placed(t, b, f, k + 1)
  <2>1. ASSUME NEW n \in 1 .. k, NEW i \in b[n] + 1 .. f[n] PROVE t[i] = <<n, i - b[n]>>
    <3>1. i \in a[n] + 1 .. e[n]
      BY <1>6
    <3>2. s[i] = <<n, i - a[n]>>
      BY <3>1 DEF Laid, Placed
    <3>3. i \in 1 .. Len(s)
      BY <1>7, <3>1
    <3> QED BY <1>4, <1>6, <3>2, <3>3
  <2>2. ASSUME NEW i \in b[k + 1] + 1 .. f[k + 1] PROVE t[i] = <<k + 1, i - b[k + 1]>>
    BY <1>5, <1>6
  <2> QED BY <1>7, <2>1, <2>2 DEF Placed
<1>10. Covered(t, b, f, k + 1)
  <2> SUFFICES ASSUME NEW i \in 1 .. Len(t), t[i] # Stuffing
               PROVE  \E n \in 1 .. k + 1 : b[n] < i /\ i <= f[n]
    BY DEF Covered
  <2>1. CASE i <= Len(s)
    <3>1. i \in 1 .. Len(s) /\ s[i] # Stuffing
      BY <1>4, <1>7, <2>1
    <3>2. PICK n \in 1 .. k : a[n] < i /\ i <= e[n]
      BY <3>1 DEF Laid, Covered
    <3>3. n \in 1 .. k + 1
      OBVIOUS
    <3> QED BY <1>6, <3>2, <3>3
  <2>2. CASE ~ (i <= Len(s))
    <3>1. b[k + 1] < i /\ i <= f[k + 1] /\ k + 1 \in 1 .. k + 1
      BY <1>6, <1>7, <2>2
    <3> QED BY <3>1
  <2> QED BY <2>1, <2>2
<1>11. Filled(t)
  <2> SUFFICES ASSUME NEW q \in Nat, NEW i \in Nat, NEW j \in Nat,
                      Cut(q) < i, i <= j, j <= Cut(q) + Cells, i <= Len(t), t[i] = Stuffing
               PROVE  j <= Len(t) /\ t[j] = Stuffing
    BY DEF Filled
  <2>1. i > 0 /\ Cut(q) \in Nat
    BY CutNext
  <2>2. i <= Len(s)
    <3> SUFFICES ASSUME ~ (i <= Len(s)) PROVE FALSE
      OBVIOUS
    <3>1. i \in Len(s) + 1 .. Len(t)
      BY <1>7
    <3>2. t[i] = <<k + 1, i - Len(s)>>
      BY <3>1, <1>5
    <3> QED BY <3>2 DEF Stuffing
  <2>3. s[i] = Stuffing
    BY <1>4, <1>7, <2>1, <2>2
  <2>4. j <= Len(s) /\ s[j] = Stuffing
    BY <2>2, <2>3 DEF Laid, Filled
  <2>5. j \in 1 .. Len(s) /\ j <= Len(t)
    BY <1>1, <1>4, <1>7, <2>1, <2>4
  <2> QED BY <1>4, <2>4, <2>5
<1>12. Laid(ss, t, b, f, k + 1)
  BY <1>4, <1>6, <1>8, <1>9, <1>10, <1>11 DEF Laid
<1> QED BY <1>12 DEF b, f, t, cells, total

(* And stuffing after it. *)
LEMMA LaidStuffed ==
  ASSUME NEW ss, NEW k \in 0 .. MaxSections, NEW t, NEW a, NEW e, Laid(ss, t, a, e, k)
  PROVE  Laid(ss, Stuffed(t), a, e, k) /\ \E q \in Nat : Len(Stuffed(t)) = Cut(q)
<1> DEFINE s == Stuffed(t)
<1>1. t \in Seq(Nat \X Nat) /\ a \in Places /\ e \in Places
  BY DEF Laid
<1>2. PICK q \in Nat : /\ Len(s) = Cut(q) /\ Len(t) <= Cut(q) /\ Cut(q) < Len(t) + Cells
                       /\ s \in Seq(Nat \X Nat)
                       /\ \A i \in 1 .. Len(t) : s[i] = t[i]
                       /\ \A i \in Len(t) + 1 .. Cut(q) : s[i] = Stuffing
  BY <1>1, StuffedTo
<1> HIDE DEF s
<1>3. Len(t) \in Nat /\ Len(s) \in Nat /\ Len(t) <= Len(s) /\ Cells \in Nat
  BY <1>1, <1>2, SizesAssumption
<1>4. Ordered(ss, s, a, e, k)
  <2> SUFFICES ASSUME NEW n \in 1 .. k
               PROVE  /\ e[n] = a[n] + HeaderCells + ss[n].length /\ e[n] <= Len(s)
                      /\ \A m \in n + 1 .. k : e[n] <= a[m]
    BY DEF Ordered
  <2>1. /\ e[n] = a[n] + HeaderCells + ss[n].length /\ e[n] <= Len(t)
        /\ \A m \in n + 1 .. k : e[n] <= a[m]
    BY DEF Laid, Ordered
  <2>2. e[n] \in Nat
    <3>1. n \in 1 .. MaxSections
      BY SizesAssumption
    <3> QED BY <3>1, <1>1 DEF Places
  <2> QED BY <1>3, <2>1, <2>2
<1>5. Placed(s, a, e, k)
  <2> SUFFICES ASSUME NEW n \in 1 .. k, NEW i \in a[n] + 1 .. e[n]
               PROVE  s[i] = <<n, i - a[n]>>
    BY DEF Placed
  <2>1. t[i] = <<n, i - a[n]>> /\ e[n] <= Len(t)
    BY DEF Laid, Placed, Ordered
  <2>2. e[n] \in Nat /\ a[n] \in Nat
    <3>1. n \in 1 .. MaxSections
      BY SizesAssumption
    <3> QED BY <3>1, <1>1 DEF Places
  <2>3. i \in 1 .. Len(t)
    BY <1>3, <2>1, <2>2
  <2> QED BY <1>2, <2>1, <2>3
<1>6. Covered(s, a, e, k)
  <2> SUFFICES ASSUME NEW i \in 1 .. Len(s), s[i] # Stuffing
               PROVE  \E n \in 1 .. k : a[n] < i /\ i <= e[n]
    BY DEF Covered
  <2>1. i <= Len(t)
    <3> SUFFICES ASSUME ~ (i <= Len(t)) PROVE FALSE
      OBVIOUS
    <3>1. i \in Len(t) + 1 .. Cut(q)
      BY <1>2, <1>3
    <3> QED BY <3>1, <1>2
  <2>2. i \in 1 .. Len(t) /\ t[i] # Stuffing
    BY <1>2, <1>3, <2>1
  <2> QED BY <2>2 DEF Laid, Covered
<1>7. Filled(s)
  <2> SUFFICES ASSUME NEW p \in Nat, NEW i \in Nat, NEW j \in Nat,
                      Cut(p) < i, i <= j, j <= Cut(p) + Cells, i <= Len(s), s[i] = Stuffing
               PROVE  j <= Len(s) /\ s[j] = Stuffing
    BY DEF Filled
  <2>1. i > 0 /\ Cut(p) \in Nat
    BY CutNext
  <2>2. j <= Len(s)
    <3>1. Cut(p) < Cut(q)
      BY <1>2, <1>3, <2>1
    <3>2. Cut(p) + Cells <= Cut(q)
      BY <3>1, CutLess
    <3> QED BY <3>2, <1>2, <1>3, <2>1
  <2>3. CASE i <= Len(t)
    <3>0. i \in 1 .. Len(t)
      BY <1>3, <2>1, <2>3
    <3>1. t[i] = Stuffing
      BY <1>2, <3>0
    <3>2. j <= Len(t) /\ t[j] = Stuffing
      BY <2>3, <3>1 DEF Laid, Filled
    <3>3. j \in 1 .. Len(t)
      BY <2>1, <3>2, <1>3
    <3> QED BY <1>2, <2>2, <3>2, <3>3
  <2>4. CASE ~ (i <= Len(t))
    <3>1. j \in Len(t) + 1 .. Cut(q)
      BY <1>2, <1>3, <2>2, <2>4
    <3> QED BY <1>2, <2>2, <3>1
  <2> QED BY <2>3, <2>4
<1>8. Laid(ss, s, a, e, k)
  BY <1>1, <1>2, <1>4, <1>5, <1>6, <1>7 DEF Laid
<1> QED BY <1>2, <1>8 DEF s

-----------------------------------------------------------------------------
(* The stream is laid out like this.  FoldLeft applies AddSection along the set
   of the numbers of the sections, from a function on the subsets of it, Iter. *)

Ids(ss) == [n \in 1 .. Len(ss) |-> n]

Iter(f, ss, n) ==
  f = [t \in SUBSET (1 .. n) |-> IF t = {} THEN <<>> ELSE AddSection(ss, f[t \ {Max(t)}], Ids(ss)[Max(t)])]

LEMMA LastOf ==
  ASSUME NEW n \in Nat, NEW t \in SUBSET (1 .. n + 1), n + 1 \in t
  PROVE  Max(t) = n + 1 /\ t \ {n + 1} \in SUBSET (1 .. n)
<1>1. \A y \in t : y \in Int /\ n + 1 >= y
  OBVIOUS
<1>2. \A x \in t : (\A y \in t : x >= y) => x = n + 1
  BY <1>1
<1>3. Max(t) = n + 1
  BY <1>1, <1>2 DEF Max
<1> QED BY <1>3

LEMMA IterExists ==
  ASSUME NEW ss
  PROVE  \A n \in Nat : \E f : Iter(f, ss, n)
<1> DEFINE T == {n \in Nat : \E f : Iter(f, ss, n)}
           Next1(s, i) == AddSection(ss, s, Ids(ss)[i])
<1> HIDE DEF Next1
<1>0. \A f, n : Iter(f, ss, n) <=>
        f = [t \in SUBSET (1 .. n) |-> IF t = {} THEN <<>> ELSE Next1(f[t \ {Max(t)}], Max(t))]
  BY DEF Iter, Next1
<1>1. 0 \in T
  <2> DEFINE f == [t \in SUBSET (1 .. 0) |-> <<>>]
  <2>1. f = [t \in SUBSET (1 .. 0) |-> IF t = {} THEN <<>> ELSE Next1(f[t \ {Max(t)}], Max(t))]
    <3>1. \A t \in SUBSET (1 .. 0) : t = {}
      OBVIOUS
    <3> QED BY <3>1
  <2> QED BY <2>1, <1>0
<1>2. ASSUME NEW n \in Nat, n \in T PROVE n + 1 \in T
  <2>1. PICK f : Iter(f, ss, n)
    BY <1>2
  <2> DEFINE g == [t \in SUBSET (1 .. n + 1) |->
                     IF n + 1 \in t THEN Next1(f[t \ {n + 1}], n + 1) ELSE f[t]]
             h == [t \in SUBSET (1 .. n + 1) |->
                     IF t = {} THEN <<>> ELSE Next1(g[t \ {Max(t)}], Max(t))]
  <2>2. ASSUME NEW t \in SUBSET (1 .. n + 1) PROVE g[t] = h[t]
    <3>1. CASE n + 1 \in t
      <4>1. Max(t) = n + 1 /\ t \ {n + 1} \in SUBSET (1 .. n) /\ t # {}
        BY <3>1, LastOf
      <4>2. t \ {n + 1} \in SUBSET (1 .. n + 1)
        OBVIOUS
      <4>3. g[t \ {n + 1}] = f[t \ {n + 1}]
        BY <4>2
      <4> QED BY <3>1, <4>1, <4>3
    <3>2. CASE n + 1 \notin t
      <4>0. t \in SUBSET (1 .. n)
        <5>1. \A i \in t : i \in 1 .. n + 1 /\ i # n + 1
          BY <3>2
        <5>2. \A i \in t : i \in 1 .. n
          BY <5>1
        <5> QED BY <5>2
      <4>1. t \ {Max(t)} \in SUBSET (1 .. n + 1) /\ n + 1 \notin t \ {Max(t)}
        BY <3>2
      <4>2. g[t \ {Max(t)}] = f[t \ {Max(t)}] /\ g[t] = f[t]
        BY <3>2, <4>0, <4>1
      <4>3. f[t] = IF t = {} THEN <<>> ELSE Next1(f[t \ {Max(t)}], Max(t))
        BY <2>1, <1>0, <4>0
      <4> QED BY <4>2, <4>3
    <3> QED BY <3>1, <3>2
  <2>3. g = h
    BY <2>2
  <2>4. Iter(g, ss, n + 1)
    BY <2>3, <1>0
  <2> QED BY <2>4
<1> HIDE DEF T
<1>3. \A n \in Nat : n \in T
  BY <1>1, <1>2, ByStep
<1> QED BY <1>3 DEF T

LEMMA StreamIsIter ==
  ASSUME NEW ss \in Sections
  PROVE  \E f : Iter(f, ss, MaxSections) /\ Stream(ss) = f[1 .. MaxSections]
<1> DEFINE f == CHOOSE f : Iter(f, ss, MaxSections)
<1>1. Len(ss) = MaxSections /\ DOMAIN Ids(ss) = 1 .. MaxSections /\ MaxSections \in Nat
  BY SizesAssumption DEF Sections, Ids
<1>2. Iter(f, ss, MaxSections)
  BY <1>1, IterExists
<1>3. Stream(ss) = FoldLeft(LAMBDA s, n : AddSection(ss, s, n), <<>>, Ids(ss))
  BY DEF Stream, Ids
<1>4. Stream(ss) = f[1 .. MaxSections]
  BY <1>1, <1>3 DEF FoldLeft, MapThenFoldSet, Iter
<1> QED BY <1>2, <1>4

LEMMA StreamLaid ==
  ASSUME NEW ss \in Sections
  PROVE  \E a, e : Layout(ss, Stream(ss), a, e)
<1>1. PICK f : Iter(f, ss, MaxSections) /\ Stream(ss) = f[1 .. MaxSections]
  BY StreamIsIter
<1>2. MaxSections \in Nat /\ MaxSections > 0 /\ Len(ss) = MaxSections
  BY SizesAssumption DEF Sections
<1> DEFINE Good(k) == \E a, e : /\ Laid(ss, f[1 .. k], a, e, k)
                                /\ k = MaxSections => \E q \in Nat : Len(f[1 .. k]) = Cut(q)
           T == {k \in Nat : k <= MaxSections => Good(k)}
<1>3. 0 \in T
  <2>1. f[1 .. 0] = <<>>
    <3>1. {} \in SUBSET (1 .. MaxSections) /\ 1 .. 0 = {}
      OBVIOUS
    <3> QED BY <1>1, <3>1 DEF Iter
  <2> DEFINE a == [n \in 1 .. MaxSections |-> 0]
  <2>2. /\ <<>> \in Seq(Nat \X Nat) /\ Len(<<>>) = 0
        /\ a \in Places
    BY DEF Places
  <2>3. Ordered(ss, <<>>, a, a, 0) /\ Placed(<<>>, a, a, 0) /\ Covered(<<>>, a, a, 0)
    <3>1. 1 .. 0 = {} /\ 1 .. Len(<<>>) = {}
      OBVIOUS
    <3> QED BY <3>1 DEF Ordered, Placed, Covered
  <2>4. Filled(<<>>)
    <3>1. \A q \in Nat : Cut(q) \in Nat
      BY CutNext
    <3>2. \A q, i \in Nat : ~ (Cut(q) < i /\ i <= 0)
      BY <3>1
    <3> QED BY <2>2, <3>2 DEF Filled
  <2>5. Laid(ss, f[1 .. 0], a, a, 0)
    BY <2>1, <2>2, <2>3, <2>4 DEF Laid
  <2>6. Good(0)
    BY <2>5, <1>2
  <2> QED BY <2>6
<1>4. ASSUME NEW k \in Nat, k \in T PROVE k + 1 \in T
  <2> SUFFICES ASSUME k + 1 <= MaxSections PROVE Good(k + 1)
    OBVIOUS
  <2>1. PICK a, e : Laid(ss, f[1 .. k], a, e, k)
    BY <1>2, <1>4
  <2>2. f[1 .. k + 1] = AddSection(ss, f[1 .. k], k + 1)
    <3>1. /\ 1 .. k + 1 \in SUBSET (1 .. k + 1) /\ k + 1 \in 1 .. k + 1
          /\ 1 .. k + 1 \in SUBSET (1 .. MaxSections) /\ 1 .. k + 1 # {}
      <4>1. k + 1 \in 1 .. k + 1
        OBVIOUS
      <4>2. \A i \in 1 .. k + 1 : i \in 1 .. MaxSections
        BY <1>2
      <4> QED BY <4>1, <4>2
    <3>2. Max(1 .. k + 1) = k + 1
      BY <3>1, LastOf
    <3>3. (1 .. k + 1) \ {k + 1} = 1 .. k
      OBVIOUS
    <3>4. Ids(ss)[k + 1] = k + 1
      BY <1>2 DEF Ids
    <3>5. f[1 .. k + 1] = AddSection(ss, f[(1 .. k + 1) \ {Max(1 .. k + 1)}], Ids(ss)[Max(1 .. k + 1)])
      BY <1>1, <3>1 DEF Iter
    <3> QED BY <3>2, <3>3, <3>4, <3>5
  <2> DEFINE s == f[1 .. k]
             t == s \o [i \in 1 .. HeaderCells + ss[k + 1].length |-> <<k + 1, i>>]
             b == [a EXCEPT ![k + 1] = Len(s)]
             d == [e EXCEPT ![k + 1] = Len(t)]
  <2>3. Laid(ss, t, b, d, k + 1)
    <3>1. k + 1 \in 1 .. MaxSections
      BY <1>2
    <3> QED BY <2>1, <3>1, LaidNext
  <2> HIDE DEF b, d
  <2>4. CASE ss[k + 1].fill \/ k + 1 = Len(ss)
    <3>1. f[1 .. k + 1] = Stuffed(t)
      BY <2>2, <2>4 DEF AddSection
    <3> HIDE DEF t
    <3>2. k + 1 \in 0 .. MaxSections
      OBVIOUS
    <3>3. Laid(ss, Stuffed(t), b, d, k + 1) /\ \E q \in Nat : Len(Stuffed(t)) = Cut(q)
      BY <2>3, <3>2, LaidStuffed
    <3> QED BY <3>1, <3>3
  <2>5. CASE ~ (ss[k + 1].fill \/ k + 1 = Len(ss))
    <3>1. f[1 .. k + 1] = t
      BY <2>2, <2>5 DEF AddSection
    <3> QED BY <2>3, <2>5, <3>1, <1>2
  <2> QED BY <2>4, <2>5
<1> HIDE DEF T
<1>5. \A k \in Nat : k \in T
  BY <1>3, <1>4, ByStep
<1>6. Good(MaxSections)
  BY <1>2, <1>5 DEF T
<1> QED BY <1>1, <1>6 DEF Layout

-----------------------------------------------------------------------------
(* The invariant.  Pos is how far the stream was read: i_available cells of the
   packet at hand are left.  n is the section in progress, 0 for none. *)

Pos == Cut(sent) - i_available
Busy == i_available > 0 \/ (p_current_section # None /\ lostRun = 0)

NetInv ==
  /\ sent \in Nat /\ lostRun \in Nat /\ lostRun < Period /\ lostRun <= sent
  /\ Cut(sent) <= Len(stream)
  /\ i_available \in 0 .. Cells /\ (i_available > 0 => sent > 0 /\ lostRun = 0)
  /\ (i_available > 0 \/ p_current_section # None) =>
       i_continuity_counter = (sent - lostRun) % Period

\* a cell arrives as it was sent, unless damage is noted of it
Carried(c, o, dmg) == c = o \/ (c = Damaged /\ o[2] > HeaderCells /\ o[1] \in dmg)

\* p is the packet that starts behind cell b of the stream
PacketOf(s, p, b, dmg) ==
  /\ p \in Seq(Nat \X Nat) /\ Len(p) = Cells
  /\ \A k \in 1 .. Cells : Carried(p[k], s[b + k], dmg)
PacketInv == i_available > 0 => PacketOf(stream, payload, Cut(sent) - Cells, damaged)

Short(a, e, n) == e[n] - a[n] <= HeaderCells + MaxLength

\* cur is what came of section n up to q, and need what its header or it still needs
InProgress(a, e, dmg, n, q, cur, need, b) ==
  /\ n \in 1 .. MaxSections /\ cur \in Seq(Nat \X Nat) /\ b \in BOOLEAN
  /\ q = a[n] + Len(cur) /\ q < e[n]
  /\ \A i \in 1 .. Len(cur) : Carried(cur[i], <<n, i>>, dmg)
  /\ b => Len(cur) >= HeaderCells /\ need = e[n] - q /\ Short(a, e, n)
  /\ ~b => Len(cur) < HeaderCells /\ need = HeaderCells - Len(cur)
SectionInv(a, e, n) ==
  IF Busy THEN InProgress(a, e, damaged, n, Pos, p_current_section, i_need, b_complete_header) ELSE n = 0

NoStart(a, lo, hi) == \A m \in 1 .. MaxSections : ~ (lo <= a[m] /\ a[m] < hi)

\* new is where the first section starts in the packet behind cell b
First(a, b, new) ==
  /\ new \in 0 .. Cells
  /\ new = 0 => NoStart(a, b, b + Cells)
  /\ new > 0 => NoStart(a, b, b + new - 1) /\ \E m \in 1 .. MaxSections : a[m] = b + new - 1
\* p_new_pos is there for the section that began in an earlier packet
PointerInv(a, n) ==
  i_available > 0 =>
    /\ a[n] < Cut(sent) - Cells => First(a, Cut(sent) - Cells, p_new_pos)
    /\ a[n] >= Cut(sent) - Cells => p_new_pos = 0

Times(rcv, m) == Cardinality({i \in DOMAIN rcv : rcv[i] = m})
Clean(dist, dmg) == (1 .. MaxSections) \ (dist \cup dmg)

\* sections nothing happened to are received before q, and n is the one around q
Counts(a, e, clean, rcv, n, q) ==
  \A m \in clean :
    Short(a, e, m) =>
      /\ e[m] <= q => Times(rcv, m) = 1
      /\ q < e[m] => Times(rcv, m) = 0
      /\ a[m] < q /\ q < e[m] => m = n
CountInv(a, e, n) == Counts(a, e, Clean(disturbed, damaged), received, n, Pos)

\* the sections in the packet before hi
Within(a, e, hi) == {m \in 1 .. MaxSections : a[m] < hi /\ hi - Cells < e[m]}

Behind(a, e, dist, rcv, q, hi) ==
  \A i \in DOMAIN rcv :
    /\ rcv[i] \in 1 .. MaxSections /\ Short(a, e, rcv[i]) /\ e[rcv[i]] <= hi
    /\ e[rcv[i]] <= q \/ Within(a, e, hi) \subseteq dist
Rising(dist, rcv) ==
  \A i, j \in DOMAIN rcv : i < j => rcv[i] <= rcv[j] \/ {rcv[i], rcv[j]} \subseteq dist
OrderInv(a, e) ==
  /\ received \in Seq(1 .. MaxSections)
  /\ Behind(a, e, disturbed, received, Pos, Cut(sent)) /\ Rising(disturbed, received)

Inv(a, e, n) ==
  /\ Layout(sections, stream, a, e)
  /\ NetInv /\ PacketInv /\ SectionInv(a, e, n) /\ PointerInv(a, n)
  /\ CountInv(a, e, n) /\ OrderInv(a, e) /\ NoFalseCrcError

IInv == \E a, e, n : Inv(a, e, n)

-----------------------------------------------------------------------------
(* What a layout says of sections and of packets. *)

Spans(a, e) ==
  /\ \A n \in 1 .. MaxSections : a[n] \in Nat /\ e[n] \in Nat /\ a[n] + HeaderCells < e[n] /\ a[n] < e[n]
  /\ \A n, m \in 1 .. MaxSections : n < m => e[n] <= a[m]

LEMMA LayoutSpans ==
  ASSUME NEW ss, NEW s, NEW a, NEW e, Layout(ss, s, a, e)
  PROVE  /\ Spans(a, e) /\ s \in Seq(Nat \X Nat) /\ Len(s) \in Nat
         /\ \A n \in 1 .. MaxSections : e[n] <= Len(s) /\ e[n] - a[n] = HeaderCells + ss[n].length
<1>1. /\ ss \in Sections /\ a \in Places /\ e \in Places /\ s \in Seq(Nat \X Nat)
      /\ Ordered(ss, s, a, e, MaxSections)
  BY DEF Layout, Laid
<1>2. ASSUME NEW n \in 1 .. MaxSections
      PROVE  /\ a[n] \in Nat /\ e[n] \in Nat /\ a[n] + HeaderCells < e[n] /\ a[n] < e[n]
             /\ e[n] <= Len(s) /\ e[n] - a[n] = HeaderCells + ss[n].length
  <2>1. a[n] \in Nat /\ e[n] \in Nat /\ ss[n].length \in Nat \ {0}
    BY <1>1, SizesAssumption DEF Places, Sections
  <2>2. e[n] = a[n] + HeaderCells + ss[n].length /\ e[n] <= Len(s)
    BY <1>1 DEF Ordered
  <2> QED BY <2>1, <2>2, SizesAssumption
<1>3. ASSUME NEW n \in 1 .. MaxSections, NEW m \in 1 .. MaxSections, n < m PROVE e[n] <= a[m]
  <2>1. m \in n + 1 .. MaxSections
    BY <1>3, SizesAssumption
  <2> QED BY <2>1, <1>1 DEF Ordered
<1>4. Len(s) \in Nat
  BY <1>1, LenProperties
<1> QED BY <1>1, <1>2, <1>3, <1>4 DEF Spans

(* A cell of a section is where it should be, and any other is stuffing. *)
LEMMA CellOf ==
  ASSUME NEW ss, NEW s, NEW a, NEW e, Layout(ss, s, a, e), NEW n \in 1 .. MaxSections,
         NEW i \in Nat, a[n] < i, i <= e[n]
  PROVE  i \in 1 .. Len(s) /\ s[i] = <<n, i - a[n]>> /\ s[i] # Stuffing
<1>1. a[n] \in Nat /\ e[n] \in Nat /\ e[n] <= Len(s) /\ Len(s) \in Nat
  BY LayoutSpans DEF Spans
<1>2. i \in a[n] + 1 .. e[n] /\ i \in 1 .. Len(s)
  BY <1>1
<1>3. Placed(s, a, e, MaxSections)
  BY DEF Layout, Laid
<1>4. s[i] = <<n, i - a[n]>>
  BY <1>2, <1>3 DEF Placed
<1>5. n # 0
  OBVIOUS
<1> QED BY <1>2, <1>4, <1>5 DEF Stuffing

LEMMA OwnerOf ==
  ASSUME NEW ss, NEW s, NEW a, NEW e, Layout(ss, s, a, e),
         NEW i \in 1 .. Len(s), s[i] # Stuffing
  PROVE  \E n \in 1 .. MaxSections : a[n] < i /\ i <= e[n] /\ s[i] = <<n, i - a[n]>>
<1>1. PICK n \in 1 .. MaxSections : a[n] < i /\ i <= e[n]
  BY DEF Layout, Laid, Covered
<1>2. i \in Nat
  OBVIOUS
<1> QED BY <1>1, <1>2, CellOf

(* Two sections that have a cell in common, or one the other's order. *)
LEMMA Apart ==
  ASSUME NEW a, NEW e, Spans(a, e), NEW n \in 1 .. MaxSections, NEW m \in 1 .. MaxSections
  PROVE  /\ n # m => e[n] <= a[m] \/ e[m] <= a[n]
         /\ a[n] < a[m] => e[n] <= a[m]
         /\ e[n] < e[m] => e[n] <= a[m]
         /\ e[n] <= a[m] => n < m
<1>1. n < m \/ n = m \/ m < n
  BY SizesAssumption
<1>2. /\ a[n] \in Nat /\ e[n] \in Nat /\ a[n] < e[n]
      /\ a[m] \in Nat /\ e[m] \in Nat /\ a[m] < e[m]
      /\ n < m => e[n] <= a[m]
      /\ m < n => e[m] <= a[n]
  BY DEF Spans
<1> QED BY <1>1, <1>2

(* The i-th packet. *)
LEMMA PayloadIs ==
  ASSUME NEW i \in Nat, i > 0, stream \in Seq(Nat \X Nat), Cut(i) <= Len(stream), NEW dmg
  PROVE  /\ PacketOf(stream, Payload(i), Cut(i) - Cells, dmg)
         /\ \A k \in 1 .. Cells : Payload(i)[k] = stream[Cut(i) - Cells + k]
         /\ Cut(i) - Cells \in Nat
<1>1. /\ i - 1 \in Nat /\ Cut(i - 1) \in Nat /\ Cut(i) = Cut(i - 1) + Cells
      /\ Cells \in Nat /\ Cells > 0
  <2>1. i - 1 \in Nat /\ (i - 1) + 1 = i
    OBVIOUS
  <2>2. Cut(i - 1) \in Nat /\ Cut((i - 1) + 1) = Cut(i - 1) + Cells
    BY <2>1, CutNext
  <2> QED BY <2>1, <2>2, SizesAssumption
<1>2. Payload(i) = SubSeq(stream, Cut(i - 1) + 1, Cut(i))
  BY DEF Payload, Cut
<1> DEFINE p == Payload(i)
           b == Cut(i - 1)
<1>3. /\ p \in Seq(Nat \X Nat) /\ Len(p) = Cells
      /\ \A k \in 1 .. Cells : p[k] = stream[b + k]
  <2> HIDE DEF b
  <2>2. p = SubSeq(stream, b + 1, b + Cells) /\ Cut(i) = b + Cells
    BY <1>1, <1>2 DEF b
  <2> HIDE DEF p
  <2>3. b \in Nat /\ b + Cells <= Len(stream) /\ Len(stream) \in Nat
    BY <2>2, <1>1, LenProperties DEF b
  <2> QED BY <2>2, <2>3, <1>1
<1>4. b = Cut(i) - Cells
  BY <1>1
<1> QED BY <1>1, <1>3, <1>4 DEF PacketOf, Carried

(* The sections in a packet are found in its cells. *)
LEMMA WithinPacket ==
  ASSUME NEW a, NEW e, Layout(sections, stream, a, e),
         NEW i \in Nat, i > 0, Cut(i) <= Len(stream)
  PROVE  Within(a, e, Cut(i)) \subseteq SectionsIn(Payload(i))
<1> SUFFICES ASSUME NEW m \in 1 .. MaxSections, a[m] < Cut(i), Cut(i) - Cells < e[m]
             PROVE  m \in SectionsIn(Payload(i))
  BY DEF Within
<1> DEFINE b == Cut(i) - Cells
           k == IF a[m] <= b THEN 1 ELSE a[m] + 1 - b
<1>1. stream \in Seq(Nat \X Nat) /\ Spans(a, e)
  BY LayoutSpans
<1>2. /\ PacketOf(stream, Payload(i), b, {}) /\ b \in Nat
      /\ \A c \in 1 .. Cells : Payload(i)[c] = stream[b + c]
  BY <1>1, PayloadIs
<1>3. Cut(i) = b + Cells /\ a[m] \in Nat /\ e[m] \in Nat /\ a[m] < e[m] /\ Cells \in Nat \ {0}
  <2>1. Cut(i) \in Nat
    BY CutNext
  <2> QED BY <2>1, <1>1, SizesAssumption DEF Spans
<1> HIDE DEF b
<1>4. k \in 1 .. Cells /\ a[m] < b + k /\ b + k <= e[m] /\ b + k \in Nat
  BY <1>2, <1>3 DEF b
<1> HIDE DEF k
<1>5. PICK j \in Nat : j = b + k
  BY <1>4
<1>6. stream[j] = <<m, j - a[m]>>
  <2>1. a[m] < j /\ j <= e[m]
    BY <1>4, <1>5
  <2> QED BY <2>1, CellOf
<1>7. Payload(i)[k] = stream[j] /\ k \in DOMAIN Payload(i)
  BY <1>2, <1>4, <1>5 DEF PacketOf
<1>8. Payload(i)[k][1] = m /\ m # 0
  BY <1>6, <1>7
<1> QED BY <1>7, <1>8 DEF SectionsIn

(* And one around the boundary behind it is in Across. *)
LEMMA AroundAcross ==
  ASSUME NEW a, NEW e, Layout(sections, stream, a, e),
         NEW i \in Nat, Cut(i) <= Len(stream),
         NEW m \in 1 .. MaxSections, a[m] < Cut(i), Cut(i) < e[m]
  PROVE  m \in Across(i)
<1>1. Cut(i) \in Nat /\ a[m] \in Nat /\ e[m] \in Nat
  BY LayoutSpans, CutNext DEF Spans
<1>0. stream \in Seq(Nat \X Nat) /\ Len(stream) \in Nat
  BY LayoutSpans
<1>c. PICK c \in Nat : c = Cut(i)
  BY <1>1
<1> DEFINE p == SubSeq(stream, 1, c)
           q == SubSeq(stream, c + 1, Len(stream))
<1> HIDE DEF p, q
<1>2. stream[c] = <<m, c - a[m]>> /\ c \in 1 .. Len(stream)
  <2>1. a[m] < c /\ c <= e[m]
    BY <1>1, <1>c
  <2> QED BY <2>1, CellOf
<1>d. PICK d \in Nat : d = c + 1
  OBVIOUS
<1>3. stream[d] = <<m, d - a[m]>> /\ d \in 1 .. Len(stream)
  <2>1. a[m] < d /\ d <= e[m]
    BY <1>1, <1>c, <1>d
  <2> QED BY <2>1, CellOf
<1>4. /\ c \in DOMAIN p /\ p[c] = stream[c]
      /\ 1 \in DOMAIN q /\ q[1] = stream[d]
  <2>1. Len(stream) \in Nat /\ stream \in Seq(Nat \X Nat)
    BY <1>0
  <2>2. c \in DOMAIN p /\ p[c] = stream[c]
    BY <1>2, <2>1 DEF p
  <2>3. q = SubSeq(stream, d, Len(stream))
    BY <1>d DEF q
  <2>4. 1 \in DOMAIN q /\ q[1] = stream[d]
    BY <1>3, <2>1, <2>3
  <2> QED BY <2>2, <2>4
<1>5. m # 0 /\ p[c][1] = m /\ q[1][1] = m
  BY <1>2, <1>3, <1>4
<1>6. Across(i) = SectionsIn(p) \cap SectionsIn(q)
  BY <1>c DEF Across, p, q, Cut
<1>7. m \in SectionsIn(p)
  BY <1>4, <1>5 DEF SectionsIn
<1>8. m \in SectionsIn(q)
  BY <1>4, <1>5 DEF SectionsIn
<1> QED BY <1>6, <1>7, <1>8

(* The pointer of a packet is the first section that starts in it: damage does
   not reach a header. *)
LEMMA NewPosIs ==
  ASSUME NEW a, NEW e, Layout(sections, stream, a, e),
         NEW b \in Nat, b + Cells <= Len(stream), NEW p, NEW dmg, PacketOf(stream, p, b, dmg)
  PROVE  First(a, b, NewPos(p))
<1> DEFINE S == {k \in DOMAIN p : p[k][2] = 1 /\ p[k][1] # 0}
<1>1. /\ Spans(a, e) /\ Len(stream) \in Nat /\ DOMAIN p = 1 .. Cells /\ Cells \in Nat
      /\ HeaderCells \in Nat /\ HeaderCells > 0
      /\ \A k \in 1 .. Cells : Carried(p[k], stream[b + k], dmg)
  <2> HIDE DEF S
  <2>1. Spans(a, e) /\ Len(stream) \in Nat
    BY LayoutSpans
  <2>2. p \in Seq(Nat \X Nat) /\ Len(p) = Cells
    BY DEF PacketOf
  <2>3. DOMAIN p = 1 .. Cells
    BY <2>2
  <2>4. \A k \in 1 .. Cells : Carried(p[k], stream[b + k], dmg)
    BY DEF PacketOf
  <2> QED BY <2>1, <2>3, <2>4, SizesAssumption
<1>2. ASSUME NEW k \in S PROVE \E m \in 1 .. MaxSections : a[m] = b + k - 1
  <2>1. k \in 1 .. Cells /\ p[k][2] = 1 /\ p[k][1] # 0
    BY <1>1
  <2>2. PICK j \in 1 .. Len(stream) : j = b + k
    BY <1>1, <2>1
  <2>3. p[k] = stream[j]
    <3>1. Carried(p[k], stream[j], dmg)
      BY <1>1, <2>1, <2>2
    <3> QED BY <2>1, <3>1 DEF Carried, Damaged
  <2>4. stream[j] # Stuffing
    BY <2>1, <2>3 DEF Stuffing
  <2>5. PICK m \in 1 .. MaxSections : stream[j] = <<m, j - a[m]>>
    BY <2>4, OwnerOf
  <2>6. j - a[m] = 1 /\ a[m] \in Nat
    BY <1>1, <2>1, <2>3, <2>5 DEF Spans
  <2>7. a[m] = b + k - 1
    BY <2>1, <2>2, <2>6
  <2> QED BY <2>7
<1>3. ASSUME NEW m \in 1 .. MaxSections, b <= a[m], a[m] < b + Cells PROVE a[m] + 1 - b \in S
  <2>0. a[m] \in Nat /\ e[m] \in Nat /\ a[m] < e[m]
    BY <1>1 DEF Spans
  <2>1. PICK k \in 1 .. Cells : k = a[m] + 1 - b
    BY <1>1, <1>3, <2>0
  <2>2. PICK j \in Nat : j = b + k
    OBVIOUS
  <2>3. j - a[m] = 1 /\ a[m] < j /\ j <= e[m]
    BY <2>0, <2>1, <2>2
  <2>4. stream[j] = <<m, 1>>
    BY <2>3, CellOf
  <2>5. Carried(p[k], <<m, 1>>, dmg)
    BY <1>1, <2>2, <2>4
  <2>6. p[k] = <<m, 1>> /\ m # 0
    <3>1. ~ (<<m, 1>>[2] > HeaderCells)
      BY <1>1
    <3> QED BY <2>5, <3>1 DEF Carried
  <2> QED BY <1>1, <2>1, <2>6
<1>4. NewPos(p) = IF S = {} THEN 0 ELSE Min(S)
  BY DEF NewPos
<1>5. S \subseteq 1 .. Cells
  BY <1>1
<1> HIDE DEF S
<1>6. CASE S = {}
  <2>1. NoStart(a, b, b + Cells)
    BY <1>3, <1>6 DEF NoStart
  <2> QED BY <1>1, <1>4, <1>6, <2>1 DEF First
<1>7. CASE S # {}
  <2>1. S \subseteq Nat
    BY <1>5
  <2>2. Min(S) \in S /\ \A k \in S : Min(S) <= k
    BY <1>7, <2>1, LeastIsMin
  <2>3. PICK new \in 1 .. Cells : new = Min(S)
    BY <1>5, <2>2
  <2>4. \E m \in 1 .. MaxSections : a[m] = b + new - 1
    BY <1>2, <2>2, <2>3
  <2>5. NoStart(a, b, b + new - 1)
    <3> SUFFICES ASSUME NEW m \in 1 .. MaxSections, b <= a[m], a[m] < b + new - 1 PROVE FALSE
      BY DEF NoStart
    <3>1. a[m] \in Nat
      BY <1>1 DEF Spans
    <3>2. a[m] < b + Cells
      BY <1>1, <3>1
    <3>3. a[m] + 1 - b \in S
      BY <1>3, <3>2
    <3>4. new <= a[m] + 1 - b
      BY <2>2, <2>3, <3>3
    <3> QED BY <3>1, <3>4
  <2>6. NewPos(p) = new
    BY <1>4, <1>7, <2>3
  <2>7. new \in 0 .. Cells /\ new > 0
    OBVIOUS
  <2> QED BY <2>4, <2>5, <2>6, <2>7 DEF First
<1> QED BY <1>6, <1>7

LEMMA NewPosNone == NewPos(<<>>) = 0
<1>1. {k \in DOMAIN <<>> : <<>>[k][2] = 1 /\ <<>>[k][1] # 0} = {}
  <2>1. DOMAIN <<>> = {}
    OBVIOUS
  <2> QED BY <2>1
<1> QED BY <1>1 DEF NewPos

(* Behind stuffing nothing starts in the packet. *)
LEMMA RestStuffed ==
  ASSUME NEW a, NEW e, Layout(sections, stream, a, e),
         NEW i \in Nat, NEW q \in Nat, Cut(i) <= q, q < Cut(i) + Cells,
         q < Len(stream), stream[q + 1] = Stuffing
  PROVE  NoStart(a, q, Cut(i) + Cells)
<1> SUFFICES ASSUME NEW m \in 1 .. MaxSections, q <= a[m], a[m] < Cut(i) + Cells PROVE FALSE
  BY DEF NoStart
<1>1. Cut(i) \in Nat /\ a[m] \in Nat /\ e[m] \in Nat /\ a[m] < e[m] /\ Cells \in Nat /\ Len(stream) \in Nat
  BY LayoutSpans, CutNext, SizesAssumption DEF Spans
<1>2. PICK j \in Nat : j = a[m] + 1
  BY <1>1
<1>3. PICK k \in Nat : k = q + 1
  OBVIOUS
<1>4. stream[j] # Stuffing
  <2>1. a[m] < j /\ j <= e[m]
    BY <1>1, <1>2
  <2> QED BY <2>1, CellOf
<1>5. Cut(i) < k /\ k <= j /\ j <= Cut(i) + Cells /\ k <= Len(stream) /\ stream[k] = Stuffing
  BY <1>1, <1>2, <1>3
<1>6. Filled(stream)
  BY DEF Layout, Laid
<1> QED BY <1>4, <1>5, <1>6 DEF Filled

(* And behind a section the next one starts, or stuffing. *)
LEMMA NextStarts ==
  ASSUME NEW a, NEW e, Layout(sections, stream, a, e),
         NEW n \in 1 .. MaxSections, e[n] < Len(stream), stream[e[n] + 1] # Stuffing
  PROVE  \E m \in 1 .. MaxSections : a[m] = e[n]
<1>1. Spans(a, e) /\ e[n] \in Nat /\ Len(stream) \in Nat
  BY LayoutSpans DEF Spans
<1>2. PICK j \in 1 .. Len(stream) : j = e[n] + 1
  BY <1>1
<1>3. PICK m \in 1 .. MaxSections : a[m] < j /\ j <= e[m]
  <2>1. stream[j] # Stuffing
    BY <1>2
  <2> QED BY <2>1, OwnerOf
<1>4. a[m] \in Nat /\ e[m] \in Nat
  BY <1>1 DEF Spans
<1>5. e[n] < e[m]
  BY <1>1, <1>2, <1>3, <1>4
<1>6. e[n] <= a[m]
  BY <1>1, <1>5, Apart
<1> QED BY <1>1, <1>2, <1>3, <1>4, <1>6

(* The cells of a section put together: its number is right, and so are the rest
   unless one was damaged. *)
LEMMA WholeSection ==
  ASSUME NEW a, NEW e, Layout(sections, stream, a, e), NEW n \in 1 .. MaxSections,
         NEW data \in Seq(Nat \X Nat), NEW dmg,
         Len(data) = e[n] - a[n], \A i \in 1 .. Len(data) : Carried(data[i], <<n, i>>, dmg)
  PROVE  data = Section(n) \/ n \in dmg
<1> SUFFICES ASSUME n \notin dmg PROVE data = Section(n)
  OBVIOUS
<1>1. Len(data) = HeaderCells + sections[n].length
  BY LayoutSpans
<1>2. ASSUME NEW i \in 1 .. Len(data) PROVE data[i] = <<n, i>>
  <2>1. Carried(data[i], <<n, i>>, dmg) /\ ~ (<<n, i>>[1] \in dmg)
    OBVIOUS
  <2> QED BY <2>1 DEF Carried
<1>3. data = [i \in 1 .. Len(data) |-> <<n, i>>]
  BY <1>2
<1> QED BY <1>1, <1>3 DEF Section

-----------------------------------------------------------------------------
(* How often a section was received. *)

LEMMA TimesAppend ==
  ASSUME NEW rcv \in Seq(Nat), NEW n \in Nat, NEW m \in Nat
  PROVE  /\ Times(rcv, m) \in Nat
         /\ Times(Append(rcv, n), m) = IF n = m THEN Times(rcv, m) + 1 ELSE Times(rcv, m)
<1> DEFINE S == {i \in DOMAIN rcv : rcv[i] = m}
           T == {i \in DOMAIN Append(rcv, n) : Append(rcv, n)[i] = m}
           len == Len(rcv)
<1>1. /\ len \in Nat /\ DOMAIN rcv = 1 .. len /\ DOMAIN Append(rcv, n) = 1 .. len + 1
      /\ Append(rcv, n)[len + 1] = n
      /\ \A i \in 1 .. len : Append(rcv, n)[i] = rcv[i]
  OBVIOUS
<1>2. IsFiniteSet(S)
  <2>1. S \subseteq 1 .. len /\ IsFiniteSet(1 .. len)
    BY <1>1, FS_Interval
  <2> QED BY <2>1, FS_Subset
<1>3. CASE n = m
  <2>1. len + 1 \notin S
    BY <1>1
  <2>2. ASSUME NEW i PROVE i \in T <=> i \in S \cup {len + 1}
    <3> HIDE DEF len
    <3>1. i \in 1 .. len + 1 <=> i \in 1 .. len \/ i = len + 1
      BY <1>1
    <3>2. i \in 1 .. len => i \in 1 .. len + 1 /\ i # len + 1
      BY <1>1
    <3> QED BY <1>1, <1>3, <3>1, <3>2
  <2>3. T = S \cup {len + 1}
    BY <2>2
  <2> QED BY <1>2, <1>3, <2>1, <2>3, FS_AddElement, FS_CardinalityType DEF Times
<1>4. CASE n # m
  <2>1. ASSUME NEW i PROVE i \in T <=> i \in S
    <3> HIDE DEF len
    <3>1. i \in 1 .. len + 1 <=> i \in 1 .. len \/ i = len + 1
      BY <1>1
    <3>2. i \in 1 .. len => i \in 1 .. len + 1 /\ i # len + 1
      BY <1>1
    <3> QED BY <1>1, <1>4, <3>1, <3>2
  <2>2. T = S
    BY <2>1
  <2> QED BY <1>2, <1>4, <2>2, FS_CardinalityType DEF Times
<1> QED BY <1>3, <1>4

(* The ways the position moves: within a section, past its end, and over cells
   where nothing starts. *)

LEMMA CountsFewer ==
  ASSUME NEW a, NEW e, NEW clean, NEW rcv, NEW n, NEW q, Counts(a, e, clean, rcv, n, q),
         NEW fewer, fewer \subseteq clean
  PROVE  Counts(a, e, fewer, rcv, n, q)
  BY DEF Counts

LEMMA CountsWithin ==
  ASSUME NEW a, NEW e, Spans(a, e), NEW clean, clean \subseteq 1 .. MaxSections, NEW rcv,
         NEW n \in 1 .. MaxSections, NEW q \in Nat, Counts(a, e, clean, rcv, n, q),
         NEW r \in Nat, a[n] <= q, q <= r, r < e[n]
  PROVE  Counts(a, e, clean, rcv, n, r)
<1> SUFFICES ASSUME NEW m \in clean, Short(a, e, m)
             PROVE  /\ e[m] <= r => Times(rcv, m) = 1
                    /\ r < e[m] => Times(rcv, m) = 0
                    /\ a[m] < r /\ r < e[m] => m = n
  BY DEF Counts
<1>1. /\ e[m] <= q => Times(rcv, m) = 1
      /\ q < e[m] => Times(rcv, m) = 0
  BY DEF Counts
<1>2. /\ a[n] \in Nat /\ e[n] \in Nat /\ a[n] < e[n]
      /\ a[m] \in Nat /\ e[m] \in Nat /\ a[m] < e[m]
  BY DEF Spans
<1>3. n # m => e[n] <= a[m] \/ e[m] <= a[n]
  BY Apart
<1> QED BY <1>1, <1>2, <1>3

LEMMA CountsOver ==
  ASSUME NEW a, NEW e, Spans(a, e), NEW clean, clean \subseteq 1 .. MaxSections, NEW rcv,
         NEW q \in Nat, Counts(a, e, clean, rcv, 0, q),
         NEW r \in Nat, q <= r, NoStart(a, q, r), NEW n
  PROVE  Counts(a, e, clean, rcv, n, r)
<1> SUFFICES ASSUME NEW m \in clean, Short(a, e, m)
             PROVE  /\ e[m] <= r => Times(rcv, m) = 1
                    /\ r < e[m] => Times(rcv, m) = 0
                    /\ ~ (a[m] < r /\ r < e[m])
  BY DEF Counts
<1>1. /\ e[m] <= q => Times(rcv, m) = 1
      /\ q < e[m] => Times(rcv, m) = 0
      /\ a[m] < q /\ q < e[m] => m = 0
  BY DEF Counts
<1>2. a[m] \in Nat /\ e[m] \in Nat /\ a[m] < e[m] /\ m # 0
  BY DEF Spans
<1>3. ~ (q <= a[m] /\ a[m] < r)
  BY DEF NoStart
<1> QED BY <1>1, <1>2, <1>3

(* Section n ends at e[n], and is received if nothing happened to it. *)
LEMMA CountsEnd ==
  ASSUME NEW a, NEW e, Spans(a, e), NEW clean, clean \subseteq 1 .. MaxSections,
         NEW rcv \in Seq(1 .. MaxSections), NEW n \in 1 .. MaxSections, NEW q \in Nat,
         Counts(a, e, clean, rcv, n, q), a[n] <= q, q < e[n],
         NEW new, new = Append(rcv, n) \/ (new = rcv /\ n \notin clean)
  PROVE  Counts(a, e, clean, new, 0, e[n])
<1> SUFFICES ASSUME NEW m \in clean, Short(a, e, m)
             PROVE  /\ e[m] <= e[n] => Times(new, m) = 1
                    /\ e[n] < e[m] => Times(new, m) = 0
                    /\ ~ (a[m] < e[n] /\ e[n] < e[m])
  BY DEF Counts
<1>1. /\ e[m] <= q => Times(rcv, m) = 1
      /\ q < e[m] => Times(rcv, m) = 0
  BY DEF Counts
<1>2. /\ a[n] \in Nat /\ e[n] \in Nat /\ a[n] < e[n]
      /\ a[m] \in Nat /\ e[m] \in Nat /\ a[m] < e[m]
  BY DEF Spans
<1>3. n # m => e[n] <= a[m] \/ e[m] <= a[n]
  BY Apart
<1>4. rcv \in Seq(Nat) /\ n \in Nat /\ m \in Nat
  BY SizesAssumption
<1>5. Times(new, m) = IF n = m THEN Times(rcv, m) + 1 ELSE Times(rcv, m)
  <2>1. CASE new = Append(rcv, n)
    BY <1>4, <2>1, TimesAppend
  <2>2. CASE new = rcv /\ n \notin clean
    BY <2>2
  <2> QED BY <2>1, <2>2
<1> QED BY <1>1, <1>2, <1>3, <1>5

(* A section that is too long is not counted. *)
LEMMA CountsLong ==
  ASSUME NEW a, NEW e, Spans(a, e), NEW clean, clean \subseteq 1 .. MaxSections, NEW rcv,
         NEW n, NEW q, Counts(a, e, clean, rcv, n, q), n \notin clean \/ ~Short(a, e, n)
  PROVE  Counts(a, e, clean, rcv, 0, q)
  BY DEF Counts

(* What is in order stays so, when more is disturbed or read. *)
LEMMA BehindOn ==
  ASSUME NEW a, NEW e, Spans(a, e), NEW dist, NEW rcv, NEW q \in Nat, NEW hi \in Nat, q <= hi,
         Behind(a, e, dist, rcv, q, hi), NEW more, dist \subseteq more,
         NEW r \in Nat, NEW top \in Nat, hi <= top, r <= top,
         (hi = top /\ q <= r) \/ hi <= r \/ (hi = top /\ Within(a, e, hi) \subseteq more)
  PROVE  Behind(a, e, more, rcv, r, top)
<1> SUFFICES ASSUME NEW i \in DOMAIN rcv
             PROVE  /\ rcv[i] \in 1 .. MaxSections /\ Short(a, e, rcv[i]) /\ e[rcv[i]] <= top
                    /\ e[rcv[i]] <= r \/ Within(a, e, top) \subseteq more
  BY DEF Behind
<1>1. /\ rcv[i] \in 1 .. MaxSections /\ Short(a, e, rcv[i]) /\ e[rcv[i]] <= hi
      /\ e[rcv[i]] <= q \/ Within(a, e, hi) \subseteq dist
  BY DEF Behind
<1>2. e[rcv[i]] \in Nat
  BY <1>1 DEF Spans
<1>3. e[rcv[i]] <= top
  BY <1>1, <1>2
<1>4. e[rcv[i]] <= r \/ Within(a, e, top) \subseteq more
  <2>1. CASE hi = top /\ q <= r
    <3>1. e[rcv[i]] <= q => e[rcv[i]] <= r
      BY <1>2, <2>1
    <3> QED BY <1>1, <2>1, <3>1
  <2>2. CASE hi <= r
    BY <1>1, <1>2, <2>2
  <2>3. CASE hi = top /\ Within(a, e, hi) \subseteq more
    BY <2>3
  <2> QED BY <2>1, <2>2, <2>3
<1> QED BY <1>1, <1>3, <1>4

LEMMA RisingOn ==
  ASSUME NEW dist, NEW rcv, Rising(dist, rcv), NEW more, dist \subseteq more
  PROVE  Rising(more, rcv)
  BY DEF Rising

(* A section that is received is behind those received before, or both are in a
   packet that came twice. *)
LEMMA OrderEnd ==
  ASSUME NEW a, NEW e, Spans(a, e), NEW dist, NEW rcv \in Seq(1 .. MaxSections),
         NEW q \in Nat, NEW hi \in Nat, hi - Cells <= q, Behind(a, e, dist, rcv, q, hi), Rising(dist, rcv),
         NEW n \in 1 .. MaxSections, Short(a, e, n), a[n] <= q, q < e[n], e[n] <= hi
  PROVE  /\ Append(rcv, n) \in Seq(1 .. MaxSections)
         /\ Behind(a, e, dist, Append(rcv, n), e[n], hi) /\ Rising(dist, Append(rcv, n))
<1> DEFINE new == Append(rcv, n)
           len == Len(rcv)
<1>1. /\ len \in Nat /\ DOMAIN rcv = 1 .. len /\ DOMAIN new = 1 .. len + 1 /\ new[len + 1] = n
      /\ \A i \in 1 .. len : new[i] = rcv[i]
      /\ new \in Seq(1 .. MaxSections)
  OBVIOUS
<1>2. \A m \in 1 .. MaxSections : a[m] \in Nat /\ e[m] \in Nat /\ a[m] < e[m]
  BY DEF Spans
<1> HIDE DEF new, len
<1>3. \A i \in 1 .. len + 1 : i \in 1 .. len \/ i = len + 1
  BY <1>1
<1>4. Behind(a, e, dist, new, e[n], hi)
  <2>1. ASSUME NEW i \in 1 .. len
        PROVE  /\ new[i] \in 1 .. MaxSections /\ Short(a, e, new[i]) /\ e[new[i]] <= hi
               /\ e[new[i]] <= e[n] \/ Within(a, e, hi) \subseteq dist
    <3>1. /\ rcv[i] \in 1 .. MaxSections /\ Short(a, e, rcv[i]) /\ e[rcv[i]] <= hi
          /\ e[rcv[i]] <= q \/ Within(a, e, hi) \subseteq dist
      BY <1>1 DEF Behind
    <3>2. e[rcv[i]] \in Nat /\ e[n] \in Nat
      BY <1>2, <3>1
    <3> QED BY <1>1, <3>1, <3>2
  <2>2. e[n] <= e[n]
    BY <1>2
  <2> QED BY <1>1, <1>3, <2>1, <2>2 DEF Behind
<1>5. Rising(dist, new)
  <2>1. ASSUME NEW i \in 1 .. len
        PROVE  rcv[i] <= n \/ {rcv[i], n} \subseteq dist
    <3>1. /\ rcv[i] \in 1 .. MaxSections /\ e[rcv[i]] <= hi
          /\ e[rcv[i]] <= q \/ Within(a, e, hi) \subseteq dist
      BY <1>1 DEF Behind
    <3>2. /\ a[rcv[i]] \in Nat /\ e[rcv[i]] \in Nat /\ a[rcv[i]] < e[rcv[i]]
          /\ a[n] \in Nat /\ e[n] \in Nat /\ a[n] < e[n]
          /\ hi \in Nat /\ Cells \in Nat
      BY <1>2, <3>1, SizesAssumption
    <3>3. CASE e[rcv[i]] <= q
      <4>1. e[rcv[i]] < e[n]
        BY <3>2, <3>3
      <4>2. e[rcv[i]] <= a[n]
        BY <3>1, <4>1, Apart
      <4>3. rcv[i] < n
        BY <3>1, <4>2, Apart
      <4> QED BY <3>1, <4>3
    <3>4. CASE ~ (e[rcv[i]] <= q)
      <4>1. hi - Cells < e[rcv[i]] /\ a[rcv[i]] < hi /\ hi - Cells < e[n] /\ a[n] < hi
        BY <3>1, <3>2, <3>4
      <4>2. {rcv[i], n} \subseteq Within(a, e, hi)
        BY <3>1, <4>1 DEF Within
      <4> QED BY <3>1, <3>4, <4>2
    <3> QED BY <3>3, <3>4
  <2>2. ASSUME NEW i \in 1 .. len + 1, NEW j \in 1 .. len + 1, i < j
        PROVE  new[i] <= new[j] \/ {new[i], new[j]} \subseteq dist
    <3>1. i \in 1 .. len
      BY <1>1, <2>2
    <3>2. CASE j \in 1 .. len
      <4>1. rcv[i] <= rcv[j] \/ {rcv[i], rcv[j]} \subseteq dist
        BY <1>1, <2>2, <3>1, <3>2 DEF Rising
      <4> QED BY <1>1, <3>1, <3>2, <4>1
    <3>3. CASE j = len + 1
      BY <1>1, <2>1, <3>1, <3>3
    <3> QED BY <1>3, <3>2, <3>3
  <2> QED BY <1>1, <2>2 DEF Rising
<1> QED BY <1>1, <1>4, <1>5 DEF new

(* A packet that comes again: what is clean is not in it. *)
LEMMA CountsAgain ==
  ASSUME NEW a, NEW e, Spans(a, e), NEW clean, clean \subseteq 1 .. MaxSections, NEW rcv,
         NEW n, NEW q \in Nat, Counts(a, e, clean, rcv, n, q), NEW hi \in Nat,
         NEW fewer, fewer \subseteq clean, fewer \cap Within(a, e, hi) = {},
         hi - Cells <= q, q <= hi, NEW r \in Nat, hi - Cells <= r, r <= hi, NEW k
  PROVE  Counts(a, e, fewer, rcv, k, r)
<1> SUFFICES ASSUME NEW m \in fewer, Short(a, e, m)
             PROVE  /\ e[m] <= r => Times(rcv, m) = 1
                    /\ r < e[m] => Times(rcv, m) = 0
                    /\ ~ (a[m] < r /\ r < e[m])
  BY DEF Counts
<1>1. /\ e[m] <= q => Times(rcv, m) = 1
      /\ q < e[m] => Times(rcv, m) = 0
  BY DEF Counts
<1>2. a[m] \in Nat /\ e[m] \in Nat /\ a[m] < e[m] /\ Cells \in Nat
  BY SizesAssumption DEF Spans
<1>3. ~ (a[m] < hi /\ hi - Cells < e[m])
  BY DEF Within
<1> QED BY <1>1, <1>2, <1>3

LEMMA CountsReset ==
  ASSUME NEW a, NEW e, Layout(sections, stream, a, e), Cut(sent) <= Len(stream), sent \in Nat,
         NEW rcv, NEW n, NEW dist, NEW dmg, Counts(a, e, Clean(dist, dmg), rcv, n, Cut(sent))
  PROVE  Counts(a, e, Clean(dist \cup Across(sent), dmg), rcv, 0, Cut(sent))
<1> SUFFICES ASSUME NEW m \in Clean(dist \cup Across(sent), dmg), Short(a, e, m)
             PROVE  /\ e[m] <= Cut(sent) => Times(rcv, m) = 1
                    /\ Cut(sent) < e[m] => Times(rcv, m) = 0
                    /\ ~ (a[m] < Cut(sent) /\ Cut(sent) < e[m])
  BY DEF Counts
<1>1. m \in Clean(dist, dmg) /\ m \in 1 .. MaxSections /\ m \notin Across(sent)
  BY DEF Clean
<1>2. ~ (a[m] < Cut(sent) /\ Cut(sent) < e[m])
  BY <1>1, AroundAcross
<1> QED BY <1>1, <1>2 DEF Counts

-----------------------------------------------------------------------------
(* IInv is inductive: the start, and the steps of the network. *)

LEMMA Initial == Init => IInv
<1> SUFFICES ASSUME Init PROVE IInv
  OBVIOUS
<1>1. PICK a, e : Layout(sections, stream, a, e)
  BY StreamLaid DEF Init, Sections
<1>2. Spans(a, e) /\ Len(stream) \in Nat
  BY <1>1, LayoutSpans
<1>3. Cut(0) = 0 /\ Pos = 0 /\ ~Busy
  <2>1. Cut(0) = 0
    BY CutNext
  <2> QED BY <2>1 DEF Init, Pos, Busy
<1>4. NetInv
  BY <1>2, <1>3, SizesAssumption DEF Init, NetInv
<1>5. PacketInv /\ SectionInv(a, e, 0) /\ PointerInv(a, 0) /\ NoFalseCrcError
  BY <1>3 DEF Init, PacketInv, SectionInv, PointerInv, NoFalseCrcError
<1>6. CountInv(a, e, 0)
  <2> SUFFICES ASSUME NEW m \in 1 .. MaxSections
               PROVE  ~ (e[m] <= 0) /\ Times(<<>>, m) = 0 /\ ~ (a[m] < 0)
    BY <1>3 DEF CountInv, Counts, Clean, Init
  <2>1. a[m] \in Nat /\ e[m] \in Nat /\ a[m] < e[m]
    BY <1>2 DEF Spans
  <2>2. {i \in DOMAIN <<>> : <<>>[i] = m} = {}
    <3>1. DOMAIN <<>> = {}
      OBVIOUS
    <3> QED BY <3>1
  <2> QED BY <2>1, <2>2, FS_EmptySet DEF Times
<1>7. OrderInv(a, e)
  <2>1. received = <<>> /\ DOMAIN received = {} /\ received \in Seq(1 .. MaxSections)
    BY DEF Init
  <2> QED BY <2>1 DEF OrderInv, Behind, Rising
<1> QED BY <1>1, <1>4, <1>5, <1>6, <1>7 DEF Inv, IInv

(* The counter. *)
LEMMA PeriodDiv ==
  ASSUME NEW x \in Nat
  PROVE  x = Period * (x \div Period) + (x % Period) /\ x % Period \in 0 .. Period - 1 /\ x \div Period \in Nat
  BY SizesAssumption

LEMMA PeriodMod ==
  ASSUME NEW d \in Nat, NEW r \in 0 .. Period - 1
  PROVE  (Period * d + r) % Period = r
  BY SizesAssumption

LEMMA ModNext ==
  ASSUME NEW x \in Nat
  PROVE  (x + 1) % Period = IF x % Period = Period - 1 THEN 0 ELSE (x % Period) + 1
<1>1. PICK d \in Nat, r \in 0 .. Period - 1 : x = Period * d + r /\ x % Period = r
  <2>1. /\ x \div Period \in Nat /\ x % Period \in 0 .. Period - 1
        /\ x = Period * (x \div Period) + (x % Period) /\ x % Period = x % Period
    BY PeriodDiv
  <2> QED BY <2>1
<1>2. Period \in Nat /\ Period > 1
  BY SizesAssumption
<1>3. CASE r = Period - 1
  <2>1. x + 1 = Period * (d + 1) + 0 /\ d + 1 \in Nat /\ 0 \in 0 .. Period - 1
    BY <1>1, <1>2, <1>3
  <2>2. (x + 1) % Period = 0
    BY <2>1, PeriodMod
  <2> QED BY <1>1, <1>3, <2>2
<1>4. CASE r # Period - 1
  <2>1. x + 1 = Period * d + (r + 1) /\ r + 1 \in 0 .. Period - 1
    BY <1>1, <1>2, <1>4
  <2>2. (x + 1) % Period = r + 1
    BY <2>1, PeriodMod
  <2> QED BY <1>1, <1>4, <2>2
<1> QED BY <1>3, <1>4

(* Which counter is expected. *)
LEMMA Expected ==
  ASSUME NEW x \in Nat
  PROVE  ((x % Period) + 1) % Period = (x + 1) % Period
<1>1. x % Period \in Nat /\ (x % Period) % Period = x % Period
  <2>1. x % Period \in 0 .. Period - 1
    BY PeriodDiv
  <2>2. PICK r \in 0 .. Period - 1 : r = x % Period
    BY <2>1
  <2>3. r % Period = r
    BY SizesAssumption
  <2> QED BY <2>2, <2>3
<1>2. PICK y \in Nat : y = x % Period
  BY <1>1
<1>3. (y + 1) % Period = IF y % Period = Period - 1 THEN 0 ELSE (y % Period) + 1
  BY ModNext
<1> QED BY <1>1, <1>2, <1>3, ModNext

(* Fewer than Period packets lost change it. *)
LEMMA Gap ==
  ASSUME NEW x \in Nat, NEW l \in Nat, 0 < l, l < Period
  PROVE  (x + l) % Period # x % Period
<1> SUFFICES ASSUME (x + l) % Period = x % Period PROVE FALSE
  OBVIOUS
<1>1. PICK d \in Nat, r \in 0 .. Period - 1 : x = Period * d + r /\ x % Period = r
  <2>1. /\ x \div Period \in Nat /\ x % Period \in 0 .. Period - 1
        /\ x = Period * (x \div Period) + (x % Period) /\ x % Period = x % Period
    BY PeriodDiv
  <2> QED BY <2>1
<1>2. PICK c \in Nat : x + l = Period * c + r
  <2>1. PICK y \in Nat : y = x + l
    OBVIOUS
  <2>2. y = Period * (y \div Period) + (y % Period) /\ y \div Period \in Nat
    BY PeriodDiv
  <2>3. y % Period = r
    BY <1>1, <2>1
  <2>4. PICK c \in Nat : c = y \div Period
    BY <2>2
  <2>5. x + l = Period * c + r
    BY <2>1, <2>2, <2>3, <2>4
  <2> QED BY <2>5
<1>3. Period \in Nat /\ l = Period * c - Period * d
  BY <1>1, <1>2, SizesAssumption
<1>4. CASE c <= d
  <2>1. PICK k \in Nat : d = c + k
    <3>1. d - c \in Nat /\ d = c + (d - c)
      BY <1>4
    <3> QED BY <3>1
  <2>2. Period * d = Period * c + Period * k /\ Period * k \in Nat /\ Period * c \in Nat
    BY <1>3, <2>1
  <2> QED BY <1>3, <2>2
<1>5. CASE d < c
  <2>1. PICK k \in Nat : c = d + 1 + k
    <3>1. c - d - 1 \in Nat /\ c = d + 1 + (c - d - 1)
      BY <1>5
    <3> QED BY <3>1
  <2>2. Period * c = Period * d + Period + Period * k /\ Period * k \in Nat /\ Period * d \in Nat
    BY <1>3, <2>1
  <2> QED BY <1>3, <2>2
<1> QED BY <1>4, <1>5

(* A section that starts, with nothing of it taken. *)
LEMMA StartOf ==
  ASSUME NEW a, NEW e, Spans(a, e), NEW k \in 1 .. MaxSections, NEW dmg
  PROVE  InProgress(a, e, dmg, k, a[k], <<>>, HeaderCells, FALSE)
<1>1. a[k] \in Nat /\ e[k] \in Nat /\ a[k] < e[k]
  BY DEF Spans
<1>2. <<>> \in Seq(Nat \X Nat) /\ Len(<<>>) = 0 /\ a[k] = a[k] + 0
  BY <1>1
<1>3. HeaderCells \in Nat /\ HeaderCells > 0 /\ HeaderCells - 0 = HeaderCells
  BY SizesAssumption
<1>4. \A j \in 1 .. Len(<<>>) : FALSE
  BY <1>2
<1> QED BY <1>1, <1>2, <1>3, <1>4 DEF InProgress

(* A packet arrives, the next one or the one before it again; i is its number. *)
LEMMA Arrives ==
  ASSUME NEW a, NEW e, NEW n, Inv(a, e, n), Idle,
         NEW i \in Nat, i > 0, Cut(i) <= Len(stream), NEW p,
         PushPacket(p, i % Period), PacketOf(stream, p, Cut(i) - Cells, damaged'),
         sent' = i, lostRun' = 0, UNCHANGED <<sections, stream>>,
         damaged \subseteq damaged', disturbed \subseteq disturbed',
         i = sent + 1 \/ (i = sent /\ lostRun = 0 /\ Within(a, e, Cut(i)) \subseteq disturbed')
  PROVE  IInv'
<1> DEFINE b == Cut(i) - Cells
           new == NewPos(p)
           clean == Clean(disturbed, damaged)
           fewer == Clean(disturbed', damaged')
<1>1. /\ Layout(sections, stream, a, e) /\ Spans(a, e) /\ NetInv /\ i_available = 0
      /\ Layout(sections, stream, a, e)'
  BY LayoutSpans DEF Inv, Idle
<1>2. /\ sent \in Nat /\ lostRun \in Nat /\ lostRun < Period /\ lostRun <= sent
      /\ Cut(sent) <= Len(stream) /\ Cut(sent) \in Nat /\ Cut(i) \in Nat /\ Len(stream) \in Nat
      /\ Cells \in Nat /\ Cells > 0 /\ Period \in Nat /\ Period > 1
  BY <1>1, CutNext, LayoutSpans, SizesAssumption DEF NetInv
<1>3. b \in Nat /\ b + Cells = Cut(i) /\ (i = sent + 1 => b = Cut(sent)) /\ Pos = Cut(sent)
  <2>1. Cut((i - 1) + 1) = Cut(i - 1) + Cells /\ Cut(i - 1) \in Nat /\ (i - 1) + 1 = i
    <3>1. i - 1 \in Nat /\ (i - 1) + 1 = i
      OBVIOUS
    <3> QED BY <3>1, CutNext
  <2>2. Cut(sent + 1) = Cut(sent) + Cells
    BY <1>2, CutNext
  <2> QED BY <1>1, <1>2, <2>1, <2>2 DEF Pos
<1> HIDE DEF b
<1>4. First(a, b, new) /\ Len(p) = Cells /\ PacketOf(stream, p, b, damaged')
  <2>1. PacketOf(stream, p, b, damaged') /\ b + Cells <= Len(stream)
    BY <1>3 DEF b
  <2> QED BY <1>1, <1>3, <2>1, NewPosIs DEF PacketOf
<1> HIDE DEF new
<1>5. /\ i_continuity_counter' = i % Period /\ payload' = p /\ UNCHANGED <<received, crcErrors>>
      /\ p_current_section' = KeptSection(i % Period)
  BY DEF PushPacket, reports
<1>6. fewer \subseteq clean /\ clean \subseteq 1 .. MaxSections
  BY DEF Clean
<1>7. /\ Counts(a, e, clean, received, n, Cut(sent)) /\ received \in Seq(1 .. MaxSections)
      /\ Behind(a, e, disturbed, received, Cut(sent), Cut(sent)) /\ Rising(disturbed, received)
      /\ crcErrors \subseteq damaged
  BY <1>3 DEF Inv, CountInv, OrderInv, NoFalseCrcError
<1>8. NoFalseCrcError' /\ Rising(disturbed', received)
  BY <1>5, <1>7, RisingOn DEF NoFalseCrcError
<1>9. NetInv' <=> (i_available' \in 0 .. Cells)
  <2>1. i - 0 = i /\ 0 <= i /\ i_continuity_counter' = (i - 0) % Period
    BY <1>5
  <2> QED BY <2>1, <1>2 DEF NetInv
<1>10. PacketInv'
  BY <1>4, <1>5 DEF PacketInv, b
<1> HIDE DEF clean, fewer
<1>11. CASE KeptSection(i % Period) # None
  <2>1. /\ p_current_section # None /\ p_current_section' = p_current_section
        /\ (i_continuity_counter + 1) % Period = i % Period
    BY <1>5, <1>11 DEF KeptSection
  <2>2. /\ i_available' = Cells /\ p_new_pos' = new /\ UNCHANGED <<i_need, b_complete_header>>
    BY <1>4, <1>11 DEF PushPacket, new
  <2>3. i_continuity_counter = (sent - lostRun) % Period
    BY <1>1, <2>1 DEF NetInv
  <2>4. PICK x \in Nat : x = sent - lostRun
    BY <1>2
  <2>5. (x + 1) % Period = i % Period
    BY <2>1, <2>3, <2>4, Expected
  <2>6. i = sent + 1 /\ lostRun = 0
    <3>1. CASE i = sent /\ lostRun = 0
      <4>1. (i + 1) % Period # i % Period
        BY <1>2, Gap
      <4>2. x = i
        BY <2>4, <3>1, <1>2
      <4> QED BY <2>5, <4>1, <4>2
    <3>2. CASE i = sent + 1 /\ lostRun > 0
      <4>1. PICK y \in Nat : y = x + 1
        OBVIOUS
      <4>2. (y + lostRun) % Period # y % Period
        BY <1>2, <3>2, Gap
      <4>3. y + lostRun = i
        BY <1>2, <2>4, <3>2, <4>1
      <4> QED BY <2>5, <4>1, <4>2, <4>3
    <3> QED BY <3>1, <3>2, <1>2
  <2>7. Busy /\ Busy' /\ Pos' = Cut(sent) /\ b = Cut(sent)
    <3>1. Pos' = Cut(i) - Cells
      BY <2>2 DEF Pos
    <3> QED BY <1>2, <1>3, <2>1, <2>2, <2>6, <3>1 DEF Busy
  <2>8. InProgress(a, e, damaged, n, Cut(sent), p_current_section, i_need, b_complete_header)
    BY <1>3, <2>7 DEF Inv, SectionInv
  <2>9. SectionInv(a, e, n)'
    <3>1. InProgress(a, e, damaged', n, Cut(sent), p_current_section, i_need, b_complete_header)
      <4>1. \A c, o : Carried(c, o, damaged) => Carried(c, o, damaged')
        BY DEF Carried
      <4> QED BY <2>8, <4>1 DEF InProgress
    <3> QED BY <2>1, <2>2, <2>7, <3>1 DEF SectionInv
  <2>10. PointerInv(a, n)'
    <3>1. n \in 1 .. MaxSections /\ Cut(sent) = a[n] + Len(p_current_section) /\ Len(p_current_section) \in Nat
          /\ Len(p_current_section) > 0
      <4>1. p_current_section \in Seq(Nat \X Nat) /\ p_current_section # <<>>
        BY <2>1, <2>8 DEF InProgress, None
      <4>2. Len(p_current_section) \in Nat /\ Len(p_current_section) > 0
        BY <4>1
      <4> QED BY <2>8, <4>2 DEF InProgress
    <3>2. a[n] \in Nat
      BY <1>1, <3>1 DEF Spans
    <3>3. ~ (a[n] >= b) /\ Cut(i) - Cells = b
      <4>1. Len(p_current_section) \in Nat /\ Len(p_current_section) > 0 /\ Cut(sent) = a[n] + Len(p_current_section)
        BY <3>1
      <4>2. ~ (a[n] >= Cut(sent))
        BY <3>2, <4>1
      <4> QED BY <1>2, <1>3, <2>7, <4>2
    <3>4. Cut(sent') = Cut(i)
      OBVIOUS
    <3> QED BY <1>4, <2>2, <3>3, <3>4 DEF PointerInv
  <2>11. CountInv(a, e, n)'
    <3>1. Counts(a, e, fewer, received, n, Cut(sent))
      BY <1>6, <1>7, CountsFewer
    <3> QED BY <1>5, <2>7, <3>1 DEF CountInv, fewer
  <2>12. OrderInv(a, e)'
    <3>1. Behind(a, e, disturbed', received, Cut(sent), Cut(i))
      <4>1. Cut(sent) <= Cut(i)
        BY <1>2, <1>3, <2>7
      <4> QED BY <1>1, <1>2, <1>7, <4>1, BehindOn
    <3> QED BY <1>5, <1>7, <1>8, <2>7, <3>1 DEF OrderInv
  <2>13. NetInv'
    BY <1>2, <1>9, <2>2
  <2> QED BY <1>1, <1>8, <1>10, <2>9, <2>10, <2>11, <2>12, <2>13 DEF Inv, IInv
<1>12. CASE KeptSection(i % Period) = None
  <2>1. /\ p_current_section' = None /\ p_new_pos' = 0
        /\ i_need' = HeaderCells /\ b_complete_header' = FALSE
        /\ i_available' = IF new = 0 THEN 0 ELSE Cells - new + 1
    BY <1>4, <1>12 DEF PushPacket, new
  <2>2. new \in 0 .. Cells
    BY <1>4 DEF First
  <2>3. PICK r \in Nat : r = IF new = 0 THEN Cut(i) ELSE b + new - 1
    <3>1. new # 0 => b + new - 1 \in Nat
      BY <1>3, <2>2
    <3>2. (IF new = 0 THEN Cut(i) ELSE b + new - 1) \in Nat
      BY <1>2, <3>1
    <3> QED BY <3>2
  <2>4. /\ Pos' = r /\ b <= r /\ r <= Cut(i) /\ i_available' \in 0 .. Cells
        /\ NoStart(a, b, r)
    <3>1. Pos' = Cut(i) - i_available'
      BY DEF Pos
    <3>2. CASE new = 0
      BY <1>2, <1>3, <1>4, <2>1, <2>3, <3>1, <3>2 DEF First
    <3>3. CASE new # 0
      <4>1. NoStart(a, b, b + new - 1) /\ new \in 1 .. Cells
        BY <1>4, <2>2, <3>3 DEF First
      <4>2. r = b + new - 1 /\ i_available' = Cells - new + 1
        BY <2>1, <2>3, <3>3
      <4> QED BY <1>2, <1>3, <3>1, <4>1, <4>2
    <3> QED BY <3>2, <3>3
  <2>5. \E k : SectionInv(a, e, k)' /\ PointerInv(a, k)'
    <3>1. CASE new = 0
      <4>1. i_available' = 0 /\ ~Busy'
        BY <2>1, <3>1 DEF Busy
      <4>2. SectionInv(a, e, 0)' /\ PointerInv(a, 0)'
        BY <4>1 DEF SectionInv, PointerInv
      <4> QED BY <4>2
    <3>2. CASE new # 0
      <4>1. PICK k \in 1 .. MaxSections : a[k] = b + new - 1
        BY <1>4, <2>2, <3>2 DEF First
      <4>2. a[k] \in Nat /\ e[k] \in Nat /\ a[k] < e[k] /\ r = a[k]
        BY <1>1, <2>3, <3>2, <4>1 DEF Spans
      <4>3. i_available' > 0 /\ Busy'
        BY <1>2, <2>1, <2>2, <3>2 DEF Busy
      <4>4. InProgress(a, e, damaged', k, r, <<>>, HeaderCells, FALSE)
        BY <1>1, <4>2, StartOf
      <4>5. SectionInv(a, e, k)'
        BY <2>1, <2>4, <4>3, <4>4 DEF SectionInv, None
      <4>6. PointerInv(a, k)'
        <5>1. ~ (a[k] < Cut(sent') - Cells)
          <6>1. Cut(sent') - Cells = b
            BY <1>2, <1>3
          <6> QED BY <1>3, <2>4, <4>2, <6>1
        <5> QED BY <2>1, <5>1 DEF PointerInv
      <4> QED BY <4>5, <4>6
    <3> QED BY <3>1, <3>2
  <2>6. PICK k : SectionInv(a, e, k)' /\ PointerInv(a, k)'
    BY <2>5
  <2>7. CountInv(a, e, k)'
    <3>1. Counts(a, e, fewer, received, k, r)
      <4>1. CASE i = sent + 1
        <5>1. n = 0
          <6>1. ~Busy
            <7> SUFFICES ASSUME p_current_section # None, lostRun = 0 PROVE FALSE
              BY <1>1 DEF Busy
            <7>1. i_continuity_counter = (sent - lostRun) % Period /\ sent - lostRun = sent
              BY <1>1, <1>2 DEF NetInv
            <7>2. (i_continuity_counter + 1) % Period = i % Period
              BY <1>2, <4>1, <7>1, Expected
            <7> QED BY <1>12, <7>2 DEF KeptSection
          <6> QED BY <6>1 DEF Inv, SectionInv
        <5>2. Counts(a, e, fewer, received, 0, b)
          BY <1>3, <1>6, <1>7, <4>1, <5>1, CountsFewer
        <5>3. fewer \subseteq 1 .. MaxSections
          BY <1>6
        <5> QED BY <1>1, <1>3, <2>4, <5>2, <5>3, CountsOver
      <4>2. CASE i = sent /\ Within(a, e, Cut(i)) \subseteq disturbed'
        <5>1. fewer \cap Within(a, e, Cut(i)) = {}
          BY <4>2 DEF fewer, Clean
        <5>2. /\ Counts(a, e, clean, received, n, Cut(i))
              /\ Cut(i) - Cells <= Cut(i) /\ Cut(i) <= Cut(i) /\ Cut(i) - Cells <= r
          BY <1>2, <1>3, <1>7, <2>4, <4>2
        <5> QED BY <1>1, <1>2, <1>6, <2>4, <5>1, <5>2, CountsAgain
      <4> QED BY <4>1, <4>2
    <3> QED BY <1>5, <2>4, <3>1 DEF CountInv, fewer
  <2>8. OrderInv(a, e)'
    <3>1. Behind(a, e, disturbed', received, r, Cut(i))
      <4>1. CASE i = sent + 1
        <5>1. Cut(sent) <= Cut(i) /\ Cut(sent) <= r /\ Cut(sent) <= Cut(sent)
          BY <1>2, <1>3, <2>4, <4>1
        <5> QED BY <1>1, <1>2, <1>7, <2>4, <5>1, BehindOn
      <4>2. CASE i = sent /\ Within(a, e, Cut(i)) \subseteq disturbed'
        <5>1. Cut(sent) = Cut(i) /\ Cut(i) <= Cut(i)
          BY <1>2, <4>2
        <5> QED BY <1>1, <1>2, <1>7, <2>4, <4>2, <5>1, BehindOn
      <4> QED BY <4>1, <4>2
    <3> QED BY <1>5, <1>7, <1>8, <2>4, <3>1 DEF OrderInv
  <2>9. NetInv'
    BY <1>9, <2>4
  <2> QED BY <1>1, <1>8, <1>10, <2>6, <2>7, <2>8, <2>9 DEF Inv, IInv
<1> QED BY <1>11, <1>12

LEMMA NextFits ==
  ASSUME NEW a, NEW e, Layout(sections, stream, a, e), sent \in Nat, sent * Cells < Len(stream)
  PROVE  sent + 1 \in Nat /\ sent + 1 > 0 /\ Cut(sent + 1) <= Len(stream)
<1>1. PICK q \in Nat : Len(stream) = Cut(q)
  BY DEF Layout
<1>2. Cut(sent) < Cut(q)
  BY <1>1 DEF Cut
<1>3. Cut(sent) + Cells <= Cut(q)
  BY <1>2, CutLess
<1> QED BY <1>1, <1>3, CutNext

LEMMA StateFacts ==
  ASSUME NEW a, NEW e, NEW n, Inv(a, e, n)
  PROVE  /\ Layout(sections, stream, a, e) /\ Spans(a, e) /\ stream \in Seq(Nat \X Nat)
         /\ Len(stream) \in Nat /\ Cells \in Nat /\ Cells > 0
         /\ sent \in Nat /\ lostRun \in Nat /\ lostRun < Period /\ lostRun <= sent
         /\ Cut(sent) \in Nat /\ Cut(sent) <= Len(stream) /\ i_available \in 0 .. Cells
         /\ i_available > 0 => sent > 0 /\ lostRun = 0
  BY LayoutSpans, CutNext, SizesAssumption DEF Inv, NetInv

LEMMA DeliverKeeps ==
  ASSUME IInv, Deliver
  PROVE  IInv'
<1>1. PICK a, e, n : Inv(a, e, n)
  BY DEF IInv
<1>2. PICK i \in Nat : i = sent + 1
  BY <1>1, StateFacts
<1>3. i > 0 /\ Cut(i) <= Len(stream)
  BY <1>1, <1>2, StateFacts, NextFits DEF Deliver
<1>4. /\ Idle /\ sent' = i /\ lostRun' = 0 /\ UNCHANGED <<sections, stream>>
      /\ damaged' = damaged /\ disturbed' = disturbed
      /\ PushPacket(Payload(i), i % Period)
  BY <1>2 DEF Deliver
<1>5. PacketOf(stream, Payload(i), Cut(i) - Cells, damaged')
  BY <1>1, <1>3, StateFacts, PayloadIs
<1> QED BY <1>1, <1>2, <1>3, <1>4, <1>5, Arrives

LEMMA DeliverDamagedKeeps ==
  ASSUME IInv, DeliverDamaged
  PROVE  IInv'
<1>1. PICK a, e, n : Inv(a, e, n)
  BY DEF IInv
<1>2. PICK i \in Nat : i = sent + 1
  BY <1>1, StateFacts
<1>3. i > 0 /\ Cut(i) <= Len(stream)
  BY <1>1, <1>2, StateFacts, NextFits DEF DeliverDamaged
<1>4. /\ Idle /\ sent' = i /\ lostRun' = 0 /\ UNCHANGED <<sections, stream>>
      /\ disturbed' = disturbed
  BY <1>2 DEF DeliverDamaged, Fault
<1> DEFINE p == Payload(i)
<1>5. PICK k \in 1 .. Cells : /\ p[k][2] > HeaderCells /\ damaged' = damaged \cup {p[k][1]}
                              /\ PushPacket([p EXCEPT ![k] = Damaged], i % Period)
  BY <1>2 DEF DeliverDamaged
<1>6. PacketOf(stream, p, Cut(i) - Cells, {})
  BY <1>1, <1>3, StateFacts, PayloadIs
<1> HIDE DEF p
<1> DEFINE r == [p EXCEPT ![k] = Damaged]
           b == Cut(i) - Cells
<1>7. PacketOf(stream, r, b, damaged')
  <2>1. /\ p \in Seq(Nat \X Nat) /\ Len(p) = Cells
        /\ \A c \in 1 .. Cells : p[c] = stream[b + c]
    BY <1>6 DEF PacketOf, Carried
  <2>2. Damaged \in Nat \X Nat
    BY DEF Damaged
  <2> HIDE DEF b
  <2>3. /\ r \in Seq(Nat \X Nat) /\ Len(r) = Cells /\ r[k] = Damaged
        /\ \A c \in 1 .. Cells : c # k => r[c] = p[c]
    BY <2>1, <2>2
  <2> HIDE DEF r
  <2>4. ASSUME NEW c \in 1 .. Cells PROVE Carried(r[c], stream[b + c], damaged')
    <3>1. CASE c = k
      <4>1. stream[b + c] = p[k] /\ p[k][1] \in damaged' /\ r[c] = Damaged
        BY <1>5, <2>1, <2>3, <3>1
      <4> QED BY <1>5, <4>1 DEF Carried
    <3>2. CASE c # k
      BY <2>1, <2>3, <3>2 DEF Carried
    <3> QED BY <3>1, <3>2
  <2> QED BY <2>3, <2>4 DEF PacketOf
<1>8. PushPacket(r, i % Period) /\ damaged \subseteq damaged' /\ disturbed \subseteq disturbed'
  BY <1>4, <1>5
<1> HIDE DEF r
<1>9. PacketOf(stream, r, Cut(i) - Cells, damaged')
  BY <1>7
<1> QED BY <1>1, <1>2, <1>3, <1>4, <1>8, <1>9, Arrives

LEMMA RepeatKeeps ==
  ASSUME IInv, Repeat
  PROVE  IInv'
<1>1. PICK a, e, n : Inv(a, e, n)
  BY DEF IInv
<1>2. PICK i \in Nat : i = sent
  BY <1>1, StateFacts
<1>3. i > 0 /\ Cut(i) <= Len(stream)
  BY <1>1, <1>2, StateFacts DEF Repeat
<1>4. /\ Idle /\ sent' = i /\ lostRun' = 0 /\ lostRun = 0 /\ UNCHANGED <<sections, stream>>
      /\ damaged' = damaged /\ disturbed' = disturbed \cup SectionsIn(Payload(i))
      /\ PushPacket(Payload(i), i % Period)
  BY <1>2 DEF Repeat, Fault
<1>5. PacketOf(stream, Payload(i), Cut(i) - Cells, damaged')
  BY <1>1, <1>3, StateFacts, PayloadIs
<1>6. Within(a, e, Cut(i)) \subseteq disturbed' /\ disturbed \subseteq disturbed'
  BY <1>1, <1>3, <1>4, StateFacts, WithinPacket
<1> QED BY <1>1, <1>2, <1>3, <1>4, <1>5, <1>6, Arrives

LEMMA LoseKeeps ==
  ASSUME IInv, Lose
  PROVE  IInv'
<1>1. PICK a, e, n : Inv(a, e, n)
  BY DEF IInv
<1>2. PICK i \in Nat : i = sent + 1
  BY <1>1, StateFacts
<1>3. i > 0 /\ Cut(i) <= Len(stream) /\ Cut(i) = Cut(sent) + Cells /\ Cut(i) \in Nat
  BY <1>1, <1>2, StateFacts, NextFits, CutNext DEF Lose
<1>4. /\ i_available = 0 /\ sent' = i /\ lostRun' = lostRun + 1 /\ lostRun < Period - 1
      /\ disturbed' = disturbed \cup SectionsIn(Payload(i))
      /\ UNCHANGED <<sections, stream, damaged, received, crcErrors, i_available,
                     p_current_section, i_continuity_counter>>
  BY <1>2 DEF Lose, Fault, Idle, handle, packet, reports
<1>5. /\ Spans(a, e) /\ Layout(sections, stream, a, e)' /\ Pos = Cut(sent) /\ Pos' = Cut(i) /\ ~Busy'
  BY <1>1, <1>3, <1>4, StateFacts DEF Pos, Busy
<1>6. NetInv'
  <2>1. Period \in Nat /\ lostRun + 1 < Period /\ lostRun + 1 <= i /\ i - (lostRun + 1) = sent - lostRun
    <3>1. sent \in Nat /\ lostRun \in Nat /\ lostRun <= sent
      BY <1>1, StateFacts
    <3>2. Period \in Nat
      BY SizesAssumption
    <3> QED BY <1>2, <1>4, <3>1, <3>2
  <2>2. p_current_section # None => i_continuity_counter = (sent - lostRun) % Period
    BY <1>1 DEF Inv, NetInv
  <2>3. 0 \in 0 .. Cells /\ lostRun + 1 \in Nat
    BY <1>1, StateFacts
  <2> QED BY <1>3, <1>4, <2>1, <2>2, <2>3 DEF NetInv
<1>7. PacketInv' /\ SectionInv(a, e, 0)' /\ PointerInv(a, 0)'
  BY <1>4, <1>5 DEF PacketInv, SectionInv, PointerInv
<1>8. CountInv(a, e, 0)'
  <2> DEFINE clean == Clean(disturbed, damaged)
             fewer == Clean(disturbed', damaged')
  <2>1. fewer \subseteq clean /\ clean \subseteq 1 .. MaxSections
    BY <1>4 DEF Clean
  <2>2. fewer \cap Within(a, e, Cut(i)) = {}
    <3>1. Within(a, e, Cut(i)) \subseteq disturbed'
      BY <1>1, <1>3, <1>4, StateFacts, WithinPacket
    <3> QED BY <3>1 DEF Clean
  <2>3. Counts(a, e, clean, received, n, Cut(sent))
    BY <1>1, <1>5 DEF Inv, CountInv
  <2> HIDE DEF clean, fewer
  <2>4. Cut(i) - Cells <= Cut(sent) /\ Cut(sent) <= Cut(i) /\ Cut(i) - Cells <= Cut(i) /\ Cut(i) <= Cut(i)
    BY <1>1, <1>3, StateFacts
  <2>5. Counts(a, e, fewer, received, 0, Cut(i))
    BY <1>1, <1>3, <1>5, <2>1, <2>2, <2>3, <2>4, StateFacts, CountsAgain
  <2> QED BY <1>4, <1>5, <2>5 DEF CountInv, fewer
<1>9. OrderInv(a, e)'
  <2>1. /\ Behind(a, e, disturbed, received, Cut(sent), Cut(sent)) /\ Rising(disturbed, received)
        /\ received \in Seq(1 .. MaxSections)
    BY <1>1, <1>5 DEF Inv, OrderInv
  <2>2. Cut(sent) <= Cut(i) /\ Cut(i) <= Cut(i) /\ Cut(sent) <= Cut(sent) /\ disturbed \subseteq disturbed'
    BY <1>1, <1>3, <1>4, StateFacts
  <2>3. Behind(a, e, disturbed', received, Cut(i), Cut(i))
    BY <1>1, <1>3, <1>5, <2>1, <2>2, StateFacts, BehindOn
  <2> QED BY <1>4, <1>5, <2>1, <2>2, <2>3, RisingOn DEF OrderInv
<1>10. NoFalseCrcError'
  BY <1>1, <1>4 DEF Inv, NoFalseCrcError
<1> QED BY <1>5, <1>6, <1>7, <1>8, <1>9, <1>10 DEF Inv, IInv

(* The section in progress is thrown away. *)
LEMMA Reset ==
  ASSUME IInv, Idle, i_available' = 0, p_current_section' = None,
         disturbed' = disturbed \cup Across(sent),
         UNCHANGED <<sections, stream, sent, lostRun, damaged, received, crcErrors>>
  PROVE  IInv'
<1>1. PICK a, e, n : Inv(a, e, n)
  BY DEF IInv
<1>2. Layout(sections, stream, a, e)' /\ Pos = Cut(sent) /\ Pos' = Cut(sent) /\ ~Busy'
  BY <1>1, StateFacts DEF Pos, Busy, Idle
<1>3. NetInv'
  <2>1. 0 \in 0 .. Cells
    BY <1>1, StateFacts
  <2> QED BY <1>1, <2>1, StateFacts DEF NetInv
<1>4. PacketInv' /\ SectionInv(a, e, 0)' /\ PointerInv(a, 0)'
  BY <1>2 DEF PacketInv, SectionInv, PointerInv
<1>5. CountInv(a, e, 0)'
  <2>1. Counts(a, e, Clean(disturbed, damaged), received, n, Cut(sent))
    BY <1>1, <1>2 DEF Inv, CountInv
  <2>2. Counts(a, e, Clean(disturbed \cup Across(sent), damaged), received, 0, Cut(sent))
    BY <1>1, <2>1, StateFacts, CountsReset
  <2> QED BY <1>2, <2>2 DEF CountInv
<1>6. OrderInv(a, e)'
  <2>1. /\ Behind(a, e, disturbed, received, Cut(sent), Cut(sent)) /\ Rising(disturbed, received)
        /\ received \in Seq(1 .. MaxSections)
    BY <1>1, <1>2 DEF Inv, OrderInv
  <2>2. Cut(sent) <= Cut(sent) /\ disturbed \subseteq disturbed'
    BY <1>1, StateFacts
  <2>3. Behind(a, e, disturbed', received, Cut(sent), Cut(sent))
    BY <1>1, <2>1, <2>2, StateFacts, BehindOn
  <2> QED BY <1>2, <2>1, <2>2, <2>3, RisingOn DEF OrderInv
<1>7. NoFalseCrcError'
  BY <1>1 DEF Inv, NoFalseCrcError
<1> QED BY <1>2, <1>3, <1>4, <1>5, <1>6, <1>7 DEF Inv, IInv

LEMMA NoPayloadKeeps ==
  ASSUME IInv, NoPayload
  PROVE  IInv'
<1>1. PICK a, e, n : Inv(a, e, n)
  BY DEF IInv
<1>2. /\ Idle /\ lostRun = 0 /\ PushPacket(<<>>, sent % Period)
      /\ disturbed' = disturbed \cup Across(sent)
      /\ UNCHANGED <<sections, stream, sent, lostRun, damaged, received, crcErrors>>
  BY DEF NoPayload, Fault, PushPacket, reports
<1>3. KeptSection(sent % Period) = None
  <2> SUFFICES ASSUME p_current_section # None PROVE (i_continuity_counter + 1) % Period # sent % Period
    BY DEF KeptSection
  <2>1. sent \in Nat /\ sent - lostRun = sent
    BY <1>1, <1>2, StateFacts
  <2>2. i_continuity_counter = sent % Period
    BY <1>1, <2>1 DEF Inv, NetInv
  <2>3. (i_continuity_counter + 1) % Period = (sent + 1) % Period
    BY <2>1, <2>2, Expected
  <2>4. (sent + 1) % Period # sent % Period
    BY <2>1, Gap, SizesAssumption
  <2> QED BY <2>3, <2>4
<1>4. p_current_section' = None /\ i_available' = 0
  BY <1>2, <1>3, NewPosNone DEF PushPacket
<1> QED BY <1>2, <1>4, Reset

LEMMA AddPmtPidKeeps ==
  ASSUME IInv, AddPmtPid
  PROVE  IInv'
<1>1. /\ Idle /\ p_current_section' = None /\ i_available' = 0
      /\ disturbed' = disturbed \cup Across(sent)
      /\ UNCHANGED <<sections, stream, sent, lostRun, damaged, received, crcErrors>>
  BY DEF AddPmtPid, Fault, Idle, packet, reports
<1> QED BY <1>1, Reset

-----------------------------------------------------------------------------
(* The steps of the loop. *)

LEMMA LoopFacts ==
  ASSUME NEW a, NEW e, NEW n, Inv(a, e, n), i_available > 0
  PROVE  /\ sent - 1 \in Nat /\ Cut(sent - 1) \in Nat /\ lostRun = 0
         /\ Cut(sent) = Cut(sent - 1) + Cells /\ Cut(sent) - Cells = Cut(sent - 1)
         /\ Pos \in Nat /\ Cut(sent - 1) <= Pos /\ Pos < Cut(sent)
         /\ Pos = Cut(sent) - i_available /\ i_available \in Nat
         /\ PacketOf(stream, payload, Cut(sent - 1), damaged) /\ Len(payload) = Cells
         /\ InProgress(a, e, damaged, n, Pos, p_current_section, i_need, b_complete_header)
<1>1. sent \in Nat /\ sent > 0 /\ lostRun = 0 /\ i_available \in 0 .. Cells /\ Cells \in Nat
  BY StateFacts
<1>2. sent - 1 \in Nat /\ (sent - 1) + 1 = sent
  BY <1>1
<1>3. Cut(sent - 1) \in Nat /\ Cut((sent - 1) + 1) = Cut(sent - 1) + Cells
  BY <1>2, CutNext
<1>4. Cut(sent) = Cut(sent - 1) + Cells
  BY <1>2, <1>3
<1>5. Cut(sent) - Cells = Cut(sent - 1)
  BY <1>1, <1>3, <1>4
<1>6. PacketOf(stream, payload, Cut(sent - 1), damaged)
  BY <1>5 DEF Inv, PacketInv
<1>7. /\ Pos = Cut(sent) - i_available
      /\ Pos \in Nat /\ Cut(sent - 1) <= Pos /\ Pos < Cut(sent)
  <2>1. Pos = Cut(sent) - i_available
    BY DEF Pos
  <2> QED BY <1>1, <1>3, <1>4, <2>1
<1>8. Busy /\ InProgress(a, e, damaged, n, Pos, p_current_section, i_need, b_complete_header)
  BY DEF Busy, Inv, SectionInv
<1> QED BY <1>1, <1>2, <1>3, <1>4, <1>5, <1>6, <1>7, <1>8 DEF PacketOf

LEMMA ProgressFacts ==
  ASSUME NEW a, NEW e, NEW n, Inv(a, e, n), i_available > 0
  PROVE  /\ n \in 1 .. MaxSections /\ a[n] \in Nat /\ e[n] \in Nat /\ a[n] + HeaderCells < e[n]
         /\ e[n] - a[n] = HeaderCells + sections[n].length
         /\ Len(p_current_section) \in Nat /\ Pos = a[n] + Len(p_current_section) /\ Pos < e[n]
         /\ a[n] <= Pos
         /\ b_complete_header => i_need = e[n] - Pos /\ Short(a, e, n) /\ Len(p_current_section) >= HeaderCells
         /\ ~b_complete_header => Len(p_current_section) < HeaderCells
                                  /\ i_need = HeaderCells - Len(p_current_section)
         /\ i_need \in Nat /\ i_need > 0 /\ Pos + i_need <= e[n]
         /\ HeaderCells \in Nat /\ HeaderCells > 0
<1>1. InProgress(a, e, damaged, n, Pos, p_current_section, i_need, b_complete_header)
  BY LoopFacts
<1>2. /\ n \in 1 .. MaxSections /\ p_current_section \in Seq(Nat \X Nat)
      /\ b_complete_header \in BOOLEAN
      /\ Pos = a[n] + Len(p_current_section) /\ Pos < e[n]
      /\ b_complete_header => i_need = e[n] - Pos /\ Short(a, e, n) /\ Len(p_current_section) >= HeaderCells
      /\ ~b_complete_header => Len(p_current_section) < HeaderCells
                               /\ i_need = HeaderCells - Len(p_current_section)
  BY <1>1 DEF InProgress
<1>3. Layout(sections, stream, a, e)
  BY StateFacts
<1>4. /\ a[n] \in Nat /\ e[n] \in Nat /\ a[n] + HeaderCells < e[n]
      /\ e[n] - a[n] = HeaderCells + sections[n].length
  BY <1>2, <1>3, LayoutSpans DEF Spans
<1>5. Len(p_current_section) \in Nat /\ HeaderCells \in Nat /\ HeaderCells > 0
  BY <1>2, LenProperties, SizesAssumption
<1>6. a[n] <= Pos
  BY <1>2, <1>4, <1>5
<1>7. i_need \in Nat /\ i_need > 0 /\ Pos + i_need <= e[n]
  <2>0. Pos \in Nat /\ Pos < e[n]
    BY <1>2, <1>4, <1>5
  <2>1. CASE b_complete_header
    <3>1. i_need = e[n] - Pos
      BY <1>2, <2>1
    <3> QED BY <1>4, <2>0, <3>1
  <2>2. CASE ~b_complete_header
    <3>1. Len(p_current_section) < HeaderCells /\ i_need = HeaderCells - Len(p_current_section)
      BY <1>2, <2>2
    <3>2. Pos = a[n] + Len(p_current_section)
      BY <1>2
    <3> QED BY <1>4, <1>5, <3>1, <3>2
  <2> QED BY <2>1, <2>2
<1> QED BY <1>2, <1>4, <1>5, <1>6, <1>7

LEMMA Part ==
  ASSUME NEW p \in Seq(Nat \X Nat), NEW z \in Nat, NEW m \in Nat, z + m <= Len(p)
  PROVE  LET f == SubSeq(p, z + 1, z + m) IN
         /\ f \in Seq(Nat \X Nat) /\ Len(f) = m
         /\ \A i \in 1 .. m : f[i] = p[z + i]
<1>1. PICK y \in Nat : y = z + m
  OBVIOUS
<1>2. Len(p) \in Nat
  BY LenProperties
<1> DEFINE f == SubSeq(p, z + 1, y)
<1>3. f \in Seq(Nat \X Nat)
  BY <1>1, <1>2
<1>4. Len(f) = m
  BY <1>1, <1>2
<1>5. \A i \in 1 .. m : f[i] = p[z + i]
  BY <1>1, <1>2
<1> QED BY <1>1, <1>3, <1>4, <1>5

(* The next m cells of the section in progress. *)
LEMMA Taken ==
  ASSUME NEW a, NEW e, NEW n, Inv(a, e, n), i_available > 0,
         NEW m \in Nat, m <= i_available, Pos + m <= e[n]
  PROVE  LET data == p_current_section \o Following(m) IN
         /\ data \in Seq(Nat \X Nat) /\ Len(data) = Len(p_current_section) + m
         /\ \A i \in 1 .. Len(data) : Carried(data[i], <<n, i>>, damaged)
<1> DEFINE data == p_current_section \o Following(m)
           f == Following(m)
           cur == p_current_section
           b == Cut(sent - 1)
           z == Cells - i_available
<1>1. /\ payload \in Seq(Nat \X Nat) /\ Len(payload) = Cells /\ cur \in Seq(Nat \X Nat)
      /\ Len(cur) \in Nat
      /\ \A k \in 1 .. Cells : Carried(payload[k], stream[b + k], damaged)
      /\ \A i \in 1 .. Len(cur) : Carried(cur[i], <<n, i>>, damaged)
  BY LoopFacts, ProgressFacts DEF PacketOf, InProgress
<1>2. z \in Nat /\ z + m <= Cells /\ Cells \in Nat /\ b \in Nat /\ b + z = Pos
  <2>1. i_available \in 0 .. Cells /\ Cells \in Nat
    BY StateFacts
  <2>2. b \in Nat /\ Cut(sent) = b + Cells /\ Pos = Cut(sent) - i_available
    BY LoopFacts
  <2> HIDE DEF b
  <2> QED BY <2>1, <2>2
<1>3. f = SubSeq(payload, z + 1, z + m)
  BY <1>1 DEF Following
<1> HIDE DEF z, f, b, cur
<1>4. /\ f \in Seq(Nat \X Nat) /\ Len(f) = m
      /\ \A i \in 1 .. m : f[i] = payload[z + i]
  <2>1. payload \in Seq(Nat \X Nat) /\ z \in Nat /\ z + m <= Len(payload)
    BY <1>1, <1>2
  <2> QED BY <1>3, <2>1, Part
<1>5. ASSUME NEW i \in 1 .. m PROVE Carried(f[i], <<n, Len(cur) + i>>, damaged)
  <2>1. PICK j \in Nat : j = Pos + i
    BY LoopFacts
  <2>2. a[n] < j /\ j <= e[n] /\ j - a[n] = Len(cur) + i
    <3>1. Pos = a[n] + Len(cur) /\ a[n] \in Nat /\ e[n] \in Nat
      BY ProgressFacts DEF cur
    <3> QED BY <1>1, <2>1, <3>1
  <2>3. stream[j] = <<n, Len(cur) + i>>
    <3>1. Layout(sections, stream, a, e) /\ n \in 1 .. MaxSections
      BY StateFacts, ProgressFacts
    <3>2. stream[j] = <<n, j - a[n]>>
      BY <2>2, <3>1, CellOf
    <3> QED BY <2>2, <3>2
  <2>4. PICK k \in 1 .. Cells : k = z + i
    BY <1>2
  <2>5. f[i] = payload[k] /\ b + k = j
    <3>1. b + k = j
      BY <1>2, <2>1, <2>4
    <3> QED BY <1>4, <2>4, <3>1
  <2>6. Carried(payload[k], stream[b + k], damaged)
    BY <1>1
  <2> QED BY <2>3, <2>5, <2>6
<1>6. /\ data \in Seq(Nat \X Nat) /\ Len(data) = Len(cur) + m
      /\ \A i \in 1 .. Len(cur) + m : data[i] = IF i <= Len(cur) THEN cur[i] ELSE f[i - Len(cur)]
  <2>1. data = cur \o f
    BY DEF cur, f
  <2> HIDE DEF data
  <2> QED BY <1>1, <1>4, <2>1, ConcatProperties
<1> HIDE DEF data
<1>7. ASSUME NEW i \in 1 .. Len(data) PROVE Carried(data[i], <<n, i>>, damaged)
  <2>1. CASE i <= Len(cur)
    <3>1. i \in 1 .. Len(cur) /\ i \in 1 .. Len(cur) + m
      BY <1>1, <1>6, <2>1
    <3> QED BY <1>1, <1>6, <2>1, <3>1
  <2>2. CASE ~ (i <= Len(cur))
    <3>1. PICK j \in 1 .. m : i = Len(cur) + j
      <4>1. i - Len(cur) \in 1 .. m /\ i = Len(cur) + (i - Len(cur))
        BY <1>1, <1>6, <2>2
      <4> QED BY <4>1
    <3>2. i - Len(cur) = j /\ i \in 1 .. Len(cur) + m
      BY <1>1, <1>6, <3>1
    <3>3. data[i] = f[j]
      BY <1>6, <2>2, <3>2
    <3> QED BY <1>5, <3>1, <3>3
  <2> QED BY <2>1, <2>2
<1> QED BY <1>6, <1>7 DEF data, cur

(* The loop goes on behind q, at the section that starts at pos of the packet, or
   leaves the rest of it out. *)
LEMMA Forward ==
  ASSUME NEW a, NEW e, NEW n, Inv(a, e, n), i_available > 0,
         NEW pos \in 0 .. Cells, GoForward(pos),
         UNCHANGED <<network, i_continuity_counter, payload>>,
         NEW q \in Nat, Pos <= q, q <= Cut(sent),
         pos = 0 => NoStart(a, q, Cut(sent)),
         pos > 0 => /\ q <= Cut(sent - 1) + pos - 1 /\ NoStart(a, q, Cut(sent - 1) + pos - 1)
                    /\ \E m \in 1 .. MaxSections : a[m] = Cut(sent - 1) + pos - 1,
         Counts(a, e, Clean(disturbed, damaged), received', 0, q), received' \in Seq(1 .. MaxSections),
         Behind(a, e, disturbed, received', q, Cut(sent)), Rising(disturbed, received'),
         crcErrors' \subseteq damaged
  PROVE  IInv'
<1>1. /\ UNCHANGED <<sections, stream, sent, lostRun, damaged, disturbed, i_continuity_counter, payload>>
      /\ p_current_section' = None /\ p_new_pos' = 0
      /\ i_need' = HeaderCells /\ b_complete_header' = FALSE
      /\ i_available' = IF pos = 0 THEN 0 ELSE Len(payload) - pos + 1
  BY DEF network, GoForward
<1> DEFINE b == Cut(sent - 1)
           hi == Cut(sent)
<1>2. /\ Layout(sections, stream, a, e) /\ Layout(sections, stream, a, e)' /\ Spans(a, e)
      /\ b \in Nat /\ hi \in Nat /\ hi = b + Cells /\ Cells \in Nat /\ Cells > 0
      /\ hi - Cells = b /\ b <= Pos /\ Len(payload) = Cells
  BY <1>1, StateFacts, LoopFacts
<1>3. PICK r \in Nat : r = IF pos = 0 THEN hi ELSE b + pos - 1
  <2> HIDE DEF b, hi
  <2>1. pos # 0 => b + pos - 1 \in Nat
    BY <1>2
  <2>2. (IF pos = 0 THEN hi ELSE b + pos - 1) \in Nat
    BY <1>2, <2>1
  <2> QED BY <2>2
<1>4. Pos' = hi - i_available'
  BY <1>1 DEF Pos, Cut
<1>5. q <= hi /\ NoStart(a, q, r) /\ q <= r
  <2>1. CASE pos = 0
    <3>1. r = hi /\ q <= hi
      BY <1>3, <2>1
    <3> QED BY <2>1, <3>1
  <2>2. CASE pos # 0
    <3>1. r = b + pos - 1 /\ pos > 0
      BY <1>3, <2>2
    <3> QED BY <3>1
  <2> QED BY <2>1, <2>2
<1> HIDE DEF b, hi
<1>6. Pos' = r /\ b <= r /\ r <= hi /\ i_available' \in 0 .. Cells
  BY <1>1, <1>2, <1>3, <1>4
<1>7. \E k : SectionInv(a, e, k)' /\ PointerInv(a, k)'
  <2>1. CASE pos = 0
    <3>1. i_available' = 0 /\ ~Busy'
      BY <1>1, <2>1 DEF Busy
    <3>2. SectionInv(a, e, 0)' /\ PointerInv(a, 0)'
      BY <3>1 DEF SectionInv, PointerInv
    <3> QED BY <3>2
  <2>2. CASE pos # 0
    <3>1. PICK k \in 1 .. MaxSections : a[k] = r
      BY <1>3, <2>2 DEF b
    <3>2. i_available' > 0 /\ Busy'
      BY <1>1, <1>2, <2>2 DEF Busy
    <3>3. InProgress(a, e, damaged', k, r, <<>>, HeaderCells, FALSE)
      BY <1>2, <3>1, StartOf
    <3>4. SectionInv(a, e, k)'
      BY <1>1, <1>6, <3>2, <3>3 DEF SectionInv, None
    <3>5. PointerInv(a, k)'
      <4>1. ~ (a[k] < Cut(sent') - Cells)
        <5>1. Cut(sent') - Cells = b
          BY <1>1, <1>2 DEF hi
        <5> QED BY <1>2, <1>6, <3>1, <5>1
      <4> QED BY <1>1, <4>1 DEF PointerInv
    <3> QED BY <3>4, <3>5
  <2> QED BY <2>1, <2>2
<1>8. PICK k : SectionInv(a, e, k)' /\ PointerInv(a, k)'
  BY <1>7
<1>9. NetInv'
  BY <1>1, <1>6 DEF Inv, NetInv, Cut
<1>10. PacketInv'
  BY <1>1 DEF Inv, PacketInv, Cut
<1>11. CountInv(a, e, k)'
  <2>1. Clean(disturbed, damaged) \subseteq 1 .. MaxSections
    BY DEF Clean
  <2>2. Counts(a, e, Clean(disturbed, damaged), received', k, r)
    BY <1>2, <1>5, <2>1, CountsOver
  <2> QED BY <1>1, <1>6, <2>2 DEF CountInv
<1>12. OrderInv(a, e)'
  <2>1. Behind(a, e, disturbed, received', r, hi)
    <3>1. Behind(a, e, disturbed, received', q, hi)
      BY DEF hi
    <3>2. hi <= hi /\ r <= hi
      BY <1>2, <1>6
    <3> QED BY <1>2, <1>5, <3>1, <3>2, BehindOn
  <2>2. Cut(sent') = hi
    BY <1>1 DEF hi
  <2> QED BY <1>1, <1>6, <2>1, <2>2 DEF OrderInv
<1>13. NoFalseCrcError'
  BY <1>1 DEF NoFalseCrcError
<1> QED BY <1>2, <1>8, <1>9, <1>10, <1>11, <1>12, <1>13 DEF Inv, IInv

(* Or stays within the section. *)
LEMMA Onward ==
  ASSUME NEW a, NEW e, NEW n, Inv(a, e, n), i_available > 0,
         NEW m \in Nat, m <= i_available, i_available' = i_available - m,
         UNCHANGED <<network, i_continuity_counter, payload, p_new_pos, reports>>,
         p_current_section' # None,
         NEW q, q = Pos + m, q < e[n],
         InProgress(a, e, damaged, n, q, p_current_section', i_need', b_complete_header')
  PROVE  IInv'
<1>1. /\ UNCHANGED <<sections, stream, sent, lostRun, damaged, disturbed, i_continuity_counter,
                     payload, p_new_pos, received, crcErrors>>
  BY DEF network, reports
<1>2. /\ Layout(sections, stream, a, e) /\ Layout(sections, stream, a, e)' /\ Spans(a, e)
      /\ i_available \in 0 .. Cells /\ Cells \in Nat /\ Cut(sent) \in Nat
      /\ Pos \in Nat /\ Pos <= Cut(sent) /\ Pos = Cut(sent) - i_available /\ lostRun = 0
      /\ n \in 1 .. MaxSections /\ a[n] <= Pos
  <2>1. Pos \in Nat /\ Pos < Cut(sent) /\ Pos = Cut(sent) - i_available /\ lostRun = 0
    BY LoopFacts
  <2>2. Cut(sent) \in Nat
    BY StateFacts
  <2>3. Pos <= Cut(sent)
    BY <2>1, <2>2
  <2> QED BY <1>1, <2>1, <2>2, <2>3, StateFacts, ProgressFacts
<1>3. Pos' = Cut(sent) - i_available'
  BY <1>1 DEF Pos, Cut
<1>4. /\ Pos' = q /\ q \in Nat /\ Pos <= q /\ q <= Cut(sent) /\ i_available' \in 0 .. Cells
      /\ i_available' > 0 => i_available > 0
  <2> PICK c \in Nat : c = Cut(sent)
    BY <1>2
  <2> QED BY <1>2, <1>3
<1>5. NetInv'
  BY <1>1, <1>4 DEF Inv, NetInv, Cut
<1>6. PacketInv'
  BY <1>1, <1>4 DEF Inv, PacketInv, Cut
<1>7. SectionInv(a, e, n)'
  <2>1. Busy'
    BY <1>1, <1>2 DEF Busy
  <2> QED BY <1>1, <1>4, <2>1 DEF SectionInv
<1>8. PointerInv(a, n)'
  BY <1>1, <1>4 DEF Inv, PointerInv, Cut
<1>9. CountInv(a, e, n)'
  <2>1. Clean(disturbed, damaged) \subseteq 1 .. MaxSections
    BY DEF Clean
  <2>2. Counts(a, e, Clean(disturbed, damaged), received, n, Pos)
    BY DEF Inv, CountInv
  <2>3. Counts(a, e, Clean(disturbed, damaged), received, n, q)
    BY <1>2, <1>4, <2>1, <2>2, CountsWithin
  <2> QED BY <1>1, <1>4, <2>3 DEF CountInv
<1>10. OrderInv(a, e)'
  <2>1. /\ Behind(a, e, disturbed, received, Pos, Cut(sent)) /\ Rising(disturbed, received)
        /\ received \in Seq(1 .. MaxSections)
    BY DEF Inv, OrderInv
  <2>2. Cut(sent) <= Cut(sent)
    BY <1>2
  <2>3. Behind(a, e, disturbed, received, q, Cut(sent))
    BY <1>2, <1>4, <2>1, <2>2, BehindOn
  <2>4. Cut(sent') = Cut(sent)
    BY <1>1
  <2> QED BY <1>1, <1>4, <2>1, <2>3, <2>4 DEF OrderInv
<1>11. NoFalseCrcError'
  BY <1>1 DEF Inv, NoFalseCrcError
<1> QED BY <1>2, <1>5, <1>6, <1>7, <1>8, <1>9, <1>10, <1>11 DEF Inv, IInv

LEMMA TakeRestKeeps ==
  ASSUME IInv, TakeRest
  PROVE  IInv'
<1>1. PICK a, e, n : Inv(a, e, n)
  BY DEF IInv
<1>2. /\ i_available > 0 /\ i_available < i_need
      /\ p_current_section' = p_current_section \o Following(i_available)
      /\ i_need' = i_need - i_available /\ i_available' = 0
      /\ b_complete_header' = b_complete_header
      /\ UNCHANGED <<network, i_continuity_counter, payload, p_new_pos, reports>>
  BY DEF TakeRest
<1>3. PICK m, c, q \in Nat : m = i_available /\ c = Len(p_current_section) /\ q = Pos + i_available
  <2>1. i_available \in Nat /\ Pos \in Nat /\ Len(p_current_section) \in Nat
    BY <1>1, <1>2, LoopFacts, ProgressFacts
  <2>2. Pos + i_available \in Nat
    BY <2>1
  <2> QED BY <2>1, <2>2
<1>4. /\ n \in 1 .. MaxSections /\ a[n] \in Nat /\ e[n] \in Nat
      /\ Pos = a[n] + c /\ i_need \in Nat /\ Pos + i_need <= e[n]
      /\ b_complete_header \in BOOLEAN
  <2>1. b_complete_header \in BOOLEAN
    BY <1>1, <1>2, LoopFacts DEF InProgress
  <2> QED BY <1>1, <1>2, <1>3, <2>1, ProgressFacts
<1>5. q = a[n] + c + m /\ q < e[n] /\ Pos + m <= e[n] /\ m <= i_available /\ i_available - m = 0
  BY <1>2, <1>3, <1>4
<1>6. PICK data : data = p_current_section \o Following(m)
  OBVIOUS
<1>7. /\ data \in Seq(Nat \X Nat) /\ Len(data) = c + m
      /\ \A i \in 1 .. Len(data) : Carried(data[i], <<n, i>>, damaged)
  BY <1>1, <1>2, <1>3, <1>5, <1>6, Taken
<1>8. PICK d \in Nat : d = Len(data) /\ d = c + m
  BY <1>7
<1>9. InProgress(a, e, damaged, n, q, data, i_need - m, b_complete_header)
  <2>1. q = a[n] + d
    BY <1>4, <1>5, <1>8
  <2>2. b_complete_header => d >= HeaderCells /\ i_need - m = e[n] - q /\ Short(a, e, n)
    <3> SUFFICES ASSUME b_complete_header
                 PROVE  d >= HeaderCells /\ i_need - m = e[n] - q /\ Short(a, e, n)
      OBVIOUS
    <3>1. i_need = e[n] - Pos /\ Short(a, e, n) /\ c >= HeaderCells /\ HeaderCells \in Nat
      BY <1>1, <1>2, <1>3, ProgressFacts
    <3>2. d >= HeaderCells
      BY <1>8, <3>1
    <3> QED BY <1>4, <1>5, <3>1, <3>2
  <2>3. ~b_complete_header => d < HeaderCells /\ i_need - m = HeaderCells - d
    <3> SUFFICES ASSUME ~b_complete_header
                 PROVE  d < HeaderCells /\ i_need - m = HeaderCells - d
      OBVIOUS
    <3>1. i_need = HeaderCells - c /\ HeaderCells \in Nat
      BY <1>1, <1>2, <1>3, ProgressFacts
    <3>2. m < i_need
      BY <1>2, <1>3
    <3> QED BY <1>8, <3>1, <3>2
  <2> QED BY <1>4, <1>5, <1>7, <1>8, <2>1, <2>2, <2>3 DEF InProgress
<1>10. data # None
  <2>1. Len(data) # 0
    BY <1>2, <1>3, <1>8
  <2>2. Len(<<>>) = 0
    OBVIOUS
  <2> QED BY <2>1, <2>2 DEF None
<1>11. p_current_section' = data /\ i_need' = i_need - m /\ i_available' = i_available - m
  BY <1>2, <1>3, <1>5, <1>6
<1>12. InProgress(a, e, damaged, n, q, p_current_section', i_need', b_complete_header')
  BY <1>2, <1>9, <1>11
<1>13. q = Pos + m
  BY <1>3
<1> QED BY <1>1, <1>2, <1>5, <1>10, <1>11, <1>12, <1>13, Onward

(* A header is not damaged: the section is known by its first cell. *)
LEMMA Numbered ==
  ASSUME NEW n, NEW data, NEW dmg, Len(data) \in Nat, Len(data) > 0,
         \A i \in 1 .. Len(data) : Carried(data[i], <<n, i>>, dmg)
  PROVE  data[1][1] = n
<1>1. 1 \in 1 .. Len(data) /\ ~ (1 > HeaderCells)
  BY SizesAssumption
<1>2. Carried(data[1], <<n, 1>>, dmg)
  BY <1>1
<1> QED BY <1>1, <1>2 DEF Carried

(* Where the pointer leads, for a section from an earlier packet; and nothing else
   starts in the packet before that. *)
LEMMA Pointed ==
  ASSUME NEW a, NEW e, NEW n, Inv(a, e, n), i_available > 0, a[n] < Cut(sent - 1),
         NEW q \in Nat, Pos <= q, q <= e[n]
  PROVE  /\ p_new_pos \in 0 .. Cells
         /\ p_new_pos = 0 => NoStart(a, q, Cut(sent))
         /\ p_new_pos > 0 => /\ q <= Cut(sent - 1) + p_new_pos - 1
                             /\ NoStart(a, q, Cut(sent - 1) + p_new_pos - 1)
                             /\ \E m \in 1 .. MaxSections : a[m] = Cut(sent - 1) + p_new_pos - 1
<1>1. PICK b \in Nat : b = Cut(sent - 1) /\ Cut(sent) = b + Cells /\ Cut(sent) - Cells = b /\ b <= Pos
  BY LoopFacts
<1>2. First(a, b, p_new_pos)
  BY <1>1 DEF Inv, PointerInv
<1>3. /\ Spans(a, e) /\ n \in 1 .. MaxSections /\ a[n] \in Nat /\ e[n] \in Nat /\ Pos \in Nat
      /\ b <= q /\ a[n] < b /\ Pos < e[n] /\ Cells \in Nat
  <2>1. Pos \in Nat /\ Cells \in Nat
    BY LoopFacts, SizesAssumption
  <2>2. b <= q
    BY <1>1, <2>1
  <2> QED BY <1>1, <2>1, <2>2, StateFacts, ProgressFacts
<1>4. \A m \in 1 .. MaxSections : a[m] \in Nat
  BY <1>3 DEF Spans
<1>5. \A hi : NoStart(a, b, hi) => NoStart(a, q, hi)
  <2> SUFFICES ASSUME NEW hi, NoStart(a, b, hi), NEW m \in 1 .. MaxSections, q <= a[m], a[m] < hi
               PROVE  FALSE
    BY DEF NoStart
  <2>1. b <= a[m]
    BY <1>3, <1>4
  <2> QED BY <2>1 DEF NoStart
<1>6. p_new_pos \in 0 .. Cells
  BY <1>2 DEF First
<1>7. CASE p_new_pos = 0
  <2>1. NoStart(a, b, b + Cells) /\ ~ (p_new_pos > 0)
    BY <1>2, <1>7 DEF First
  <2> QED BY <1>1, <1>5, <1>6, <1>7, <2>1
<1>8. CASE p_new_pos > 0
  <2>1. NoStart(a, b, b + p_new_pos - 1) /\ p_new_pos # 0
    BY <1>2, <1>8 DEF First
  <2>2. PICK m \in 1 .. MaxSections : a[m] = b + p_new_pos - 1
    BY <1>2, <1>8 DEF First
  <2>3. a[n] < a[m]
    BY <1>3, <1>4, <1>6, <1>8, <2>2
  <2>4. e[n] <= a[m]
    BY <1>3, <2>3, Apart
  <2>5. q <= b + p_new_pos - 1
    BY <1>3, <1>4, <2>2, <2>4
  <2> QED BY <1>1, <1>5, <1>6, <2>1, <2>2, <2>5
<1> QED BY <1>6, <1>7, <1>8

LEMMA TakeHeaderKeeps ==
  ASSUME IInv, TakeHeader
  PROVE  IInv'
<1>1. PICK a, e, n : Inv(a, e, n)
  BY DEF IInv
<1>2. /\ i_available > 0 /\ i_need <= i_available /\ ~b_complete_header
      /\ UNCHANGED <<network, i_continuity_counter, payload, reports>>
  BY DEF TakeHeader
<1>3. /\ Pos \in Nat /\ i_need \in Nat /\ i_need > 0 /\ i_available \in Nat
      /\ Len(p_current_section) \in Nat /\ Pos = a[n] + Len(p_current_section)
      /\ Len(p_current_section) < HeaderCells /\ i_need = HeaderCells - Len(p_current_section)
      /\ n \in 1 .. MaxSections /\ a[n] \in Nat /\ e[n] \in Nat /\ a[n] + HeaderCells < e[n]
      /\ HeaderCells \in Nat /\ HeaderCells > 0 /\ Pos + i_need <= e[n]
      /\ e[n] - a[n] = HeaderCells + sections[n].length
      /\ Cut(sent) \in Nat /\ Pos = Cut(sent) - i_available
      /\ Spans(a, e) /\ Cut(sent - 1) \in Nat /\ Cut(sent) = Cut(sent - 1) + Cells
      /\ Cut(sent) - Cells = Cut(sent - 1) /\ Layout(sections, stream, a, e)
  BY <1>1, <1>2, StateFacts, LoopFacts, ProgressFacts
<1>4. PICK q \in Nat : q = Pos + i_need
  BY <1>3
<1>n. PICK at, end, pos, len, hi, lo \in Nat :
        at = a[n] /\ end = e[n] /\ pos = Pos /\ len = Len(p_current_section) /\ hi = Cut(sent) /\ lo = Cut(sent - 1)
  BY <1>3
<1>r. /\ pos = at + len /\ at + HeaderCells < end /\ HeaderCells \in Nat /\ HeaderCells > 0
      /\ hi = lo + Cells /\ hi - Cells = lo /\ len < HeaderCells
      /\ end - at = HeaderCells + sections[n].length
      /\ i_available \in Nat /\ pos = hi - i_available /\ i_need \in Nat /\ i_need = HeaderCells - len
      /\ q = pos + i_need
  BY <1>3, <1>4, <1>n
<1>s. /\ q = at + HeaderCells /\ q < end /\ pos <= q /\ q <= hi /\ at < q /\ q <= end
      /\ pos <= hi /\ hi <= hi /\ at <= pos
  BY <1>2, <1>r
<1>5. /\ q = a[n] + HeaderCells /\ q < e[n] /\ Pos <= q /\ q <= Cut(sent) /\ a[n] < q /\ q <= e[n]
      /\ Pos <= Cut(sent) /\ Cut(sent) <= Cut(sent) /\ a[n] <= Pos
  BY <1>n, <1>s
<1>6. PICK data : data = p_current_section \o Following(i_need)
  OBVIOUS
<1>7. /\ data \in Seq(Nat \X Nat) /\ Len(data) = Len(p_current_section) + i_need
      /\ \A i \in 1 .. Len(data) : Carried(data[i], <<n, i>>, damaged)
  BY <1>1, <1>2, <1>3, <1>6, Taken
<1>8. Len(data) = HeaderCells
  BY <1>3, <1>7
<1>9. data[1][1] = n
  BY <1>3, <1>7, <1>8, Numbered
<1>10. CASE TooLong(sections[n].length)
  <2>1. GoForward(p_new_pos)
    BY <1>6, <1>9, <1>10 DEF TakeHeader
  <2>2. ~Short(a, e, n) /\ (a[n] < Cut(sent - 1) \/ Cut(sent) < e[n])
    <3>1. sections[n].length \in Nat
      <4>1. sections \in Sections
        BY <1>3 DEF Layout
      <4> QED BY <1>3, <4>1, SizesAssumption DEF Sections
    <3>2. ~Short(a, e, n)
      <4>1. ~ (end - at <= HeaderCells + MaxLength)
        BY <1>10, <1>r, <3>1, SizesAssumption DEF TooLong
      <4> QED BY <1>n, <4>1 DEF Short
    <3>3. at < lo \/ hi < end
      BY <1>10, <1>r, <3>1, SizesAssumption DEF TooLong
    <3> QED BY <1>n, <3>2, <3>3
  <2>3. /\ p_new_pos \in 0 .. Cells
        /\ p_new_pos = 0 => NoStart(a, q, Cut(sent))
        /\ p_new_pos > 0 => /\ q <= Cut(sent - 1) + p_new_pos - 1
                            /\ NoStart(a, q, Cut(sent - 1) + p_new_pos - 1)
                            /\ \E m \in 1 .. MaxSections : a[m] = Cut(sent - 1) + p_new_pos - 1
    <3>1. CASE a[n] < Cut(sent - 1)
      BY <1>1, <1>2, <1>5, <3>1, Pointed
    <3>2. CASE ~ (a[n] < Cut(sent - 1))
      <4>1. p_new_pos = 0
        <5>1. a[n] >= Cut(sent) - Cells
          BY <1>3, <3>2
        <5> QED BY <1>1, <1>2, <5>1 DEF Inv, PointerInv
      <4>2. NoStart(a, q, Cut(sent))
        <5> SUFFICES ASSUME NEW m \in 1 .. MaxSections, q <= a[m], a[m] < Cut(sent) PROVE FALSE
          BY DEF NoStart
        <5>1. a[m] \in Nat /\ Cut(sent) < e[n]
          BY <1>3, <2>2, <3>2 DEF Spans
        <5>2. PICK x \in Nat : x = a[m]
          BY <5>1
        <5>3. at < x
          BY <1>s, <5>2
        <5>4. e[n] <= a[m]
          BY <1>3, <1>n, <5>2, <5>3, Apart
        <5>5. end <= x /\ x < hi /\ hi < end
          BY <1>n, <5>1, <5>2, <5>4
        <5> QED BY <5>5
      <4>3. ~ (p_new_pos > 0) /\ p_new_pos \in 0 .. Cells
        BY <4>1, SizesAssumption
      <4> QED BY <4>1, <4>2, <4>3
    <3> QED BY <3>1, <3>2
  <2>4. Counts(a, e, Clean(disturbed, damaged), received, 0, q)
    <3>1. Counts(a, e, Clean(disturbed, damaged), received, n, Pos)
      BY <1>1 DEF Inv, CountInv
    <3>2. Clean(disturbed, damaged) \subseteq 1 .. MaxSections /\ a[n] <= Pos
      BY <1>5 DEF Clean
    <3>3. Counts(a, e, Clean(disturbed, damaged), received, n, q)
      BY <1>3, <1>5, <3>1, <3>2, CountsWithin
    <3> QED BY <1>3, <2>2, <3>2, <3>3, CountsLong
  <2>5. /\ Behind(a, e, disturbed, received, q, Cut(sent)) /\ Rising(disturbed, received)
        /\ received \in Seq(1 .. MaxSections)
    <3>1. /\ Behind(a, e, disturbed, received, Pos, Cut(sent)) /\ Rising(disturbed, received)
          /\ received \in Seq(1 .. MaxSections)
      BY <1>1 DEF Inv, OrderInv
    <3>2. Pos <= Cut(sent) /\ Cut(sent) <= Cut(sent) /\ disturbed \subseteq disturbed
      BY <1>5
    <3> QED BY <1>3, <1>5, <3>1, <3>2, BehindOn
  <2>6. received' = received /\ crcErrors' = crcErrors /\ crcErrors \subseteq damaged
    BY <1>1, <1>2 DEF reports, Inv, NoFalseCrcError
  <2> QED BY <1>1, <1>2, <1>5, <2>1, <2>3, <2>4, <2>5, <2>6, Forward
<1>11. CASE ~TooLong(sections[n].length)
  <2>1. /\ p_current_section' = data /\ b_complete_header' = TRUE
        /\ i_available' = i_available - i_need /\ i_need' = sections[n].length
        /\ p_new_pos' = p_new_pos
    BY <1>6, <1>9, <1>11 DEF TakeHeader
  <2>2. sections[n].length \in Nat
    <3>1. sections \in Sections
      BY <1>3 DEF Layout
    <3> QED BY <1>3, <3>1, SizesAssumption DEF Sections
  <2>3. i_need' = e[n] - q /\ Short(a, e, n)
    <3>1. sections[n].length = end - q /\ end - at <= HeaderCells + MaxLength
      BY <1>11, <1>r, <1>s, <2>2, SizesAssumption DEF TooLong
    <3> QED BY <1>n, <2>1, <3>1 DEF Short
  <2>4. q = a[n] + Len(data) /\ Len(data) >= HeaderCells
    BY <1>3, <1>5, <1>8
  <2>5. InProgress(a, e, damaged, n, q, p_current_section', i_need', b_complete_header')
    BY <1>3, <1>5, <1>7, <2>1, <2>3, <2>4 DEF InProgress
  <2>6. p_current_section' # None
    <3>1. Len(data) # 0
      BY <1>3, <1>8
    <3>2. Len(<<>>) = 0
      OBVIOUS
    <3> QED BY <2>1, <3>1, <3>2 DEF None
  <2> QED BY <1>1, <1>2, <1>3, <1>4, <1>5, <2>1, <2>5, <2>6, Onward
<1> QED BY <1>10, <1>11

LEMMA TakeSectionKeeps ==
  ASSUME IInv, TakeSection
  PROVE  IInv'
<1>1. PICK a, e, n : Inv(a, e, n)
  BY DEF IInv
<1>2. /\ i_available > 0 /\ i_need <= i_available /\ b_complete_header
      /\ UNCHANGED <<network, i_continuity_counter, payload>>
      /\ GoForward(SectionAfter(i_available - i_need))
  BY DEF TakeSection
<1>3. PICK b, hi, q, left \in Nat :
        /\ b = Cut(sent - 1) /\ hi = Cut(sent) /\ q = e[n] /\ left = i_available - i_need
        /\ hi = b + Cells /\ hi - Cells = b
        /\ b <= Pos /\ Pos < q /\ q <= hi /\ left = hi - q /\ left < Cells
  <2>1. /\ Cut(sent - 1) \in Nat /\ Cut(sent) \in Nat /\ Cut(sent) = Cut(sent - 1) + Cells
        /\ Cut(sent) - Cells = Cut(sent - 1) /\ Cut(sent - 1) <= Pos /\ Pos \in Nat /\ Cells \in Nat
        /\ Pos = Cut(sent) - i_available /\ i_available \in Nat
    BY <1>1, <1>2, LoopFacts, StateFacts
  <2>2. e[n] \in Nat /\ Pos < e[n] /\ i_need \in Nat /\ i_need = e[n] - Pos
    BY <1>1, <1>2, ProgressFacts
  <2>3. PICK hi \in Nat : hi = Cut(sent)
    BY <2>1
  <2>4. i_available - i_need \in Nat /\ e[n] <= hi /\ i_available - i_need = hi - e[n]
    BY <1>2, <2>1, <2>2, <2>3
  <2>5. i_available - i_need < Cells
    BY <2>1, <2>2, <2>3, <2>4
  <2> QED BY <2>1, <2>2, <2>3, <2>4, <2>5
<1>4. /\ n \in 1 .. MaxSections /\ a[n] \in Nat /\ a[n] <= Pos /\ Pos \in Nat
      /\ Pos + i_need = q /\ Short(a, e, n) /\ i_need \in Nat
      /\ Len(p_current_section) \in Nat /\ Pos = a[n] + Len(p_current_section)
      /\ Spans(a, e) /\ Layout(sections, stream, a, e) /\ Cells \in Nat
  <2>1. i_need = e[n] - Pos /\ Short(a, e, n) /\ i_need \in Nat
    BY <1>1, <1>2, ProgressFacts
  <2>2. Pos \in Nat
    BY <1>1, <1>2, LoopFacts
  <2>3. Pos + i_need = q
    BY <1>3, <2>1, <2>2
  <2> QED BY <1>1, <1>2, <2>1, <2>2, <2>3, StateFacts, ProgressFacts
<1>n. PICK at, pos, len \in Nat : at = a[n] /\ pos = Pos /\ len = Len(p_current_section)
  BY <1>4
<1>r. /\ hi = b + Cells /\ hi - Cells = b /\ b <= pos /\ pos < q /\ q <= hi
      /\ left = hi - q /\ left < Cells /\ Cells \in Nat
      /\ i_need \in Nat /\ pos + i_need = q /\ pos = at + len
  BY <1>3, <1>4, <1>n
<1>s. /\ at <= pos /\ pos <= q /\ pos <= hi /\ hi <= hi /\ q <= q /\ b <= q /\ hi - Cells <= pos
      /\ len + i_need = q - at /\ q - at \in Nat /\ q - at > 0
  BY <1>r
<1>5. PICK data : data = p_current_section \o Following(i_need)
  OBVIOUS
<1>6. /\ data \in Seq(Nat \X Nat) /\ Len(data) = Len(p_current_section) + i_need
      /\ \A i \in 1 .. Len(data) : Carried(data[i], <<n, i>>, damaged)
  <2>1. Pos + i_need <= e[n]
    BY <1>3, <1>4
  <2> QED BY <1>1, <1>2, <1>4, <1>5, <2>1, Taken
<1>7. Len(data) = e[n] - a[n] /\ Len(data) \in Nat /\ Len(data) > 0
  <2>1. Len(data) = q - at
    BY <1>6, <1>n, <1>s
  <2> QED BY <1>3, <1>n, <1>s, <2>1
<1>8. data[1][1] = n
  BY <1>6, <1>7, Numbered
<1>9. /\ data = Section(n) => received' = Append(received, n) /\ crcErrors' = crcErrors
      /\ data # Section(n) => received' = received /\ crcErrors' = crcErrors \cup {n}
  BY <1>5, <1>8 DEF TakeSection
<1>10. data = Section(n) \/ n \in damaged
  BY <1>4, <1>6, <1>7, WholeSection
<1>11. crcErrors' \subseteq damaged
  <2>1. crcErrors \subseteq damaged
    BY <1>1 DEF Inv, NoFalseCrcError
  <2> QED BY <1>9, <1>10, <2>1
<1>12. /\ received \in Seq(1 .. MaxSections)
       /\ Behind(a, e, disturbed, received, Pos, hi) /\ Rising(disturbed, received)
       /\ Counts(a, e, Clean(disturbed, damaged), received, n, Pos)
  BY <1>1, <1>3 DEF Inv, OrderInv, CountInv
<1>13. Counts(a, e, Clean(disturbed, damaged), received', 0, q)
  <2>1. received' = Append(received, n) \/ (received' = received /\ n \notin Clean(disturbed, damaged))
    BY <1>9, <1>10 DEF Clean
  <2>2. Clean(disturbed, damaged) \subseteq 1 .. MaxSections
    BY DEF Clean
  <2> QED BY <1>3, <1>4, <1>12, <2>1, <2>2, CountsEnd
<1>14. /\ received' \in Seq(1 .. MaxSections)
       /\ Behind(a, e, disturbed, received', q, hi) /\ Rising(disturbed, received')
  <2>1. CASE data = Section(n)
    <3>1. hi - Cells <= Pos /\ Pos < e[n] /\ e[n] <= hi
      BY <1>3, <1>n, <1>r, <1>s
    <3>2. /\ Append(received, n) \in Seq(1 .. MaxSections)
          /\ Behind(a, e, disturbed, Append(received, n), e[n], hi)
          /\ Rising(disturbed, Append(received, n))
      BY <1>4, <1>12, <3>1, OrderEnd
    <3> QED BY <1>3, <1>9, <2>1, <3>2
  <2>2. CASE data # Section(n)
    <3>1. Pos <= hi /\ hi <= hi /\ Pos <= q
      BY <1>n, <1>s
    <3>2. Behind(a, e, disturbed, received, q, hi)
      BY <1>3, <1>4, <1>12, <3>1, BehindOn
    <3> QED BY <1>9, <1>12, <2>2, <3>2
  <2> QED BY <2>1, <2>2
<1> DEFINE to == SectionAfter(left)
<1>15. /\ to \in 0 .. Cells
       /\ to = 0 => NoStart(a, q, hi)
       /\ to > 0 => /\ q <= b + to - 1 /\ NoStart(a, q, b + to - 1)
                     /\ \E m \in 1 .. MaxSections : a[m] = b + to - 1
  <2>1. CASE p_new_pos # 0
    <3>1. to = p_new_pos
      BY <2>1 DEF SectionAfter
    <3>2. a[n] < b
      <4>1. ~ (a[n] >= Cut(sent) - Cells)
        BY <1>1, <1>2, <2>1 DEF Inv, PointerInv
      <4>2. ~ (at >= b)
        BY <1>3, <1>n, <4>1
      <4>3. at < b
        BY <4>2
      <4> QED BY <1>n, <4>3
    <3>3. Pos <= q /\ q <= e[n]
      BY <1>3, <1>n, <1>s
    <3> HIDE DEF to
    <3> QED BY <1>1, <1>2, <1>3, <3>1, <3>2, <3>3, Pointed
  <2>2. CASE p_new_pos = 0
    <3>1. CASE left = 0
      <4>1. to = 0
        BY <2>2, <3>1 DEF SectionAfter
      <4>2. NoStart(a, q, hi)
        <5> SUFFICES ASSUME NEW m \in 1 .. MaxSections, q <= a[m], a[m] < hi PROVE FALSE
          BY DEF NoStart
        <5>1. a[m] \in Nat
          BY <1>4 DEF Spans
        <5> QED BY <1>3, <3>1, <5>1
      <4> HIDE DEF to
      <4>3. to \in 0 .. Cells /\ ~ (to > 0)
        BY <1>4, <4>1
      <4> QED BY <4>1, <4>2, <4>3
    <3>2. CASE left # 0
      <4>1. /\ PacketOf(stream, payload, b, damaged) /\ Len(payload) = Cells
            /\ hi <= Len(stream) /\ Len(stream) \in Nat
        BY <1>1, <1>2, <1>3, LoopFacts, StateFacts
      <4>2. PICK k \in 1 .. Cells : k = Cells - left + 1
        BY <1>3, <1>4, <3>2
      <4>3. PICK j \in Nat : j = q + 1
        OBVIOUS
      <4>4. b + k = j
        BY <1>r, <4>2, <4>3
      <4>5. Carried(payload[k], stream[j], damaged)
        BY <4>1, <4>4 DEF PacketOf
      <4>6. payload[k] = Stuffing <=> stream[j] = Stuffing
        <5>1. Stuffing # Damaged /\ ~ (Stuffing[2] > HeaderCells)
          BY SizesAssumption DEF Stuffing, Damaged
        <5> QED BY <4>5, <5>1 DEF Carried
      <4>7. to = IF payload[k] # Stuffing THEN k ELSE 0
        <5>1. left > 0 /\ Len(payload) - left + 1 = k
          BY <3>2, <4>1, <4>2
        <5> QED BY <2>2, <5>1 DEF SectionAfter
      <4> HIDE DEF to
      <4>8. q < Len(stream) /\ q < hi
        BY <1>3, <3>2, <4>1
      <4>9. CASE payload[k] # Stuffing
        <5>1. PICK m \in 1 .. MaxSections : a[m] = e[n]
          <6>1. e[n] < Len(stream) /\ stream[e[n] + 1] # Stuffing
            BY <1>3, <4>3, <4>6, <4>8, <4>9
          <6> QED BY <1>4, <6>1, NextStarts
        <5>2. to = k /\ b + to - 1 = q /\ to # 0 /\ to > 0
          <6>1. b + k - 1 = q
            BY <4>3, <4>4
          <6> QED BY <4>7, <4>9, <6>1
        <5>3. NoStart(a, q, q)
          <6> SUFFICES ASSUME NEW i \in 1 .. MaxSections, q <= a[i], a[i] < q PROVE FALSE
            BY DEF NoStart
          <6>1. a[i] \in Nat
            BY <1>4 DEF Spans
          <6> QED BY <6>1
        <5>4. q <= q /\ a[m] = q /\ k \in 0 .. Cells
          BY <1>3, <5>1
        <5> QED BY <5>2, <5>3, <5>4
      <4>10. CASE payload[k] = Stuffing
        <5>1. /\ sent - 1 \in Nat /\ Cut(sent - 1) <= q /\ q < Cut(sent - 1) + Cells
              /\ stream[q + 1] = Stuffing
          <6>1. sent - 1 \in Nat
            BY <1>1, <1>2, LoopFacts
          <6>2. b <= q /\ q < b + Cells
            BY <1>r, <1>s, <4>8
          <6> QED BY <1>3, <4>3, <4>6, <4>10, <6>1, <6>2
        <5>2. NoStart(a, q, Cut(sent - 1) + Cells)
          BY <1>4, <4>8, <5>1, RestStuffed
        <5>3. to = 0 /\ ~ (to > 0) /\ to \in 0 .. Cells
          BY <1>4, <4>7, <4>10
        <5> QED BY <1>3, <5>2, <5>3
      <4> QED BY <4>9, <4>10
    <3> QED BY <3>1, <3>2
  <2> QED BY <2>1, <2>2
<1>16. GoForward(to)
  BY <1>2, <1>3
<1> HIDE DEF to
<1>17. Pos <= q
  BY <1>n, <1>s
<1> QED BY <1>1, <1>2, <1>3, <1>11, <1>13, <1>14, <1>15, <1>16, <1>17, Forward

-----------------------------------------------------------------------------
(* The theorems. *)

LEMMA StutterKeeps ==
  ASSUME IInv, UNCHANGED vars
  PROVE  IInv'
<1>1. PICK a, e, n : Inv(a, e, n)
  BY DEF IInv
<1>2. /\ UNCHANGED <<sections, stream, sent, lostRun, faults, damaged, disturbed>>
      /\ UNCHANGED <<i_continuity_counter, p_current_section, i_need, b_complete_header>>
      /\ UNCHANGED <<payload, p_new_pos, i_available, received, crcErrors>>
  BY DEF vars, network, handle, packet, reports
<1>3. /\ Layout(sections, stream, a, e)' /\ NetInv' /\ PacketInv' /\ PointerInv(a, n)'
      /\ CountInv(a, e, n)' /\ OrderInv(a, e)' /\ NoFalseCrcError'
  BY <1>1, <1>2 DEF Inv, NetInv, PacketInv, PointerInv, CountInv, OrderInv, NoFalseCrcError, Pos, Cut
<1>4. SectionInv(a, e, n)'
  BY <1>1, <1>2 DEF Inv, SectionInv, Busy, Pos, Cut
<1> QED BY <1>3, <1>4 DEF Inv, IInv

LEMMA Inductive == IInv /\ [Next]_vars => IInv'
<1> SUFFICES ASSUME IInv, [Next]_vars PROVE IInv'
  OBVIOUS
<1>1. CASE Deliver           BY <1>1, DeliverKeeps
<1>2. CASE Lose              BY <1>2, LoseKeeps
<1>3. CASE DeliverDamaged    BY <1>3, DeliverDamagedKeeps
<1>4. CASE Repeat            BY <1>4, RepeatKeeps
<1>5. CASE NoPayload         BY <1>5, NoPayloadKeeps
<1>6. CASE AddPmtPid         BY <1>6, AddPmtPidKeeps
<1>7. CASE TakeRest          BY <1>7, TakeRestKeeps
<1>8. CASE TakeHeader        BY <1>8, TakeHeaderKeeps
<1>9. CASE TakeSection       BY <1>9, TakeSectionKeeps
<1>10. CASE UNCHANGED vars   BY <1>10, StutterKeeps
<1> QED
  BY <1>1, <1>2, <1>3, <1>4, <1>5, <1>6, <1>7, <1>8, <1>9, <1>10 DEF Next, Network, Loop

LEMMA Invariant == Spec => []IInv
<1> QED BY Initial, Inductive, PTL DEF Spec

(* PushPacket reports a CRC error only of a section that was damaged, whatever
   packets are lost, repeated, without payload, or come after a new PAT. *)
THEOREM NoFalseErrors == Spec => []NoFalseCrcError
<1>1. IInv => NoFalseCrcError
  BY DEF IInv, Inv
<1> QED BY <1>1, Invariant, PTL

LEMMA ReceivedOnce ==
  ASSUME NEW a, NEW e, NEW m, Inv(a, e, m), NEW n \in 1 .. MaxSections,
         Idle, Complete(n), n \notin disturbed \cup damaged
  PROVE  Times(received, n) = IF sections[n].length <= MaxLength THEN 1 ELSE 0
<1>1. /\ Layout(sections, stream, a, e) /\ a[n] \in Nat /\ e[n] \in Nat /\ a[n] < e[n]
      /\ e[n] - a[n] = HeaderCells + sections[n].length
      /\ sections[n].length \in Nat /\ HeaderCells \in Nat /\ MaxLength \in Nat
  <2>1. Layout(sections, stream, a, e)
    BY DEF Inv
  <2>2. sections[n].length \in Nat
    BY <2>1, SizesAssumption DEF Layout, Sections
  <2> QED BY <2>1, <2>2, LayoutSpans, SizesAssumption DEF Spans
<1>2. Pos = Cut(sent)
  BY StateFacts DEF Pos, Idle
<1>3. e[n] <= Cut(sent)
  <2>1. PICK k \in Nat : k = e[n] /\ a[n] < k /\ k <= e[n]
    BY <1>1
  <2>2. k \in 1 .. Len(stream) /\ stream[k] = <<n, k - a[n]>>
    BY <1>1, <2>1, CellOf
  <2>3. k \in DOMAIN stream
    BY <2>2, StateFacts
  <2> QED BY <2>1, <2>2, <2>3 DEF Complete, Cut
<1>4. Short(a, e, n) <=> sections[n].length <= MaxLength
  BY <1>1 DEF Short
<1>5. CASE Short(a, e, n)
  <2>1. n \in Clean(disturbed, damaged)
    BY DEF Clean
  <2>2. Times(received, n) = 1
    BY <1>2, <1>3, <1>5, <2>1 DEF Inv, CountInv, Counts
  <2> QED BY <1>4, <1>5, <2>2
<1>6. CASE ~Short(a, e, n)
  <2>1. {i \in DOMAIN received : received[i] = n} = {}
    BY <1>6 DEF Inv, OrderInv, Behind
  <2>2. Times(received, n) = 0
    BY <2>1, FS_EmptySet DEF Times
  <2> QED BY <1>4, <1>6, <2>2
<1> QED BY <1>5, <1>6

(* A section nothing happened to is put together once and in its place, however it
   is spread over packets, and one that is longer than MaxLength is left out. *)
THEOREM UndisturbedAreReceived == Spec => []UndisturbedReceived
<1>1. ASSUME IInv PROVE UndisturbedReceived
  <2>1. PICK a, e, m : Inv(a, e, m)
    BY <1>1 DEF IInv
  <2>2. ASSUME NEW i \in DOMAIN received, NEW j \in DOMAIN received, i < j
        PROVE  received[i] <= received[j] \/ {received[i], received[j]} \subseteq disturbed
    BY <2>1, <2>2 DEF Inv, OrderInv, Rising
  <2>3. DOMAIN sections = 1 .. MaxSections
    BY <2>1 DEF Inv, Layout, Sections
  <2>4. ASSUME NEW n \in DOMAIN sections, Idle, Complete(n), n \notin disturbed \cup damaged
        PROVE  Cardinality({i \in DOMAIN received : received[i] = n})
                 = IF sections[n].length <= MaxLength THEN 1 ELSE 0
    BY <2>1, <2>3, <2>4, ReceivedOnce DEF Times
  <2> QED BY <2>2, <2>4 DEF UndisturbedReceived
<1> QED BY <1>1, Invariant, PTL
=============================================================================
