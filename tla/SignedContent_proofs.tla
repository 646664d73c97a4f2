------------------------- MODULE SignedContent_proofs -------------------------
(***************************************************************************)
(* What the builders do to a content, for every core, every sequence of    *)
(* envelopes and revisions and every set of placements, and what follows   *)
(* for every chain of uploads and signatures.  The operators that repeat   *)
(* (one revision for each placement, one envelope after the other) are     *)
(* recursive functions: what they compute is shown by the least number for *)
(* which it would not be so.                                               *)
(***************************************************************************)
EXTENDS SignedContent, SequenceTheorems, FiniteSetTheorems, TLAPS

-----------------------------------------------------------------------------
(* Geometry: whatever the box of a page, however the page is turned and    *)
(* however fine the fractions are, a graphic is drawn where it was placed  *)

\* Products with a fraction of a length: the only arithmetic that is not linear.
Shares(n, m, len) ==
    /\ n * len \in Nat /\ m * len \in Nat /\ Unit * len \in Nat
    /\ (n + m) * len = n * len + m * len
    /\ (Unit - n - m) * len = Unit * len - n * len - m * len
    /\ n * len + m * len <= Unit * len

LEMMA Share ==
    ASSUME NEW n \in Nat, NEW m \in Nat, NEW len \in Nat, n + m <= Unit
    PROVE  Shares(n, m, len)
<1>1. Unit \in Nat
  BY UnitAssumption
<1>2. PICK rest \in Nat : Unit = n + m + rest
  <2>1. Unit - n - m \in Nat /\ Unit = n + m + (Unit - n - m)
    BY <1>1
  <2> QED
    BY <2>1
<1>3. n * len \in Nat /\ m * len \in Nat /\ rest * len \in Nat
  OBVIOUS
<1>4. Unit * len = n * len + m * len + rest * len
  BY <1>2
<1>5. (n + m) * len = n * len + m * len
  OBVIOUS
<1>6. Unit - n - m = rest
  BY <1>2
<1> QED
  BY <1>1, <1>3, <1>4, <1>5, <1>6 DEF Shares

Scales(a, b) == /\ Unit * a \in Int /\ Unit * b \in Int
                /\ Unit * (a + b) = Unit * a + Unit * b

LEMMA Scale == ASSUME NEW a \in Int, NEW b \in Int PROVE Scales(a, b)
<1>1. Unit \in Int
  BY UnitAssumption
<1> QED
  BY <1>1 DEF Scales

LEMMA PageLengths ==
    ASSUME NEW page \in Page
    PROVE  /\ page.llx \in Int /\ page.lly \in Int
           /\ page.width \in Nat /\ page.height \in Nat
           /\ page.rotation \in Rotations
           /\ DisplayWidth(page) \in Nat /\ DisplayHeight(page) \in Nat
           /\ page.rotation \in {0, 180} =>
                 DisplayWidth(page) = page.width /\ DisplayHeight(page) = page.height
           /\ page.rotation \in {90, 270} =>
                 DisplayWidth(page) = page.height /\ DisplayHeight(page) = page.width
BY DEF Page, Rotations, DisplayWidth, DisplayHeight, Upright

LEMMA PlacementShares ==
    ASSUME NEW p \in Placement, InsidePage(p)
    PROVE  /\ p.x \in Nat /\ p.y \in Nat /\ p.width \in Nat /\ p.height \in Nat
           /\ p.x + p.width <= Unit /\ p.y + p.height <= Unit
BY UnitAssumption DEF Placement, InsidePage

\* Every corner of a graphic is seen where its placement has it, and lies on the
\* page, whatever the box and the turn of the page (graphics_pdf.py _matrix).  In
\* the proof x and w are the shares of the displayed width, t and h those of the
\* height: before the graphic and of the graphic.
THEOREM GraphicsLieAsPlaced ==
    ASSUME NEW page \in Page, NEW p \in Placement, InsidePage(p)
    PROVE  SeenAsPlaced(page, p, Matrix(page, p)) /\ OnPage(page, Matrix(page, p))
<1>1. PICK W \in Nat, H \in Nat, px \in Nat, py \in Nat, pw \in Nat, ph \in Nat :
         /\ W = DisplayWidth(page) /\ H = DisplayHeight(page)
         /\ px = p.x /\ py = p.y /\ pw = p.width /\ ph = p.height
         /\ px + pw <= Unit /\ py + ph <= Unit
  BY PageLengths, PlacementShares
<1>2. PICK x \in Nat, w \in Nat, UW \in Nat :
         /\ x = px * W /\ w = pw * W /\ UW = Unit * W
         /\ (px + pw) * W = x + w /\ x + w <= UW
  <2>1. Shares(px, pw, W)
    BY <1>1, Share
  <2> QED
    BY <2>1 DEF Shares
<1>3. PICK t \in Nat, h \in Nat, UH \in Nat :
         /\ t = py * H /\ h = ph * H /\ UH = Unit * H
         /\ (py + ph) * H = t + h /\ t + h <= UH
         /\ (Unit - py - ph) * H = UH - t - h
  <2>1. Shares(py, ph, H)
    BY <1>1, Share
  <2> QED
    BY <2>1 DEF Shares
<1>4. PICK left \in Int, low \in Int, PW \in Int, PH \in Int :
         /\ left = Unit * page.llx /\ low = Unit * page.lly
         /\ PW = Unit * page.width /\ PH = Unit * page.height
         /\ Unit * (page.llx + page.width) = left + PW
         /\ Unit * (page.lly + page.height) = low + PH
  <2>1. Scales(page.llx, page.width) /\ Scales(page.lly, page.height)
    BY PageLengths, Scale
  <2> QED
    BY <2>1 DEF Scales
<1>5. ASSUME NEW u \in 0..1, NEW v \in 0..1
      PROVE  /\ (p.x + u * p.width) * DisplayWidth(page) = x + u * w
             /\ (p.y + (1 - v) * p.height) * DisplayHeight(page) = t + (1 - v) * h
  <2>1. /\ px + u * pw = IF u = 0 THEN px ELSE px + pw
        /\ py + (1 - v) * ph = IF v = 0 THEN py + ph ELSE py
    OBVIOUS
  <2>2. /\ (px + u * pw) * W = x + u * w
        /\ (py + (1 - v) * ph) * H = t + (1 - v) * h
    BY <1>2, <1>3, <2>1
  <2> QED
    BY <1>1, <2>2
<1> DEFINE m == Matrix(page, p)
<1>6. SUFFICES ASSUME NEW u \in 0..1, NEW v \in 0..1
               PROVE  LET X == ImageX(m, u, v)
                          Y == ImageY(m, u, v) IN
                      /\ SeenX(page, X, Y) = x + u * w
                      /\ SeenY(page, X, Y) = t + (1 - v) * h
                      /\ left <= X /\ X <= left + PW
                      /\ low <= Y /\ Y <= low + PH
  BY <1>4, <1>5 DEF SeenAsPlaced, OnPage
<1>7. CASE page.rotation = 0
  <2>1. UW = PW /\ UH = PH
    BY <1>1, <1>2, <1>3, <1>4, <1>7, PageLengths
  <2>2. m = [a |-> w, b |-> 0, c |-> 0, d |-> h, e |-> left + x, f |-> low + (UH - t - h)]
    BY <1>1, <1>2, <1>3, <1>4, <1>7 DEF Matrix
  <2>3. PICK X \in Int, Y \in Int :
           /\ X = ImageX(m, u, v) /\ X = w * u + 0 * v + (left + x)
           /\ Y = ImageY(m, u, v) /\ Y = 0 * u + h * v + (low + (UH - t - h))
    BY <2>2 DEF ImageX, ImageY
  <2>4. SeenX(page, X, Y) = X - left /\ SeenY(page, X, Y) = low + PH - Y
    BY <1>4, <1>7 DEF SeenX, SeenY
  <2>5. u * w \in 0..w /\ v * h \in 0..h
    OBVIOUS
  <2> QED
    BY <1>2, <1>3, <2>1, <2>3, <2>4, <2>5
<1>8. CASE page.rotation = 90
  <2>1. UW = PH /\ UH = PW
    BY <1>1, <1>2, <1>3, <1>4, <1>8, PageLengths
  <2>2. m = [a |-> 0, b |-> w, c |-> -h, d |-> 0, e |-> left + PW - (UH - t - h), f |-> low + x]
    BY <1>1, <1>2, <1>3, <1>4, <1>8 DEF Matrix
  <2>3. PICK X \in Int, Y \in Int :
           /\ X = ImageX(m, u, v) /\ X = 0 * u + (-h) * v + (left + PW - (UH - t - h))
           /\ Y = ImageY(m, u, v) /\ Y = w * u + 0 * v + (low + x)
    BY <2>2 DEF ImageX, ImageY
  <2>4. SeenX(page, X, Y) = Y - low /\ SeenY(page, X, Y) = X - left
    BY <1>4, <1>8 DEF SeenX, SeenY
  <2>5. u * w \in 0..w /\ v * h \in 0..h
    OBVIOUS
  <2> QED
    BY <1>2, <1>3, <2>1, <2>3, <2>4, <2>5
<1>9. CASE page.rotation = 180
  <2>1. UW = PW /\ UH = PH
    BY <1>1, <1>2, <1>3, <1>4, <1>9, PageLengths
  <2>2. m = [a |-> -w, b |-> 0, c |-> 0, d |-> -h, e |-> left + PW - x, f |-> low + PH - (UH - t - h)]
    BY <1>1, <1>2, <1>3, <1>4, <1>9 DEF Matrix
  <2>3. PICK X \in Int, Y \in Int :
           /\ X = ImageX(m, u, v) /\ X = (-w) * u + 0 * v + (left + PW - x)
           /\ Y = ImageY(m, u, v) /\ Y = 0 * u + (-h) * v + (low + PH - (UH - t - h))
    BY <2>2 DEF ImageX, ImageY
  <2>4. SeenX(page, X, Y) = left + PW - X /\ SeenY(page, X, Y) = Y - low
    BY <1>4, <1>9 DEF SeenX, SeenY
  <2>5. u * w \in 0..w /\ v * h \in 0..h
    OBVIOUS
  <2> QED
    BY <1>2, <1>3, <2>1, <2>3, <2>4, <2>5
<1>10. CASE page.rotation = 270
  <2>1. UW = PH /\ UH = PW
    BY <1>1, <1>2, <1>3, <1>4, <1>10, PageLengths
  <2>2. m = [a |-> 0, b |-> -w, c |-> h, d |-> 0, e |-> left + (UH - t - h), f |-> low + PH - x]
    BY <1>1, <1>2, <1>3, <1>4, <1>10 DEF Matrix
  <2>3. PICK X \in Int, Y \in Int :
           /\ X = ImageX(m, u, v) /\ X = 0 * u + h * v + (left + (UH - t - h))
           /\ Y = ImageY(m, u, v) /\ Y = (-w) * u + 0 * v + (low + PH - x)
    BY <2>2 DEF ImageX, ImageY
  <2>4. SeenX(page, X, Y) = low + PH - Y /\ SeenY(page, X, Y) = left + PW - X
    BY <1>4, <1>10 DEF SeenX, SeenY
  <2>5. u * w \in 0..w /\ v * h \in 0..h
    OBVIOUS
  <2> QED
    BY <1>2, <1>3, <2>1, <2>3, <2>4, <2>5
<1> QED
  BY <1>7, <1>8, <1>9, <1>10, PageLengths DEF Rotations

-----------------------------------------------------------------------------
(* Numbers *)

\* A set of numbers has a least one: what stands for induction here.
LEMMA NatMin == ASSUME NEW T \in SUBSET Nat, T # {} PROVE \E n \in T : \A m \in T : n <= m
<1> DEFINE R == OpToRel(<, Nat)
<1>1. \A m, n \in Nat : m < n => <<m, n>> \in R
  BY DEF OpToRel
<1>2. IsWellFoundedOn(R, Nat)
  BY NatLessThanWellFounded
<1> HIDE DEF R
<1>3. PICK n \in T : \A m \in T : ~ (<<m, n>> \in R)
  BY <1>2, WFMin
<1>4. ASSUME NEW m \in T PROVE n <= m
  <2>1. ~ (m < n)
    BY <1>1, <1>3
  <2> QED
    BY <2>1
<1> QED
  BY <1>4

LEMMA IntMin ==
    ASSUME NEW T \in SUBSET Int, T # {}, NEW b \in Int, \A n \in T : b <= n
    PROVE  /\ Least(T) \in T
           /\ \A n \in T : Least(T) <= n
<1> DEFINE S == {n \in Nat : n + b \in T}
<1>1. PICK t \in T : TRUE
  OBVIOUS
<1>2. t - b \in S
  BY <1>1
<1>3. PICK n \in S : \A m \in S : n <= m
  BY <1>2, NatMin
<1>4. ASSUME NEW k \in T PROVE n + b <= k
  <2>1. k - b \in S
    OBVIOUS
  <2> QED
    BY <1>3, <2>1
<1>5. n + b \in T
  OBVIOUS
<1> QED
  BY <1>4, <1>5 DEF Least

LEMMA IntMax ==
    ASSUME NEW T \in SUBSET Int, T # {}, NEW b \in Int, \A n \in T : n <= b
    PROVE  /\ Greatest(T) \in T
           /\ \A n \in T : n <= Greatest(T)
<1> DEFINE S == {n \in Nat : b - n \in T}
<1>1. PICK t \in T : TRUE
  OBVIOUS
<1>2. b - t \in S
  BY <1>1
<1>3. PICK n \in S : \A m \in S : n <= m
  BY <1>2, NatMin
<1>4. ASSUME NEW k \in T PROVE k <= b - n
  <2>1. b - k \in S /\ k \in Int /\ n \in Int
    OBVIOUS
  <2>2. n <= b - k
    BY <1>3, <2>1
  <2> QED
    BY <2>1, <2>2
<1>5. b - n \in T
  OBVIOUS
<1> QED
  BY <1>4, <1>5 DEF Greatest

-----------------------------------------------------------------------------
(* Placements in the order of their layers *)

Sorted(s) == \A i, k \in DOMAIN s : i < k => s[i].order < s[k].order
Distinct(P) == \A p1, p2 \in P : p1.order = p2.order => p1 = p2

\* The least of the other placements comes first, then they in their order.
LEMMA SortedExists ==
    ASSUME NEW n \in Nat
    PROVE  \A P \in SUBSET Placement :
              IsFiniteSet(P) /\ Cardinality(P) = n /\ Distinct(P) =>
                 \E s \in [1..n -> P] : Sorted(s)
<1> DEFINE Good(m) == \A P \in SUBSET Placement :
              IsFiniteSet(P) /\ Cardinality(P) = m /\ Distinct(P) =>
                 \E s \in [1..m -> P] : Sorted(s)
           Bad == {m \in Nat : ~Good(m)}
<1> SUFFICES ASSUME Bad # {} PROVE FALSE
  OBVIOUS
<1>1. PICK m \in Bad : \A k \in Bad : m <= k
  BY NatMin
<1>2. PICK P \in SUBSET Placement :
         /\ IsFiniteSet(P) /\ Cardinality(P) = m /\ Distinct(P)
         /\ ~ \E s \in [1..m -> P] : Sorted(s)
  BY <1>1
<1> HIDE DEF Good
<1>3. CASE m = 0
  <2>1. [i \in 1..0 |-> i] \in [1..0 -> P]
    OBVIOUS
  <2>2. Sorted([i \in 1..0 |-> i])
    BY DEF Sorted
  <2> QED
    BY <1>2, <1>3, <2>1, <2>2
<1>4. CASE m # 0
  <2>1. m \in Nat /\ m - 1 \in Nat /\ Good(m - 1)
    <3>1. m \in Nat /\ m - 1 \in Nat /\ m - 1 \notin Bad
      BY <1>1, <1>4
    <3> QED
      BY <3>1
  <2>2. PICK p \in P : \A o \in P : p.order <= o.order
    <3> DEFINE Orders == {o.order : o \in P}
    <3>1. Orders # {} /\ Orders \in SUBSET Nat
      BY <1>2, <1>4, FS_EmptySet DEF Placement
    <3>2. PICK k \in Orders : \A l \in Orders : k <= l
      BY <3>1, NatMin
    <3> QED
      BY <3>2
  <2> DEFINE R == P \ {p}
  <2>3. R \in SUBSET Placement /\ IsFiniteSet(R) /\ Cardinality(R) = m - 1 /\ Distinct(R)
    BY <1>2, FS_RemoveElement DEF Distinct
  <2>4. PICK t \in [1..(m - 1) -> R] : Sorted(t)
    BY <2>1, <2>3 DEF Good
  <2> DEFINE s == [i \in 1..m |-> IF i = 1 THEN p ELSE t[i - 1]]
  <2>5. \A i \in 1..m : i # 1 => i - 1 \in 1..(m - 1)
    BY <2>1
  <2>6. s \in [1..m -> P]
    BY <2>4, <2>5
  <2>7. Sorted(s)
    <3> SUFFICES ASSUME NEW i \in 1..m, NEW k \in 1..m, i < k PROVE s[i].order < s[k].order
      BY DEF Sorted
    <3>1. k # 1 /\ k - 1 \in 1..(m - 1) /\ s[k] = t[k - 1] /\ t[k - 1] \in R
      BY <2>1, <2>4, <2>5
    <3>2. CASE i = 1
      <4>1. p \in Placement /\ s[k] \in Placement /\ s[k] \in P /\ s[k] # p
        BY <1>2, <3>1
      <4>2. p.order # s[k].order /\ p.order <= s[k].order
        BY <1>2, <2>2, <4>1 DEF Distinct
      <4>3. p.order \in Nat /\ s[k].order \in Nat
        BY <4>1 DEF Placement
      <4> QED
        BY <3>2, <4>2, <4>3
    <3>3. CASE i # 1
      <4>1. i - 1 \in 1..(m - 1) /\ s[i] = t[i - 1] /\ i - 1 < k - 1
        BY <3>3, <2>5, <2>1
      <4> QED
        BY <2>4, <3>1, <4>1 DEF Sorted
    <3> QED
      BY <3>2, <3>3
  <2> QED
    BY <1>2, <2>6, <2>7
<1> QED
  BY <1>3, <1>4

\* sorted() lists each placement once, by its layer.
LEMMA OrderedIsSorted ==
    ASSUME NEW P \in SUBSET Placement, IsFiniteSet(P), Distinct(P)
    PROVE  /\ Cardinality(P) \in Nat
           /\ Ordered(P) \in [1..Cardinality(P) -> P]
           /\ Sorted(Ordered(P))
           /\ \A p \in P : \E i \in 1..Cardinality(P) : Ordered(P)[i] = p
<1> DEFINE n == Cardinality(P)
<1>1. n \in Nat
  BY FS_CardinalityType
<1>2. PICK t \in [1..n -> P] : Sorted(t)
  BY <1>1, SortedExists
<1>3. ASSUME NEW s \in [1..n -> P], Sorted(s)
      PROVE  \A i, k \in 1..n : i # k => s[i] # s[k]
  <2> SUFFICES ASSUME NEW i \in 1..n, NEW k \in 1..n, i < k PROVE s[i] # s[k]
    BY <1>1
  <2>1. s[i].order < s[k].order
    BY <1>3 DEF Sorted
  <2>2. s[i].order \in Nat
    BY DEF Placement
  <2> QED
    BY <2>1, <2>2
<1>4. t \in SetToSeqs(P) /\ Sorted(t)
  BY <1>2, <1>3 DEF SetToSeqs
<1>5. Ordered(P) \in SetToSeqs(P) /\ Sorted(Ordered(P))
  BY <1>4 DEF Ordered, Sorted
<1>6. Ordered(P) \in [1..n -> P] /\ \A i, k \in 1..n : i # k => Ordered(P)[i] # Ordered(P)[k]
  BY <1>5 DEF SetToSeqs
<1>7. ASSUME NEW p \in P PROVE \E i \in 1..n : Ordered(P)[i] = p
  <2>1. Ordered(P) \in Injection(1..n, P)
    BY <1>6 DEF Injection, IsInjective
  <2>2. IsFiniteSet(1..n) /\ Cardinality(1..n) = n
    BY <1>1, FS_Interval
  <2>3. Ordered(P) \in Surjection(1..n, P)
    BY <2>1, <2>2, FS_Injection
  <2> QED
    BY <2>3 DEF Surjection
<1> QED
  BY <1>1, <1>5, <1>6, <1>7

-----------------------------------------------------------------------------
(* Contents and what a builder may do to one *)

Boxes     == [left : Int, low : Int, right : Int, high : Int]
Matrices  == [a : Int, b : Int, c : Int, d : Int, e : Int, f : Int]
Modes     == {"graphic", "cades", "pades", "xades"}
Signers   == Documents \cup {None}
StepRow   == [mode : Modes, signers : SUBSET Signers, field : Nat,
              drawn : Seq(Boxes \cup Matrices)]
Content   == [core : Cores, steps : Seq(StepRow)]

SignersOf(c) == UNION {c.steps[i].signers : i \in DOMAIN c.steps}

\* A content that keeps what was there, its outermost step maybe with one more
\* signer; whatever was added was signed for d.
Grown(c, r, d) ==
    LET n == Len(c.steps) IN
    /\ r \in Content /\ r.core = c.core /\ n <= Len(r.steps)
    /\ \A i \in 1..n :
          /\ i < n => r.steps[i] = c.steps[i]
          /\ r.steps[i].mode = c.steps[i].mode /\ r.steps[i].field = c.steps[i].field
          /\ c.steps[i].signers \subseteq r.steps[i].signers
          /\ r.steps[i].signers \subseteq c.steps[i].signers \cup {d}
    /\ \A i \in (n + 1)..Len(r.steps) : r.steps[i].signers \subseteq {d}

LEMMA StepsOf ==
    ASSUME NEW c \in Content
    PROVE  /\ Len(c.steps) \in Nat /\ DOMAIN c.steps = 1..Len(c.steps)
           /\ c.core \in Cores /\ c.steps \in Seq(StepRow)
           /\ \A i \in 1..Len(c.steps) : c.steps[i] \in StepRow
<1>1. c.core \in Cores /\ c.steps \in Seq(StepRow)
  BY DEF Content
<1> QED
  BY <1>1, LenProperties

LEMMA AddStepGrows ==
    ASSUME NEW c \in Content, NEW st \in StepRow
    PROVE  /\ AddStep(c, st) \in Content /\ AddStep(c, st).core = c.core
           /\ Len(AddStep(c, st).steps) = Len(c.steps) + 1
           /\ \A i \in 1..Len(c.steps) : AddStep(c, st).steps[i] = c.steps[i]
           /\ AddStep(c, st).steps[Len(c.steps) + 1] = st
<1>1. c.steps \in Seq(StepRow)
  BY DEF Content
<1>2. AddStep(c, st) = [c EXCEPT !.steps = Append(c.steps, st)]
  BY DEF AddStep
<1>3. /\ Append(c.steps, st) \in Seq(StepRow)
      /\ Len(Append(c.steps, st)) = Len(c.steps) + 1
      /\ \A i \in 1..Len(c.steps) : Append(c.steps, st)[i] = c.steps[i]
      /\ Append(c.steps, st)[Len(c.steps) + 1] = st
  BY <1>1, AppendProperties
<1>4. /\ AddStep(c, st) \in Content /\ AddStep(c, st).core = c.core
      /\ AddStep(c, st).steps = Append(c.steps, st)
  BY <1>2, <1>3 DEF Content
<1> QED
  BY <1>3, <1>4

LEMMA AddedIsGrown ==
    ASSUME NEW c \in Content, NEW st \in StepRow, NEW d, st.signers \subseteq {d}
    PROVE  Grown(c, AddStep(c, st), d)
<1> DEFINE r == AddStep(c, st)
           n == Len(c.steps)
<1>1. /\ r \in Content /\ r.core = c.core /\ Len(r.steps) = n + 1
      /\ \A i \in 1..n : r.steps[i] = c.steps[i]
      /\ r.steps[n + 1] = st
  BY AddStepGrows
<1>2. n \in Nat /\ \A i \in (n + 1)..(n + 1) : i = n + 1
  BY StepsOf
<1>3. \A i \in (n + 1)..Len(r.steps) : r.steps[i].signers \subseteq {d}
  BY <1>1, <1>2
<1>4. n <= Len(r.steps)
  BY <1>1, <1>2
<1> HIDE DEF r
<1>5. \A i \in 1..n :
          /\ i < n => r.steps[i] = c.steps[i]
          /\ r.steps[i].mode = c.steps[i].mode /\ r.steps[i].field = c.steps[i].field
          /\ c.steps[i].signers \subseteq r.steps[i].signers
          /\ r.steps[i].signers \subseteq c.steps[i].signers \cup {d}
  BY <1>1
<1>6. Grown(c, r, d)
  BY <1>1, <1>3, <1>4, <1>5, Zenon DEF Grown
<1> QED
  BY <1>6 DEF r

\* What lies under a step is the same in both.
LEMMA SamePrefix ==
    ASSUME NEW c \in Content, NEW r, NEW d, Grown(c, r, d), NEW i \in 1..Len(c.steps)
    PROVE  SubSeq(r.steps, 1, i - 1) = SubSeq(c.steps, 1, i - 1)
<1> DEFINE s == SubSeq(r.steps, 1, i - 1)
           t == SubSeq(c.steps, 1, i - 1)
<1>1. r \in Content /\ Len(c.steps) \in Nat /\ Len(c.steps) <= Len(r.steps) /\ Len(r.steps) \in Nat
  BY StepsOf DEF Grown
<1>2. i \in Nat /\ \A k \in 1..(i - 1) : k \in 1..Len(c.steps) /\ k < Len(c.steps) /\ k \in 1..Len(r.steps)
  BY <1>1
<1>3. \A k \in 1..(i - 1) : r.steps[k] = c.steps[k] /\ c.steps[k] \in StepRow
  BY <1>2, StepsOf DEF Grown
<1>4. /\ s \in Seq(StepRow) /\ Len(s) = (IF 1 <= i - 1 THEN i - 1 - 1 + 1 ELSE 0)
      /\ \A k \in 1..(i - 1 - 1 + 1) : s[k] = r.steps[1 + k - 1]
  BY <1>2, <1>3, SubSeqProperties
<1>5. /\ t \in Seq(StepRow) /\ Len(t) = (IF 1 <= i - 1 THEN i - 1 - 1 + 1 ELSE 0)
      /\ \A k \in 1..(i - 1 - 1 + 1) : t[k] = c.steps[1 + k - 1]
  BY <1>2, <1>3, SubSeqProperties
<1> HIDE DEF s, t
<1>6. Len(s) = i - 1 /\ Len(t) = i - 1
  BY <1>2, <1>4, <1>5
<1>7. \A k \in 1..Len(s) : s[k] = t[k]
  <2> SUFFICES ASSUME NEW k \in 1..(i - 1) PROVE s[k] = t[k]
    BY <1>6
  <2>1. k \in 1..(i - 1 - 1 + 1) /\ 1 + k - 1 = k
    BY <1>2
  <2> QED
    BY <1>3, <1>4, <1>5, <2>1
<1>8. s = t
  BY <1>4, <1>5, <1>6, <1>7, SeqEqual
<1> QED
  BY <1>8 DEF s, t

LEMMA PrefixLength ==
    ASSUME NEW c \in Content, NEW i \in 1..Len(c.steps)
    PROVE  Len(SubSeq(c.steps, 1, i - 1)) = i - 1
<1>1. i \in Nat /\ Len(c.steps) \in Nat
  BY StepsOf
<1>2. \A k \in 1..(i - 1) : c.steps[k] \in StepRow
  BY <1>1, StepsOf
<1>3. Len(SubSeq(c.steps, 1, i - 1)) = (IF 1 <= i - 1 THEN i - 1 - 1 + 1 ELSE 0)
  BY <1>1, <1>2, SubSeqProperties
<1> QED
  BY <1>1, <1>3

LEMMA SignatureOf ==
    ASSUME NEW c \in Content, NEW x
    PROVE  x \in Signatures(c) <=>
              \E i \in 1..Len(c.steps) : \E s \in c.steps[i].signers :
                 x = <<SubSeq(c.steps, 1, i - 1), c.steps[i].mode, s>>
<1>1. DOMAIN c.steps = 1..Len(c.steps)
  BY StepsOf
<1> DEFINE At(i) == {<<SubSeq(c.steps, 1, i - 1), c.steps[i].mode, s>> : s \in c.steps[i].signers}
<1>2. Signatures(c) = UNION {At(i) : i \in 1..Len(c.steps)}
  BY <1>1 DEF Signatures
<1>3. \A i : x \in At(i) <=> \E s \in c.steps[i].signers :
                 x = <<SubSeq(c.steps, 1, i - 1), c.steps[i].mode, s>>
  OBVIOUS
<1> HIDE DEF At
<1>4. x \in Signatures(c) <=> \E i \in 1..Len(c.steps) : x \in At(i)
  BY <1>2
<1> QED
  BY <1>3, <1>4

\* Nothing that was signed is taken away, and what is new was signed for d; there
\* is something new exactly where a signer is.
LEMMA GrownSignatures ==
    ASSUME NEW c \in Content, NEW r, NEW d, Grown(c, r, d)
    PROVE  /\ Signatures(c) \subseteq Signatures(r)
           /\ \A x \in Signatures(r) \ Signatures(c) : x[3] = d
           /\ (\E i \in 1..Len(r.steps) : /\ d \in r.steps[i].signers
                                          /\ i <= Len(c.steps) => d \notin c.steps[i].signers)
              => Signatures(r) # Signatures(c)
           /\ (\A i \in (Len(c.steps) + 1)..Len(r.steps) : r.steps[i].signers = {})
              /\ (\A i \in 1..Len(c.steps) : r.steps[i] = c.steps[i])
              => Signatures(r) = Signatures(c)
<1> DEFINE n == Len(c.steps)
<1>1. r \in Content /\ n \in Nat /\ n <= Len(r.steps) /\ Len(r.steps) \in Nat
  BY StepsOf DEF Grown
<1>2. \A i \in 1..n : /\ i \in 1..Len(r.steps)
                      /\ SubSeq(r.steps, 1, i - 1) = SubSeq(c.steps, 1, i - 1)
                      /\ r.steps[i].mode = c.steps[i].mode
                      /\ c.steps[i].signers \subseteq r.steps[i].signers
                      /\ r.steps[i].signers \subseteq c.steps[i].signers \cup {d}
  BY <1>1, SamePrefix DEF Grown
<1>3. \A i \in 1..Len(r.steps) : i \notin 1..n => r.steps[i].signers \subseteq {d}
  <2> SUFFICES ASSUME NEW i \in 1..Len(r.steps), i \notin 1..n PROVE r.steps[i].signers \subseteq {d}
    OBVIOUS
  <2>1. i \in (n + 1)..Len(r.steps)
    BY <1>1
  <2> QED
    BY <2>1 DEF Grown
<1>4. Signatures(c) \subseteq Signatures(r)
  <2> SUFFICES ASSUME NEW x \in Signatures(c) PROVE x \in Signatures(r)
    OBVIOUS
  <2>1. PICK i \in 1..n : \E s \in c.steps[i].signers :
                 x = <<SubSeq(c.steps, 1, i - 1), c.steps[i].mode, s>>
    BY SignatureOf
  <2> QED
    BY <1>1, <1>2, <2>1, SignatureOf, Zenon
<1>5. ASSUME NEW x \in Signatures(r), x \notin Signatures(c)
      PROVE  /\ x[3] = d
             /\ \E i \in 1..Len(r.steps) : /\ d \in r.steps[i].signers
                                           /\ i \in 1..n => d \notin c.steps[i].signers
  <2>0. PICK i \in 1..Len(r.steps) : \E s \in r.steps[i].signers :
                 x = <<SubSeq(r.steps, 1, i - 1), r.steps[i].mode, s>>
    BY <1>1, SignatureOf
  <2>1. PICK s \in r.steps[i].signers : x = <<SubSeq(r.steps, 1, i - 1), r.steps[i].mode, s>>
    BY <2>0
  <2>2. i \in 1..n => s \notin c.steps[i].signers
    BY <1>2, <1>5, <2>1, SignatureOf, Zenon
  <2>3. s = d
    BY <1>2, <1>3, <2>2
  <2> QED
    BY <2>1, <2>2, <2>3
<1>6. ASSUME NEW i \in 1..Len(r.steps), d \in r.steps[i].signers,
             i <= n => d \notin c.steps[i].signers
      PROVE  Signatures(r) # Signatures(c)
  <2> DEFINE x == <<SubSeq(r.steps, 1, i - 1), r.steps[i].mode, d>>
  <2>1. x \in Signatures(r)
    BY <1>1, <1>6, SignatureOf, Zenon
  <2>2. ASSUME x \in Signatures(c) PROVE FALSE
    <3>0. PICK k \in 1..n : \E s \in c.steps[k].signers :
             x = <<SubSeq(c.steps, 1, k - 1), c.steps[k].mode, s>>
      BY <2>2, SignatureOf
    <3>1. PICK s \in c.steps[k].signers : x = <<SubSeq(c.steps, 1, k - 1), c.steps[k].mode, s>>
      BY <3>0
    <3>2. s = d /\ SubSeq(r.steps, 1, i - 1) = SubSeq(c.steps, 1, k - 1)
      BY <3>1
    <3>3. Len(SubSeq(r.steps, 1, i - 1)) = i - 1 /\ Len(SubSeq(c.steps, 1, k - 1)) = k - 1
      BY <1>1, PrefixLength
    <3>4. i = k
      BY <1>1, <3>2, <3>3
    <3> QED
      BY <1>6, <3>1, <3>2, <3>4
  <2> QED
    BY <2>1, <2>2
<1>7. ASSUME \A i \in (n + 1)..Len(r.steps) : r.steps[i].signers = {},
             \A i \in 1..n : r.steps[i] = c.steps[i]
      PROVE  Signatures(r) = Signatures(c)
  <2>1. ASSUME NEW x \in Signatures(r), x \notin Signatures(c) PROVE FALSE
    <3>1. PICK i \in 1..Len(r.steps) : /\ d \in r.steps[i].signers
                                       /\ i \in 1..n => d \notin c.steps[i].signers
      BY <1>5, <2>1
    <3>2. i \in 1..n \/ i \in (n + 1)..Len(r.steps)
      BY <1>1
    <3> QED
      BY <1>7, <3>1, <3>2
  <2> QED
    BY <1>4, <2>1
<1> QED
  BY <1>1, <1>4, <1>5, <1>6, <1>7

-----------------------------------------------------------------------------
(* The fields of a PDF *)

Pades(c) == {i \in DOMAIN c.steps : c.steps[i].mode = "pades"}

\* What FieldsAreFresh says of one content.
FreshFields(c) ==
    \A i \in Pades(c) : /\ c.steps[i].field \notin FieldsOf[c.core]
                        /\ \A k \in Pades(c) : c.steps[i].field = c.steps[k].field => i = k

LEMMA FieldsAreFinite == ASSUME NEW c \in Content PROVE IsFiniteSet(Fields(c))
<1> DEFINE T == {c.steps[i].field : i \in Pades(c)}
           f == [i \in Pades(c) |-> c.steps[i].field]
<1>1. Len(c.steps) \in Int /\ Pades(c) \in SUBSET (1..Len(c.steps))
  BY StepsOf DEF Pades
<1>2. IsFiniteSet(Pades(c))
  <2>1. IsFiniteSet(1..Len(c.steps))
    BY <1>1, FS_Interval
  <2> QED
    BY <1>1, <2>1, FS_Subset
<1>3. f \in Surjection(Pades(c), T)
  BY DEF Surjection
<1>4. IsFiniteSet(T)
  BY <1>2, <1>3, FS_Surjection
<1>5. IsFiniteSet(FieldsOf[c.core])
  BY StepsOf, ContentAssumption
<1>6. Fields(c) = FieldsOf[c.core] \cup T
  BY DEF Fields, Pades
<1> QED
  BY <1>4, <1>5, <1>6, FS_Union

\* Among one more number than there are fields, one is free.
LEMMA FreeFieldIsFree ==
    ASSUME NEW c \in Content
    PROVE  FreeField(c) \in Nat \ {0} /\ FreeField(c) \notin Fields(c)
<1> DEFINE n == Cardinality(Fields(c))
           Free == (1..(n + 1)) \ Fields(c)
<1>1. IsFiniteSet(Fields(c)) /\ n \in Nat
  BY FieldsAreFinite, FS_CardinalityType
<1>2. Cardinality(1..(n + 1)) = n + 1
  BY <1>1, FS_Interval
<1>3. Free # {}
  <2>1. ASSUME Free = {} PROVE FALSE
    <3>1. 1..(n + 1) \in SUBSET Fields(c)
      BY <2>1
    <3>2. n + 1 <= n
      BY <1>1, <1>2, <3>1, FS_Subset
    <3> QED
      BY <1>1, <3>2
  <2> QED
    BY <2>1
<1>4. Free \in SUBSET Int /\ \A k \in Free : 1 <= k
  BY <1>1
<1>5. Least(Free) \in Free
  BY <1>3, <1>4, IntMin
<1> QED
  BY <1>1, <1>5 DEF FreeField

LEMMA FieldIn ==
    ASSUME NEW c \in Content, NEW i \in Pades(c)
    PROVE  c.steps[i].field \in Fields(c)
BY DEF Fields, Pades

\* A revision takes a free field; the other steps take none.
LEMMA AddedIsFresh ==
    ASSUME NEW c \in Content, FreshFields(c), NEW st \in StepRow,
           st.mode = "pades" => st.field \notin Fields(c)
    PROVE  FreshFields(AddStep(c, st))
<1> DEFINE r == AddStep(c, st)
           n == Len(c.steps)
<1>1. /\ r \in Content /\ r.core = c.core /\ Len(r.steps) = n + 1
      /\ \A i \in 1..n : r.steps[i] = c.steps[i]
      /\ r.steps[n + 1] = st
  BY AddStepGrows
<1>2. n \in Nat /\ DOMAIN c.steps = 1..n /\ DOMAIN r.steps = 1..(n + 1)
  BY <1>1, StepsOf
<1> HIDE DEF r
<1>3. Pades(r) \subseteq 1..(n + 1) /\ Pades(c) \subseteq 1..n
  BY <1>2 DEF Pades
<1>4. \A i \in Pades(r) : i = n + 1 \/ (i \in Pades(c) /\ r.steps[i] = c.steps[i])
  BY <1>1, <1>2 DEF Pades
<1>5. n + 1 \in Pades(r) => st.mode = "pades"
  BY <1>1 DEF Pades
<1>6. n + 1 \in Pades(r) =>
         /\ st.field \notin FieldsOf[c.core]
         /\ \A i \in Pades(c) : c.steps[i].field # st.field
  BY <1>5, FieldIn DEF Fields
<1>7. FreshFields(r)
  <2> SUFFICES ASSUME NEW i \in Pades(r)
               PROVE  /\ r.steps[i].field \notin FieldsOf[r.core]
                      /\ \A k \in Pades(r) : r.steps[i].field = r.steps[k].field => i = k
    BY DEF FreshFields
  <2>1. CASE i = n + 1
    BY <1>1, <1>4, <1>6, <2>1
  <2>2. CASE i \in Pades(c) /\ r.steps[i] = c.steps[i]
    BY <1>1, <1>4, <1>6, <2>2 DEF FreshFields
  <2> QED
    BY <1>4, <2>1, <2>2
<1> QED
  BY <1>7 DEF r

\* What keeps modes and fields keeps them fresh.
LEMMA SameIsFresh ==
    ASSUME NEW c \in Content, FreshFields(c), NEW r \in Content, r.core = c.core,
           Len(r.steps) = Len(c.steps),
           \A i \in 1..Len(c.steps) : /\ r.steps[i].mode = c.steps[i].mode
                                      /\ r.steps[i].field = c.steps[i].field
    PROVE  FreshFields(r)
<1>1. DOMAIN c.steps = 1..Len(c.steps) /\ DOMAIN r.steps = 1..Len(c.steps)
  BY StepsOf
<1>2. Pades(r) = Pades(c) /\ Pades(c) \subseteq 1..Len(c.steps)
  BY <1>1 DEF Pades
<1> QED
  BY <1>2 DEF FreshFields

-----------------------------------------------------------------------------
(* Where things are drawn *)

LEMMA DivMod ==
    ASSUME NEW n \in Int
    PROVE  /\ Unit \in Int /\ Unit > 0
           /\ n \div Unit \in Int /\ n % Unit \in 0..(Unit - 1)
           /\ n = Unit * (n \div Unit) + (n % Unit)
BY UnitAssumption

\* What rounding does: to the whole part or to one more, and to the whole part if
\* nothing is left.
LEMMA RoundIs ==
    ASSUME NEW n \in Int
    PROVE  \E q \in Int, rest \in 0..(Unit - 1), up \in 0..1 :
              /\ n = Unit * q + rest /\ Round(n) = q + up
              /\ q = n \div Unit /\ rest = n % Unit
              /\ up = 1 <=> ~(2 * rest < Unit \/ (2 * rest = Unit /\ q % 2 = 0))
              /\ rest = 0 => up = 0
<1> DEFINE q == n \div Unit
           rest == n % Unit
           up == IF 2 * rest < Unit \/ (2 * rest = Unit /\ q % 2 = 0) THEN 0 ELSE 1
<1>1. /\ Unit \in Int /\ Unit > 0 /\ q \in Int /\ rest \in 0..(Unit - 1)
      /\ n = Unit * q + rest
  BY DivMod
<1>2. Round(n) = IF 2 * rest < Unit \/ (2 * rest = Unit /\ q % 2 = 0) THEN q ELSE q + 1
  BY DEF Round
<1> HIDE DEF q, rest
<1>3. Round(n) = q + up /\ up \in 0..1 /\ (rest = 0 => up = 0)
  BY <1>1, <1>2
<1>4. up = 1 <=> ~(2 * rest < Unit \/ (2 * rest = Unit /\ q % 2 = 0))
  OBVIOUS
<1> HIDE DEF up
<1> QED
  BY <1>1, <1>3, <1>4 DEF q, rest

\* A multiple of Unit is a product with a number that is larger by one at least.
LEMMA Multiples ==
    ASSUME NEW a \in Int, NEW b \in Int
    PROVE  /\ Unit * a \in Int /\ Unit * b \in Int
           /\ a < b => Unit * a + Unit <= Unit * b
<1>1. Unit \in Nat /\ Unit >= 1
  BY UnitAssumption
<1>2. ASSUME a < b PROVE Unit * a + Unit <= Unit * b
  <2>1. PICK k \in Nat : b = a + 1 + k
    <3>1. b - a - 1 \in Nat /\ b = a + 1 + (b - a - 1)
      BY <1>2
    <3> QED
      BY <3>1
  <2>2. Unit * b = Unit * a + Unit + Unit * k
    BY <1>1, <2>1
  <2>3. Unit * k >= 0
    BY <1>1
  <2> QED
    BY <1>1, <2>2, <2>3
<1> QED
  BY <1>1, <1>2

LEMMA RoundStays ==
    ASSUME NEW n \in Int
    PROVE  /\ Round(n) \in Int
           /\ \A k \in Int : Unit * k <= n => k <= Round(n)
           /\ \A k \in Int : n <= Unit * k => Round(n) <= k
           /\ \A m \in Int : n <= m => Round(n) <= Round(m)
<1>0. Unit \in Nat /\ Unit >= 1
  BY UnitAssumption
<1>1. PICK q \in Int, rest \in 0..(Unit - 1), up \in 0..1 :
              /\ n = Unit * q + rest /\ Round(n) = q + up
              /\ up = 1 <=> ~(2 * rest < Unit \/ (2 * rest = Unit /\ q % 2 = 0))
              /\ rest = 0 => up = 0
  BY RoundIs
<1>2. ASSUME NEW k \in Int, Unit * k <= n PROVE k <= Round(n)
  <2>1. q < k => Unit * q + Unit <= Unit * k
    BY Multiples
  <2>2. Unit * q \in Int /\ Unit * k \in Int
    BY <1>0
  <2>3. ~ (q < k)
    BY <1>0, <1>1, <1>2, <2>1, <2>2
  <2> QED
    BY <1>1, <2>3
<1>3. ASSUME NEW k \in Int, n <= Unit * k PROVE Round(n) <= k
  <2>1. k < q => Unit * k + Unit <= Unit * q
    BY Multiples
  <2>2. Unit * q \in Int /\ Unit * k \in Int
    BY <1>0
  <2>3. ~ (k < q)
    BY <1>0, <1>1, <1>3, <2>1, <2>2
  <2>4. q = k => rest = 0
    BY <1>1, <1>3, <2>2
  <2> QED
    BY <1>1, <2>3, <2>4
<1>4. ASSUME NEW m \in Int, n <= m PROVE Round(n) <= Round(m)
  <2>1. PICK p \in Int, more \in 0..(Unit - 1), on \in 0..1 :
              /\ m = Unit * p + more /\ Round(m) = p + on
              /\ on = 1 <=> ~(2 * more < Unit \/ (2 * more = Unit /\ p % 2 = 0))
    BY RoundIs
  <2>2. p < q => Unit * p + Unit <= Unit * q
    BY Multiples
  <2>3. Unit * q \in Int /\ Unit * p \in Int
    BY <1>0
  <2>4. ~ (p < q)
    BY <1>0, <1>1, <1>4, <2>1, <2>2, <2>3
  <2>5. q = p => rest <= more
    BY <1>1, <1>4, <2>1, <2>3
  <2>6. q = p => up <= on
    BY <1>0, <1>1, <2>1, <2>5
  <2> QED
    BY <1>1, <2>1, <2>4, <2>6
<1> QED
  BY <1>1, <1>2, <1>3, <1>4

LEMMA MatrixType ==
    ASSUME NEW page \in Page, NEW p \in Placement
    PROVE  Matrix(page, p) \in Matrices
<1> DEFINE x == p.x * DisplayWidth(page)
           y == (Unit - p.y - p.height) * DisplayHeight(page)
           w == p.width * DisplayWidth(page)
           h == p.height * DisplayHeight(page)
           left == Unit * page.llx
           low == Unit * page.lly
           right == left + Unit * page.width
           high == low + Unit * page.height
<1>1. /\ page.llx \in Int /\ page.lly \in Int /\ page.width \in Int /\ page.height \in Int
      /\ DisplayWidth(page) \in Int /\ DisplayHeight(page) \in Int
      /\ page.rotation \in {0, 90, 180, 270}
  BY PageLengths DEF Rotations
<1>2. p.x \in Int /\ p.y \in Int /\ p.width \in Int /\ p.height \in Int /\ Unit \in Int
  BY UnitAssumption DEF Placement
<1>3. x \in Int /\ y \in Int /\ w \in Int /\ h \in Int /\ left \in Int /\ low \in Int
  BY <1>1, <1>2
<1>4. right \in Int /\ high \in Int
  BY <1>1, <1>2, <1>3
<1>5. Matrix(page, p) =
      CASE page.rotation = 0   -> [a |-> w, b |-> 0, c |-> 0, d |-> h, e |-> left + x, f |-> low + y]
        [] page.rotation = 90  -> [a |-> 0, b |-> w, c |-> -h, d |-> 0, e |-> right - y, f |-> low + x]
        [] page.rotation = 180 -> [a |-> -w, b |-> 0, c |-> 0, d |-> -h, e |-> right - x, f |-> high - y]
        [] page.rotation = 270 -> [a |-> 0, b |-> -w, c |-> h, d |-> 0, e |-> left + y, f |-> high - x]
  BY DEF Matrix
<1> HIDE DEF x, y, w, h, left, low, right, high
<1> QED
  BY <1>1, <1>3, <1>4, <1>5 DEF Matrices

\* The box of a field, to the point, is on the page its matrix draws on.
LEMMA BoxOnPage ==
    ASSUME NEW page \in Page, NEW m \in Matrices, OnPage(page, m)
    PROVE  LET box == Box(Rect(m)) IN
           /\ box \in Boxes
           /\ page.llx <= box.left /\ box.right <= page.llx + page.width
           /\ page.lly <= box.low /\ box.high <= page.lly + page.height
           /\ box.left <= box.right /\ box.low <= box.high
<1> DEFINE xs == {ImageX(m, u, v) : u \in 0..1, v \in 0..1}
           ys == {ImageY(m, u, v) : u \in 0..1, v \in 0..1}
<1>0. /\ Unit \in Int
      /\ page.llx \in Int /\ page.lly \in Int /\ page.llx + page.width \in Int
      /\ page.lly + page.height \in Int
      /\ Unit * page.llx \in Int /\ Unit * (page.llx + page.width) \in Int
      /\ Unit * page.lly \in Int /\ Unit * (page.lly + page.height) \in Int
  <2>1. Unit \in Int /\ page.llx \in Int /\ page.lly \in Int /\ page.width \in Int /\ page.height \in Int
    BY UnitAssumption, PageLengths
  <2>2. page.llx + page.width \in Int /\ page.lly + page.height \in Int
    BY <2>1
  <2> QED
    BY <2>1, <2>2
<1>1. \A u, v \in 0..1 : ImageX(m, u, v) \in Int /\ ImageY(m, u, v) \in Int
  BY DEF ImageX, ImageY, Matrices
<1>2. /\ xs \in SUBSET Int /\ xs # {}
      /\ \A n \in xs : Unit * page.llx <= n /\ n <= Unit * (page.llx + page.width)
  <2>1. ImageX(m, 0, 0) \in xs
    OBVIOUS
  <2> QED
    BY <1>1, <2>1 DEF OnPage
<1>3. /\ ys \in SUBSET Int /\ ys # {}
      /\ \A n \in ys : Unit * page.lly <= n /\ n <= Unit * (page.lly + page.height)
  <2>1. ImageY(m, 0, 0) \in ys
    OBVIOUS
  <2> QED
    BY <1>1, <2>1 DEF OnPage
<1>4. Rect(m) = [left |-> Least(xs), low |-> Least(ys), right |-> Greatest(xs), high |-> Greatest(ys)]
  BY DEF Rect
<1> HIDE DEF xs, ys
<1>5. Least(xs) \in xs /\ \A n \in xs : Least(xs) <= n
  BY <1>0, <1>2, IntMin
<1>6. Greatest(xs) \in xs
  BY <1>0, <1>2, IntMax
<1>7. Least(ys) \in ys /\ \A n \in ys : Least(ys) <= n
  BY <1>0, <1>3, IntMin
<1>8. Greatest(ys) \in ys
  BY <1>0, <1>3, IntMax
<1>9. PICK l \in xs, r \in xs, b \in ys, t \in ys :
         /\ l <= r /\ b <= t
         /\ Rect(m) = [left |-> l, low |-> b, right |-> r, high |-> t]
  BY <1>4, <1>5, <1>6, <1>7, <1>8
<1>10. l \in Int /\ r \in Int /\ b \in Int /\ t \in Int
  BY <1>2, <1>3
<1>11. Box(Rect(m)) = [left |-> Round(l), low |-> Round(b), right |-> Round(r), high |-> Round(t)]
  BY <1>9 DEF Box
<1>12. /\ Round(l) \in Int /\ Round(r) \in Int /\ Round(b) \in Int /\ Round(t) \in Int
       /\ Round(l) <= Round(r) /\ Round(b) <= Round(t)
  BY <1>9, <1>10, RoundStays
<1>13. page.llx <= Round(l) /\ Round(r) <= page.llx + page.width
  BY <1>0, <1>2, <1>10, RoundStays
<1>14. page.lly <= Round(b) /\ Round(t) <= page.lly + page.height
  BY <1>0, <1>3, <1>10, RoundStays
<1> QED
  BY <1>11, <1>12, <1>13, <1>14 DEF Boxes

-----------------------------------------------------------------------------
(* The box of a field is seen where the placement is *)

\* round() is at most half a point off.
LEMMA RoundIsNear ==
    ASSUME NEW n \in Int
    PROVE  Unit * Round(n) \in Int /\ Near(Unit * Round(n), n)
<1>0. Unit \in Nat /\ Unit >= 1
  BY UnitAssumption
<1>1. PICK q \in Int, rest \in 0..(Unit - 1), up \in 0..1 :
              /\ n = Unit * q + rest /\ Round(n) = q + up
              /\ up = 1 <=> ~(2 * rest < Unit \/ (2 * rest = Unit /\ q % 2 = 0))
  BY RoundIs
<1>2. Unit * q \in Int /\ Unit * (q + up) = Unit * q + (IF up = 1 THEN Unit ELSE 0)
  BY <1>0
<1>3. CASE up = 0
  <2>1. Unit * Round(n) = Unit * q /\ 2 * rest <= Unit
    BY <1>0, <1>1, <1>2, <1>3
  <2> QED
    BY <1>0, <1>1, <1>2, <2>1 DEF Near
<1>4. CASE up = 1
  <2>1. Unit * Round(n) = Unit * q + Unit /\ Unit <= 2 * rest
    BY <1>0, <1>1, <1>2, <1>4
  <2> QED
    BY <1>0, <1>1, <1>2, <2>1 DEF Near
<1> QED
  BY <1>3, <1>4

\* A set's least and greatest elements, once they are known.
LEMMA Extremes ==
    ASSUME NEW T \in SUBSET Int, NEW lo \in T, NEW hi \in T, \A n \in T : lo <= n /\ n <= hi
    PROVE  Least(T) = lo /\ Greatest(T) = hi
<1>1. Least(T) \in T /\ \A n \in T : Least(T) <= n
  BY IntMin
<1>2. Greatest(T) \in T /\ \A n \in T : n <= Greatest(T)
  BY IntMax
<1>3. Least(T) <= lo /\ lo <= Least(T) /\ Least(T) \in Int /\ lo \in Int
  BY <1>1
<1>4. Greatest(T) <= hi /\ hi <= Greatest(T) /\ Greatest(T) \in Int /\ hi \in Int
  BY <1>2
<1> QED
  BY <1>3, <1>4

\* The corners of the image: how far they reach, each way.
Reaches(m, l, b, r, t) ==
    /\ \A u, v \in 0..1 : /\ ImageX(m, u, v) \in Int /\ l <= ImageX(m, u, v) /\ ImageX(m, u, v) <= r
                          /\ ImageY(m, u, v) \in Int /\ b <= ImageY(m, u, v) /\ ImageY(m, u, v) <= t
    /\ \E u, v \in 0..1 : ImageX(m, u, v) = l
    /\ \E u, v \in 0..1 : ImageX(m, u, v) = r
    /\ \E u, v \in 0..1 : ImageY(m, u, v) = b
    /\ \E u, v \in 0..1 : ImageY(m, u, v) = t

\* What the box of a field is, once the corners of the image are known.
LEMMA BoxEdges ==
    ASSUME NEW m, NEW l \in Int, NEW b \in Int, NEW r \in Int, NEW t \in Int, Reaches(m, l, b, r, t)
    PROVE  Box(Rect(m)) = [left |-> Round(l), low |-> Round(b), right |-> Round(r), high |-> Round(t)]
<1> DEFINE xs == {ImageX(m, u, v) : u \in 0..1, v \in 0..1}
           ys == {ImageY(m, u, v) : u \in 0..1, v \in 0..1}
<1>1. xs \in SUBSET Int /\ l \in xs /\ r \in xs /\ \A n \in xs : l <= n /\ n <= r
  BY DEF Reaches
<1>2. ys \in SUBSET Int /\ b \in ys /\ t \in ys /\ \A n \in ys : b <= n /\ n <= t
  BY DEF Reaches
<1>3. Rect(m) = [left |-> Least(xs), low |-> Least(ys), right |-> Greatest(xs), high |-> Greatest(ys)]
  BY DEF Rect
<1> HIDE DEF xs, ys
<1>4. Rect(m) = [left |-> l, low |-> b, right |-> r, high |-> t]
  BY <1>1, <1>2, <1>3, Extremes
<1> QED
  BY <1>4 DEF Box

\* The box of a field, in points: every edge at most half a point off.
IsBox(box, L, B, R, T, l, b, r, t) ==
    /\ box = [left |-> L, low |-> B, right |-> R, high |-> T]
    /\ Unit * L \in Int /\ Unit * B \in Int /\ Unit * R \in Int /\ Unit * T \in Int
    /\ Unit * L <= Unit * R /\ Unit * B <= Unit * T
    /\ Near(Unit * L, l) /\ Near(Unit * B, b) /\ Near(Unit * R, r) /\ Near(Unit * T, t)

LEMMA BoxIsNear ==
    ASSUME NEW m, NEW l \in Int, NEW b \in Int, NEW r \in Int, NEW t \in Int, l <= r, b <= t,
           Reaches(m, l, b, r, t)
    PROVE  \E L, B, R, T \in Int : IsBox(Box(Rect(m)), L, B, R, T, l, b, r, t)
<1>1. Box(Rect(m)) = [left |-> Round(l), low |-> Round(b), right |-> Round(r), high |-> Round(t)]
  BY BoxEdges
<1>2. /\ Round(l) \in Int /\ Round(r) \in Int /\ Round(l) <= Round(r)
      /\ Round(b) \in Int /\ Round(t) \in Int /\ Round(b) <= Round(t)
  BY RoundStays
<1>3. Unit * Round(l) <= Unit * Round(r) /\ Unit * Round(b) <= Unit * Round(t)
  <2>1. Unit \in Nat
    BY UnitAssumption
  <2>2. Unit * Round(l) <= Unit * Round(r)
    BY <1>2, <2>1, Multiples
  <2>3. Unit * Round(b) <= Unit * Round(t)
    BY <1>2, <2>1, Multiples
  <2> QED
    BY <2>2, <2>3
<1>4. IsBox(Box(Rect(m)), Round(l), Round(b), Round(r), Round(t), l, b, r, t)
  BY <1>1, <1>3, RoundIsNear DEF IsBox
<1> QED
  BY <1>2, <1>4

\* How far the corners of a box reach, as the reader sees them.
ReachesSeen(page, box, l, t, r, b) ==
    /\ \A x \in {box.left, box.right}, y \in {box.low, box.high} :
          /\ SeenX(page, Unit * x, Unit * y) \in Int /\ SeenY(page, Unit * x, Unit * y) \in Int
          /\ l <= SeenX(page, Unit * x, Unit * y) /\ SeenX(page, Unit * x, Unit * y) <= r
          /\ t <= SeenY(page, Unit * x, Unit * y) /\ SeenY(page, Unit * x, Unit * y) <= b
    /\ \E x \in {box.left, box.right}, y \in {box.low, box.high} : SeenX(page, Unit * x, Unit * y) = l
    /\ \E x \in {box.left, box.right}, y \in {box.low, box.high} : SeenX(page, Unit * x, Unit * y) = r
    /\ \E x \in {box.left, box.right}, y \in {box.low, box.high} : SeenY(page, Unit * x, Unit * y) = t
    /\ \E x \in {box.left, box.right}, y \in {box.low, box.high} : SeenY(page, Unit * x, Unit * y) = b

\* What the reader sees of a box, once its corners are known.
LEMMA SeenEdges ==
    ASSUME NEW page, NEW box, NEW l \in Int, NEW t \in Int, NEW r \in Int, NEW b \in Int,
           ReachesSeen(page, box, l, t, r, b)
    PROVE  SeenBox(page, box) = [left |-> l, top |-> t, right |-> r, bottom |-> b]
<1> DEFINE xs == {SeenX(page, Unit * x, Unit * y) : x \in {box.left, box.right}, y \in {box.low, box.high}}
           ys == {SeenY(page, Unit * x, Unit * y) : x \in {box.left, box.right}, y \in {box.low, box.high}}
<1>1. xs \in SUBSET Int /\ l \in xs /\ r \in xs /\ \A n \in xs : l <= n /\ n <= r
  BY DEF ReachesSeen
<1>2. ys \in SUBSET Int /\ t \in ys /\ b \in ys /\ \A n \in ys : t <= n /\ n <= b
  BY DEF ReachesSeen
<1>3. SeenBox(page, box) = [left |-> Least(xs), top |-> Least(ys), right |-> Greatest(xs), bottom |-> Greatest(ys)]
  BY DEF SeenBox
<1> HIDE DEF xs, ys
<1> QED
  BY <1>1, <1>2, <1>3, Extremes

\* The box of a field, rounded to points, is seen where the placement is, whatever
\* the box and the turn of the page (graphics_pdf.py placement_rect, pades.py:105).
\* In the proof x1, x2, y1, y2 are the edges of the placement as the reader sees
\* them, counted from the left and from the top.
THEOREM BoxesAreSeenAsPlaced ==
    ASSUME NEW page \in Page, NEW p \in Placement, InsidePage(p)
    PROVE  BoxSeenAsPlaced(page, p, Box(Rect(Matrix(page, p))))
<1> DEFINE m == Matrix(page, p)
<1>0. Unit \in Nat /\ Unit >= 1
  BY UnitAssumption
<1>1. PICK x1 \in Int, x2 \in Int, y1 \in Int, y2 \in Int :
         /\ x1 = p.x * DisplayWidth(page) /\ x2 = (p.x + p.width) * DisplayWidth(page)
         /\ y1 = p.y * DisplayHeight(page) /\ y2 = (p.y + p.height) * DisplayHeight(page)
         /\ x1 <= x2 /\ y1 <= y2
  <2>1. PICK W \in Nat, H \in Nat, px \in Nat, py \in Nat, pw \in Nat, ph \in Nat :
           /\ W = DisplayWidth(page) /\ H = DisplayHeight(page)
           /\ px = p.x /\ py = p.y /\ pw = p.width /\ ph = p.height
           /\ px + pw <= Unit /\ py + ph <= Unit
    BY PageLengths, PlacementShares
  <2>2. Shares(px, pw, W) /\ Shares(py, ph, H)
    BY <2>1, Share
  <2>3. px * W \in Int /\ (px + pw) * W \in Int /\ px * W <= (px + pw) * W
    BY <2>2 DEF Shares
  <2>4. py * H \in Int /\ (py + ph) * H \in Int /\ py * H <= (py + ph) * H
    BY <2>2 DEF Shares
  <2> QED
    BY <2>1, <2>3, <2>4
<1>2. PICK left \in Int, low \in Int, right \in Int, high \in Int :
         /\ left = Unit * page.llx /\ low = Unit * page.lly
         /\ right = Unit * (page.llx + page.width) /\ high = Unit * (page.lly + page.height)
  <2>1. page.llx \in Int /\ page.lly \in Int /\ page.llx + page.width \in Int
        /\ page.lly + page.height \in Int
    BY PageLengths
  <2> QED
    BY <1>0, <2>1
<1>3. ASSUME NEW u \in 0..1, NEW v \in 0..1
      PROVE  /\ ImageX(m, u, v) \in Int /\ ImageY(m, u, v) \in Int
             /\ SeenX(page, ImageX(m, u, v), ImageY(m, u, v)) = IF u = 0 THEN x1 ELSE x2
             /\ SeenY(page, ImageX(m, u, v), ImageY(m, u, v)) = IF v = 0 THEN y2 ELSE y1
  <2>1. m \in Matrices
    BY MatrixType
  <2> HIDE DEF m
  <2>2. ImageX(m, u, v) \in Int /\ ImageY(m, u, v) \in Int
    BY <2>1 DEF ImageX, ImageY, Matrices
  <2>3. /\ SeenX(page, ImageX(m, u, v), ImageY(m, u, v)) = (p.x + u * p.width) * DisplayWidth(page)
        /\ SeenY(page, ImageX(m, u, v), ImageY(m, u, v))
              = (p.y + (1 - v) * p.height) * DisplayHeight(page)
    BY GraphicsLieAsPlaced, Zenon DEF SeenAsPlaced, m
  <2>4. /\ p.x + u * p.width = IF u = 0 THEN p.x ELSE p.x + p.width
        /\ p.y + (1 - v) * p.height = IF v = 0 THEN p.y + p.height ELSE p.y
    BY PlacementShares
  <2> QED
    BY <1>1, <2>2, <2>3, <2>4
<1> HIDE DEF m
<1>4. x1 <= x2 /\ y1 <= y2
  BY <1>1
<1>5. CASE page.rotation = 0
  <2>1. \A X, Y \in Int : SeenX(page, X, Y) = X - left /\ SeenY(page, X, Y) = high - Y
    BY <1>2, <1>5 DEF SeenX, SeenY
  <2>2. \A u, v \in 0..1 : /\ ImageX(m, u, v) = left + (IF u = 0 THEN x1 ELSE x2)
                          /\ ImageY(m, u, v) = high - (IF v = 0 THEN y2 ELSE y1)
    <3> SUFFICES ASSUME NEW u \in 0..1, NEW v \in 0..1
                 PROVE  /\ ImageX(m, u, v) = left + (IF u = 0 THEN x1 ELSE x2)
                        /\ ImageY(m, u, v) = high - (IF v = 0 THEN y2 ELSE y1)
      OBVIOUS
    <3>1. PICK X \in Int, Y \in Int :
             /\ X = ImageX(m, u, v) /\ Y = ImageY(m, u, v)
             /\ SeenX(page, X, Y) = (IF u = 0 THEN x1 ELSE x2)
             /\ SeenY(page, X, Y) = (IF v = 0 THEN y2 ELSE y1)
      BY <1>3
    <3>2. SeenX(page, X, Y) = X - left /\ SeenY(page, X, Y) = high - Y
      BY <2>1
    <3> QED
      BY <1>1, <1>2, <3>1, <3>2
  <2>3. PICK L, B, R, T \in Int :
           IsBox(Box(Rect(m)), L, B, R, T, left + x1, high - y2, left + x2, high - y1)
    <3>1. PICK l \in Int, b \in Int, r \in Int, t \in Int :
             l = left + x1 /\ b = high - y2 /\ r = left + x2 /\ t = high - y1 /\ l <= r /\ b <= t
      BY <1>4
    <3>2. \A u, v \in 0..1 : /\ l <= ImageX(m, u, v) /\ ImageX(m, u, v) <= r
                            /\ b <= ImageY(m, u, v) /\ ImageY(m, u, v) <= t
      BY <1>1, <1>2, <2>2, <3>1
    <3>3. /\ \E u, v \in 0..1 : ImageX(m, u, v) = l
          /\ \E u, v \in 0..1 : ImageX(m, u, v) = r
          /\ \E u, v \in 0..1 : ImageY(m, u, v) = b
          /\ \E u, v \in 0..1 : ImageY(m, u, v) = t
      <4>1. 0 \in 0..1 /\ 1 \in 0..1 /\ 1 # 0
        OBVIOUS
      <4>2. ImageX(m, 0, 0) = l \/ ImageX(m, 1, 1) = l
        BY <2>2, <3>1, <4>1
      <4>3. ImageX(m, 0, 0) = r \/ ImageX(m, 1, 1) = r
        BY <2>2, <3>1, <4>1
      <4>4. ImageY(m, 0, 0) = b \/ ImageY(m, 1, 1) = b
        BY <2>2, <3>1, <4>1
      <4>5. ImageY(m, 0, 0) = t \/ ImageY(m, 1, 1) = t
        BY <2>2, <3>1, <4>1
      <4> QED
        BY <4>1, <4>2, <4>3, <4>4, <4>5, Zenon
    <3>4. Reaches(m, l, b, r, t)
      BY <1>3, <3>2, <3>3, Zenon DEF Reaches
    <3>5. \E L, B, R, T \in Int : IsBox(Box(Rect(m)), L, B, R, T, l, b, r, t)
      BY <3>1, <3>4, BoxIsNear, Zenon
    <3> QED
      BY <3>1, <3>5, Zenon
  <2>4. SeenBox(page, Box(Rect(m))) = [left |-> Unit * L - left, top |-> high - Unit * T,
                                       right |-> Unit * R - left, bottom |-> high - Unit * B]
    <3>1. PICK box : box = Box(Rect(m)) /\ box.left = L /\ box.low = B /\ box.right = R /\ box.high = T
      BY <2>3 DEF IsBox
    <3>2. PICK l \in Int, t \in Int, r \in Int, b \in Int :
             l = Unit * L - left /\ t = high - Unit * T /\ r = Unit * R - left /\ b = high - Unit * B
      <4>1. Unit * L - left \in Int /\ high - Unit * T \in Int /\ Unit * R - left \in Int /\ high - Unit * B \in Int
        <5> DEFINE UL == Unit * L
                   UB == Unit * B
                   UR == Unit * R
                   UT == Unit * T
        <5>1. UL \in Int /\ UB \in Int /\ UR \in Int /\ UT \in Int
          BY <2>3, Zenon DEF IsBox
        <5> HIDE DEF UL, UB, UR, UT
        <5>2. UL - left \in Int /\ high - UT \in Int /\ UR - left \in Int /\ high - UB \in Int
          BY <1>2, <5>1
        <5> QED
          BY <5>2, Zenon DEF UL, UB, UR, UT
      <4> QED
        BY <4>1, Zenon
    <3>3. \A x \in {L, R}, y \in {B, T} :
             /\ Unit * x \in Int /\ Unit * y \in Int
             /\ Unit * L <= Unit * x /\ Unit * x <= Unit * R
             /\ Unit * B <= Unit * y /\ Unit * y <= Unit * T
             /\ SeenX(page, Unit * x, Unit * y) = Unit * x - left
             /\ SeenY(page, Unit * x, Unit * y) = high - Unit * y
      <4> SUFFICES ASSUME NEW x \in {L, R}, NEW y \in {B, T}
                   PROVE  /\ Unit * x \in Int /\ Unit * y \in Int
                          /\ Unit * L <= Unit * x /\ Unit * x <= Unit * R
                          /\ Unit * B <= Unit * y /\ Unit * y <= Unit * T
                          /\ SeenX(page, Unit * x, Unit * y) = Unit * x - left
                          /\ SeenY(page, Unit * x, Unit * y) = high - Unit * y
        BY Zenon
      <4>1. Unit * x \in {Unit * L, Unit * R} /\ Unit * y \in {Unit * B, Unit * T}
        BY Zenon
      <4>2. PICK X \in Int, Y \in Int : X = Unit * x /\ Y = Unit * y
        BY <2>3, <4>1, Zenon DEF IsBox
      <4>3. /\ Unit * L <= X /\ X <= Unit * R /\ Unit * B <= Y /\ Y <= Unit * T
        BY <2>3, <4>1, <4>2 DEF IsBox
      <4> QED
        BY <2>1, <4>2, <4>3, Zenon
    <3>4. \A x \in {box.left, box.right}, y \in {box.low, box.high} :
              /\ SeenX(page, Unit * x, Unit * y) \in Int /\ SeenY(page, Unit * x, Unit * y) \in Int
              /\ l <= SeenX(page, Unit * x, Unit * y) /\ SeenX(page, Unit * x, Unit * y) <= r
              /\ t <= SeenY(page, Unit * x, Unit * y) /\ SeenY(page, Unit * x, Unit * y) <= b
      <4> SUFFICES ASSUME NEW x \in {L, R}, NEW y \in {B, T}
                   PROVE  /\ SeenX(page, Unit * x, Unit * y) \in Int
                          /\ SeenY(page, Unit * x, Unit * y) \in Int
                          /\ l <= SeenX(page, Unit * x, Unit * y) /\ SeenX(page, Unit * x, Unit * y) <= r
                          /\ t <= SeenY(page, Unit * x, Unit * y) /\ SeenY(page, Unit * x, Unit * y) <= b
        BY <3>1, Zenon
      <4>1. PICK X \in Int, Y \in Int :
               /\ X = Unit * x /\ Y = Unit * y
               /\ Unit * L <= X /\ X <= Unit * R /\ Unit * B <= Y /\ Y <= Unit * T
               /\ SeenX(page, Unit * x, Unit * y) = X - left /\ SeenY(page, Unit * x, Unit * y) = high - Y
        BY <3>3, Zenon
      <4> QED
        BY <1>2, <2>3, <3>2, <4>1 DEF IsBox
    <3>5. /\ \E x \in {box.left, box.right}, y \in {box.low, box.high} : SeenX(page, Unit * x, Unit * y) = l
          /\ \E x \in {box.left, box.right}, y \in {box.low, box.high} : SeenX(page, Unit * x, Unit * y) = r
          /\ \E x \in {box.left, box.right}, y \in {box.low, box.high} : SeenY(page, Unit * x, Unit * y) = t
          /\ \E x \in {box.left, box.right}, y \in {box.low, box.high} : SeenY(page, Unit * x, Unit * y) = b
      BY <3>1, <3>2, <3>3
    <3>6. SeenBox(page, box) = [left |-> l, top |-> t, right |-> r, bottom |-> b]
      <4>1. ReachesSeen(page, box, l, t, r, b)
        BY <3>4, <3>5, Zenon DEF ReachesSeen
      <4> QED
        BY <3>2, <4>1, SeenEdges
    <3> QED
      BY <3>1, <3>2, <3>6
  <2> QED
    BY <1>0, <1>1, <1>2, <2>3, <2>4 DEF BoxSeenAsPlaced, IsBox, Near, m
<1>6. CASE page.rotation = 90
  <2>1. \A X, Y \in Int : SeenX(page, X, Y) = Y - low /\ SeenY(page, X, Y) = X - left
    BY <1>2, <1>6 DEF SeenX, SeenY
  <2>2. \A u, v \in 0..1 : /\ ImageX(m, u, v) = left + (IF v = 0 THEN y2 ELSE y1)
                          /\ ImageY(m, u, v) = low + (IF u = 0 THEN x1 ELSE x2)
    <3> SUFFICES ASSUME NEW u \in 0..1, NEW v \in 0..1
                 PROVE  /\ ImageX(m, u, v) = left + (IF v = 0 THEN y2 ELSE y1)
                        /\ ImageY(m, u, v) = low + (IF u = 0 THEN x1 ELSE x2)
      OBVIOUS
    <3>1. PICK X \in Int, Y \in Int :
             /\ X = ImageX(m, u, v) /\ Y = ImageY(m, u, v)
             /\ SeenX(page, X, Y) = (IF u = 0 THEN x1 ELSE x2)
             /\ SeenY(page, X, Y) = (IF v = 0 THEN y2 ELSE y1)
      BY <1>3
    <3>2. SeenX(page, X, Y) = Y - low /\ SeenY(page, X, Y) = X - left
      BY <2>1
    <3> QED
      BY <1>1, <1>2, <3>1, <3>2
  <2>3. PICK L, B, R, T \in Int :
           IsBox(Box(Rect(m)), L, B, R, T, left + y1, low + x1, left + y2, low + x2)
    <3>1. PICK l \in Int, b \in Int, r \in Int, t \in Int :
             l = left + y1 /\ b = low + x1 /\ r = left + y2 /\ t = low + x2 /\ l <= r /\ b <= t
      BY <1>4
    <3>2. \A u, v \in 0..1 : /\ l <= ImageX(m, u, v) /\ ImageX(m, u, v) <= r
                            /\ b <= ImageY(m, u, v) /\ ImageY(m, u, v) <= t
      BY <1>1, <1>2, <2>2, <3>1
    <3>3. /\ \E u, v \in 0..1 : ImageX(m, u, v) = l
          /\ \E u, v \in 0..1 : ImageX(m, u, v) = r
          /\ \E u, v \in 0..1 : ImageY(m, u, v) = b
          /\ \E u, v \in 0..1 : ImageY(m, u, v) = t
      <4>1. 0 \in 0..1 /\ 1 \in 0..1 /\ 1 # 0
        OBVIOUS
      <4>2. ImageX(m, 0, 0) = l \/ ImageX(m, 1, 1) = l
        BY <2>2, <3>1, <4>1
      <4>3. ImageX(m, 0, 0) = r \/ ImageX(m, 1, 1) = r
        BY <2>2, <3>1, <4>1
      <4>4. ImageY(m, 0, 0) = b \/ ImageY(m, 1, 1) = b
        BY <2>2, <3>1, <4>1
      <4>5. ImageY(m, 0, 0) = t \/ ImageY(m, 1, 1) = t
        BY <2>2, <3>1, <4>1
      <4> QED
        BY <4>1, <4>2, <4>3, <4>4, <4>5, Zenon
    <3>4. Reaches(m, l, b, r, t)
      BY <1>3, <3>2, <3>3, Zenon DEF Reaches
    <3>5. \E L, B, R, T \in Int : IsBox(Box(Rect(m)), L, B, R, T, l, b, r, t)
      BY <3>1, <3>4, BoxIsNear, Zenon
    <3> QED
      BY <3>1, <3>5, Zenon
  <2>4. SeenBox(page, Box(Rect(m))) = [left |-> Unit * B - low, top |-> Unit * L - left,
                                       right |-> Unit * T - low, bottom |-> Unit * R - left]
    <3>1. PICK box : box = Box(Rect(m)) /\ box.left = L /\ box.low = B /\ box.right = R /\ box.high = T
      BY <2>3 DEF IsBox
    <3>2. PICK l \in Int, t \in Int, r \in Int, b \in Int :
             l = Unit * B - low /\ t = Unit * L - left /\ r = Unit * T - low /\ b = Unit * R - left
      <4>1. Unit * B - low \in Int /\ Unit * L - left \in Int /\ Unit * T - low \in Int /\ Unit * R - left \in Int
        <5> DEFINE UL == Unit * L
                   UB == Unit * B
                   UR == Unit * R
                   UT == Unit * T
        <5>1. UL \in Int /\ UB \in Int /\ UR \in Int /\ UT \in Int
          BY <2>3, Zenon DEF IsBox
        <5> HIDE DEF UL, UB, UR, UT
        <5>2. UB - low \in Int /\ UL - left \in Int /\ UT - low \in Int /\ UR - left \in Int
          BY <1>2, <5>1
        <5> QED
          BY <5>2, Zenon DEF UL, UB, UR, UT
      <4> QED
        BY <4>1, Zenon
    <3>3. \A x \in {L, R}, y \in {B, T} :
             /\ Unit * x \in Int /\ Unit * y \in Int
             /\ Unit * L <= Unit * x /\ Unit * x <= Unit * R
             /\ Unit * B <= Unit * y /\ Unit * y <= Unit * T
             /\ SeenX(page, Unit * x, Unit * y) = Unit * y - low
             /\ SeenY(page, Unit * x, Unit * y) = Unit * x - left
      <4> SUFFICES ASSUME NEW x \in {L, R}, NEW y \in {B, T}
                   PROVE  /\ Unit * x \in Int /\ Unit * y \in Int
                          /\ Unit * L <= Unit * x /\ Unit * x <= Unit * R
                          /\ Unit * B <= Unit * y /\ Unit * y <= Unit * T
                          /\ SeenX(page, Unit * x, Unit * y) = Unit * y - low
                          /\ SeenY(page, Unit * x, Unit * y) = Unit * x - left
        BY Zenon
      <4>1. Unit * x \in {Unit * L, Unit * R} /\ Unit * y \in {Unit * B, Unit * T}
        BY Zenon
      <4>2. PICK X \in Int, Y \in Int : X = Unit * x /\ Y = Unit * y
        BY <2>3, <4>1, Zenon DEF IsBox
      <4>3. /\ Unit * L <= X /\ X <= Unit * R /\ Unit * B <= Y /\ Y <= Unit * T
        BY <2>3, <4>1, <4>2 DEF IsBox
      <4> QED
        BY <2>1, <4>2, <4>3, Zenon
    <3>4. \A x \in {box.left, box.right}, y \in {box.low, box.high} :
              /\ SeenX(page, Unit * x, Unit * y) \in Int /\ SeenY(page, Unit * x, Unit * y) \in Int
              /\ l <= SeenX(page, Unit * x, Unit * y) /\ SeenX(page, Unit * x, Unit * y) <= r
              /\ t <= SeenY(page, Unit * x, Unit * y) /\ SeenY(page, Unit * x, Unit * y) <= b
      <4> SUFFICES ASSUME NEW x \in {L, R}, NEW y \in {B, T}
                   PROVE  /\ SeenX(page, Unit * x, Unit * y) \in Int
                          /\ SeenY(page, Unit * x, Unit * y) \in Int
                          /\ l <= SeenX(page, Unit * x, Unit * y) /\ SeenX(page, Unit * x, Unit * y) <= r
                          /\ t <= SeenY(page, Unit * x, Unit * y) /\ SeenY(page, Unit * x, Unit * y) <= b
        BY <3>1, Zenon
      <4>1. PICK X \in Int, Y \in Int :
               /\ X = Unit * x /\ Y = Unit * y
               /\ Unit * L <= X /\ X <= Unit * R /\ Unit * B <= Y /\ Y <= Unit * T
               /\ SeenX(page, Unit * x, Unit * y) = Y - low /\ SeenY(page, Unit * x, Unit * y) = X - left
        BY <3>3, Zenon
      <4> QED
        BY <1>2, <2>3, <3>2, <4>1 DEF IsBox
    <3>5. /\ \E x \in {box.left, box.right}, y \in {box.low, box.high} : SeenX(page, Unit * x, Unit * y) = l
          /\ \E x \in {box.left, box.right}, y \in {box.low, box.high} : SeenX(page, Unit * x, Unit * y) = r
          /\ \E x \in {box.left, box.right}, y \in {box.low, box.high} : SeenY(page, Unit * x, Unit * y) = t
          /\ \E x \in {box.left, box.right}, y \in {box.low, box.high} : SeenY(page, Unit * x, Unit * y) = b
      BY <3>1, <3>2, <3>3
    <3>6. SeenBox(page, box) = [left |-> l, top |-> t, right |-> r, bottom |-> b]
      <4>1. ReachesSeen(page, box, l, t, r, b)
        BY <3>4, <3>5, Zenon DEF ReachesSeen
      <4> QED
        BY <3>2, <4>1, SeenEdges
    <3> QED
      BY <3>1, <3>2, <3>6
  <2> QED
    BY <1>0, <1>1, <1>2, <2>3, <2>4 DEF BoxSeenAsPlaced, IsBox, Near, m
<1>7. CASE page.rotation = 180
  <2>1. \A X, Y \in Int : SeenX(page, X, Y) = right - X /\ SeenY(page, X, Y) = Y - low
    BY <1>2, <1>7 DEF SeenX, SeenY
  <2>2. \A u, v \in 0..1 : /\ ImageX(m, u, v) = right - (IF u = 0 THEN x1 ELSE x2)
                          /\ ImageY(m, u, v) = low + (IF v = 0 THEN y2 ELSE y1)
    <3> SUFFICES ASSUME NEW u \in 0..1, NEW v \in 0..1
                 PROVE  /\ ImageX(m, u, v) = right - (IF u = 0 THEN x1 ELSE x2)
                        /\ ImageY(m, u, v) = low + (IF v = 0 THEN y2 ELSE y1)
      OBVIOUS
    <3>1. PICK X \in Int, Y \in Int :
             /\ X = ImageX(m, u, v) /\ Y = ImageY(m, u, v)
             /\ SeenX(page, X, Y) = (IF u = 0 THEN x1 ELSE x2)
             /\ SeenY(page, X, Y) = (IF v = 0 THEN y2 ELSE y1)
      BY <1>3
    <3>2. SeenX(page, X, Y) = right - X /\ SeenY(page, X, Y) = Y - low
      BY <2>1
    <3> QED
      BY <1>1, <1>2, <3>1, <3>2
  <2>3. PICK L, B, R, T \in Int :
           IsBox(Box(Rect(m)), L, B, R, T, right - x2, low + y1, right - x1, low + y2)
    <3>1. PICK l \in Int, b \in Int, r \in Int, t \in Int :
             l = right - x2 /\ b = low + y1 /\ r = right - x1 /\ t = low + y2 /\ l <= r /\ b <= t
      BY <1>4
    <3>2. \A u, v \in 0..1 : /\ l <= ImageX(m, u, v) /\ ImageX(m, u, v) <= r
                            /\ b <= ImageY(m, u, v) /\ ImageY(m, u, v) <= t
      BY <1>1, <1>2, <2>2, <3>1
    <3>3. /\ \E u, v \in 0..1 : ImageX(m, u, v) = l
          /\ \E u, v \in 0..1 : ImageX(m, u, v) = r
          /\ \E u, v \in 0..1 : ImageY(m, u, v) = b
          /\ \E u, v \in 0..1 : ImageY(m, u, v) = t
      <4>1. 0 \in 0..1 /\ 1 \in 0..1 /\ 1 # 0
        OBVIOUS
      <4>2. ImageX(m, 0, 0) = l \/ ImageX(m, 1, 1) = l
        BY <2>2, <3>1, <4>1
      <4>3. ImageX(m, 0, 0) = r \/ ImageX(m, 1, 1) = r
        BY <2>2, <3>1, <4>1
      <4>4. ImageY(m, 0, 0) = b \/ ImageY(m, 1, 1) = b
        BY <2>2, <3>1, <4>1
      <4>5. ImageY(m, 0, 0) = t \/ ImageY(m, 1, 1) = t
        BY <2>2, <3>1, <4>1
      <4> QED
        BY <4>1, <4>2, <4>3, <4>4, <4>5, Zenon
    <3>4. Reaches(m, l, b, r, t)
      BY <1>3, <3>2, <3>3, Zenon DEF Reaches
    <3>5. \E L, B, R, T \in Int : IsBox(Box(Rect(m)), L, B, R, T, l, b, r, t)
      BY <3>1, <3>4, BoxIsNear, Zenon
    <3> QED
      BY <3>1, <3>5, Zenon
  <2>4. SeenBox(page, Box(Rect(m))) = [left |-> right - Unit * R, top |-> Unit * B - low,
                                       right |-> right - Unit * L, bottom |-> Unit * T - low]
    <3>1. PICK box : box = Box(Rect(m)) /\ box.left = L /\ box.low = B /\ box.right = R /\ box.high = T
      BY <2>3 DEF IsBox
    <3>2. PICK l \in Int, t \in Int, r \in Int, b \in Int :
             l = right - Unit * R /\ t = Unit * B - low /\ r = right - Unit * L /\ b = Unit * T - low
      <4>1. right - Unit * R \in Int /\ Unit * B - low \in Int /\ right - Unit * L \in Int /\ Unit * T - low \in Int
        <5> DEFINE UL == Unit * L
                   UB == Unit * B
                   UR == Unit * R
                   UT == Unit * T
        <5>1. UL \in Int /\ UB \in Int /\ UR \in Int /\ UT \in Int
          BY <2>3, Zenon DEF IsBox
        <5> HIDE DEF UL, UB, UR, UT
        <5>2. right - UR \in Int /\ UB - low \in Int /\ right - UL \in Int /\ UT - low \in Int
          BY <1>2, <5>1
        <5> QED
          BY <5>2, Zenon DEF UL, UB, UR, UT
      <4> QED
        BY <4>1, Zenon
    <3>3. \A x \in {L, R}, y \in {B, T} :
             /\ Unit * x \in Int /\ Unit * y \in Int
             /\ Unit * L <= Unit * x /\ Unit * x <= Unit * R
             /\ Unit * B <= Unit * y /\ Unit * y <= Unit * T
             /\ SeenX(page, Unit * x, Unit * y) = right - Unit * x
             /\ SeenY(page, Unit * x, Unit * y) = Unit * y - low
      <4> SUFFICES ASSUME NEW x \in {L, R}, NEW y \in {B, T}
                   PROVE  /\ Unit * x \in Int /\ Unit * y \in Int
                          /\ Unit * L <= Unit * x /\ Unit * x <= Unit * R
                          /\ Unit * B <= Unit * y /\ Unit * y <= Unit * T
                          /\ SeenX(page, Unit * x, Unit * y) = right - Unit * x
                          /\ SeenY(page, Unit * x, Unit * y) = Unit * y - low
        BY Zenon
      <4>1. Unit * x \in {Unit * L, Unit * R} /\ Unit * y \in {Unit * B, Unit * T}
        BY Zenon
      <4>2. PICK X \in Int, Y \in Int : X = Unit * x /\ Y = Unit * y
        BY <2>3, <4>1, Zenon DEF IsBox
      <4>3. /\ Unit * L <= X /\ X <= Unit * R /\ Unit * B <= Y /\ Y <= Unit * T
        BY <2>3, <4>1, <4>2 DEF IsBox
      <4> QED
        BY <2>1, <4>2, <4>3, Zenon
    <3>4. \A x \in {box.left, box.right}, y \in {box.low, box.high} :
              /\ SeenX(page, Unit * x, Unit * y) \in Int /\ SeenY(page, Unit * x, Unit * y) \in Int
              /\ l <= SeenX(page, Unit * x, Unit * y) /\ SeenX(page, Unit * x, Unit * y) <= r
              /\ t <= SeenY(page, Unit * x, Unit * y) /\ SeenY(page, Unit * x, Unit * y) <= b
      <4> SUFFICES ASSUME NEW x \in {L, R}, NEW y \in {B, T}
                   PROVE  /\ SeenX(page, Unit * x, Unit * y) \in Int
                          /\ SeenY(page, Unit * x, Unit * y) \in Int
                          /\ l <= SeenX(page, Unit * x, Unit * y) /\ SeenX(page, Unit * x, Unit * y) <= r
                          /\ t <= SeenY(page, Unit * x, Unit * y) /\ SeenY(page, Unit * x, Unit * y) <= b
        BY <3>1, Zenon
      <4>1. PICK X \in Int, Y \in Int :
               /\ X = Unit * x /\ Y = Unit * y
               /\ Unit * L <= X /\ X <= Unit * R /\ Unit * B <= Y /\ Y <= Unit * T
               /\ SeenX(page, Unit * x, Unit * y) = right - X /\ SeenY(page, Unit * x, Unit * y) = Y - low
        BY <3>3, Zenon
      <4> QED
        BY <1>2, <2>3, <3>2, <4>1 DEF IsBox
    <3>5. /\ \E x \in {box.left, box.right}, y \in {box.low, box.high} : SeenX(page, Unit * x, Unit * y) = l
          /\ \E x \in {box.left, box.right}, y \in {box.low, box.high} : SeenX(page, Unit * x, Unit * y) = r
          /\ \E x \in {box.left, box.right}, y \in {box.low, box.high} : SeenY(page, Unit * x, Unit * y) = t
          /\ \E x \in {box.left, box.right}, y \in {box.low, box.high} : SeenY(page, Unit * x, Unit * y) = b
      BY <3>1, <3>2, <3>3
    <3>6. SeenBox(page, box) = [left |-> l, top |-> t, right |-> r, bottom |-> b]
      <4>1. ReachesSeen(page, box, l, t, r, b)
        BY <3>4, <3>5, Zenon DEF ReachesSeen
      <4> QED
        BY <3>2, <4>1, SeenEdges
    <3> QED
      BY <3>1, <3>2, <3>6
  <2> QED
    BY <1>0, <1>1, <1>2, <2>3, <2>4 DEF BoxSeenAsPlaced, IsBox, Near, m
<1>8. CASE page.rotation = 270
  <2>1. \A X, Y \in Int : SeenX(page, X, Y) = high - Y /\ SeenY(page, X, Y) = right - X
    BY <1>2, <1>8 DEF SeenX, SeenY
  <2>2. \A u, v \in 0..1 : /\ ImageX(m, u, v) = right - (IF v = 0 THEN y2 ELSE y1)
                          /\ ImageY(m, u, v) = high - (IF u = 0 THEN x1 ELSE x2)
    <3> SUFFICES ASSUME NEW u \in 0..1, NEW v \in 0..1
                 PROVE  /\ ImageX(m, u, v) = right - (IF v = 0 THEN y2 ELSE y1)
                        /\ ImageY(m, u, v) = high - (IF u = 0 THEN x1 ELSE x2)
      OBVIOUS
    <3>1. PICK X \in Int, Y \in Int :
             /\ X = ImageX(m, u, v) /\ Y = ImageY(m, u, v)
             /\ SeenX(page, X, Y) = (IF u = 0 THEN x1 ELSE x2)
             /\ SeenY(page, X, Y) = (IF v = 0 THEN y2 ELSE y1)
      BY <1>3
    <3>2. SeenX(page, X, Y) = high - Y /\ SeenY(page, X, Y) = right - X
      BY <2>1
    <3> QED
      BY <1>1, <1>2, <3>1, <3>2
  <2>3. PICK L, B, R, T \in Int :
           IsBox(Box(Rect(m)), L, B, R, T, right - y2, high - x2, right - y1, high - x1)
    <3>1. PICK l \in Int, b \in Int, r \in Int, t \in Int :
             l = right - y2 /\ b = high - x2 /\ r = right - y1 /\ t = high - x1 /\ l <= r /\ b <= t
      BY <1>4
    <3>2. \A u, v \in 0..1 : /\ l <= ImageX(m, u, v) /\ ImageX(m, u, v) <= r
                            /\ b <= ImageY(m, u, v) /\ ImageY(m, u, v) <= t
      BY <1>1, <1>2, <2>2, <3>1
    <3>3. /\ \E u, v \in 0..1 : ImageX(m, u, v) = l
          /\ \E u, v \in 0..1 : ImageX(m, u, v) = r
          /\ \E u, v \in 0..1 : ImageY(m, u, v) = b
          /\ \E u, v \in 0..1 : ImageY(m, u, v) = t
      <4>1. 0 \in 0..1 /\ 1 \in 0..1 /\ 1 # 0
        OBVIOUS
      <4>2. ImageX(m, 0, 0) = l \/ ImageX(m, 1, 1) = l
        BY <2>2, <3>1, <4>1
      <4>3. ImageX(m, 0, 0) = r \/ ImageX(m, 1, 1) = r
        BY <2>2, <3>1, <4>1
      <4>4. ImageY(m, 0, 0) = b \/ ImageY(m, 1, 1) = b
        BY <2>2, <3>1, <4>1
      <4>5. ImageY(m, 0, 0) = t \/ ImageY(m, 1, 1) = t
        BY <2>2, <3>1, <4>1
      <4> QED
        BY <4>1, <4>2, <4>3, <4>4, <4>5, Zenon
    <3>4. Reaches(m, l, b, r, t)
      BY <1>3, <3>2, <3>3, Zenon DEF Reaches
    <3>5. \E L, B, R, T \in Int : IsBox(Box(Rect(m)), L, B, R, T, l, b, r, t)
      BY <3>1, <3>4, BoxIsNear, Zenon
    <3> QED
      BY <3>1, <3>5, Zenon
  <2>4. SeenBox(page, Box(Rect(m))) = [left |-> high - Unit * T, top |-> right - Unit * R,
                                       right |-> high - Unit * B, bottom |-> right - Unit * L]
    <3>1. PICK box : box = Box(Rect(m)) /\ box.left = L /\ box.low = B /\ box.right = R /\ box.high = T
      BY <2>3 DEF IsBox
    <3>2. PICK l \in Int, t \in Int, r \in Int, b \in Int :
             l = high - Unit * T /\ t = right - Unit * R /\ r = high - Unit * B /\ b = right - Unit * L
      <4>1. high - Unit * T \in Int /\ right - Unit * R \in Int /\ high - Unit * B \in Int /\ right - Unit * L \in Int
        <5> DEFINE UL == Unit * L
                   UB == Unit * B
                   UR == Unit * R
                   UT == Unit * T
        <5>1. UL \in Int /\ UB \in Int /\ UR \in Int /\ UT \in Int
          BY <2>3, Zenon DEF IsBox
        <5> HIDE DEF UL, UB, UR, UT
        <5>2. high - UT \in Int /\ right - UR \in Int /\ high - UB \in Int /\ right - UL \in Int
          BY <1>2, <5>1
        <5> QED
          BY <5>2, Zenon DEF UL, UB, UR, UT
      <4> QED
        BY <4>1, Zenon
    <3>3. \A x \in {L, R}, y \in {B, T} :
             /\ Unit * x \in Int /\ Unit * y \in Int
             /\ Unit * L <= Unit * x /\ Unit * x <= Unit * R
             /\ Unit * B <= Unit * y /\ Unit * y <= Unit * T
             /\ SeenX(page, Unit * x, Unit * y) = high - Unit * y
             /\ SeenY(page, Unit * x, Unit * y) = right - Unit * x
      <4> SUFFICES ASSUME NEW x \in {L, R}, NEW y \in {B, T}
                   PROVE  /\ Unit * x \in Int /\ Unit * y \in Int
                          /\ Unit * L <= Unit * x /\ Unit * x <= Unit * R
                          /\ Unit * B <= Unit * y /\ Unit * y <= Unit * T
                          /\ SeenX(page, Unit * x, Unit * y) = high - Unit * y
                          /\ SeenY(page, Unit * x, Unit * y) = right - Unit * x
        BY Zenon
      <4>1. Unit * x \in {Unit * L, Unit * R} /\ Unit * y \in {Unit * B, Unit * T}
        BY Zenon
      <4>2. PICK X \in Int, Y \in Int : X = Unit * x /\ Y = Unit * y
        BY <2>3, <4>1, Zenon DEF IsBox
      <4>3. /\ Unit * L <= X /\ X <= Unit * R /\ Unit * B <= Y /\ Y <= Unit * T
        BY <2>3, <4>1, <4>2 DEF IsBox
      <4> QED
        BY <2>1, <4>2, <4>3, Zenon
    <3>4. \A x \in {box.left, box.right}, y \in {box.low, box.high} :
              /\ SeenX(page, Unit * x, Unit * y) \in Int /\ SeenY(page, Unit * x, Unit * y) \in Int
              /\ l <= SeenX(page, Unit * x, Unit * y) /\ SeenX(page, Unit * x, Unit * y) <= r
              /\ t <= SeenY(page, Unit * x, Unit * y) /\ SeenY(page, Unit * x, Unit * y) <= b
      <4> SUFFICES ASSUME NEW x \in {L, R}, NEW y \in {B, T}
                   PROVE  /\ SeenX(page, Unit * x, Unit * y) \in Int
                          /\ SeenY(page, Unit * x, Unit * y) \in Int
                          /\ l <= SeenX(page, Unit * x, Unit * y) /\ SeenX(page, Unit * x, Unit * y) <= r
                          /\ t <= SeenY(page, Unit * x, Unit * y) /\ SeenY(page, Unit * x, Unit * y) <= b
        BY <3>1, Zenon
      <4>1. PICK X \in Int, Y \in Int :
               /\ X = Unit * x /\ Y = Unit * y
               /\ Unit * L <= X /\ X <= Unit * R /\ Unit * B <= Y /\ Y <= Unit * T
               /\ SeenX(page, Unit * x, Unit * y) = high - Y /\ SeenY(page, Unit * x, Unit * y) = right - X
        BY <3>3, Zenon
      <4> QED
        BY <1>2, <2>3, <3>2, <4>1 DEF IsBox
    <3>5. /\ \E x \in {box.left, box.right}, y \in {box.low, box.high} : SeenX(page, Unit * x, Unit * y) = l
          /\ \E x \in {box.left, box.right}, y \in {box.low, box.high} : SeenX(page, Unit * x, Unit * y) = r
          /\ \E x \in {box.left, box.right}, y \in {box.low, box.high} : SeenY(page, Unit * x, Unit * y) = t
          /\ \E x \in {box.left, box.right}, y \in {box.low, box.high} : SeenY(page, Unit * x, Unit * y) = b
      BY <3>1, <3>2, <3>3
    <3>6. SeenBox(page, box) = [left |-> l, top |-> t, right |-> r, bottom |-> b]
      <4>1. ReachesSeen(page, box, l, t, r, b)
        BY <3>4, <3>5, Zenon DEF ReachesSeen
      <4> QED
        BY <3>2, <4>1, SeenEdges
    <3> QED
      BY <3>1, <3>2, <3>6
  <2> QED
    BY <1>0, <1>1, <1>2, <2>3, <2>4 DEF BoxSeenAsPlaced, IsBox, Near, m
<1> QED
  BY <1>5, <1>6, <1>7, <1>8, PageLengths DEF Rotations

-----------------------------------------------------------------------------
(* One revision after the other *)

BoxOf(c, p) == Box(Rect(Matrix(PageOf(c, p), p)))

LEMMA OneDrawing ==
    ASSUME NEW z \in Boxes \cup Matrices
    PROVE  <<z>> \in Seq(Boxes \cup Matrices)
OBVIOUS

LEMMA PlacedOnPage ==
    ASSUME NEW c \in Content, NEW p \in Placement, p.page <= Len(PagesOf[c.core])
    PROVE  PageOf(c, p) \in Page
<1>1. PagesOf[c.core] \in Seq(Page) /\ p.page \in Nat \ {0}
  BY StepsOf, ContentAssumption DEF Placement
<1>2. Len(PagesOf[c.core]) \in Nat /\ p.page \in 1..Len(PagesOf[c.core])
  BY <1>1, LenProperties
<1> QED
  BY <1>1, <1>2, ElementOfSeq DEF PageOf

LEMMA BoxIsPlaced ==
    ASSUME NEW c \in Content, NEW p \in Placement, p.page <= Len(PagesOf[c.core]),
           InsidePage(p)
    PROVE  LET page == PageOf(c, p)
               box == BoxOf(c, p) IN
           /\ box \in Boxes
           /\ page.llx <= box.left /\ box.right <= page.llx + page.width
           /\ page.lly <= box.low /\ box.high <= page.lly + page.height
           /\ box.left <= box.right /\ box.low <= box.high
           /\ BoxSeenAsPlaced(page, p, box)
<1>1. PageOf(c, p) \in Page
  BY PlacedOnPage
<1>2. Matrix(PageOf(c, p), p) \in Matrices /\ OnPage(PageOf(c, p), Matrix(PageOf(c, p), p))
  BY <1>1, MatrixType, GraphicsLieAsPlaced
<1> QED
  BY <1>1, <1>2, BoxOnPage, BoxesAreSeenAsPlaced, Zenon DEF BoxOf

\* x is c with a revision of its own for each of the first i placements.
Revised(c, d, P, x, i) ==
    LET n == Len(c.steps) IN
    /\ x \in Content /\ x.core = c.core /\ Len(x.steps) = n + i /\ FreshFields(x)
    /\ \A k \in 1..n : x.steps[k] = c.steps[k]
    /\ \A k \in 1..i : /\ x.steps[n + k].signers = {d}
                       /\ x.steps[n + k].drawn = <<BoxOf(c, Ordered(P)[k])>>

LEMMA ReviseIs ==
    ASSUME NEW c \in Content, FreshFields(c), NEW d \in Documents,
           NEW drawn \in Seq(Boxes \cup Matrices)
    PROVE  LET x == Revise(c, d, drawn)
               n == Len(c.steps) IN
           /\ x \in Content /\ x.core = c.core /\ Len(x.steps) = n + 1 /\ FreshFields(x)
           /\ \A k \in 1..n : x.steps[k] = c.steps[k]
           /\ x.steps[n + 1].signers = {d} /\ x.steps[n + 1].drawn = drawn
           /\ Grown(c, x, d)
<1> DEFINE st == Step("pades", {d}, FreeField(c), drawn)
<1>1. FreeField(c) \in Nat /\ FreeField(c) \notin Fields(c)
  BY FreeFieldIsFree
<1>2. st \in StepRow /\ st.signers = {d} /\ st.drawn = drawn /\ st.field = FreeField(c)
  BY <1>1 DEF Step, StepRow, Modes, Signers
<1>3. Revise(c, d, drawn) = AddStep(c, st)
  BY DEF Revise
<1> HIDE DEF st
<1>4. FreshFields(AddStep(c, st)) /\ Grown(c, AddStep(c, st), d)
  BY <1>1, <1>2, AddedIsFresh, AddedIsGrown
<1> QED
  BY <1>2, <1>3, <1>4, AddStepGrows

\* What ReviseEach may rely on.
CanRevise(c, P) ==
    /\ P \subseteq Placement /\ IsFiniteSet(P) /\ Distinct(P) /\ HasPages(c, P)
    /\ \A p \in P : InsidePage(p)

LEMMA ReviseOnce ==
    ASSUME NEW c \in Content, NEW d \in Documents, NEW P, CanRevise(c, P),
           NEW i \in 1..Cardinality(P), NEW x, Revised(c, d, P, x, i - 1)
    PROVE  Revised(c, d, P, Revise(x, d, <<BoxOf(c, Ordered(P)[i])>>), i)
<1> DEFINE p == Ordered(P)[i]
           y == Revise(x, d, <<BoxOf(c, p)>>)
           n == Len(c.steps)
<1>1. Cardinality(P) \in Nat /\ i \in Nat /\ i >= 1 /\ p \in P
  BY OrderedIsSorted DEF CanRevise
<1>2. BoxOf(c, p) \in Boxes
  BY <1>1, BoxIsPlaced DEF CanRevise, HasPages
<1>3. PICK b \in Seq(Boxes \cup Matrices) : b = <<BoxOf(c, p)>>
  BY <1>2, OneDrawing
<1>4. n \in Nat /\ x \in Content /\ x.core = c.core /\ Len(x.steps) = n + (i - 1) /\ FreshFields(x)
  BY StepsOf DEF Revised
<1>5. /\ y \in Content /\ y.core = x.core /\ Len(y.steps) = Len(x.steps) + 1 /\ FreshFields(y)
      /\ \A k \in 1..Len(x.steps) : y.steps[k] = x.steps[k]
      /\ y.steps[Len(x.steps) + 1].signers = {d}
      /\ y.steps[Len(x.steps) + 1].drawn = <<BoxOf(c, p)>>
  <2> DEFINE z == Revise(x, d, b)
  <2>1. /\ z \in Content /\ z.core = x.core /\ Len(z.steps) = Len(x.steps) + 1 /\ FreshFields(z)
        /\ \A k \in 1..Len(x.steps) : z.steps[k] = x.steps[k]
        /\ z.steps[Len(x.steps) + 1].signers = {d}
        /\ z.steps[Len(x.steps) + 1].drawn = b
    BY <1>4, ReviseIs
  <2>2. z = y
    BY <1>3
  <2> QED
    BY <1>3, <2>1, <2>2, Zenon
<1> HIDE DEF y
<1>6. Len(x.steps) + 1 = n + i /\ Len(y.steps) = n + i
  BY <1>1, <1>4, <1>5
<1>7. \A k \in 1..n : y.steps[k] = c.steps[k]
  <2>1. \A k \in 1..n : k \in 1..Len(x.steps)
    BY <1>1, <1>4
  <2> QED
    BY <1>5, <2>1 DEF Revised
<1>8. ASSUME NEW k \in 1..i
      PROVE  /\ y.steps[n + k].signers = {d}
             /\ y.steps[n + k].drawn = <<BoxOf(c, Ordered(P)[k])>>
  <2>1. CASE k = i
    BY <1>5, <1>6, <2>1
  <2>2. CASE k # i
    <3>1. k \in 1..(i - 1) /\ n + k \in 1..Len(x.steps)
      BY <1>1, <1>4, <2>2
    <3> QED
      BY <1>5, <3>1 DEF Revised
  <2> QED
    BY <2>1, <2>2
<1>9. Revised(c, d, P, y, i)
  BY <1>4, <1>5, <1>6, <1>7, <1>8 DEF Revised
<1> QED
  BY <1>9 DEF y

\* The function that Revisions names, as far as m.
After(c, d, P, m, after) ==
    after = [i \in 0..m |->
        IF i = 0 THEN c ELSE Revise(after[i - 1], d, <<BoxOf(c, Ordered(P)[i])>>)]

LEMMA AfterIsRevised ==
    ASSUME NEW c \in Content, FreshFields(c), NEW d \in Documents, NEW P, CanRevise(c, P),
           NEW m \in 0..Cardinality(P), NEW after, After(c, d, P, m, after)
    PROVE  \A i \in 0..m : Revised(c, d, P, after[i], i)
<1> DEFINE Bad == {i \in 0..m : ~Revised(c, d, P, after[i], i)}
<1>1. Cardinality(P) \in Nat /\ m \in Nat
  BY OrderedIsSorted DEF CanRevise
<1>2. \A i \in 0..m : after[i] =
         IF i = 0 THEN c ELSE Revise(after[i - 1], d, <<BoxOf(c, Ordered(P)[i])>>)
  <2> DEFINE F(i) == IF i = 0 THEN c ELSE Revise(after[i - 1], d, <<BoxOf(c, Ordered(P)[i])>>)
  <2>1. after = [i \in 0..m |-> F(i)]
    BY DEF After
  <2> HIDE DEF F
  <2>2. \A i \in 0..m : after[i] = F(i)
    BY <2>1
  <2> QED
    BY <2>2 DEF F
<1>3. ASSUME Bad # {} PROVE FALSE
  <2>1. Bad \in SUBSET Nat
    BY <1>1
  <2>2. PICK i \in Bad : \A k \in Bad : i <= k
    BY <1>3, <2>1, NatMin
  <2>3. i \in 0..m /\ ~Revised(c, d, P, after[i], i)
    BY <2>2
  <2>4. CASE i = 0
    <3>1. after[i] = c
      BY <1>2, <2>3, <2>4
    <3>2. Len(c.steps) \in Nat /\ 1..i = {}
      BY <2>4, StepsOf
    <3>3. Revised(c, d, P, c, 0)
      BY <2>4, <3>2 DEF Revised
    <3> QED
      BY <2>3, <2>4, <3>1, <3>3
  <2>5. CASE i # 0
    <3>1. i \in 1..Cardinality(P) /\ i - 1 \in 0..m
      BY <1>1, <2>3, <2>5
    <3>2. i - 1 \notin Bad
      BY <1>1, <2>2, <2>3
    <3>3. Revised(c, d, P, after[i - 1], i - 1)
      BY <3>1, <3>2
    <3>4. Revised(c, d, P, Revise(after[i - 1], d, <<BoxOf(c, Ordered(P)[i])>>), i)
      BY <3>1, <3>3, ReviseOnce
    <3> QED
      BY <1>2, <2>3, <2>5, <3>4
  <2> QED
    BY <2>4, <2>5
<1> QED
  BY <1>3

\* There is such a function: one that stops earlier can be continued.
LEMMA AfterExists ==
    ASSUME NEW c, NEW d, NEW P, NEW n \in Nat
    PROVE  \E after : After(c, d, P, n, after)
<1> DEFINE Bad == {m \in Nat : ~ \E after : After(c, d, P, m, after)}
<1> SUFFICES ASSUME Bad # {} PROVE FALSE
  OBVIOUS
<1>1. PICK m \in Bad : \A k \in Bad : m <= k
  BY NatMin
<1>2. m \in Nat /\ ~ \E after : After(c, d, P, m, after)
  BY <1>1
<1> DEFINE G(x, i) == Revise(x, d, <<BoxOf(c, Ordered(P)[i])>>)
<1>3. \A k, g : After(c, d, P, k, g) <=> g = [i \in 0..k |-> IF i = 0 THEN c ELSE G(g[i - 1], i)]
  BY DEF After
<1> HIDE DEF G
<1>4. CASE m = 0
  <2> DEFINE g == [i \in 0..0 |-> c]
  <2>1. g = [i \in 0..0 |-> IF i = 0 THEN c ELSE G(g[i - 1], i)]
    <3>1. \A i \in 0..0 : i = 0
      OBVIOUS
    <3> QED
      BY <3>1
  <2> QED
    BY <1>2, <1>3, <1>4, <2>1
<1>5. CASE m # 0
  <2>1. m - 1 \in Nat /\ m - 1 \notin Bad
    BY <1>1, <1>2, <1>5
  <2>2. PICK g : After(c, d, P, m - 1, g)
    BY <2>1
  <2>3. g = [i \in 0..(m - 1) |-> IF i = 0 THEN c ELSE G(g[i - 1], i)]
    BY <1>3, <2>2
  <2>4. \A i \in 0..(m - 1) : g[i] = IF i = 0 THEN c ELSE G(g[i - 1], i)
    <3> DEFINE F(i) == IF i = 0 THEN c ELSE G(g[i - 1], i)
    <3>1. g = [i \in 0..(m - 1) |-> F(i)]
      BY <2>3
    <3> HIDE DEF F
    <3>2. \A i \in 0..(m - 1) : g[i] = F(i)
      BY <3>1
    <3> QED
      BY <3>2 DEF F
  <2> DEFINE h == [i \in 0..m |-> IF i = m THEN G(g[m - 1], m) ELSE g[i]]
             F(i) == IF i = 0 THEN c ELSE G(h[i - 1], i)
  <2>5. \A i \in 0..m : h[i] = F(i)
    <3> SUFFICES ASSUME NEW i \in 0..m PROVE h[i] = F(i)
      OBVIOUS
    <3>1. i # 0 => i - 1 \in 0..m /\ i - 1 # m /\ h[i - 1] = g[i - 1]
      BY <1>2
    <3>2. CASE i = m
      BY <1>5, <3>1, <3>2
    <3>3. CASE i # m
      <4>1. i \in 0..(m - 1) /\ h[i] = g[i]
        BY <1>2, <3>3
      <4> QED
        BY <2>4, <3>1, <4>1
    <3> QED
      BY <3>2, <3>3
  <2>6. h = [i \in 0..m |-> h[i]]
    OBVIOUS
  <2>7. h = [i \in 0..m |-> F(i)]
    <3> HIDE DEF h, F
    <3> QED
      BY <2>5, <2>6
  <2> QED
    BY <1>2, <1>3, <2>7
<1> QED
  BY <1>4, <1>5

\* The last of the revisions: one step for each placement, in their order.
LEMMA RevisionsAre ==
    ASSUME NEW c \in Content, FreshFields(c), NEW d \in Documents, NEW P, CanRevise(c, P)
    PROVE  Revised(c, d, P, Revisions(c, d, P)[Cardinality(P)], Cardinality(P))
<1> DEFINE n == Cardinality(P)
<1>1. n \in Nat
  BY OrderedIsSorted DEF CanRevise
<1>2. Revisions(c, d, P) = CHOOSE after : After(c, d, P, n, after)
  BY Zenon DEF Revisions, After, BoxOf
<1>3. After(c, d, P, n, Revisions(c, d, P))
  BY <1>1, <1>2, AfterExists, Zenon
<1> QED
  BY <1>1, <1>3, AfterIsRevised

\* With or without placements.
LEMMA ReviseEachGrows ==
    ASSUME NEW c \in Content, FreshFields(c), NEW d \in Documents, NEW P, CanRevise(c, P)
    PROVE  LET r == ReviseEach(c, d, P)
               n == Len(c.steps) IN
           /\ Grown(c, r, d) /\ FreshFields(r) /\ n < Len(r.steps)
           /\ r.steps[n + 1].signers = {d}
           /\ P # {} => Revised(c, d, P, r, Cardinality(P))
<1> DEFINE n == Len(c.steps)
           r == ReviseEach(c, d, P)
<1>1. n \in Nat
  BY StepsOf
<1>2. CASE P = {}
  <2>1. PICK drawn \in Seq(Boxes \cup Matrices) : drawn = <<>>
    <3>1. <<>> \in Seq(Boxes \cup Matrices)
      OBVIOUS
    <3> QED
      BY <3>1, Zenon
  <2>2. r = Revise(c, d, drawn)
    BY <1>2, <2>1 DEF ReviseEach
  <2>3. /\ Grown(c, r, d) /\ FreshFields(r) /\ Len(r.steps) = n + 1
        /\ r.steps[n + 1].signers = {d}
    <3> HIDE DEF r
    <3> QED
      BY <2>2, ReviseIs
  <2>4. n < Len(r.steps)
    BY <1>1, <2>3
  <2> QED
    BY <1>2, <2>3, <2>4, Zenon
<1>3. CASE P # {}
  <2> DEFINE k == Cardinality(P)
  <2>1. k \in Nat /\ k >= 1
    BY <1>3, FS_EmptySet, FS_CardinalityType DEF CanRevise
  <2>2. Revised(c, d, P, r, k)
    BY <1>3, RevisionsAre, Zenon DEF ReviseEach
  <2> HIDE DEF r, k
  <2>3. /\ r \in Content /\ r.core = c.core /\ Len(r.steps) = n + k /\ FreshFields(r)
        /\ \A i \in 1..n : r.steps[i] = c.steps[i]
        /\ \A i \in 1..k : r.steps[n + i].signers = {d}
    BY <2>2 DEF Revised
  <2>4. \A i \in (n + 1)..Len(r.steps) : r.steps[i].signers \subseteq {d}
    <3> SUFFICES ASSUME NEW i \in (n + 1)..(n + k) PROVE r.steps[i].signers \subseteq {d}
      BY <2>3
    <3>1. i - n \in 1..k /\ n + (i - n) = i
      BY <1>1, <2>1
    <3> QED
      BY <2>3, <3>1
  <2>5. \A i \in 1..n :
          /\ i < n => r.steps[i] = c.steps[i]
          /\ r.steps[i].mode = c.steps[i].mode /\ r.steps[i].field = c.steps[i].field
          /\ c.steps[i].signers \subseteq r.steps[i].signers
          /\ r.steps[i].signers \subseteq c.steps[i].signers \cup {d}
    BY <2>3
  <2>6. n <= Len(r.steps) /\ n < Len(r.steps)
    BY <1>1, <2>1, <2>3
  <2>7. Grown(c, r, d)
    BY <2>3, <2>4, <2>5, <2>6, Zenon DEF Grown
  <2>8. 1 \in 1..k
    BY <2>1
  <2>9. r.steps[n + 1].signers = {d}
    BY <2>3, <2>8
  <2> QED
    BY <2>2, <2>3, <2>6, <2>7, <2>9 DEF r, k
<1> QED
  BY <1>2, <1>3, Zenon

-----------------------------------------------------------------------------
(* The other builders *)

LEMMA CosignIs ==
    ASSUME NEW c \in Content, c.steps # <<>>, NEW d \in Documents
    PROVE  LET r == Cosign(c, d)
               n == Len(c.steps) IN
           /\ n >= 1 /\ r \in Content /\ r.core = c.core /\ Len(r.steps) = n
           /\ \A i \in 1..n : i # n => r.steps[i] = c.steps[i]
           /\ r.steps[n].signers = c.steps[n].signers \cup {d}
           /\ r.steps[n].mode = c.steps[n].mode /\ r.steps[n].field = c.steps[n].field
<1> DEFINE n == Len(c.steps)
           st == [c.steps[n] EXCEPT !.signers = c.steps[n].signers \cup {d}]
           s == [c.steps EXCEPT ![n] = st]
           r == [c EXCEPT !.steps = s]
<1>1. c.steps \in Seq(StepRow) /\ n \in Nat /\ DOMAIN c.steps = 1..n /\ n \in 1..n
  BY StepsOf, EmptySeq
<1>2. Cosign(c, d) = r
  BY DEF Cosign
<1>3. c.steps[n] \in StepRow
  BY <1>1, StepsOf
<1>4. /\ st \in StepRow /\ st.signers = c.steps[n].signers \cup {d}
      /\ st.mode = c.steps[n].mode /\ st.field = c.steps[n].field
  BY <1>3 DEF StepRow, Signers
<1> HIDE DEF st
<1>5. /\ s \in Seq(StepRow) /\ Len(s) = n /\ s[n] = st
      /\ \A i \in 1..n : i # n => s[i] = c.steps[i]
  BY <1>1, <1>4, ExceptSeq
<1> HIDE DEF s
<1>6. r \in Content /\ r.core = c.core /\ r.steps = s
  BY <1>5 DEF Content
<1> HIDE DEF r
<1> QED
  BY <1>1, <1>2, <1>4, <1>5, <1>6

\* One more signer of the outermost envelope.
LEMMA CosignGrows ==
    ASSUME NEW c \in Content, FreshFields(c), c.steps # <<>>, NEW d \in Documents
    PROVE  Grown(c, Cosign(c, d), d) /\ FreshFields(Cosign(c, d))
<1> DEFINE n == Len(c.steps)
<1>0. PICK r : r = Cosign(c, d)
  OBVIOUS
<1>1. /\ n >= 1 /\ r \in Content /\ r.core = c.core /\ Len(r.steps) = n
      /\ \A i \in 1..n : i # n => r.steps[i] = c.steps[i]
      /\ r.steps[n].signers = c.steps[n].signers \cup {d}
      /\ r.steps[n].mode = c.steps[n].mode /\ r.steps[n].field = c.steps[n].field
  BY <1>0, CosignIs, Zenon
<1>2. n \in Nat /\ n <= n /\ (n + 1)..n = {}
  BY StepsOf
<1>3. \A i \in 1..n :
          /\ i < n => r.steps[i] = c.steps[i]
          /\ r.steps[i].mode = c.steps[i].mode /\ r.steps[i].field = c.steps[i].field
          /\ c.steps[i].signers \subseteq r.steps[i].signers
          /\ r.steps[i].signers \subseteq c.steps[i].signers \cup {d}
  <2> SUFFICES ASSUME NEW i \in 1..n
               PROVE  /\ i < n => r.steps[i] = c.steps[i]
                      /\ r.steps[i].mode = c.steps[i].mode /\ r.steps[i].field = c.steps[i].field
                      /\ c.steps[i].signers \subseteq r.steps[i].signers
                      /\ r.steps[i].signers \subseteq c.steps[i].signers \cup {d}
    BY Zenon
  <2>1. CASE i = n
    BY <1>1, <1>2, <2>1
  <2>2. CASE i # n
    BY <1>1, <2>2
  <2> QED
    BY <2>1, <2>2
<1>4. Grown(c, r, d)
  <2>1. \A i \in (n + 1)..Len(r.steps) : r.steps[i].signers \subseteq {d}
    BY <1>1, <1>2
  <2>2. n <= Len(r.steps)
    BY <1>1, <1>2
  <2> QED
    BY <1>1, <1>3, <2>1, <2>2, Zenon DEF Grown
<1>5. FreshFields(r)
  BY <1>1, <1>3, SameIsFresh, Zenon
<1> QED
  BY <1>0, <1>4, <1>5, Zenon

\* A step that is no revision, around the rest.
LEMMA AddedStepGrows ==
    ASSUME NEW c \in Content, FreshFields(c), NEW d \in Documents, NEW mode \in Modes \ {"pades"},
           NEW signers \in SUBSET {d}, NEW drawn \in Seq(Boxes \cup Matrices)
    PROVE  LET r == AddStep(c, Step(mode, signers, 0, drawn))
               n == Len(c.steps) IN
           /\ Grown(c, r, d) /\ FreshFields(r) /\ Len(r.steps) = n + 1
           /\ \A i \in 1..n : r.steps[i] = c.steps[i]
           /\ r.steps[n + 1].signers = signers /\ r.steps[n + 1].drawn = drawn
<1> DEFINE st == Step(mode, signers, 0, drawn)
<1>1. /\ st \in StepRow /\ st.signers = signers /\ st.drawn = drawn /\ st.mode # "pades"
  BY DEF Step, StepRow, Signers
<1> HIDE DEF st
<1>2. Grown(c, AddStep(c, st), d) /\ FreshFields(AddStep(c, st))
  BY <1>1, AddedIsGrown, AddedIsFresh
<1>3. /\ Len(AddStep(c, st).steps) = Len(c.steps) + 1
      /\ \A i \in 1..Len(c.steps) : AddStep(c, st).steps[i] = c.steps[i]
      /\ AddStep(c, st).steps[Len(c.steps) + 1] = st
  BY <1>1, AddStepGrows
<1> QED
  BY <1>1, <1>2, <1>3 DEF st

\* The drawings of one revision, in the order of their layers.
Drawings(c, P) == [i \in 1..Cardinality(P) |->
                      LET p == Ordered(P)[i] IN Matrix(PageOf(c, p), p)]

LEMMA DrawingsAre ==
    ASSUME NEW c \in Content, NEW P, CanRevise(c, P)
    PROVE  Drawings(c, P) \in Seq(Boxes \cup Matrices)
<1> DEFINE n == Cardinality(P)
           M(i) == Matrix(PageOf(c, Ordered(P)[i]), Ordered(P)[i])
<1>1. n \in Nat /\ Ordered(P) \in [1..n -> P]
  BY OrderedIsSorted DEF CanRevise
<1>2. ASSUME NEW i \in 1..n PROVE M(i) \in Boxes \cup Matrices
  <2>1. PICK p \in P : p = Ordered(P)[i]
    BY <1>1
  <2>2. p \in Placement /\ p.page <= Len(PagesOf[c.core])
    BY DEF CanRevise, HasPages
  <2>3. PageOf(c, p) \in Page
    BY <2>2, PlacedOnPage
  <2> QED
    BY <2>1, <2>2, <2>3, MatrixType
<1>3. Drawings(c, P) = [i \in 1..n |-> M(i)]
  BY DEF Drawings
<1> HIDE DEF M, n
<1>4. [i \in 1..n |-> M(i)] \in [1..n -> Boxes \cup Matrices]
  BY <1>2
<1> QED
  BY <1>1, <1>3, <1>4, SeqDef

LEMMA DrawGrows ==
    ASSUME NEW c \in Content, FreshFields(c), NEW d \in Documents, NEW P, CanRevise(c, P)
    PROVE  LET r == Draw(c, P)
               n == Len(c.steps) IN
           /\ Grown(c, r, d) /\ FreshFields(r) /\ Len(r.steps) = n + 1
           /\ \A i \in 1..n : r.steps[i] = c.steps[i]
           /\ r.steps[n + 1].signers = {} /\ r.steps[n + 1].drawn = Drawings(c, P)
<1>1. PICK mode \in Modes \ {"pades"}, signers \in SUBSET {d}, drawn \in Seq(Boxes \cup Matrices) :
         mode = "graphic" /\ signers = {} /\ drawn = Drawings(c, P)
  BY DrawingsAre DEF Modes
<1>2. Draw(c, P) = AddStep(c, Step(mode, signers, 0, drawn))
  BY <1>1, Zenon DEF Draw, Drawings
<1> DEFINE r == AddStep(c, Step(mode, signers, 0, drawn))
           n == Len(c.steps)
<1>3. /\ Grown(c, r, d) /\ FreshFields(r) /\ Len(r.steps) = n + 1
      /\ \A i \in 1..n : r.steps[i] = c.steps[i]
      /\ r.steps[n + 1].signers = signers /\ r.steps[n + 1].drawn = drawn
  BY AddedStepGrows
<1> HIDE DEF r
<1>4. Draw(c, P) = r
  BY <1>2 DEF r
<1> QED
  BY <1>1, <1>3, <1>4

-----------------------------------------------------------------------------
(* What an attempt does to the file of its document *)

LEMMA Formats ==
    ASSUME NEW c \in Content
    PROVE  /\ Enveloped(c) => Format(c) = "cms_attached"
           /\ ~Enveloped(c) => Format(c) \in {"pdf", "xml", "opaque"}
           /\ Format(c) \in {"cms_attached", "pdf", "xml", "opaque"}
<1>1. KindOf[c.core] \in Kinds
  BY StepsOf, ContentAssumption
<1> QED
  BY <1>1 DEF Format, Kinds

\* What the request and the file say of the placements.
LEMMA RequestIs ==
    ASSUME NEW c \in Content, NEW q \in Request, WellFormed(q), HasPages(c, q.placements)
    PROVE  CanRevise(c, q.placements)
<1>1. q.placements \in PlacementSets
  BY DEF Request
<1> QED
  BY <1>1, ContentAssumption DEF WellFormed, CanRevise, Distinct

\* What Sign sees of the document d, whose file is c.
Signable(c, d, q) ==
    /\ doc[d].file = c /\ c \in Content /\ doc[d].format = Format(c)
    /\ FreshFields(c) /\ d \notin SignersOf(c)
    /\ q \in Request /\ WellFormed(q) /\ Accepted(d, q) /\ HasPages(c, q.placements)

LEMMA AddedSigner ==
    ASSUME NEW c \in Content, NEW d \in Documents, NEW r, Grown(c, r, d),
           Len(c.steps) < Len(r.steps), r.steps[Len(c.steps) + 1].signers = {d}
    PROVE  Signatures(r) # Signatures(c)
<1> DEFINE i == Len(c.steps) + 1
<1>1. Len(c.steps) \in Nat /\ Len(r.steps) \in Nat
  BY StepsOf DEF Grown
<1>2. i \in 1..Len(r.steps) /\ ~(i <= Len(c.steps))
  BY <1>1
<1>3. d \in r.steps[i].signers
  OBVIOUS
<1> HIDE DEF i
<1>4. \E k \in 1..Len(r.steps) : /\ d \in r.steps[k].signers
                                 /\ k <= Len(c.steps) => d \notin c.steps[k].signers
  BY <1>2, <1>3
<1> QED
  BY <1>4, GrownSignatures

LEMMA ResultGrows ==
    ASSUME NEW c, NEW d \in Documents, NEW q, Signable(c, d, q)
    PROVE  LET r == Result(d, q) IN
           /\ Grown(c, r, d) /\ FreshFields(r)
           /\ Signatures(r) = Signatures(c) <=> q.mode = "graphic"
<1> DEFINE n == Len(c.steps)
<1> USE DEF Signable
<1>0. c \in Content /\ FreshFields(c)
  OBVIOUS
<1>1. CanRevise(c, q.placements)
  BY RequestIs
<1>2. q.mode \in {"graphic", "cades", "pades", "xades"}
  BY DEF Request
<1>3. ASSUME NEW mode \in {"cades", "xades"},
             Result(d, q) = AddStep(c, Step(mode, {d}, 0, <<>>))
      PROVE  LET r == Result(d, q) IN
             Grown(c, r, d) /\ FreshFields(r) /\ Signatures(r) # Signatures(c)
  <2>1. <<>> \in Seq(Boxes \cup Matrices)
    OBVIOUS
  <2>2. PICK m \in Modes \ {"pades"}, signers \in SUBSET {d}, drawn \in Seq(Boxes \cup Matrices) :
           m = mode /\ signers = {d} /\ drawn = <<>>
    BY <2>1, Zenon DEF Modes
  <2> DEFINE r == AddStep(c, Step(m, signers, 0, drawn))
  <2>3. Grown(c, r, d) /\ FreshFields(r) /\ Len(r.steps) = n + 1 /\ r.steps[n + 1].signers = signers
    BY <1>0, AddedStepGrows
  <2>4. r = Result(d, q)
    BY <1>3, <2>2
  <2> HIDE DEF r
  <2>5. Grown(c, r, d) /\ FreshFields(r) /\ Len(r.steps) = n + 1 /\ r.steps[n + 1].signers = {d}
    BY <2>2, <2>3
  <2>6. n < Len(r.steps)
    BY <2>5, StepsOf
  <2>7. Signatures(r) # Signatures(c)
    BY <2>5, <2>6, AddedSigner
  <2> QED
    BY <2>4, <2>5, <2>7, Zenon
<1>4. CASE q.mode = "cades" /\ Strategy(d, q) = "parallel"
  <2>1. q.strategy = "parallel" /\ Format(c) = "cms_attached"
    BY <1>4 DEF Strategy, Accepted
  <2>2. Enveloped(c)
    BY <2>1, Formats
  <2>3. PICK r : r = Cosign(c, d)
    OBVIOUS
  <2>4. r = Result(d, q)
    BY <1>4, <2>3 DEF Result
  <2>5. /\ n >= 1 /\ r \in Content /\ Len(r.steps) = n
        /\ r.steps[n].signers = c.steps[n].signers \cup {d}
    BY <2>2, <2>3, CosignIs, Zenon DEF Enveloped
  <2>6. Grown(c, r, d) /\ FreshFields(r)
    BY <2>2, <2>3, CosignGrows DEF Enveloped
  <2>7. n \in 1..Len(r.steps) /\ d \in r.steps[n].signers /\ d \notin c.steps[n].signers
    BY <2>5, StepsOf DEF SignersOf
  <2>8. Signatures(r) # Signatures(c)
    BY <2>6, <2>7, GrownSignatures
  <2> QED
    BY <1>4, <2>4, <2>6, <2>8
<1>5. CASE q.mode = "cades" /\ Strategy(d, q) # "parallel"
  <2>1. Result(d, q) = AddStep(c, Step("cades", {d}, 0, <<>>))
    BY <1>5 DEF Result, Envelope
  <2> QED
    BY <1>3, <1>5, <2>1
<1>6. CASE q.mode = "xades"
  <2>1. Result(d, q) = AddStep(c, Step("xades", {d}, 0, <<>>))
    BY <1>6 DEF Result, SignXml
  <2> QED
    BY <1>3, <1>6, <2>1
<1>7. CASE q.mode = "pades"
  <2>1. PICK r : r = ReviseEach(c, d, q.placements)
    OBVIOUS
  <2>2. r = Result(d, q)
    BY <1>7, <2>1 DEF Result
  <2>3. Grown(c, r, d) /\ FreshFields(r) /\ n < Len(r.steps) /\ r.steps[n + 1].signers = {d}
    BY <1>1, <2>1, ReviseEachGrows, Zenon
  <2>4. Signatures(r) # Signatures(c)
    BY <2>3, AddedSigner
  <2> QED
    BY <1>7, <2>2, <2>3, <2>4
<1>8. CASE q.mode = "graphic"
  <2> DEFINE r == Draw(c, q.placements)
  <2>1. /\ Grown(c, r, d) /\ FreshFields(r) /\ Len(r.steps) = n + 1
        /\ \A i \in 1..n : r.steps[i] = c.steps[i]
        /\ r.steps[n + 1].signers = {}
    BY <1>0, <1>1, DrawGrows
  <2>2. r = Result(d, q)
    BY <1>8 DEF Result
  <2> HIDE DEF r
  <2>3. /\ Grown(c, r, d) /\ FreshFields(r) /\ Len(r.steps) = n + 1
        /\ \A i \in 1..n : r.steps[i] = c.steps[i]
        /\ r.steps[n + 1].signers = {}
    BY <2>1
  <2>4. \A i \in (n + 1)..Len(r.steps) : r.steps[i].signers = {}
    BY <2>3, StepsOf
  <2>5. Signatures(r) = Signatures(c)
    BY <2>3, <2>4, GrownSignatures
  <2> QED
    BY <1>8, <2>2, <2>3, <2>5
<1> QED
  BY <1>2, <1>4, <1>5, <1>6, <1>7, <1>8

-----------------------------------------------------------------------------
(* Drawn where it was placed *)

LEMMA AddedSteps ==
    ASSUME NEW c \in Content, NEW r \in Content, NEW k \in Nat \ {0},
           Len(r.steps) = Len(c.steps) + k
    PROVE  LET added == SubSeq(r.steps, Len(c.steps) + 1, Len(r.steps)) IN
           /\ Len(added) = k /\ DOMAIN added = 1..k
           /\ \A i \in 1..k : added[i] = r.steps[Len(c.steps) + i]
<1> DEFINE n == Len(c.steps)
           added == SubSeq(r.steps, n + 1, n + k)
<1>1. n \in Nat /\ \A i \in (n + 1)..(n + k) : r.steps[i] \in StepRow
  <2>1. n \in Nat
    BY StepsOf
  <2> SUFFICES ASSUME NEW i \in (n + 1)..(n + k) PROVE r.steps[i] \in StepRow
    BY <2>1
  <2>2. i \in 1..Len(r.steps)
    BY <2>1
  <2> QED
    BY <2>2, StepsOf
<1> HIDE DEF n
<1>2. /\ added \in Seq(StepRow)
      /\ Len(added) = IF n + 1 <= n + k THEN (n + k) - (n + 1) + 1 ELSE 0
      /\ \A i \in 1..((n + k) - (n + 1) + 1) : added[i] = r.steps[(n + 1) + i - 1]
  BY <1>1, SubSeqProperties
<1> HIDE DEF added
<1>3. Len(added) = k /\ DOMAIN added = 1..k
  BY <1>1, <1>2, LenProperties
<1>4. \A i \in 1..k : added[i] = r.steps[n + i]
  <2> SUFFICES ASSUME NEW i \in 1..k PROVE added[i] = r.steps[n + i]
    OBVIOUS
  <2>1. i \in 1..((n + k) - (n + 1) + 1) /\ (n + 1) + i - 1 = n + i
    BY <1>1
  <2> QED
    BY <1>2, <2>1
<1> QED
  BY <1>3, <1>4 DEF n, added

\* The i-th in the order of the layers has i - 1 under it.
LEMMA OrderedIsRanked ==
    ASSUME NEW P \in SUBSET Placement, IsFiniteSet(P), Distinct(P), NEW i \in 1..Cardinality(P)
    PROVE  Cardinality({o \in P : o.order < Ordered(P)[i].order}) = i - 1
<1> DEFINE s == Ordered(P)
           Under == {o \in P : o.order < s[i].order}
           f == [k \in 1..(i - 1) |-> s[k]]
<1>1. /\ Cardinality(P) \in Nat /\ s \in [1..Cardinality(P) -> P]
      /\ \A k, l \in 1..Cardinality(P) : k < l => s[k].order < s[l].order
      /\ \A p \in P : \E k \in 1..Cardinality(P) : s[k] = p
  BY OrderedIsSorted DEF Sorted
<1>2. i \in Nat /\ i - 1 \in Nat /\ \A k \in 1..(i - 1) : k \in 1..Cardinality(P) /\ k < i
  BY <1>1
<1>3. \A k \in 1..Cardinality(P) : s[k].order \in Nat
  BY <1>1 DEF Placement
<1>4. \A k \in 1..(i - 1) : s[k] \in Under
  BY <1>1, <1>2
<1>5. f \in [1..(i - 1) -> Under]
  BY <1>4
<1>6. \A k, l \in 1..(i - 1) : f[k] = f[l] => k = l
  <2> SUFFICES ASSUME NEW k \in 1..(i - 1), NEW l \in 1..(i - 1), k < l PROVE s[k] # s[l]
    BY <1>2
  <2>1. s[k].order < s[l].order /\ s[k].order \in Nat
    BY <1>1, <1>2, <1>3
  <2> QED
    BY <2>1
<1>7. \A p \in Under : \E k \in 1..(i - 1) : f[k] = p
  <2> SUFFICES ASSUME NEW p \in Under PROVE \E k \in 1..(i - 1) : s[k] = p
    OBVIOUS
  <2>1. PICK k \in 1..Cardinality(P) : s[k] = p
    BY <1>1
  <2>2. ~(i < k) /\ i # k
    <3>1. s[k].order < s[i].order /\ s[k].order \in Nat /\ s[i].order \in Nat
      BY <1>3, <2>1
    <3>2. i < k => s[i].order < s[k].order
      BY <1>1
    <3> QED
      BY <3>1, <3>2
  <2>3. k \in 1..(i - 1)
    BY <1>1, <2>2
  <2> QED
    BY <2>1, <2>3
<1> HIDE DEF f, Under, s
<1>8. f \in Injection(1..(i - 1), Under) /\ f \in Surjection(1..(i - 1), Under)
  BY <1>5, <1>6, <1>7 DEF Injection, IsInjective, Surjection
<1>9. IsFiniteSet(1..(i - 1)) /\ Cardinality(1..(i - 1)) = i - 1
  BY <1>2, FS_Interval
<1>10. Cardinality(Under) = Cardinality(1..(i - 1))
  BY <1>8, <1>9, FS_Surjection
<1> QED
  BY <1>9, <1>10 DEF Under, s

\* What DrawnAsPlaced says of the graphics and of the boxes that were added.
GraphicsLie(c, P, added) ==
    \A p1, p2 \in P : \E i, k \in DOMAIN added[1].drawn :
       LET m1 == added[1].drawn[i]
           m2 == added[1].drawn[k] IN
       /\ SeenAsPlaced(PageOf(c, p1), p1, m1) /\ OnPage(PageOf(c, p1), m1)
       /\ SeenAsPlaced(PageOf(c, p2), p2, m2)
       /\ p1.order < p2.order => i < k

BoxesLie(c, P, added) ==
    /\ Len(added) = Cardinality(P)
    /\ \A i \in DOMAIN added :
          \E p \in P : LET box == added[i].drawn[1]
                           page == PageOf(c, p) IN
             /\ Cardinality({o \in P : o.order < p.order}) = i - 1
             /\ page.llx <= box.left /\ box.right <= page.llx + page.width
             /\ page.lly <= box.low /\ box.high <= page.lly + page.height
             /\ box.left <= box.right /\ box.low <= box.high
             /\ BoxSeenAsPlaced(page, p, box)

Added(c, r) == SubSeq(r.steps, Len(c.steps) + 1, Len(r.steps))

DrawnIn(row) ==
    LET P == row.request.placements
        c == row.file IN
    /\ row.request.mode = "graphic" => GraphicsLie(c, P, Added(c, row.result))
    /\ row.request.mode = "pades" /\ P # {} => BoxesLie(c, P, Added(c, row.result))

LEMMA DrawingsLieAsPlaced ==
    ASSUME NEW c \in Content, NEW P, CanRevise(c, P), NEW added, added[1].drawn = Drawings(c, P)
    PROVE  GraphicsLie(c, P, added)
<1> DEFINE n == Cardinality(P)
           D == added[1].drawn
<1>1. /\ n \in Nat
      /\ \A k, l \in 1..n : k < l => Ordered(P)[k].order < Ordered(P)[l].order
      /\ \A p \in P : \E k \in 1..n : Ordered(P)[k] = p
      /\ Ordered(P) \in [1..n -> P]
  BY OrderedIsSorted DEF Sorted, CanRevise
<1>2. DOMAIN D = 1..n /\ \A k \in 1..n : D[k] = Matrix(PageOf(c, Ordered(P)[k]), Ordered(P)[k])
  BY DEF Drawings
<1> HIDE DEF D, n
<1>3. ASSUME NEW p \in P, NEW i \in 1..n, Ordered(P)[i] = p
      PROVE  SeenAsPlaced(PageOf(c, p), p, D[i]) /\ OnPage(PageOf(c, p), D[i])
  <2>1. p \in Placement /\ InsidePage(p) /\ PageOf(c, p) \in Page
    BY PlacedOnPage DEF CanRevise, HasPages
  <2>2. D[i] = Matrix(PageOf(c, p), p)
    BY <1>2, <1>3
  <2> QED
    BY <2>1, <2>2, GraphicsLieAsPlaced
<1>4. ASSUME NEW p1 \in P, NEW p2 \in P
      PROVE  \E i, k \in DOMAIN D :
             LET m1 == D[i]
                 m2 == D[k] IN
             /\ SeenAsPlaced(PageOf(c, p1), p1, m1) /\ OnPage(PageOf(c, p1), m1)
             /\ SeenAsPlaced(PageOf(c, p2), p2, m2)
             /\ p1.order < p2.order => i < k
  <2>1. PICK i \in 1..n : Ordered(P)[i] = p1
    BY <1>1
  <2>2. PICK k \in 1..n : Ordered(P)[k] = p2
    BY <1>1
  <2>3. p1.order < p2.order => i < k
    <3>1. k < i => p2.order < p1.order
      BY <1>1, <2>1, <2>2
    <3>2. k = i => p2 = p1
      BY <2>1, <2>2
    <3>3. p1.order \in Nat /\ p2.order \in Nat
      BY DEF CanRevise, Placement
    <3> QED
      BY <1>1, <3>1, <3>2, <3>3
  <2>4. SeenAsPlaced(PageOf(c, p1), p1, D[i]) /\ OnPage(PageOf(c, p1), D[i])
    BY <1>3, <2>1
  <2>5. SeenAsPlaced(PageOf(c, p2), p2, D[k])
    BY <1>3, <2>2
  <2> QED
    BY <1>2, <2>3, <2>4, <2>5, Zenon
<1> QED
  BY <1>4, Zenon DEF D, GraphicsLie

LEMMA BoxesLieAsPlaced ==
    ASSUME NEW c \in Content, NEW P, CanRevise(c, P), P # {}, NEW d, NEW r,
           Revised(c, d, P, r, Cardinality(P))
    PROVE  BoxesLie(c, P, Added(c, r))
<1> DEFINE k == Cardinality(P)
           added == Added(c, r)
<1>1. k \in Nat \ {0} /\ Ordered(P) \in [1..k -> P]
  BY OrderedIsSorted, FS_EmptySet DEF CanRevise
<1>2. r \in Content /\ Len(r.steps) = Len(c.steps) + k
  BY DEF Revised
<1>3. Len(added) = k /\ DOMAIN added = 1..k /\ \A i \in 1..k : added[i] = r.steps[Len(c.steps) + i]
  BY <1>1, <1>2, AddedSteps DEF Added
<1> HIDE DEF added
<1>4. ASSUME NEW i \in 1..k
      PROVE  \E p \in P : LET box == added[i].drawn[1]
                              page == PageOf(c, p) IN
                   /\ Cardinality({o \in P : o.order < p.order}) = i - 1
                   /\ page.llx <= box.left /\ box.right <= page.llx + page.width
                   /\ page.lly <= box.low /\ box.high <= page.lly + page.height
                   /\ box.left <= box.right /\ box.low <= box.high
                   /\ BoxSeenAsPlaced(page, p, box)
  <2>1. PICK p \in P : p = Ordered(P)[i]
    BY <1>1
  <2>2. added[i].drawn[1] = BoxOf(c, p)
    <3>1. added[i].drawn = <<BoxOf(c, p)>>
      BY <1>3, <2>1 DEF Revised
    <3> QED
      BY <3>1
  <2>3. Cardinality({o \in P : o.order < p.order}) = i - 1
    BY <2>1, OrderedIsRanked DEF CanRevise
  <2>4. p \in Placement /\ p.page <= Len(PagesOf[c.core]) /\ InsidePage(p)
    BY DEF CanRevise, HasPages
  <2>5. LET page == PageOf(c, p)
            box == BoxOf(c, p) IN
           /\ page.llx <= box.left /\ box.right <= page.llx + page.width
           /\ page.lly <= box.low /\ box.high <= page.lly + page.height
           /\ box.left <= box.right /\ box.low <= box.high
           /\ BoxSeenAsPlaced(page, p, box)
    BY <2>4, BoxIsPlaced
  <2> QED
    BY <2>2, <2>3, <2>5, Zenon
<1> QED
  BY <1>3, <1>4, Zenon DEF added, BoxesLie

LEMMA ResultIsDrawn ==
    ASSUME NEW c, NEW d \in Documents, NEW q, Signable(c, d, q), NEW row,
           row.file = c, row.request = q, row.result = Result(d, q)
    PROVE  DrawnIn(row)
<1> DEFINE P == q.placements
           r == Result(d, q)
<1>0. c \in Content /\ FreshFields(c) /\ CanRevise(c, P)
  BY RequestIs DEF Signable
<1>1. ASSUME q.mode = "graphic" PROVE GraphicsLie(c, P, Added(c, r))
  <2>1. r = Draw(c, P)
    BY <1>1 DEF Result, Signable
  <2> HIDE DEF r
  <2>2. r \in Content /\ Len(r.steps) = Len(c.steps) + 1
    BY <1>0, <2>1, DrawGrows DEF Grown
  <2>3. r.steps[Len(c.steps) + 1].drawn = Drawings(c, P)
    BY <1>0, <2>1, DrawGrows
  <2>4. Added(c, r)[1] = r.steps[Len(c.steps) + 1]
    BY <1>0, <2>2, AddedSteps DEF Added
  <2> QED
    BY <1>0, <2>3, <2>4, DrawingsLieAsPlaced
<1>2. ASSUME q.mode = "pades", P # {} PROVE BoxesLie(c, P, Added(c, r))
  <2>1. r = ReviseEach(c, d, P)
    BY <1>2 DEF Result, Signable
  <2> HIDE DEF r
  <2>2. Revised(c, d, P, r, Cardinality(P))
    BY <1>0, <1>2, <2>1, ReviseEachGrows, Zenon
  <2> QED
    BY <1>0, <1>2, <2>2, BoxesLieAsPlaced
<1> QED
  BY <1>1, <1>2 DEF DrawnIn

-----------------------------------------------------------------------------
(* The content under the envelopes *)

\* c without what is around its first k steps.
Under(c, k) == [c EXCEPT !.steps = SubSeq(@, 1, k)]

LEMMA UnderIs ==
    ASSUME NEW c \in Content, NEW k \in 0..Len(c.steps)
    PROVE  /\ Under(c, k) \in Content /\ Under(c, k).core = c.core
           /\ Len(Under(c, k).steps) = k
           /\ \A i \in 1..k : Under(c, k).steps[i] = c.steps[i]
<1> DEFINE s == SubSeq(c.steps, 1, k)
<1>1. k \in Nat /\ Len(c.steps) \in Nat /\ \A i \in 1..k : c.steps[i] \in StepRow
  BY StepsOf
<1>2. /\ s \in Seq(StepRow) /\ Len(s) = IF 1 <= k THEN k - 1 + 1 ELSE 0
      /\ \A i \in 1..(k - 1 + 1) : s[i] = c.steps[1 + i - 1]
  BY <1>1, SubSeqProperties
<1> HIDE DEF s
<1>3. Len(s) = k /\ \A i \in 1..k : s[i] = c.steps[i]
  <2>1. Len(s) = k
    BY <1>1, <1>2
  <2> SUFFICES ASSUME NEW i \in 1..k PROVE s[i] = c.steps[i]
    BY <2>1
  <2>2. i \in 1..(k - 1 + 1) /\ 1 + i - 1 = i
    BY <1>1
  <2> QED
    BY <1>2, <2>2
<1>4. Under(c, k) = [c EXCEPT !.steps = s]
  BY DEF Under, s
<1>5. Under(c, k) \in Content /\ Under(c, k).core = c.core /\ Under(c, k).steps = s
  BY <1>2, <1>4 DEF Content
<1> QED
  BY <1>3, <1>5

LEMMA SameUnder ==
    ASSUME NEW a \in Content, NEW b \in Content, a.core = b.core,
           Len(a.steps) = Len(b.steps), \A i \in 1..Len(a.steps) : a.steps[i] = b.steps[i]
    PROVE  a = b
<1>1. a.steps = b.steps
  BY StepsOf, SeqEqual
<1> QED
  BY <1>1 DEF Content

LEMMA EnvelopedIs ==
    ASSUME NEW c \in Content
    PROVE  Enveloped(c) <=> Len(c.steps) > 0 /\ c.steps[Len(c.steps)].mode = "cades"
<1>1. Len(c.steps) \in Nat /\ (c.steps # <<>> <=> Len(c.steps) > 0)
  BY StepsOf, EmptySeq
<1> QED
  BY <1>1 DEF Enveloped, Last

LEMMA UnderEnveloped ==
    ASSUME NEW c \in Content, NEW k \in 0..Len(c.steps)
    PROVE  Enveloped(Under(c, k)) <=> k > 0 /\ c.steps[k].mode = "cades"
<1>1. k \in Nat /\ (k > 0 => k \in 1..k)
  BY StepsOf
<1> QED
  BY <1>1, UnderIs, EnvelopedIs

\* extract_attached_content takes the outermost away.
LEMMA ExtractedIs ==
    ASSUME NEW c \in Content, NEW k \in 1..Len(c.steps)
    PROVE  Extracted(Under(c, k)) = Under(c, k - 1)
<1> DEFINE s == Under(c, k).steps
           t == SubSeq(s, 1, k - 1)
           b == [Under(c, k) EXCEPT !.steps = t]
<1>1. k \in Nat /\ k - 1 \in 0..Len(c.steps) /\ k \in 0..Len(c.steps) /\ Len(c.steps) \in Nat
  BY StepsOf
<1>2. /\ Under(c, k) \in Content /\ Under(c, k).core = c.core /\ Len(s) = k
      /\ \A i \in 1..k : s[i] = c.steps[i]
  BY <1>1, UnderIs
<1>3. Extracted(Under(c, k)) = b
  BY <1>2 DEF Extracted, Front
<1>4. /\ b \in Content /\ b.core = c.core /\ Len(b.steps) = k - 1
      /\ \A i \in 1..(k - 1) : b.steps[i] = s[i]
  <2>1. b = Under(Under(c, k), k - 1)
    BY DEF Under
  <2>2. k - 1 \in 0..Len(s)
    BY <1>1, <1>2
  <2> QED
    BY <1>2, <2>1, <2>2, UnderIs
<1> HIDE DEF b, s
<1>5. \A i \in 1..(k - 1) : b.steps[i] = c.steps[i]
  BY <1>1, <1>2, <1>4
<1>6. /\ Under(c, k - 1) \in Content /\ Under(c, k - 1).core = c.core
      /\ Len(Under(c, k - 1).steps) = k - 1
      /\ \A i \in 1..(k - 1) : Under(c, k - 1).steps[i] = c.steps[i]
  BY <1>1, UnderIs
<1>7. b = Under(c, k - 1)
  BY <1>4, <1>5, <1>6, SameUnder
<1> QED
  BY <1>3, <1>7

\* How many steps are under all the envelopes.
Bare(c) == Greatest({0} \cup {i \in DOMAIN c.steps : c.steps[i].mode # "cades"})

LEMMA BareIs ==
    ASSUME NEW c \in Content
    PROVE  /\ Bare(c) \in 0..Len(c.steps) /\ Peeled(c) = Under(c, Bare(c))
           /\ \A i \in 1..Len(c.steps) : i > Bare(c) => c.steps[i].mode = "cades"
           /\ Bare(c) = 0 \/ c.steps[Bare(c)].mode # "cades"
<1> DEFINE T == {0} \cup {i \in DOMAIN c.steps : c.steps[i].mode # "cades"}
<1>1. Len(c.steps) \in Nat /\ DOMAIN c.steps = 1..Len(c.steps)
  BY StepsOf
<1>2. T \in SUBSET Int /\ T # {} /\ (\A i \in T : i <= Len(c.steps)) /\ (\A i \in T : i >= 0)
  BY <1>1
<1>3. Bare(c) = Greatest(T)
  BY DEF Bare
<1>4. \A i \in 1..Len(c.steps) : c.steps[i].mode # "cades" => i \in T
  BY <1>1
<1>5. \A i \in T : i = 0 \/ c.steps[i].mode # "cades"
  OBVIOUS
<1> HIDE DEF T
<1>6. Bare(c) \in T /\ \A i \in T : i <= Bare(c)
  <2>1. Len(c.steps) \in Int
    BY <1>1
  <2>2. Greatest(T) \in T /\ \A i \in T : i <= Greatest(T)
    BY <1>2, <2>1, IntMax
  <2> QED
    BY <1>3, <2>2
<1>7. Bare(c) \in 0..Len(c.steps)
  <2>1. Bare(c) \in Int /\ Bare(c) <= Len(c.steps) /\ Bare(c) >= 0
    BY <1>2, <1>6
  <2> QED
    BY <1>1, <2>1
<1>8. \A i \in 1..Len(c.steps) : i > Bare(c) => c.steps[i].mode = "cades"
  <2> SUFFICES ASSUME NEW i \in 1..Len(c.steps), i > Bare(c), c.steps[i].mode # "cades" PROVE FALSE
    OBVIOUS
  <2>1. i <= Bare(c)
    BY <1>4, <1>6
  <2> QED
    BY <1>1, <1>7, <2>1
<1>9. Peeled(c) = Under(c, Bare(c))
  BY Zenon DEF Peeled, Under, Bare
<1> QED
  BY <1>5, <1>6, <1>7, <1>8, <1>9

\* What is left after k turns of the loop.
Level(c, k) == IF Len(c.steps) - k >= Bare(c) THEN Len(c.steps) - k ELSE Bare(c)

LEMMA LevelIs ==
    ASSUME NEW c \in Content, Enveloped(c), NEW k \in Nat \ {0}
    PROVE  /\ Level(c, k) \in 0..Len(c.steps)
           /\ Extracted(c) = Under(c, Level(c, 1))
           /\ Under(c, Level(c, k + 1)) =
                 IF Enveloped(Under(c, Level(c, k))) THEN Extracted(Under(c, Level(c, k)))
                 ELSE Under(c, Level(c, k))
           /\ Enveloped(Under(c, Level(c, k))) <=> Len(c.steps) - Bare(c) > k
<1> DEFINE n == Len(c.steps)
           b == Bare(c)
<1>1. /\ n \in Nat /\ n > 0 /\ c.steps[n].mode = "cades"
      /\ b \in 0..n /\ b # n
      /\ \A i \in 1..n : i > b => c.steps[i].mode = "cades"
      /\ b = 0 \/ c.steps[b].mode # "cades"
  BY StepsOf, EnvelopedIs, BareIs
<1>2. Level(c, k) = IF n - k >= b THEN n - k ELSE b
  BY DEF Level
<1>3. Level(c, k + 1) = IF n - (k + 1) >= b THEN n - (k + 1) ELSE b
  BY DEF Level
<1>4. Level(c, 1) = n - 1
  BY <1>1 DEF Level
<1>5. PICK m \in 0..n : m = Level(c, k)
  BY <1>1, <1>2
<1>6. Extracted(c) = Under(c, Level(c, 1))
  <2>1. n \in 1..n /\ n \in 0..n
    BY <1>1
  <2>2. Under(c, n) = c
    <3>1. /\ Under(c, n) \in Content /\ Under(c, n).core = c.core /\ Len(Under(c, n).steps) = n
          /\ \A i \in 1..n : Under(c, n).steps[i] = c.steps[i]
      BY <2>1, UnderIs
    <3> QED
      BY <3>1, SameUnder
  <2>3. Extracted(Under(c, n)) = Under(c, n - 1)
    BY <2>1, ExtractedIs
  <2> QED
    BY <1>4, <2>2, <2>3
<1>7. Enveloped(Under(c, m)) <=> m > 0 /\ c.steps[m].mode = "cades"
  BY UnderEnveloped
<1> HIDE DEF n, b
<1>8. m > 0 /\ c.steps[m].mode = "cades" <=> n - b > k
  <2>1. CASE n - b > k
    <3>1. m = n - k /\ m > b /\ m \in 1..n
      BY <1>1, <1>2, <1>5, <2>1
    <3> QED
      BY <1>1, <2>1, <3>1
  <2>2. CASE ~(n - b > k)
    <3>1. m = b
      BY <1>1, <1>2, <1>5, <2>2
    <3> QED
      BY <1>1, <2>2, <3>1
  <2> QED
    BY <2>1, <2>2
<1>9. CASE n - b > k
  <2>1. m \in 1..n /\ Level(c, k + 1) = m - 1
    BY <1>1, <1>2, <1>3, <1>5, <1>9
  <2>2. Extracted(Under(c, m)) = Under(c, m - 1)
    BY <2>1, ExtractedIs DEF n
  <2> QED
    BY <1>5, <1>6, <1>7, <1>8, <1>9, <2>1, <2>2 DEF n, b
<1>10. CASE ~(n - b > k)
  <2>1. Level(c, k + 1) = m
    BY <1>1, <1>2, <1>3, <1>5, <1>10
  <2> QED
    BY <1>5, <1>6, <1>7, <1>8, <1>10, <2>1 DEF n, b
<1> QED
  BY <1>9, <1>10

\* The function that Opened names.
Opening(c, after) ==
    after = [depth \in 1..MaxDepth |->
        IF depth = 1 THEN Extracted(c)
        ELSE IF Enveloped(after[depth - 1]) THEN Extracted(after[depth - 1])
        ELSE after[depth - 1]]

LEMMA OpeningExists ==
    ASSUME NEW c \in Content, Enveloped(c)
    PROVE  \E after : Opening(c, after)
<1> DEFINE g == [k \in 1..MaxDepth |-> Under(c, Level(c, k))]
           F(k) == IF k = 1 THEN Extracted(c)
                   ELSE IF Enveloped(g[k - 1]) THEN Extracted(g[k - 1])
                   ELSE g[k - 1]
<1>1. ASSUME NEW k \in 1..MaxDepth PROVE g[k] = F(k)
  <2>1. CASE k = 1
    <3>1. Extracted(c) = Under(c, Level(c, 1))
      BY LevelIs
    <3> QED
      BY <2>1, <3>1
  <2>2. CASE k # 1
    <3>1. PICK m \in Nat \ {0} : m = k - 1 /\ m + 1 = k /\ m \in 1..MaxDepth
      BY <2>2 DEF MaxDepth
    <3>2. g[m] = Under(c, Level(c, m))
      BY <3>1
    <3>3. g[k] = IF Enveloped(g[m]) THEN Extracted(g[m]) ELSE g[m]
      BY <3>1, <3>2, LevelIs
    <3> QED
      BY <2>2, <3>1, <3>3
  <2> QED
    BY <2>1, <2>2
<1>2. g = [k \in 1..MaxDepth |-> g[k]]
  OBVIOUS
<1>3. g = [k \in 1..MaxDepth |-> F(k)]
  <2> HIDE DEF g, F
  <2> QED
    BY <1>1, <1>2
<1>4. Opening(c, g)
  BY <1>3, Zenon DEF Opening
<1> QED
  BY <1>4

LEMMA OpenedIs ==
    ASSUME NEW c \in Content, Enveloped(c)
    PROVE  \A k \in 1..MaxDepth : Opened(c)[k] = Under(c, Level(c, k))
<1>1. Opened(c) = CHOOSE after : Opening(c, after)
  BY Zenon DEF Opened, Opening
<1>2. PICK after : after = Opened(c) /\ Opening(c, after)
  BY <1>1, OpeningExists, Zenon
<1>3. \A k \in 1..MaxDepth : after[k] =
         IF k = 1 THEN Extracted(c)
         ELSE IF Enveloped(after[k - 1]) THEN Extracted(after[k - 1])
         ELSE after[k - 1]
  <2> DEFINE F(k) == IF k = 1 THEN Extracted(c)
                     ELSE IF Enveloped(after[k - 1]) THEN Extracted(after[k - 1])
                     ELSE after[k - 1]
  <2>1. after = [k \in 1..MaxDepth |-> F(k)]
    BY <1>2 DEF Opening
  <2> HIDE DEF F
  <2>2. \A k \in 1..MaxDepth : after[k] = F(k)
    BY <2>1
  <2> QED
    BY <2>2 DEF F
<1> DEFINE Bad == {k \in 1..MaxDepth : after[k] # Under(c, Level(c, k))}
<1>4. ASSUME Bad # {} PROVE FALSE
  <2>1. Bad \in SUBSET Nat
    BY DEF MaxDepth
  <2>2. PICK k \in Bad : \A m \in Bad : k <= m
    BY <1>4, <2>1, NatMin
  <2>3. k \in 1..MaxDepth /\ after[k] # Under(c, Level(c, k))
    BY <2>2
  <2>4. CASE k = 1
    <3>1. Extracted(c) = Under(c, Level(c, 1))
      BY LevelIs
    <3> QED
      BY <1>3, <2>3, <2>4, <3>1
  <2>5. CASE k # 1
    <3>1. PICK m \in Nat \ {0} : m = k - 1 /\ m + 1 = k /\ m \in 1..MaxDepth /\ ~(k <= m)
      BY <2>3, <2>5 DEF MaxDepth
    <3>2. after[m] = Under(c, Level(c, m))
      BY <2>2, <3>1
    <3>3. after[k] = IF Enveloped(after[m]) THEN Extracted(after[m]) ELSE after[m]
      BY <1>3, <2>3, <2>5, <3>1
    <3>4. Under(c, Level(c, m + 1)) =
             IF Enveloped(Under(c, Level(c, m))) THEN Extracted(Under(c, Level(c, m)))
             ELSE Under(c, Level(c, m))
      BY LevelIs
    <3>5. after[k] = Under(c, Level(c, m + 1))
      BY <3>2, <3>3, <3>4
    <3> QED
      BY <2>3, <3>1, <3>5
  <2> QED
    BY <2>4, <2>5
<1> QED
  BY <1>2, <1>4

\* extract_nested_content finds what is under the envelopes if there is one of
\* them at least and no more than eight.
LEMMA NestedIs ==
    ASSUME NEW c \in Content
    PROVE  LET depth == Len(c.steps) - Len(Peeled(c).steps) IN
           /\ Peeled(c) \in Content
           /\ Enveloped(c) /\ depth <= 8 => NestedContent(c) = Peeled(c)
           /\ Enveloped(c) /\ ~(depth <= 8) => NestedContent(c) = Failed
           /\ ~Enveloped(c) => Peeled(c) = c /\ depth = 0
<1> DEFINE n == Len(c.steps)
           b == Bare(c)
<1>1. /\ n \in Nat /\ b \in 0..n /\ Peeled(c) = Under(c, b)
      /\ (\A i \in 1..n : i > b => c.steps[i].mode = "cades")
  BY StepsOf, BareIs
<1>2. /\ Peeled(c) \in Content /\ Len(Peeled(c).steps) = b
      /\ Peeled(c).core = c.core /\ \A i \in 1..b : Peeled(c).steps[i] = c.steps[i]
  BY <1>1, UnderIs
<1>3. ASSUME Enveloped(c)
      PROVE  NestedContent(c) = IF n - b > 8 THEN Failed ELSE Peeled(c)
  <2>1. MaxDepth \in 1..MaxDepth /\ MaxDepth \in Nat \ {0} /\ MaxDepth = 8
    BY DEF MaxDepth
  <2>2. Opened(c)[MaxDepth] = Under(c, Level(c, MaxDepth))
    BY <1>3, <2>1, OpenedIs
  <2>3. Enveloped(Under(c, Level(c, MaxDepth))) <=> n - b > MaxDepth
    BY <1>3, <2>1, LevelIs
  <2>4. ~(n - b > MaxDepth) => Level(c, MaxDepth) = b
    BY <1>1, <2>1 DEF Level
  <2> HIDE DEF n, b
  <2> QED
    BY <1>1, <1>3, <2>1, <2>2, <2>3, <2>4 DEF NestedContent
<1>4. ASSUME ~Enveloped(c) PROVE b = n /\ Peeled(c) = c
  <2>1. b = n
    BY <1>1, <1>4, EnvelopedIs
  <2> QED
    BY <1>2, <2>1, SameUnder
<1> HIDE DEF n, b
<1> QED
  BY <1>1, <1>2, <1>3, <1>4 DEF n

LEMMA PreviewIs ==
    ASSUME NEW d, NEW c \in Content, doc[d].file = c, doc[d].format = Format(c)
    PROVE  LET depth == Len(c.steps) - Len(Peeled(c).steps) IN
           Preview(d) = IF Format(Peeled(c)) = "pdf" /\ depth <= 8 THEN Peeled(c) ELSE Failed
<1> DEFINE depth == Len(c.steps) - Len(Peeled(c).steps)
<1>1. /\ Peeled(c) \in Content
      /\ Enveloped(c) /\ depth <= 8 => NestedContent(c) = Peeled(c)
      /\ Enveloped(c) /\ ~(depth <= 8) => NestedContent(c) = Failed
      /\ ~Enveloped(c) => Peeled(c) = c /\ depth = 0
  BY NestedIs
<1>2. Preview(d) =
      CASE Format(c) = "pdf" -> c
        [] Format(c) \in {"cms_attached", "opaque"} ->
              IF NestedContent(c) # Failed /\ Format(NestedContent(c)) = "pdf"
              THEN NestedContent(c) ELSE Failed
        [] Format(c) = "xml" -> Failed
  BY Zenon DEF Preview
<1>3. Peeled(c) # Failed
  <2>1. Peeled(c).core \in Cores /\ Failed.core = None
    BY <1>1, StepsOf DEF Failed
  <2> QED
    BY <2>1, ContentAssumption
<1> HIDE DEF depth
<1>4. CASE Enveloped(c)
  <2>1. Format(c) = "cms_attached"
    BY <1>4, Formats
  <2>2. Preview(d) = IF NestedContent(c) # Failed /\ Format(NestedContent(c)) = "pdf"
                     THEN NestedContent(c) ELSE Failed
    BY <1>2, <2>1
  <2>3. CASE depth <= 8
    BY <1>1, <1>3, <1>4, <2>2, <2>3 DEF depth
  <2>4. CASE ~(depth <= 8)
    BY <1>1, <1>4, <2>2, <2>4 DEF depth
  <2> QED
    BY <2>3, <2>4
<1>5. CASE ~Enveloped(c)
  <2>1. Format(c) \in {"pdf", "xml", "opaque"}
    BY <1>5, Formats
  <2>2. NestedContent(c) = Failed
    BY <1>5 DEF NestedContent
  <2>3. Preview(d) = IF Format(c) = "pdf" THEN c ELSE Failed
    BY <1>2, <2>1, <2>2
  <2> QED
    BY <1>1, <1>5, <2>3 DEF depth
<1> QED
  BY <1>4, <1>5

-----------------------------------------------------------------------------
(* The invariant *)

Row == [file : Content \cup {Failed}, format : {"none", "cms_attached", "pdf", "xml", "opaque"},
        capabilities : SUBSET {"graphic", "cades", "pades", "xades"},
        request : Request \cup {None}, result : Content \cup {Failed},
        media : {"none", "cms_attached", "xml", "pdf"}]

\* What EverySignatureKept says of one document.
KeptIn(d, row) ==
    LET before == Signatures(row.file)
        after == Signatures(row.result) IN
    /\ before \subseteq after
    /\ \A s \in after \ before : s[3] = d
    /\ after = before <=> row.request.mode = "graphic"

\* No content names a document that was not signed yet as a signer: so what a
\* document's own signature adds is new.
SignedOnes == {e \in Documents : Signed(e)}
Sound(c) == c \in Content /\ FreshFields(c) /\ SignersOf(c) \subseteq SignedOnes \cup {None}

Taken(d) == /\ Sound(doc[d].file)
            /\ doc[d].format = Format(doc[d].file)
            /\ doc[d].capabilities = Capabilities(doc[d].file)
Given(d) == ~Absent(d) /\ Sound(doc[d].result) /\ KeptIn(d, doc[d]) /\ DrawnIn(doc[d])

ContentInv ==
    /\ doc \in [Documents -> Row]
    /\ \A d \in Documents : (~Absent(d) => Taken(d)) /\ (Signed(d) => Given(d))

LEMMA GrownSigners ==
    ASSUME NEW c \in Content, NEW d, NEW r, Grown(c, r, d)
    PROVE  SignersOf(r) \subseteq SignersOf(c) \cup {d}
<1>1. /\ Len(c.steps) \in Nat /\ DOMAIN c.steps = 1..Len(c.steps)
      /\ r \in Content /\ Len(r.steps) \in Nat /\ DOMAIN r.steps = 1..Len(r.steps)
  BY StepsOf DEF Grown
<1>2. ASSUME NEW i \in 1..Len(r.steps), NEW s \in r.steps[i].signers
      PROVE  s \in SignersOf(c) \cup {d}
  <2>1. CASE i \in 1..Len(c.steps)
    <3>1. s \in c.steps[i].signers \cup {d}
      BY <1>2, <2>1 DEF Grown
    <3> QED
      BY <1>1, <2>1, <3>1 DEF SignersOf
  <2>2. CASE i \notin 1..Len(c.steps)
    <3>1. i \in (Len(c.steps) + 1)..Len(r.steps)
      BY <1>1, <2>2
    <3> QED
      BY <1>2, <3>1 DEF Grown
  <2> QED
    BY <2>1, <2>2
<1> QED
  BY <1>1, <1>2 DEF SignersOf

\* A file made elsewhere: nobody here signed it.
LEMMA MadeIsSound ==
    ASSUME NEW core \in Cores, NEW depth \in Envelopes
    PROVE  Sound(Made(core, depth))
<1> DEFINE st == Step("cades", {None}, 0, <<>>)
           s == [i \in 1..depth |-> st]
           c == Made(core, depth)
<1>1. depth \in Nat
  BY ContentAssumption
<1>2. st \in StepRow /\ st.signers = {None} /\ st.mode = "cades"
  <2>1. <<>> \in Seq(Boxes \cup Matrices)
    OBVIOUS
  <2> QED
    BY <2>1 DEF Step, StepRow, Modes, Signers
<1>3. c = [core |-> core, steps |-> s]
  BY DEF Made
<1> HIDE DEF st
<1>4. s \in Seq(StepRow) /\ DOMAIN s = 1..depth /\ \A i \in 1..depth : s[i] = st
  BY <1>1, <1>2, IsASeq
<1> HIDE DEF s
<1>5. c \in Content /\ c.steps = s
  BY <1>3, <1>4 DEF Content
<1> HIDE DEF c
<1>6. FreshFields(c)
  BY <1>2, <1>4, <1>5 DEF FreshFields, Pades
<1>7. SignersOf(c) \subseteq {None}
  BY <1>2, <1>4, <1>5 DEF SignersOf
<1> QED
  BY <1>5, <1>6, <1>7 DEF Sound, c

\* Who signed stays signed, so what was sound stays so.
LEMMA SoundStays ==
    ASSUME SignedOnes \subseteq SignedOnes', NEW c, Sound(c)
    PROVE  c \in Content /\ FreshFields(c) /\ SignersOf(c) \subseteq SignedOnes' \cup {None}
BY DEF Sound

LEMMA InitIsSound == Init => ContentInv
<1>1. NoDocument \in Row
  BY DEF NoDocument, Row
<1> QED
  BY <1>1 DEF Init, ContentInv, Absent, Signed, NoDocument

LEMMA UploadKeeps ==
    ASSUME ContentInv, NEW d \in Documents, NEW c, Sound(c), Upload(d, c)
    PROVE  ContentInv'
<1> DEFINE row == [NoDocument EXCEPT !.file = c, !.format = Format(c),
                                     !.capabilities = Capabilities(c)]
<1>1. doc \in [Documents -> Row] /\ doc' = [doc EXCEPT ![d] = row] /\ c \in Content
  BY DEF ContentInv, Upload, Sound
<1>2. /\ row.file = c /\ row.format = Format(c) /\ row.capabilities = Capabilities(c)
      /\ row.media = "none"
  BY DEF NoDocument
<1>3. row \in Row
  <2>1. Format(c) \in {"cms_attached", "pdf", "xml", "opaque"}
    BY <1>1, Formats
  <2>2. Capabilities(c) \in SUBSET {"graphic", "cades", "pades", "xades"}
    BY <2>1 DEF Capabilities
  <2> QED
    BY <1>1, <2>1, <2>2 DEF NoDocument, Row
<1> HIDE DEF row
<1>4. doc' \in [Documents -> Row] /\ doc'[d] = row /\ \A e \in Documents : e # d => doc'[e] = doc[e]
  BY <1>1, <1>3
<1>5. Absent(d) /\ ~Signed(d)
  BY DEF Upload, ContentInv, Given
<1>6. SignedOnes' = SignedOnes
  BY <1>2, <1>4, <1>5 DEF SignedOnes, Signed
<1>7. ASSUME NEW e \in Documents PROVE (~Absent(e) => Taken(e))' /\ (Signed(e) => Given(e))'
  <2>1. CASE e = d
    <3>1. Taken(e)'
      BY <1>2, <1>4, <1>6, <2>1 DEF Taken, Sound
    <3>2. ~Signed(e)'
      BY <1>2, <1>4, <2>1 DEF Signed
    <3> QED
      BY <3>1, <3>2
  <2>2. CASE e # d
    <3>1. doc'[e] = doc[e]
      BY <1>4, <2>2
    <3>2. (~Absent(e) => Taken(e)) /\ (Signed(e) => Given(e))
      BY DEF ContentInv
    <3>3. (Absent(e) <=> Absent(e)') /\ (Signed(e) <=> Signed(e)')
      BY <3>1 DEF Absent, Signed
    <3>4. Taken(e) => Taken(e)'
      BY <1>6, <3>1 DEF Taken, Sound
    <3>5. Given(e) => Given(e)'
      BY <1>6, <3>1, <3>3 DEF Given, Sound
    <3> QED
      BY <3>2, <3>3, <3>4, <3>5
  <2> QED
    BY <2>1, <2>2
<1> QED
  BY <1>4, <1>7 DEF ContentInv

LEMMA SignKeeps ==
    ASSUME ContentInv, NEW d \in Documents, NEW q \in Request, Sign(d, q)
    PROVE  ContentInv'
<1> DEFINE r == Result(d, q)
           row == [doc[d] EXCEPT !.request = q, !.result = r, !.media = MediaOf(q.mode)]
<1>0. PICK c : c = doc[d].file
  OBVIOUS
<1>1. doc \in [Documents -> Row] /\ ~Absent(d) /\ ~Signed(d) /\ Taken(d)
  BY DEF ContentInv, Sign
<1>2. Signable(c, d, q) /\ Sound(c)
  <2>1. d \notin SignersOf(c)
    <3>1. SignersOf(c) \subseteq SignedOnes \cup {None} /\ d \notin SignedOnes /\ d # None
      BY <1>0, <1>1, ContentAssumption DEF Taken, Sound, SignedOnes
    <3> QED
      BY <3>1
  <2> QED
    BY <1>0, <1>1, <2>1 DEF Signable, Sign, Taken, Sound
<1>3. Grown(c, r, d) /\ FreshFields(r) /\ (Signatures(r) = Signatures(c) <=> q.mode = "graphic")
  BY <1>2, ResultGrows
<1>4. doc' = [doc EXCEPT ![d] = row]
  BY <1>1 DEF Sign, Row
<1>5. doc[d] \in Row /\ MediaOf(q.mode) \in {"cms_attached", "xml", "pdf"}
  BY <1>1 DEF Request, MediaOf
<1> HIDE DEF r
<1>6. r \in Content
  BY <1>3 DEF Grown
<1>7. /\ row \in Row /\ row.file = c /\ row.request = q /\ row.result = r
      /\ row.format = doc[d].format /\ row.capabilities = doc[d].capabilities
      /\ row.media # "none"
  BY <1>0, <1>5, <1>6 DEF Row
<1> HIDE DEF row
<1>8. doc' \in [Documents -> Row] /\ doc'[d] = row /\ \A e \in Documents : e # d => doc'[e] = doc[e]
  BY <1>1, <1>4, <1>7
<1>9. SignedOnes' = SignedOnes \cup {d}
  BY <1>7, <1>8 DEF SignedOnes, Signed
<1>10. KeptIn(d, row)
  <2>1. /\ Signatures(c) \subseteq Signatures(r)
        /\ \A x \in Signatures(r) \ Signatures(c) : x[3] = d
    BY <1>2, <1>3, GrownSignatures DEF Sound
  <2> QED
    BY <1>3, <1>7, <2>1 DEF KeptIn
<1>11. DrawnIn(row)
  BY <1>2, <1>7, ResultIsDrawn DEF r
<1>12. SignersOf(c) \subseteq SignedOnes' \cup {None} /\ SignersOf(r) \subseteq SignedOnes' \cup {None}
  <2>1. SignersOf(r) \subseteq SignersOf(c) \cup {d}
    BY <1>2, <1>3, GrownSigners DEF Sound
  <2> QED
    BY <1>2, <1>9, <2>1 DEF Sound
<1>13. ASSUME NEW e \in Documents PROVE (~Absent(e) => Taken(e))' /\ (Signed(e) => Given(e))'
  <2>1. CASE e = d
    <3>1. Taken(e)'
      BY <1>0, <1>1, <1>2, <1>7, <1>8, <1>12, <2>1 DEF Taken, Sound
    <3>2. ~Absent(e)'
      BY <1>1, <1>7, <1>8, <2>1 DEF Absent
    <3>3. Given(e)'
      BY <1>3, <1>6, <1>7, <1>8, <1>10, <1>11, <1>12, <2>1, <3>2 DEF Given, Sound
    <3> QED
      BY <3>1, <3>3
  <2>2. CASE e # d
    <3>1. doc'[e] = doc[e]
      BY <1>8, <2>2
    <3>2. (~Absent(e) => Taken(e)) /\ (Signed(e) => Given(e))
      BY DEF ContentInv
    <3>3. (Absent(e) <=> Absent(e)') /\ (Signed(e) <=> Signed(e)')
      BY <3>1 DEF Absent, Signed
    <3>4. Taken(e) => Taken(e)'
      BY <1>9, <3>1 DEF Taken, Sound
    <3>5. Given(e) => Given(e)'
      BY <1>9, <3>1, <3>3 DEF Given, Sound
    <3> QED
      BY <3>2, <3>3, <3>4, <3>5
  <2> QED
    BY <2>1, <2>2
<1> QED
  BY <1>8, <1>13 DEF ContentInv

\* Every content the service was given or made has its own fields and no signer
\* that is still to sign, and the service knows each file for what it is.
THEOREM ContentsAreSound == Spec => []ContentInv
<1>1. ASSUME ContentInv, [Next]_vars PROVE ContentInv'
  <2>1. ASSUME NEW d \in Documents, UploadMade(d) PROVE ContentInv'
    BY <1>1, <2>1, MadeIsSound, UploadKeeps DEF UploadMade
  <2>2. ASSUME NEW d \in Documents, NEW e \in Documents, UploadResult(d, e) PROVE ContentInv'
    <3>1. Sound(doc[e].result) /\ Upload(d, doc[e].result)
      BY <1>1, <2>2 DEF UploadResult, ContentInv, Given
    <3> QED
      BY <1>1, <3>1, UploadKeeps
  <2>3. ASSUME NEW d \in Documents, NEW q \in Request, Sign(d, q) PROVE ContentInv'
    BY <1>1, <2>3, SignKeeps
  <2>4. CASE UNCHANGED vars
    <3>1. doc' = doc
      BY <2>4 DEF vars
    <3> QED
      BY <1>1, <3>1 DEF ContentInv, Taken, Given, Absent, Signed, Sound, SignedOnes
  <2> QED
    BY <1>1, <2>1, <2>2, <2>3, <2>4 DEF Next
<1> QED
  BY <1>1, InitIsSound, PTL DEF Spec

\* Signing takes no signature away and adds the user's own, in every mode but the
\* one that only draws, however the file came about (cades.py, pades.py, xades.py).
THEOREM NoSignatureIsLost == Spec => []EverySignatureKept
<1>1. ContentInv => EverySignatureKept
  BY DEF ContentInv, Given, KeptIn, EverySignatureKept
<1> QED
  BY <1>1, ContentsAreSound, PTL

\* Whatever fields a PDF came with and however often it is signed, a new revision
\* has a field name of its own (pades.py:71-77).
THEOREM FieldsStayFresh == Spec => []FieldsAreFresh
<1>1. ContentInv => FieldsAreFresh
  <2> SUFFICES ASSUME ContentInv, NEW d \in Documents, Signed(d)
               PROVE  FreshFields(doc[d].result)
    BY DEF FieldsAreFresh, FreshFields, Pades
  <2> QED
    BY DEF ContentInv, Given, Sound
<1> QED
  BY <1>1, ContentsAreSound, PTL

\* The preview shows the PDF under up to eight envelopes, and never the content of
\* an envelope in between (cms_content.py:34-51).
THEOREM PreviewIsRight == Spec => []PreviewShowsThePdf
<1>1. ContentInv => PreviewShowsThePdf
  <2> SUFFICES ASSUME ContentInv, NEW d \in Documents, ~Absent(d)
               PROVE  LET c == doc[d].file
                          depth == Len(c.steps) - Len(Peeled(c).steps) IN
                      Preview(d) = IF Format(Peeled(c)) = "pdf" /\ depth <= 8
                                   THEN Peeled(c) ELSE Failed
    BY Zenon DEF PreviewShowsThePdf
  <2>1. doc[d].file \in Content /\ doc[d].format = Format(doc[d].file)
    BY DEF ContentInv, Taken, Sound
  <2> QED
    BY <2>1, PreviewIs, Zenon
<1> QED
  BY <1>1, ContentsAreSound, PTL

\* Graphics lie where the user placed them, upright and in the order asked for, and
\* the boxes of fields lie there to half a point and in that order, on every page
\* however it is turned (graphics_pdf.py:101-142, pades.py:105-110).
THEOREM DrawnWherePlaced == Spec => []DrawnAsPlaced
<1>1. ContentInv => DrawnAsPlaced
  <2>1. ASSUME ContentInv, NEW d \in Documents, Signed(d) PROVE DrawnIn(doc[d])
    BY <2>1 DEF ContentInv, Given
  <2> QED
    BY <2>1, Zenon DEF DrawnAsPlaced, DrawnIn, GraphicsLie, BoxesLie, Added
<1> QED
  BY <1>1, ContentsAreSound, PTL

=============================================================================
