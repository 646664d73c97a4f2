--------------------------- MODULE PlacementGeometry ---------------------------
(***************************************************************************)
(* Where a graphic is drawn.  A placement names a rectangle of the page as *)
(* the reader sees it, in fractions of the page from its top left corner;  *)
(* graphics_pdf.py turns it into the matrix of user space, whose origin is *)
(* the lower left corner of a box that need not start at 0 and that the    *)
(* viewer may turn.                                                        *)
(*                                                                         *)
(* A fraction is a number of Units; lengths of user space are multiplied   *)
(* by Unit, so that everything is an integer.                              *)
(***************************************************************************)
EXTENDS Integers

CONSTANT Unit

ASSUME UnitAssumption == Unit \in Nat \ {0}

Rotations == {0, 90, 180, 270}

\* What _page_geometry accepts: a box with an area, turned by right angles.
Page == [llx : Int, lly : Int, width : Nat \ {0}, height : Nat \ {0}, rotation : Rotations]

\* PlacementCreate, and what its inside_page adds.
Placement == [page : Nat \ {0}, x : 0..(Unit - 1), y : 0..(Unit - 1),
              width : 1..Unit, height : 1..Unit, order : Nat]
InsidePage(p) == p.x + p.width <= Unit /\ p.y + p.height <= Unit

Upright(page) == page.rotation \in {0, 180}
DisplayWidth(page)  == IF Upright(page) THEN page.width ELSE page.height
DisplayHeight(page) == IF Upright(page) THEN page.height ELSE page.width

\* Mutant of Matrix: a quarter turn the wrong way.
MatrixTurned(page, p) ==
    LET x == p.x * DisplayWidth(page)
        y == (Unit - p.y - p.height) * DisplayHeight(page)
        w == p.width * DisplayWidth(page)
        h == p.height * DisplayHeight(page)
        left == Unit * page.llx
        low == Unit * page.lly
        right == left + Unit * page.width
        high == low + Unit * page.height IN
    CASE page.rotation = 0   -> [a |-> w, b |-> 0, c |-> 0, d |-> h, e |-> left + x, f |-> low + y]
      [] page.rotation = 270 -> [a |-> 0, b |-> w, c |-> -h, d |-> 0, e |-> right - y, f |-> low + x]
      [] page.rotation = 180 -> [a |-> -w, b |-> 0, c |-> 0, d |-> -h, e |-> right - x, f |-> high - y]
      [] page.rotation = 90  -> [a |-> 0, b |-> -w, c |-> h, d |-> 0, e |-> left + y, f |-> high - x]

\* _matrix: the unit square of the image goes to a*u + c*v + e, b*u + d*v + f.
Matrix(page, p) ==
    LET x == p.x * DisplayWidth(page)
        y == (Unit - p.y - p.height) * DisplayHeight(page)
        w == p.width * DisplayWidth(page)
        h == p.height * DisplayHeight(page)
        left == Unit * page.llx
        low == Unit * page.lly
        right == left + Unit * page.width
        high == low + Unit * page.height IN
    CASE page.rotation = 0   -> [a |-> w, b |-> 0, c |-> 0, d |-> h, e |-> left + x, f |-> low + y]
      [] page.rotation = 90  -> [a |-> 0, b |-> w, c |-> -h, d |-> 0, e |-> right - y, f |-> low + x]
      [] page.rotation = 180 -> [a |-> -w, b |-> 0, c |-> 0, d |-> -h, e |-> right - x, f |-> high - y]
      [] page.rotation = 270 -> [a |-> 0, b |-> -w, c |-> h, d |-> 0, e |-> left + y, f |-> high - x]

\* Where a matrix draws the point (u, v) of the image; v grows upwards.
ImageX(m, u, v) == m.a * u + m.c * v + m.e
ImageY(m, u, v) == m.b * u + m.d * v + m.f

\* placement_rect: the rectangle of a PAdES field, and round() of its corners to
\* points, halves to the even one.
Least(S)    == CHOOSE n \in S : \A k \in S : n <= k
Greatest(S) == CHOOSE n \in S : \A k \in S : k <= n
Rect(m) ==
    LET xs == {ImageX(m, u, v) : u \in 0..1, v \in 0..1}
        ys == {ImageY(m, u, v) : u \in 0..1, v \in 0..1} IN
    [left |-> Least(xs), low |-> Least(ys), right |-> Greatest(xs), high |-> Greatest(ys)]

Round(n) == LET q == n \div Unit
                rest == 2 * (n % Unit) IN
            IF rest < Unit \/ (rest = Unit /\ q % 2 = 0) THEN q ELSE q + 1

\* Mutant of Box: rounded towards the lower left corner.
BoxFloored(r) == [left |-> r.left \div Unit, low |-> r.low \div Unit,
                  right |-> r.right \div Unit, high |-> r.high \div Unit]
Box(r) == [left |-> Round(r.left), low |-> Round(r.low),
           right |-> Round(r.right), high |-> Round(r.high)]

-----------------------------------------------------------------------------
(* What the reader sees: a viewer turns the page clockwise by /Rotate *)

\* How far from the left and from the top of the displayed page a point is.
SeenX(page, x, y) ==
    CASE page.rotation = 0   -> x - Unit * page.llx
      [] page.rotation = 90  -> y - Unit * page.lly
      [] page.rotation = 180 -> Unit * (page.llx + page.width) - x
      [] page.rotation = 270 -> Unit * (page.lly + page.height) - y
SeenY(page, x, y) ==
    CASE page.rotation = 0   -> Unit * (page.lly + page.height) - y
      [] page.rotation = 90  -> x - Unit * page.llx
      [] page.rotation = 180 -> y - Unit * page.lly
      [] page.rotation = 270 -> Unit * (page.llx + page.width) - x

\* The corner (u, v) of the image is seen where the placement has that corner:
\* the image is in its place, upright and not mirrored.
SeenAsPlaced(page, p, m) ==
    \A u, v \in 0..1 :
       LET x == ImageX(m, u, v)
           y == ImageY(m, u, v) IN
       /\ SeenX(page, x, y) = (p.x + u * p.width) * DisplayWidth(page)
       /\ SeenY(page, x, y) = (p.y + (1 - v) * p.height) * DisplayHeight(page)

\* All of the image is on the page.
OnPage(page, m) ==
    \A u, v \in 0..1 :
       /\ Unit * page.llx <= ImageX(m, u, v) /\ ImageX(m, u, v) <= Unit * (page.llx + page.width)
       /\ Unit * page.lly <= ImageY(m, u, v) /\ ImageY(m, u, v) <= Unit * (page.lly + page.height)

\* To half a point: as near as round() gets.
Near(a, b) == 2 * (a - b) <= Unit /\ 2 * (b - a) <= Unit

\* The edges of a box of user space, as the reader sees them.
SeenBox(page, box) ==
    LET xs == {SeenX(page, Unit * x, Unit * y) : x \in {box.left, box.right}, y \in {box.low, box.high}}
        ys == {SeenY(page, Unit * x, Unit * y) : x \in {box.left, box.right}, y \in {box.low, box.high}} IN
    [left |-> Least(xs), top |-> Least(ys), right |-> Greatest(xs), bottom |-> Greatest(ys)]

\* The box is seen where the placement is.
BoxSeenAsPlaced(page, p, box) ==
    LET seen == SeenBox(page, box) IN
    /\ Near(seen.left, p.x * DisplayWidth(page))
    /\ Near(seen.right, (p.x + p.width) * DisplayWidth(page))
    /\ Near(seen.top, p.y * DisplayHeight(page))
    /\ Near(seen.bottom, (p.y + p.height) * DisplayHeight(page))
=============================================================================
