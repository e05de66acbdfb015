------------------------------- MODULE Region -------------------------------
(***************************************************************************)
(* The regions of egal/region.c, by which windows and texts keep what is   *)
(* to be drawn: a region is a list of sections in bands, all the sections  *)
(* of a band of one height, the bands from top to bottom and the sections  *)
(* of a band from left to right, and a bound around them. The operations   *)
(* walk through two lists band by band.                                    *)
(***************************************************************************)
EXTENDS Integers, Sequences, SequencesExt, FiniteSetsExt

CONSTANTS
    Across, Down,   \* the size of the plane (bound)
    Second          \* pairs of rectangles; the second regions of operations are
                    \* built from them (bound)

VARIABLES
    region,
    points          \* history: the points the operations so far ask for

regionVars == <<region, points>>

Rect == {r \in [x1 : 0..Across, x2 : 0..Across, y1 : 0..Down, y2 : 0..Down] :
            r.x1 <= r.x2 /\ r.y1 <= r.y2}
RectIsEmpty(rc) == rc.x1 = rc.x2 \/ rc.y1 = rc.y2

Nil == [secs |-> <<>>, bound |-> [x1 |-> 0, x2 |-> 0, y1 |-> 0, y2 |-> 0]]
OfRect(rc) == [secs |-> <<rc>>, bound |-> rc]

\* INSEGMENT, and EXTENTCHECK, which section_is_intersect repeats
InSegment(s, p) == s.x1 <= p[1] /\ p[1] < s.x2 /\ s.y1 <= p[2] /\ p[2] < s.y2
Meet(s, t) == s.x2 > t.x1 /\ s.x1 < t.x2 /\ s.y2 > t.y1 /\ s.y1 < t.y2
Covers(s, t) == s.x1 <= t.x1 /\ s.y1 <= t.y1 /\ s.x2 >= t.x2 /\ s.y2 >= t.y2

\* Where the band that begins at the i-th section ends
BandEnd(secs, i) ==
    Min({k \in i + 1..Len(secs) + 1 : k > Len(secs) \/ secs[k].y1 # secs[i].y1})
FirstBand(secs) == SubSeq(secs, 1, BandEnd(secs, 1) - 1)
OtherBands(secs) == SubSeq(secs, BandEnd(secs, 1), Len(secs))
Strip(band, y1, y2) == [k \in DOMAIN band |-> [band[k] EXCEPT !.y1 = y1, !.y2 = y2]]

-----------------------------------------------------------------------------
(* One band of each region                                                  *)

Further(s, t) == IF s[1].x2 > t[1].x2 THEN s ELSE Tail(s)

\* region_intersect_O
RECURSIVE IntersectO(_, _)
IntersectO(s, t) ==
    IF s = <<>> \/ t = <<>> THEN <<>>
    ELSE LET x1 == Max({s[1].x1, t[1].x1})
             x2 == Min({s[1].x2, t[1].x2})
         IN  (IF x1 < x2 THEN <<[s[1] EXCEPT !.x1 = x1, !.x2 = x2]>> ELSE <<>>)
                \o IntersectO(Further(s, t), Further(t, s))

\* MERGESEC
Merge(out, s) ==
    IF out = <<>> \/ Last(out).x2 < s.x1 THEN Append(out, s)
    ELSE [out EXCEPT ![Len(out)].x2 = Max({@, s.x2})]

\* region_union_O
RECURSIVE UnionO(_, _, _)
UnionO(out, s, t) ==
    CASE s = <<>> -> FoldLeft(Merge, out, t)
      [] t = <<>> -> FoldLeft(Merge, out, s)
      [] OTHER -> IF s[1].x1 < t[1].x1 THEN UnionO(Merge(out, s[1]), Tail(s), t)
                  ELSE UnionO(Merge(out, t[1]), s, Tail(t))

\* region_subtract_O: what is left of s[1] begins at its x1.
RECURSIVE SubtractO(_, _)
SubtractO(s, t) ==
    IF s = <<>> \/ t = <<>> THEN s
    ELSE LET r == s[1]
             hole == t[1]
             after == IF hole.x2 >= r.x2 THEN SubtractO(Tail(s), t)
                      ELSE SubtractO(<<[r EXCEPT !.x1 = hole.x2]>> \o Tail(s), Tail(t))
         IN  CASE hole.x2 <= r.x1 -> SubtractO(s, Tail(t))
               [] hole.x2 > r.x1 /\ hole.x1 <= r.x1 -> after
               [] hole.x1 > r.x1 /\ hole.x1 < r.x2 -> <<[r EXCEPT !.x2 = hole.x1]>> \o after
               [] OTHER -> <<r>> \o SubtractO(Tail(s), t)

Overlap(o, s, t) ==
    CASE o = "intersect" -> IntersectO(s, t)
      [] o = "union" -> UnionO(<<>>, s, t)
      [] o = "subtract" -> SubtractO(s, t)

-----------------------------------------------------------------------------
(* All bands                                                                *)

Loose(above, below) == Len(above) = Len(below)                     \* mutant

\* Bands that continue each other, section by section
Continues(above, below) ==
    /\ Len(above) = Len(below)
    /\ above[1].y2 = below[1].y1
    /\ \A k \in DOMAIN above : above[k].x1 = below[k].x1 /\ above[k].x2 = below[k].x2

\* region_coalesce, with the places of two sections of the list for the two pointers:
\* 0 is NULL. cur is the last section before the new ones, not the first of them.
Coalesce(secs, prev, cur) ==
    LET p == Max({prev, 1})
        c == Max({cur, 1})
        end == BandEnd(secs, c)
        lastBand == Min({k \in DOMAIN secs : secs[k].y1 = Last(secs).y1})
        start == IF end <= Len(secs) THEN lastBand ELSE c
        above == SubSeq(secs, p, c - 1)
        below == SubSeq(secs, c, end - 1)
    IN  IF p = c THEN [secs |-> secs, prev |-> p]
        ELSE IF ~Continues(above, below) THEN [secs |-> secs, prev |-> start]
        ELSE [secs |-> SubSeq(secs, 1, p - 1) \o Strip(above, above[1].y1, below[1].y2)
                          \o SubSeq(secs, end, Len(secs)),
              prev |-> IF end > Len(secs) THEN p ELSE start - Len(below)]

Grown(done, new) ==
    IF new = <<>> THEN done ELSE Coalesce(done.secs \o new, done.prev, Len(done.secs))

\* The loop of region_op, as long as both regions, s and t, have bands; what lies
\* above ybot is done.
RECURSIVE OpLoop(_, _, _, _, _)
OpLoop(o, done, ybot, s, t) ==
    IF s = <<>> \/ t = <<>>
    THEN LET rest == CASE s # <<>> /\ o # "intersect" -> s
                       [] t # <<>> /\ o = "union" -> t
                       [] OTHER -> <<>>
         IN  Grown(done, [k \in DOMAIN rest |-> [rest[k] EXCEPT !.y1 = Max({@, ybot})]])
    ELSE LET a == FirstBand(s)
             b == FirstBand(t)
             top == Max({a[1].y1, b[1].y1})
             bot == Min({a[1].y2, b[1].y2})
             alone(band, other) ==
                LET y1 == Max({band[1].y1, ybot})
                    y2 == Min({band[1].y2, other[1].y1})
                IN  IF y1 # y2 THEN Strip(band, y1, y2) ELSE <<>>
             one == CASE a[1].y1 < b[1].y1 /\ o # "intersect" -> alone(a, b)
                      [] b[1].y1 < a[1].y1 /\ o = "union" -> alone(b, a)
                      [] OTHER -> <<>>
             both == IF bot > top THEN Strip(Overlap(o, a, b), top, bot) ELSE <<>>
         IN  OpLoop(o, Grown(Grown(done, one), both), bot,
                    IF a[1].y2 = bot THEN OtherBands(s) ELSE s,
                    IF b[1].y2 = bot THEN OtherBands(t) ELSE t)

\* region_set_extents
Extents(secs) ==
    IF secs = <<>> THEN Nil.bound
    ELSE [x1 |-> Min({secs[k].x1 : k \in DOMAIN secs}), y1 |-> Head(secs).y1,
          x2 |-> Max({secs[k].x2 : k \in DOMAIN secs}), y2 |-> Last(secs).y2]

RegionOp(o, r, t) ==
    LET secs == OpLoop(o, [secs |-> <<>>, prev |-> 0],
                       Min({r.bound.y1, t.bound.y1}), r.secs, t.secs).secs
    IN  [secs |-> secs, bound |-> Extents(secs)]

Apart(r, t) == r.secs = <<>> \/ t.secs = <<>> \/ ~Meet(r.bound, t.bound)

\* egal_region_intersect, egal_region_subtract, egal_region_union, egal_region_xor
Intersect(r, t) == IF Apart(r, t) THEN Nil ELSE RegionOp("intersect", r, t)
Subtract(r, t) == IF Apart(r, t) THEN r ELSE RegionOp("subtract", r, t)
UnionOf(r, t) ==
    CASE r.secs = <<>> -> t
      [] t.secs = <<>> -> r
      [] Len(r.secs) = 1 /\ Covers(r.bound, t.bound) -> r
      [] Len(t.secs) = 1 /\ Covers(t.bound, r.bound) -> t
      [] OTHER -> RegionOp("union", r, t)
Xor(r, t) == UnionOf(Subtract(r, t), Subtract(t, r))

-----------------------------------------------------------------------------
(* A region over time                                                       *)

Plane == (0..Across - 1) \X (0..Down - 1)
PointsOf(r) == {p \in Plane : \E k \in DOMAIN r.secs : InSegment(r.secs[k], p)}

RegionInit == region = Nil /\ points = {}

\* egal_region_set_rect, egal_region_union_rect, egal_region_intersect_rect,
\* egal_region_subtract_rect
SetRect(rc) ==
    /\ region' = IF RectIsEmpty(rc) THEN region ELSE OfRect(rc)
    /\ points' = IF RectIsEmpty(rc) THEN points ELSE PointsOf(OfRect(rc))
UnionRect(rc) ==
    /\ region' = IF RectIsEmpty(rc) THEN region ELSE UnionOf(region, OfRect(rc))
    /\ points' = points \cup PointsOf(OfRect(rc))
IntersectRect(rc) ==
    /\ region' = IF RectIsEmpty(rc) THEN Nil ELSE Intersect(region, OfRect(rc))
    /\ points' = points \cap PointsOf(OfRect(rc))
SubtractRect(rc) ==
    /\ region' = IF RectIsEmpty(rc) \/ ~Meet(region.bound, rc) THEN region
                 ELSE Subtract(region, OfRect(rc))
    /\ points' = points \ PointsOf(OfRect(rc))

\* The operations with a region t of more than one section
Others == {UnionOf(OfRect(pair[1]), OfRect(pair[2])) : pair \in Second}
WithRegion(t) ==
    \/ region' = UnionOf(region, t) /\ points' = points \cup PointsOf(t)
    \/ region' = Intersect(t, region) /\ points' = points \cap PointsOf(t)
    \/ region' = Subtract(t, region) /\ points' = PointsOf(t) \ points
    \/ region' = Xor(region, t) /\ points' = SymDiff(points, PointsOf(t))

\* egal_region_offset, within the plane
Moved(s, dx, dy) == [x1 |-> s.x1 + dx, x2 |-> s.x2 + dx, y1 |-> s.y1 + dy, y2 |-> s.y2 + dy]
Offset(dx, dy) ==
    LET bound == IF region.secs = <<>> THEN region.bound ELSE Moved(region.bound, dx, dy) IN
    /\ bound \in Rect
    /\ region' = [secs |-> [k \in DOMAIN region.secs |-> Moved(region.secs[k], dx, dy)],
                  bound |-> bound]
    /\ points' = {<<p[1] + dx, p[2] + dy>> : p \in points}

\* One empty rectangle stands for all.
Given == {rc \in Rect : RectIsEmpty(rc) => rc = Nil.bound}

RegionNext ==
    \/ \E rc \in Given : SetRect(rc) \/ UnionRect(rc) \/ IntersectRect(rc) \/ SubtractRect(rc)
    \/ \E t \in Others : WithRegion(t)
    \/ \E dx, dy \in {-1, 0, 1} : Offset(dx, dy)

RegionSpec == RegionInit /\ [][RegionNext]_regionVars

-----------------------------------------------------------------------------
(* Asking                                                                   *)

\* egal_region_pt_in looks in the first band that ends below the point.
PtIn(r, p) ==
    /\ r.secs # <<>> /\ p[2] < Last(r.secs).y2 /\ p[2] >= Head(r.secs).y1
    /\ LET at == Min({k \in DOMAIN r.secs : p[2] < r.secs[k].y2}) IN
       \E k \in at..BandEnd(r.secs, at) - 1 : InSegment(r.secs[k], p)

\* egal_region_rect_in: whether some of the rectangle is in the region
RectIn(r, rc) ==
    r.secs # <<>> /\ Meet(r.bound, rc) /\ \E k \in DOMAIN r.secs : Meet(r.secs[k], rc)

-----------------------------------------------------------------------------
(* Properties                                                               *)

\* After any operations a region has the points they ask for: the bands are in order,
\* none is empty or overlaps another (they need not be as few as possible, since
\* region_coalesce looks at the bands before the new one), the bound is tight, so that
\* no operation takes its short cut wrongly, and both questions are answered by the
\* points.
RegionExact ==
    /\ PointsOf(region) = points
    /\ \A k \in DOMAIN region.secs :
        LET s == region.secs[k] IN
        /\ s.x1 < s.x2 /\ s.y1 < s.y2
        /\ k > 1 => LET before == region.secs[k - 1] IN
            \/ before.y1 = s.y1 /\ before.y2 = s.y2 /\ before.x2 < s.x1
            \/ before.y2 <= s.y1
    /\ region.secs # <<>> =>
        /\ region.bound.x1 = Min({p[1] : p \in points})
        /\ region.bound.x2 = Max({p[1] : p \in points}) + 1
        /\ region.bound.y1 = Min({p[2] : p \in points})
        /\ region.bound.y2 = Max({p[2] : p \in points}) + 1
    /\ \A p \in Plane : PtIn(region, p) <=> p \in points
    /\ \A rc \in Rect :
        ~RectIsEmpty(rc) => (RectIn(region, rc) <=> PointsOf(OfRect(rc)) \cap points # {})
=============================================================================
