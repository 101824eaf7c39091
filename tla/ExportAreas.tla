------------------------------ MODULE ExportAreas ------------------------------
(***************************************************************************)
(* The area of an export: the box that is asked for, checked by the API    *)
(* and again by the script in the pod, and the region files it needs.      *)
(* Coordinates are blocks, inclusive; // is \div, which rounds down.       *)
(***************************************************************************)
EXTENDS Integers

COORDINATE_LIMIT == 29999984   \* the world border
REGION_BLOCKS == 512

Lesser(a, b) == IF a <= b THEN a ELSE b
Greater(a, b) == IF a <= b THEN b ELSE a

Area(x1, z1, x2, z2) == [x1 |-> x1, z1 |-> z1, x2 |-> x2, z2 |-> z2]
Areas == [x1 : Int, z1 : Int, x2 : Int, z2 : Int]

Width(a) == a.x2 - a.x1 + 1
Depth(a) == a.z2 - a.z1 + 1

-----------------------------------------------------------------------------
(* The API *)

InBorder(v) == -COORDINATE_LIMIT <= v /\ v <= COORDINATE_LIMIT

\* validate_area: what it returns, and when it does not refuse.
Validated(x1, z1, x2, z2) ==
    Area(Lesser(x1, x2), Lesser(z1, z2), Greater(x1, x2), Greater(z1, z2))
Accepted(x1, z1, x2, z2, cap) ==
    LET a == Validated(x1, z1, x2, z2)
    IN  /\ \A v \in {x1, z1, x2, z2} : InBorder(v)
        /\ Width(a) <= cap /\ Depth(a) <= cap

-----------------------------------------------------------------------------
(* The script *)

FromCorners(x1, z1, x2, z2) ==
    Area(Lesser(x1, x2), Lesser(z1, z2), Greater(x1, x2), Greater(z1, z2))

Around(x, z, size) ==
    LET west == x - size \div 2
        north == z - size \div 2
    IN  Area(west, north, west + size - 1, north + size - 1)

\* main: --default-size is refused outside these.
SizesOk(size, cap) == 16 <= size /\ size <= cap

\* export: a wider area is a RequestError.
TooLarge(a, cap) == Width(a) > cap \/ Depth(a) > cap

Blocks(a) == (a.x1 .. a.x2) \X (a.z1 .. a.z2)
RegionOf(x, z) == <<x \div REGION_BLOCKS, z \div REGION_BLOCKS>>

\* The region files that are copied.
Regions(a) ==
    (a.x1 \div REGION_BLOCKS .. a.x2 \div REGION_BLOCKS)
        \X (a.z1 \div REGION_BLOCKS .. a.z2 \div REGION_BLOCKS)

\* _run passes on what state_of says as one of two words.
PassedState(state) == IF state \in {"awake", "waking", "stopped"} THEN "awake" ELSE "asleep"

SnapshotKind(passed, stable) ==
    IF passed = "asleep" /\ stable THEN "at_rest"
    ELSE IF stable THEN "live_stable" ELSE "live_changing"
=============================================================================
