---------------------------- MODULE CubeFigures ----------------------------
(***************************************************************************)
(* The main program of led_cube.c, as the sequence of the calls it makes:  *)
(* to set and reset coordinates, or one at random, and to wait.            *)
(***************************************************************************)
EXTENDS Integers, Sequences

CONSTANT Speeds, Pixels, Rings, Waves    \* rounds of the figures: 4, 100, 5 and 10

Coordinates == [i \in 1..64 |-> <<(i - 1) % 4, ((i - 1) \div 4) % 4, (i - 1) \div 16>>]

Each(call, coords) == [i \in 1..Len(coords) |-> <<call, coords[i]>>]
Display(ms) == <<<<"wait", ms>>>>
PerCoordinate(call, ms) ==
    [i \in 1..128 |-> IF i % 2 = 1 THEN <<call, Coordinates[(i + 1) \div 2]>> ELSE <<"wait", ms>>]

Repeat(n, calls) == [i \in 1..(n * Len(calls)) |-> calls[((i - 1) % Len(calls)) + 1]]

on_off(s) == PerCoordinate("set", 4 * s) \o PerCoordinate("reset", 4 * s)

on_offs == [i \in 1..(Speeds * 256) |-> on_off(((i - 1) \div 256) + 1)[((i - 1) % 256) + 1]]

rand_pixel == Repeat(Pixels, <<<<"rand">>>> \o Display(100)) \o <<<<"clear">>>> \o Display(100)

Big(x) == <<<<x, 1, 0>>, <<x, 2, 0>>, <<x, 0, 1>>, <<x, 3, 1>>, <<x, 0, 2>>, <<x, 3, 2>>, <<x, 1, 3>>, <<x, 2, 3>>>>
Small(x) == <<<<x, 1, 1>>, <<x, 2, 1>>, <<x, 1, 2>>, <<x, 2, 2>>>>
circle(x, big, call) == Each(call, IF big THEN Big(x) ELSE Small(x)) \o Display(50)

rings ==
    Repeat(Rings,
        circle(0, TRUE, "set") \o circle(0, FALSE, "reset") \o circle(1, FALSE, "set") \o circle(0, TRUE, "reset")
        \o circle(2, TRUE, "set") \o circle(1, FALSE, "reset") \o circle(3, FALSE, "set") \o circle(2, TRUE, "reset")
        \o circle(3, TRUE, "set") \o circle(3, FALSE, "reset") \o circle(2, FALSE, "set") \o circle(3, TRUE, "reset")
        \o circle(1, TRUE, "set") \o circle(2, FALSE, "reset") \o circle(0, FALSE, "set") \o circle(1, TRUE, "reset"))
    \o circle(0, FALSE, "reset")

Plane(y) == [i \in 1..16 |-> <<(i - 1) \div 4, y, (i - 1) % 4>>]
xz_plane(y, call) == Each(call, Plane(y)) \o Display(125)

waves ==
    Repeat(Waves,
        xz_plane(0, "set") \o xz_plane(3, "reset") \o xz_plane(1, "set") \o xz_plane(0, "reset")
        \o xz_plane(2, "set") \o xz_plane(1, "reset") \o xz_plane(3, "set") \o xz_plane(2, "reset"))
    \o xz_plane(3, "reset")

Pause == <<<<"pause", 1000>>>>

program == <<<<"clear">>>> \o on_offs \o Pause
          \o rand_pixel \o Pause \o rings \o Pause \o waves \o Pause
=============================================================================
