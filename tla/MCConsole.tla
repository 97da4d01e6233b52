----------------------------- MODULE MCConsole -----------------------------
(* A scene, small enough to be located unasked, and a photograph of no      *)
(* place, which is not; and a box on the scene.                             *)
EXTENDS Console

Scene(box) == [readable |-> TRUE, crs |-> TRUE, box |-> box, density |-> <<2, 2>>, renders |-> TRUE]
File(n, bytes, raster) == [name |-> n, dir |-> "", vendor |-> FALSE, bytes |-> bytes, raster |-> raster]

West  == File(1, 1, Scene(<<0, 0, 4, 4>>))
Photo == File(2, 3, [Unreadable EXCEPT !.readable = TRUE])

Chosen == {<<West, Photo>>}
Dragged == {<<0, 0, 2, 2>>}
=============================================================================
