------------------------- MODULE MCConservativeFields -------------------------
(* Small instances of ConservativeFields. *)
EXTENDS ConservativeFields

Rectangle(w, h) == (0..(w - 1)) \X (0..(h - 1))

Scene(object, container, box, pitch, pair, wall, places, tries, pose) ==
  [object |-> object, container |-> container, box |-> box, pitch |-> pitch,
   pair |-> pair, wall |-> wall, places |-> places, tries |-> tries,
   pose |-> [turn \in DOMAIN object |-> IF turn \in DOMAIN pose THEN pose[turn] ELSE identity]]

Rounded(x, y) == [cardinal |-> TRUE, exact |-> FALSE, slip |-> <<x, y>>]
Turned(x, y) == [cardinal |-> FALSE, exact |-> FALSE, slip |-> <<x, y>>]
Exactly == <<>>

(* Bars in two orientations, an L, a block with material that no boundary     *)
(* touches, a ring, a block with a part of its own that fits into another, and *)
(* an L and such a block with room for intervals between and in them.          *)
Bar == <<Rectangle(2, 1), Rectangle(1, 2)>>
Long == <<Rectangle(3, 1), Rectangle(1, 3)>>
Ell == <<{<<0, 0>>, <<1, 0>>, <<0, 1>>}>>
Block == <<Rectangle(3, 3)>>
Ring == <<Rectangle(5, 5) \ {<<x, y>> : x, y \in 1..3}>>
Parts == <<Rectangle(3, 3) \cup {<<5, 1>>}>>
Angle == Rectangle(9, 1) \cup Rectangle(1, 9)
Angles == <<Angle, Angle>>
Apart == <<Rectangle(9, 9) \cup {<<16, 4>>}>>

(* Containers with a pillar. *)
Pillared == Rectangle(13, 9) \ {<<4, 6>>}
Small == Rectangle(11, 9) \ {<<4, 4>>}
Hall == Rectangle(17, 13) \ {<<13, 6>>}

(* Boxes and solid containers, a voxel of one to four units, copies on and     *)
(* off the lattice, with and without clearances, in poses that are exact,      *)
(* rounded and turned; the tries cover contact, crossing, enclosing a pillar,  *)
(* lying around it, next to an L and in a block.                               *)
MCScenes ==
  {Scene(Block, Rectangle(12, 6), TRUE, 1, 0, 0, {<<1, 1>>, <<7, 1>>},
         (-1..10) \X (-1..4), Exactly),
   Scene(Bar, Rectangle(11, 6), TRUE, 1, 1, 0, {<<1, 1>>, <<7, 3>>}, {<<x, 2>> : x \in 0..10},
         <<Turned(1, -1)>>),
   Scene(Ell, Pillared, FALSE, 1, 2, 0, {<<1, 1>>, <<1, 6>>}, {<<x, 6>> : x \in 1..11}, Exactly),
   Scene(Long, Rectangle(49, 26), FALSE, 4, 3, 1, {<<5, 5>>, <<9, 13>>}, {<<x, 13>> : x \in 2..13}, Exactly),
   Scene(Block, Rectangle(18, 13), FALSE, 2, 1, 0, {<<3, 3>>, <<4, 8>>}, {<<x, 4>> : x \in 5..8}, Exactly),
   Scene(Ell, Hall, FALSE, 2, 1, 0, {<<3, 3>>}, {<<x, 6>> : x \in 1..12}, <<Turned(1, -1)>>),
   Scene(Long, Hall, FALSE, 2, 1, 1, {<<3, 3>>}, {<<x, 6>> : x \in 1..12}, <<Rounded(0, 1)>>),
   Scene(Angles, Rectangle(24, 24), TRUE, 3, 0, 0, {<<4, 4>>}, {<<x, x>> : x \in 1..12},
         <<Rounded(1, 0), Turned(-1, 1)>>),
   Scene(Apart, Rectangle(42, 12), TRUE, 3, 0, 0, {<<21, 2>>}, {<<x, 2>> : x \in 1..24},
         <<Rounded(0, 1)>>),
   Scene(Block, Small, FALSE, 1, 0, 0, {<<7, 1>>}, {<<x, 3>> : x \in 1..7}, Exactly),
   Scene(Ring, Small, FALSE, 1, 1, 1, {<<2, 2>>}, {<<x, y>> : x \in 1..6, y \in 1..3}, Exactly),
   Scene(Parts, Rectangle(18, 6), TRUE, 1, 0, 0, {<<4, 1>>}, {<<x, y>> : x \in -1..13, y \in 0..2}, Exactly)}

=============================================================================
