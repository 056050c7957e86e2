---------------------------- MODULE MCSpectralSearch ----------------------------
(* Instances of the search for TLC: a container of eight units and four        *)
(* voxels, and scenes that differ in what they make the search do.             *)
EXTENDS SpectralSearch

NoPlans == [slab |-> <<>>, stagger |-> <<>>]

(* Two orientations: one interlocks with itself, the other fills what is left; *)
(* one that is wider than a voxel but no multiple of it; one of each; one that *)
(* only fits into itself where the voxels overlap; a plug for what is left.    *)
Nested == <<{0, 2}, {0, 1}>>
Wide   == <<{0, 1, 2}>>
Mixed  == <<{0, 2}, {0, 1, 2}>>
Hollow == <<{0, 3}>>
Plugs  == <<{0, 1, 2}, {0, 1}>>

(* A mesh container and a fixed amount of work. *)
Plain ==
  [solid |-> Nested, dim |-> {}, timed |-> FALSE, box |-> FALSE,
   initial |-> {}, plans |-> NoPlans, turned |-> {}, copies |-> 6,
   grid |-> [evals |-> 3, passes |-> 1],
   caps |-> [evals |-> 90, passes |-> 9, refine |-> 60],
   threads |-> 1, faults |-> 2]

(* The same with time: the caps are small and renewed, threads can be dropped. *)
Timed ==
  [Plain EXCEPT !.timed = TRUE, !.threads = 2,
                !.caps = [evals |-> 3, passes |-> 1, refine |-> 2]]

(* A given layout that the trial from nothing does not find, and no refinement:*)
(* the second trial extends it.                                                *)
Given ==
  [Plain EXCEPT !.initial = {{<<1, 1>>, <<1, 2>>}},
                !.grid = [evals |-> 0, passes |-> 0],
                !.caps = [evals |-> 40, passes |-> 9, refine |-> 0]]

(* The caps run out, or the copies do. *)
Short == [Plain EXCEPT !.caps = [evals |-> 9, passes |-> 9, refine |-> 2]]

Few == [Plain EXCEPT !.copies = 2, !.solid = Wide]

(* A pose the validator cannot decide. *)
Dim == [Plain EXCEPT !.dim = {<<2, 2>>}, !.box = TRUE, !.grid = [evals |-> 9, passes |-> 2]]

(* A box with time: the layout searches run, on good and bad plans. *)
Boxed ==
  [Timed EXCEPT !.box = TRUE, !.solid = Mixed, !.copies = 4,
     !.turned = {<<1, 2>>, <<2, 1>>},
     !.grid = [evals |-> 4, passes |-> 2],
     !.caps = [evals |-> 14, passes |-> 9, refine |-> 2],
     !.plans = [slab |-> << {<<2, 0>>, <<2, 1>>}, {<<2, 0>>, <<2, 3>>} >>,
                stagger |-> <<1, 1>> :> << {<<1, 0>>, <<1, 7>>},
                                           {<<1, 0>>, <<1, 1>>, <<1, 4>>} >>
                         @@ <<2, 2>> :> << {<<2, 0>>, <<2, 2>>, <<2, 4>>}, {} >>
                         @@ <<1, 2>> :> << {}, {<<1, 0>>, <<1, 1>>, <<2, 5>>, <<2, 6>>} >>
                         @@ <<2, 1>> :> << {<<2, 0>>}, {<<2, 0>>, <<1, 4>>, <<1, 5>>} >>]]

MCScenes ==
  {Plain, Timed, Given, Short, Few, Dim, Boxed,
   [Timed EXCEPT !.solid = Wide], [Timed EXCEPT !.initial = {{<<1, 1>>, <<1, 2>>}}],
   [Timed EXCEPT !.box = TRUE, !.initial = {{}}, !.grid.evals = 0],
   [Plain EXCEPT !.solid = Mixed, !.box = TRUE],
   [Given EXCEPT !.dim = {<<1, 0>>, <<2, 0>>}],
   [Plain EXCEPT !.solid = Hollow], [Timed EXCEPT !.solid = Hollow],
   [Boxed EXCEPT !.solid = Plugs, !.initial = {{<<1, 1>>, <<1, 5>>}}, !.grid.evals = 0,
                 !.plans = NoPlans],
   [Plain EXCEPT !.caps.evals = 0], [Plain EXCEPT !.caps.evals = 1],
   [Boxed EXCEPT !.caps.evals = 6], [Boxed EXCEPT !.caps.evals = 8, !.plans = NoPlans],
   [Boxed EXCEPT !.solid = Nested, !.copies = 3, !.grid = [evals |-> 3, passes |-> 1],
                 !.dim = {<<2, 6>>}],
   [Boxed EXCEPT !.caps.passes = 3, !.plans = NoPlans, !.dim = {<<1, 1>>}]}
=============================================================================
