---------------------------- MODULE MCRasterTeam ----------------------------
(* A bounded instance of RasterTeam: three threads, a window of three rows *)
(* and four faces in two batches.  Faces 1 and 2 share a cell, as do 1 and *)
(* 4, so tests are saved, and face 4 leaves two of the workers without an  *)
(* item.  A raster needs 22 units of work and 6 visits.                    *)
EXTENDS RasterTeam

MCBatch == <<1, 1, 1, 2>>

MCBox == << {<<0, 0>>, <<1, 0>>}, {<<0, 0>>, <<0, 1>>}, {<<2, 0>>},
            {<<1, 0>>} >>

MCTouch == << {<<0, 0>>, <<1, 0>>}, {<<0, 1>>}, {}, {<<1, 0>>} >>
=============================================================================
