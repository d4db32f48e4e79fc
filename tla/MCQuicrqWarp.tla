---------------------------- MODULE MCQuicrqWarp ----------------------------
(* Instances of QuicrqWarp for TLC. *)
EXTENDS QuicrqWarp

(* Two groups: objects of 1 and 2 units, then one object of 1 unit. *)
MCMedia == <<<<1, 2>>, <<1>>>>
=============================================================================
