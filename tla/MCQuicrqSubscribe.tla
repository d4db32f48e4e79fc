------------------------- MODULE MCQuicrqSubscribe -------------------------
(* Instances of QuicrqSubscribe for TLC. *)
EXTENDS QuicrqSubscribe

CONSTANTS s1, s2, c1, c2, u1, u2

MCSubs == {s1, s2}
MCConns == {c1, c2}
MCURLs == {u1, u2}

(* Prefix "video/" for s1, "video/camA" for s2; u1 is video/camA and u2  *)
(* is video/camB.                                                         *)
MCMatch == [s \in MCSubs |-> IF s = s1 THEN {u1, u2} ELSE {u1}]

(* Each subscription on a connection of its own. *)
MCSubConnApart == [s \in MCSubs |-> IF s = s1 THEN c1 ELSE c2]

(* Both subscriptions on one connection. *)
MCSubConnShared == [s \in MCSubs |-> c1]
=============================================================================
