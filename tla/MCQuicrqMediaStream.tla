------------------------ MODULE MCQuicrqMediaStream ------------------------
(* Instances of QuicrqMediaStream for TLC. *)
EXTENDS QuicrqMediaStream

Req(mode, start) == [mode |-> mode, start |-> start]

(* Datagram mode from the beginning and from two start points;           *)
(* single-stream mode from the beginning.                                 *)
MCRequests == {Req("datagram", 0), Req("datagram", 1), Req("datagram", 2), Req("single_stream", 0)}

(* Datagram mode from a start point. *)
MCRequestsDatagramStart == {Req("datagram", 1)}

(* Single-stream mode from a start point. *)
MCRequestsSingleStart == {Req("single_stream", 1)}
=============================================================================
