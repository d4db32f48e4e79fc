------------------------------ MODULE QuicrqWarp ------------------------------
(***************************************************************************)
(* Warp and rush transport of one media in quicrq: the server's control    *)
(* stream and the unidirectional streams it opens (one per group in warp,  *)
(* one per object in rush), and the client's control stream and the uni   *)
(* stream contexts it creates when their data arrives.                     *)
(*                                                                         *)
(* The state starts once the REQUEST has been accepted (the handshake is   *)
(* QuicrqMediaStream's): the server's control context is a sender in       *)
(* ready state, the client's is in receive state fragment.                 *)
(*                                                                         *)
(* QUIC delivers each stream in order, and nothing more: with Reorder      *)
(* FALSE the model is a lossless in-order path (one FIFO for the           *)
(* connection), with Reorder TRUE any stream's next item may come first.   *)
(* A message on a uni stream is written and read whole (message cutting is *)
(* checked in QuicrqMediaStream); object data is cut by the send space.    *)
(***************************************************************************)
EXTENDS Integers, Sequences, SequencesExt, FiniteSets

CONSTANTS
    Media,      \* Media[g+1][o+1]: length in units of object o of group g
    Modes,      \* transport modes the REQUEST may ask for: "warp", "rush"
    Spaces,     \* send space picoquic may offer to a uni stream
    Skip,       \* may quicrq_evaluate_warp_congestion ask to skip an object
    Reorder,    \* may items of different streams overtake each other
    MaxInFlight \* items the server may have written and the client not read

ASSUME /\ Media \in Seq(Seq(Nat \ {0})) /\ Len(Media) > 0
       /\ \A g \in 1..Len(Media) : Len(Media[g]) > 0
       /\ Modes \subseteq {"warp", "rush"} /\ Modes # {}
       /\ Spaces \subseteq Nat \ {0} /\ Spaces # {}
       /\ Skip \in BOOLEAN /\ Reorder \in BOOLEAN
       /\ MaxInFlight \in Nat \ {0}

NbGroups == Len(Media)
Size(g) == Len(Media[g + 1])
ObjLen(g, o) == Media[g + 1][o + 1]

(* The objects in publication order, and as a set. *)
Flat == FlattenSeq([i \in 1..NbGroups |-> [j \in 1..Size(i - 1) |-> <<i - 1, j - 1>>]])
Objs == ToSet(Flat)

(* The final point the source reports: the object after the last one. *)
FinalGroup == NbGroups - 1
FinalObject == Size(FinalGroup)

(* Uni streams, named by the first object they carry: a group's first     *)
(* object in warp, every object in rush.                                  *)
Keys == Objs
Opens(m, ob) == m = "rush" \/ ob[2] = 0

None == [none |-> TRUE]

(* The control stream, named like a uni stream on the down FIFO. *)
Ctl == <<-1, -1>>

VARIABLES
    mode,       \* transport_mode of both control stream contexts
    pub,        \* objects the media source has published (a prefix of Flat)
    fin,        \* the source has finished: the final point is known
    sCtl,       \* the server's control stream context
    cCtl,       \* the client's control stream context
    sUni,       \* sUni[k]: the server's uni stream context k, or None
    cUni,       \* cUni[k]: the client's uni stream context k, or None
    down,       \* items written by the server, not yet read by the client
    up,         \* items written by the client on its control stream
    got,        \* ghost: objects the client's consumer has received
    status      \* "ok", "error" (a callback returned -1: the connection
                \* is closed) or "crash" (a NULL control_stream_ctx is used)

vars == <<mode, pub, fin, sCtl, cCtl, sUni, cUni, down, up, got, status>>

Published == {Flat[i] : i \in 1..pub}

Init ==
    /\ mode \in Modes
    /\ pub = 0 /\ fin = FALSE
    /\ sCtl = [live |-> TRUE, snd |-> "ready", finalSent |-> FALSE,
               lfin |-> FALSE, pfin |-> FALSE, act |-> FALSE]
    /\ cCtl = [live |-> TRUE, learned |-> FALSE, snd |-> "ready",
               lfin |-> FALSE, pfin |-> FALSE, act |-> FALSE]
    /\ sUni = [k \in Keys |-> None]
    /\ cUni = [k \in Keys |-> None]
    /\ down = <<>> /\ up = <<>>
    /\ got = {} /\ status = "ok"

---------------------------------------------------------------------------
(* The media source and cache (quicrq_fragment.c, not in this tree).       *)

(* quicrq_fragment_get_object_count: known from the first object of the   *)
(* next group (its nb_objects_previous_group) or from the final point.     *)
ObjectCount(g) ==
    IF (\E p \in Published : p[1] = g + 1) \/ (fin /\ g = FinalGroup)
    THEN Size(g) ELSE 0

(* quicrq_wakeup_media_stream: every stream of the media becomes active. *)
WakeUnis(u) == [k \in Keys |-> IF u[k] = None THEN None ELSE [u[k] EXCEPT !.act = TRUE]]

(* publish_object_source: the next object enters the cache; a new group   *)
(* (warp) or object (rush) opens a uni stream chained to the control      *)
(* stream, from that object, with last_object_id 0 (warp) or object + 1   *)
(* (rush); the media's streams are woken.                                  *)
SourcePublish ==
    /\ status = "ok" /\ pub < Len(Flat)
    /\ LET ob == Flat[pub + 1]
           opens == sCtl.live /\ Opens(mode, ob)
           new == [ss |-> "open", cur |-> ob[2], off |-> 0, len |-> 0, act |-> TRUE,
                   last |-> IF mode = "rush" THEN ob[2] + 1 ELSE 0]
       IN /\ pub' = pub + 1
          /\ sUni' = IF opens THEN [WakeUnis(sUni) EXCEPT ![ob] = new] ELSE WakeUnis(sUni)
    /\ UNCHANGED <<mode, fin, sCtl, cCtl, cUni, down, up, got, status>>

(* quicrq_fragment_notify_final: the final point is set on the control    *)
(* stream, which is woken with the uni streams.                            *)
SourceFinish ==
    /\ status = "ok" /\ pub = Len(Flat) /\ ~fin
    /\ fin' = TRUE
    /\ sCtl' = IF sCtl.live THEN [sCtl EXCEPT !.act = TRUE] ELSE sCtl
    /\ sUni' = WakeUnis(sUni)
    /\ UNCHANGED <<mode, pub, cCtl, cUni, down, up, got, status>>

---------------------------------------------------------------------------
(* The server: a uni stream writes its items on the down FIFO.             *)

(* picoquic asks a stream for data only while congestion and flow control *)
(* leave room: here, while fewer than MaxInFlight items are unread.       *)
Room == Len(down) < MaxInFlight

Send(k, items) == down \o [i \in 1..Len(items) |-> [s |-> k, m |-> items[i]]]

(* quicrq_delete_stream_ctx, run by the sender after its FIN: the uni     *)
(* streams still open are deleted by quicrq_delete_uni_stream_ctx, which   *)
(* resets every one not yet in state should_close.  A reset abandons the  *)
(* stream: its items still in flight are lost (Lost) or were already      *)
(* delivered; the client's callback ignores the reset itself.             *)
DeleteServerCtl(w, Lost) ==
    /\ sCtl' = [sCtl EXCEPT !.live = FALSE, !.snd = "no_more", !.lfin = TRUE, !.act = FALSE]
    /\ sUni' = [k \in Keys |-> None]
    /\ down' = SelectSeq(w, LAMBDA x : x.s \notin Lost)

(* Mutant: the warp header is encoded but the state stays open. *)
PrepareWarpHeaderStaysOpen(u) == [u |-> u, msg |-> <<[t |-> "hdr"]>>]

(* quicrq_prepare_warp_header: WARP_HEADER(media_id, group_id) is encoded *)
(* and the state becomes warp_header_sent.                                  *)
PrepareWarpHeader(u) == [u |-> [u EXCEPT !.ss = "header_sent"], msg |-> <<[t |-> "hdr"]>>]

(* Mutant: the final point's object id is taken whatever its group. *)
PrepareWarpObjectHeaderAnyFinal(u, g, skip) ==
    LET last == IF u.last # 0 THEN u.last
                ELSE IF fin THEN FinalObject ELSE ObjectCount(g)
        v == [u EXCEPT !.last = last]
        len == IF skip THEN 0 ELSE ObjLen(g, u.cur)
        oh == [t |-> "oh", o |-> u.cur, len |-> len]
    IN IF last > 0 /\ u.cur >= last
       THEN [u |-> [v EXCEPT !.ss = "all_sent"], msg |-> <<>>]
       ELSE IF <<g, u.cur>> \in Published
       THEN IF len = 0
            THEN [u |-> [v EXCEPT !.cur = @ + 1], msg |-> <<oh>>]
            ELSE [u |-> [v EXCEPT !.ss = "object_data", !.len = len], msg |-> <<oh>>]
       ELSE [u |-> v, msg |-> <<>>]

(* quicrq_prepare_warp_object_header: last_object_id is learned, from the *)
(* control stream's final point when it is in this group, else from the   *)
(* object count; once cur reaches it all is sent.  Else, when the object  *)
(* is in the cache, its OBJECT_HEADER is encoded, with length 0 and flags *)
(* 0xff if congestion says skip; a 0-length object is done at once.  Else  *)
(* nothing is encoded (quicrq_fragment_notify_final_to_control).          *)
PrepareWarpObjectHeader(u, g, skip) ==
    LET last == IF u.last # 0 THEN u.last
                ELSE IF fin /\ FinalGroup = g THEN FinalObject ELSE ObjectCount(g)
        v == [u EXCEPT !.last = last]
        len == IF skip THEN 0 ELSE ObjLen(g, u.cur)
        oh == [t |-> "oh", o |-> u.cur, len |-> len]
    IN IF last > 0 /\ u.cur >= last
       THEN [u |-> [v EXCEPT !.ss = "all_sent"], msg |-> <<>>]
       ELSE IF <<g, u.cur>> \in Published
       THEN IF len = 0
            THEN [u |-> [v EXCEPT !.cur = @ + 1], msg |-> <<oh>>]
            ELSE [u |-> [v EXCEPT !.ss = "object_data", !.len = len], msg |-> <<oh>>]
       ELSE [u |-> v, msg |-> <<>>]

(* Mutant: the offset is not reset when an object is complete. *)
SendObjectDataNoReset(k, u, g, space) ==
    LET n == Min({ObjLen(g, u.cur) - u.off, space})
        w == [u EXCEPT !.off = @ + n]
    IN IF n > 0
       THEN /\ sUni' = [sUni EXCEPT ![k] = IF w.off = w.len
                           THEN [w EXCEPT !.cur = @ + 1, !.ss = "header_sent"]
                           ELSE w]
            /\ down' = Send(k, <<[t |-> "data", n |-> n]>>)
       ELSE /\ sUni' = [sUni EXCEPT ![k].act = FALSE] /\ UNCHANGED down

(* quicrq_prepare_to_send_on_unistream, object data: the bytes the cache  *)
(* holds from the offset, as many as fit; when the object is complete the *)
(* next object is due.  No bytes: the stream goes inactive.                *)
SendObjectData(k, u, g, space) ==
    LET n == Min({ObjLen(g, u.cur) - u.off, space})
        w == [u EXCEPT !.off = @ + n]
    IN IF n > 0
       THEN /\ sUni' = [sUni EXCEPT ![k] = IF w.off = w.len
                           THEN [w EXCEPT !.cur = @ + 1, !.off = 0, !.ss = "header_sent"]
                           ELSE w]
            /\ down' = Send(k, <<[t |-> "data", n |-> n]>>)
       ELSE /\ sUni' = [sUni EXCEPT ![k].act = FALSE] /\ UNCHANGED down

(* quicrq_prepare_to_send_on_unistream, headers: in state open the warp   *)
(* header, in warp_header_sent the next object header, is prepared; a     *)
(* message is sent whole and the stream stays active; with no message in  *)
(* state all_sent the FIN is sent and the context deleted; else the stream *)
(* goes inactive.                                                         *)
SendHeaders(k, u, g, skip) ==
    LET r == IF u.ss = "open" THEN PrepareWarpHeader(u)
             ELSE PrepareWarpObjectHeader(u, g, skip)
    IN IF r.msg # <<>>
       THEN /\ sUni' = [sUni EXCEPT ![k] = r.u]
            /\ down' = Send(k, r.msg)
       ELSE IF r.u.ss = "all_sent"
       THEN /\ sUni' = [sUni EXCEPT ![k] = None]
            /\ down' = Send(k, <<[t |-> "fin"]>>)
       ELSE /\ sUni' = [sUni EXCEPT ![k] = [r.u EXCEPT !.act = FALSE]]
            /\ UNCHANGED down

(* picoquic_callback_prepare_to_send on an active uni stream. *)
PrepareUni(k) ==
    /\ status = "ok"
    /\ sUni[k] # None /\ sUni[k].act /\ Room
    /\ LET u == sUni[k] IN
       \/ /\ u.ss = "object_data"
          /\ \E space \in Spaces : SendObjectData(k, u, k[1], space)
       \/ /\ u.ss \in {"open", "header_sent"}
          /\ \E skip \in IF Skip THEN BOOLEAN ELSE {FALSE} : SendHeaders(k, u, k[1], skip)
    /\ UNCHANGED <<mode, pub, fin, sCtl, cCtl, cUni, up, got, status>>

(* quicrq_prepare_to_send_on_stream on the server's control stream: when  *)
(* ready, the final point is sent once it is known (FIN_DATAGRAM, then    *)
(* is_final_object_id_sent), else the stream goes inactive; in state      *)
(* sending_fin the FIN is sent and, the peer having finished, the context *)
(* is deleted.                                                            *)
PrepareServerCtl ==
    /\ status = "ok"
    /\ sCtl.live /\ sCtl.act /\ Room
    /\ \/ /\ sCtl.snd = "ready"
          /\ IF fin /\ ~sCtl.finalSent
             THEN /\ sCtl' = [sCtl EXCEPT !.finalSent = TRUE, !.act = FALSE]
                  /\ down' = Send(Ctl, <<[t |-> "final"]>>)
             ELSE /\ sCtl' = [sCtl EXCEPT !.act = FALSE] /\ UNCHANGED down
          /\ UNCHANGED sUni
       \/ /\ sCtl.snd = "sending_fin"
          /\ IF sCtl.pfin
             THEN \E Lost \in SUBSET {k \in Keys : sUni[k] # None} :
                     DeleteServerCtl(Send(Ctl, <<[t |-> "fin"]>>), Lost)
             ELSE /\ sCtl' = [sCtl EXCEPT !.snd = "no_more", !.lfin = TRUE, !.act = FALSE]
                  /\ down' = Send(Ctl, <<[t |-> "fin"]>>)
                  /\ UNCHANGED sUni
    /\ UNCHANGED <<mode, pub, fin, cCtl, cUni, up, got, status>>

(* quicrq_receive_stream_data on the server's control stream: the client's *)
(* FIN.  With the local FIN sent the context is deleted, else the stream   *)
(* moves to sending_fin and is woken.                                     *)
ServerReceiveFin ==
    /\ status = "ok"
    /\ up # <<>> /\ sCtl.live
    /\ up' = Tail(up)
    /\ IF sCtl.lfin
       THEN \E Lost \in SUBSET {k \in Keys : sUni[k] # None} : DeleteServerCtl(down, Lost)
       ELSE /\ sCtl' = [sCtl EXCEPT !.pfin = TRUE, !.snd = "sending_fin", !.act = TRUE]
            /\ UNCHANGED <<sUni, down>>
    /\ UNCHANGED <<mode, pub, fin, cCtl, cUni, got, status>>

---------------------------------------------------------------------------
(* The client.                                                             *)

(* quicrq_cnx_handle_consumer_finished (not in this tree): once the       *)
(* consumer knows the final point and has every object before it, the     *)
(* client closes its control stream with a FIN.                           *)
ConsumerFinished(c, g2) ==
    IF c.learned /\ Objs \subseteq g2 /\ c.snd = "ready"
    THEN [c EXCEPT !.snd = "sending_fin", !.act = TRUE] ELSE c

(* quicrq_delete_stream_ctx at the client: the uni stream contexts        *)
(* chained to the control stream are deleted and unlinked from picoquic;  *)
(* the ones never chained stay in the connection's list.                  *)
DeleteClientCtl(c) ==
    /\ cCtl' = [c EXCEPT !.live = FALSE, !.act = FALSE]
    /\ cUni' = [k \in Keys |-> IF cUni[k] # None /\ cUni[k].chained THEN None ELSE cUni[k]]

(* quicrq_prepare_to_send_on_stream on the client's control stream, which *)
(* is only woken in state sending_fin: the FIN is sent and, the peer      *)
(* having finished, the context is deleted.                                *)
PrepareClientCtl ==
    /\ status = "ok"
    /\ cCtl.live /\ cCtl.act /\ cCtl.snd = "sending_fin"
    /\ up' = Append(up, "fin")
    /\ LET c == [cCtl EXCEPT !.snd = "no_more", !.lfin = TRUE, !.act = FALSE]
       IN IF c.pfin THEN DeleteClientCtl(c) ELSE cCtl' = c /\ UNCHANGED cUni
    /\ UNCHANGED <<mode, pub, fin, sCtl, sUni, down, got, status>>

(* quicrq_receive_stream_data on the client's control stream, the final  *)
(* point (FIN_DATAGRAM): valid in receive state fragment, the state of a  *)
(* warp client (the final_object_id test reads a field the receiver      *)
(* never sets); the consumer learns it.                                   *)
ClientFinalPoint ==
    /\ cCtl' = ConsumerFinished([cCtl EXCEPT !.learned = TRUE], got)
    /\ UNCHANGED <<cUni, status>>

(* quicrq_receive_stream_data on the client's control stream, the FIN:    *)
(* the context is deleted if the local FIN was sent, else it moves to     *)
(* sending_fin.                                                           *)
ClientCtlFin ==
    /\ IF cCtl.lfin
       THEN DeleteClientCtl([cCtl EXCEPT !.pfin = TRUE])
       ELSE cCtl' = [cCtl EXCEPT !.pfin = TRUE, !.snd = "sending_fin", !.act = TRUE]
            /\ UNCHANGED cUni
    /\ UNCHANGED status

(* The context quicrq_find_or_create_uni_stream makes for an unknown uni  *)
(* stream: receive state open, not chained to a control stream.           *)
FreshUni == [rs |-> "open", chained |-> FALSE, cur |-> 0, off |-> 0, len |-> 0]

(* The consumer receives object o of group g of the uni stream k.          *)
Consume(k, x, o) ==
    LET g2 == got \cup {<<k[1], o>>}
    IN /\ got' = g2
       /\ cCtl' = ConsumerFinished(cCtl, g2)

(* quicrq_receive_warp_or_rush_stream_data, one item on uni stream k      *)
(* whose context is x.  Object data in state object_data goes to the      *)
(* consumer (at most the object's remaining length) and completes the     *)
(* object; elsewhere its bytes are read as a message, which may wait for  *)
(* more bytes or fail to decode.  WARP_HEADER is valid in state open and  *)
(* chains the context to the control stream of its media id (protocol    *)
(* error if that is gone).  OBJECT_HEADER is valid after a warp or object *)
(* header on a chained context, with the expected object id (warp) or on  *)
(* a fresh context (rush).  The FIN deletes the context, through its     *)
(* control_stream_ctx.                                                    *)
ReceiveUniItem(k, x, m) ==
    LET Set(y) == cUni' = [cUni EXCEPT ![k] = y]
        Fail == status' = "error" /\ UNCHANGED <<cUni, cCtl, got>>
    IN
    \/ /\ m.t = "data"
       /\ IF x.rs = "object_data"
          THEN LET n == Min({m.n, x.len - x.off})
                   y == [x EXCEPT !.off = @ + n]
               IN /\ IF y.off >= y.len
                     THEN Set([y EXCEPT !.rs = "object_header", !.cur = @ + 1, !.off = 0])
                          /\ Consume(k, x, x.cur)
                     ELSE Set(y) /\ UNCHANGED <<cCtl, got>>
                  /\ UNCHANGED status
          ELSE \E decoded \in BOOLEAN :
                  IF decoded THEN Fail ELSE Set(x) /\ UNCHANGED <<cCtl, got, status>>
    \/ /\ m.t = "hdr"
       /\ IF x.rs # "open" \/ ~cCtl.live
          THEN Fail
          ELSE Set([x EXCEPT !.rs = "warp_header", !.chained = TRUE])
               /\ UNCHANGED <<cCtl, got, status>>
    \/ /\ m.t = "oh"
       /\ IF \/ x.rs \notin {"warp_header", "object_header"}
             \/ ~x.chained
             \/ mode = "rush" /\ x.cur # 0
             \/ mode = "warp" /\ x.cur # m.o
          THEN Fail
          ELSE IF m.len > 0
          THEN Set([x EXCEPT !.rs = "object_data", !.cur = m.o, !.len = m.len, !.off = 0])
               /\ UNCHANGED <<cCtl, got, status>>
          ELSE Set([x EXCEPT !.rs = "object_header", !.cur = @ + 1])
               /\ Consume(k, x, m.o) /\ UNCHANGED status
    \/ /\ m.t = "fin"
       /\ IF x.chained
          THEN Set(None) /\ UNCHANGED <<cCtl, got, status>>
          ELSE status' = "crash" /\ UNCHANGED <<cUni, cCtl, got>>

(* Positions of down the network may deliver next: the head, or with      *)
(* Reorder the first item of any stream.                                  *)
Deliverable ==
    IF Reorder
    THEN {i \in 1..Len(down) : \A j \in 1..(i - 1) : down[j].s # down[i].s}
    ELSE IF down = <<>> THEN {} ELSE {1}

(* picoquic_callback_stream_data / stream_fin at the client: a control    *)
(* stream item, or a uni stream item, creating its context if picoquic    *)
(* holds none.                                                             *)
ClientReceive ==
    /\ status = "ok"
    /\ \E i \in Deliverable :
          /\ down' = RemoveAt(down, i)
          /\ LET it == down[i] IN
             IF it.s = Ctl
             THEN /\ IF it.m.t = "final" THEN ClientFinalPoint ELSE ClientCtlFin
                  /\ UNCHANGED got
             ELSE ReceiveUniItem(it.s, IF cUni[it.s] = None THEN FreshUni ELSE cUni[it.s], it.m)
    /\ UNCHANGED <<mode, pub, fin, sCtl, sUni, up>>

---------------------------------------------------------------------------
Next ==
    \/ SourcePublish \/ SourceFinish
    \/ \E k \in Keys : PrepareUni(k)
    \/ PrepareServerCtl \/ ServerReceiveFin
    \/ PrepareClientCtl \/ ClientReceive

(* picoquic calls prepare_to_send on every active stream and delivers      *)
(* every stream byte; the source is not forced to publish or finish.      *)
Fairness ==
    /\ \A k \in Keys : WF_vars(PrepareUni(k))
    /\ WF_vars(PrepareServerCtl) /\ WF_vars(ServerReceiveFin)
    /\ WF_vars(PrepareClientCtl) /\ WF_vars(ClientReceive)

Spec == Init /\ [][Next]_vars /\ Fairness

---------------------------------------------------------------------------
UniStates == {"open", "header_sent", "object_data"}
RecvStates == {"open", "warp_header", "object_header", "object_data"}
MaxLen == Max(UNION {ToSet(Media[g]) : g \in 1..NbGroups})
MaxObj == Max({Size(g) : g \in 0..(NbGroups - 1)})

(* Every variable holds a value of its type. *)
TypeOK ==
    /\ pub \in 0..Len(Flat) /\ fin \in BOOLEAN
    /\ sCtl.snd \in {"ready", "sending_fin", "no_more"}
    /\ cCtl.snd \in {"ready", "sending_fin", "no_more"}
    /\ \A k \in Keys :
         /\ sUni[k] = None \/
              /\ sUni[k].ss \in UniStates /\ sUni[k].cur \in 0..MaxObj
              /\ sUni[k].off \in 0..(MaxLen - 1) /\ sUni[k].last \in 0..MaxObj
         /\ cUni[k] = None \/
              /\ cUni[k].rs \in RecvStates /\ cUni[k].cur \in 0..MaxObj
              /\ cUni[k].off \in 0..(MaxLen - 1) /\ cUni[k].len \in 0..MaxLen
    /\ got \subseteq Objs
    /\ status \in {"ok", "error", "crash"}

(* No callback of either end fails and none uses a NULL control stream:   *)
(* quicrq_receive_warp_or_rush_stream_data accepts every item the uni      *)
(* streams carry, and a uni FIN always finds its control_stream_ctx.       *)
NoFailure == status = "ok"

(* Once the source has finished, the consumer eventually has every object *)
(* and every context at both ends is deleted: the uni streams by FIN or   *)
(* by their control stream, the control streams by the FIN exchange.      *)
WarpCompletes ==
    fin ~> /\ got = Objs /\ ~sCtl.live /\ ~cCtl.live
           /\ \A k \in Keys : sUni[k] = None /\ cUni[k] = None

====
