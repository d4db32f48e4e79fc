------------------------- MODULE QuicrqMediaStream -------------------------
(***************************************************************************)
(* One media control stream of quicrq (src/lib/quicrq.c), both ends.       *)
(*                                                                         *)
(* The client sends REQUEST (url, transport mode, start intent).  The      *)
(* server opens the media and answers on the same bidirectional stream     *)
(* with control messages chosen by the sender priority of                  *)
(* quicrq_prepare_to_send_on_stream: START_POINT, FIN_DATAGRAM (the final  *)
(* point), CACHE_POLICY and, in single-stream mode, FRAGMENTs carrying the *)
(* media.  Datagram-mode media goes by datagram, one object per datagram,  *)
(* in any order, repeated after a loss (the ack tree that decides repeats   *)
(* is QuicrqAckHorizon).  When the client's consumer has everything up to   *)
(* the final point it closes; FINs in both directions delete both contexts.*)
(*                                                                         *)
(* Data is abstracted to message units: every message is MsgUnits units,  *)
(* its 2-byte length included, and each unit carries the serial number of  *)
(* the message it belongs to.  A receiver that assembles one message from  *)
(* units of two messages has decoded bytes that were never encoded.        *)
(***************************************************************************)
EXTENDS Naturals, Sequences, SequencesExt

CONSTANTS
    Requests,   \* REQUESTs the client may send: transport mode, and the
                \* start object the intent resolves to (0 is none)
    NbObjects,  \* objects the media source can publish
    MinObjects, \* objects the source publishes before it may finish
    RealTime,   \* is_cache_real_time of the opened media
    MsgUnits,   \* length of every encoded message, in units
    Spaces      \* send space picoquic may offer to prepare_to_send

ASSUME /\ Requests \subseteq [mode : {"datagram", "single_stream"}, start : 0..NbObjects]
       /\ Requests # {}
       /\ MinObjects \in 0..NbObjects /\ RealTime \in BOOLEAN
       /\ MsgUnits \in Nat \ {0} /\ Spaces \subseteq 1..MsgUnits /\ Spaces # {}

VARIABLES
    st,         \* st[e]: the stream context at endpoint e
    chan,       \* chan[e]: writes by e not yet read by the peer
    rbuf,       \* rbuf[e]: message_receive, units stored and message_size
    slog,       \* ghost: slog[e][n] is the n-th message e encoded
    rlog,       \* ghost: rlog[e], serial of each message e decoded, 0 if mixed
    avail,      \* objects the media source has published
    finished,   \* the media source has finished
    err,        \* a callback returned an error: the connection is closed
    dg,         \* objects in datagrams sent and not yet received
    dgot        \* objects the client's consumer got by datagram

dgvars == <<dg, dgot>>
vars == <<st, chan, rbuf, slog, rlog, avail, finished, err, dg, dgot>>

Ends == {"cli", "srv"}
Peer(e) == IF e = "cli" THEN "srv" ELSE "cli"
NoFinal == -1

(* quicrq_stream_ctx_t: send_state, receive_state, is_sender, picoquic's  *)
(* active flag, message_sent (mid: serial of the encoded message, 0 when  *)
(* message_size = 0; nread: nb_bytes_read), is_local/peer_finished,       *)
(* transport_mode, start_object_id, is_start_object_id_sent,              *)
(* final_object_id, is_final_object_id_sent, is_cache_real_time,          *)
(* is_cache_policy_sent, next_object_id.  `learned' is the final point     *)
(* the client's consumer was given.                                       *)
NoCtx == [snd |-> "none", rcv |-> "none", sender |-> FALSE, act |-> FALSE,
          mid |-> 0, nread |-> 0, lfin |-> FALSE, pfin |-> FALSE,
          mode |-> "none", start |-> 0, startSent |-> FALSE,
          final |-> NoFinal, finalSent |-> FALSE, rt |-> FALSE,
          cacheSent |-> FALSE, nxt |-> 0, learned |-> NoFinal]

(* quicrq_create_stream_context zeroes the context. *)
CreatedCtx == [NoCtx EXCEPT !.snd = "ready", !.rcv = "initial"]

Msgs == [m : {"request"}, v : Requests]
        \cup [m : {"start_point", "final_point"}, v : 0..NbObjects]
        \cup [m : {"cache_policy"}, v : {1}]
        \cup [m : {"fragment"}, v : [obj : 0..NbObjects, skip : BOOLEAN]]

Init ==
    /\ st = [e \in Ends |-> NoCtx]
    /\ chan = [e \in Ends |-> <<>>]
    /\ rbuf = [e \in Ends |-> [units |-> <<>>, size |-> 0]]
    /\ slog = [e \in Ends |-> <<>>]
    /\ rlog = [e \in Ends |-> <<>>]
    /\ avail = 0
    /\ finished = FALSE
    /\ err = FALSE
    /\ dg = {} /\ dgot = {}

(* A write on the stream: units tagged with message serials, and the FIN. *)
Write(ids, fin) == [ids |-> ids, fin |-> fin]
Units(mid, n) == [i \in 1..n |-> mid]

(* Encoding a message into message_sent: msg_buffer_alloc and the encoder *)
(* set buffer and message_size; nb_bytes_read is left as it is.           *)
Encode(x, e, msg, state) ==
    [x |-> [x EXCEPT !.mid = Len(slog[e]) + 1, !.snd = state],
     log |-> Append(slog[e], msg)]

(* Mutants: the buffer is not emptied after the last byte; a cut message *)
(* does not keep the stream active.                                       *)
MsgBufferPrepareToSendNoReset(x, space, more) ==
    LET whole == MsgUnits - x.nread <= space
    IN [x EXCEPT !.nread = @ + IF whole THEN MsgUnits - x.nread ELSE space,
                 !.snd = IF whole THEN "ready" ELSE @,
                 !.act = more \/ ~whole]
MsgBufferPrepareToSendCutIdle(x, space, more) ==
    LET whole == MsgUnits - x.nread <= space
    IN [x EXCEPT !.nread = IF whole THEN 0 ELSE @ + space,
                 !.mid = IF whole THEN 0 ELSE @,
                 !.snd = IF whole THEN "ready" ELSE @,
                 !.act = more]

(* quicrq_msg_buffer_prepare_to_send: send what is left of message_sent,  *)
(* at most space; when all is sent, empty the buffer and go sending_ready; *)
(* the stream stays active iff more_to_send or the message was cut.       *)
MsgBufferPrepareToSend(x, space, more) ==
    LET whole == MsgUnits - x.nread <= space
    IN [x EXCEPT !.nread = IF whole THEN 0 ELSE @ + space,
                 !.mid = IF whole THEN 0 ELSE @,
                 !.snd = IF whole THEN "ready" ELSE @,
                 !.act = more \/ ~whole]
(* Mutant: the whole space is filled, past the end of the message. *)
SentUnitsFill(x, space) == Units(x.mid, space)
SentUnits(x, space) ==
    Units(x.mid, IF MsgUnits - x.nread <= space THEN MsgUnits - x.nread ELSE space)

(* quicrq_delete_stream_ctx: the context is freed and picoquic forgets   *)
(* the stream.                                                            *)
DeleteStreamCtx(y) == [y EXCEPT !.snd = "deleted", !.act = FALSE, !.mid = 0, !.nread = 0]

(* quicrq_fragment_is_ready_to_send (quicrq_fragment.c, not in this      *)
(* tree): an object is waiting, or the end of the media is.              *)
FragmentReadyToSend(x) == x.nxt < avail \/ finished

(* Mutant: the start point is re-encoded though already sent. *)
PrepareReadyRepeatStart(e) ==
    LET x == st[e]
    IN IF x.snd # "ready" \/ ~x.sender THEN [x |-> x, log |-> slog[e]]
       ELSE IF x.start > 0
            THEN Encode(x, e, [m |-> "start_point", v |-> x.start], "sending_start_point")
       ELSE IF x.final > 0 /\ ~x.finalSent
            THEN Encode(x, e, [m |-> "final_point", v |-> x.final], "sending_final_point")
       ELSE IF x.rt /\ ~x.cacheSent
            THEN Encode(x, e, [m |-> "cache_policy", v |-> 1], "sending_cache_policy")
       ELSE IF x.mode = "single_stream" /\ FragmentReadyToSend(x)
            THEN [x |-> [x EXCEPT !.snd = "sending_single_stream"], log |-> slog[e]]
       ELSE [x |-> [x EXCEPT !.act = FALSE], log |-> slog[e]]

(* The sending_ready branch of quicrq_prepare_to_send_on_stream: a sender *)
(* encodes the first of start point, final point and cache policy still  *)
(* to send (quicrq_prepare_start_point for the first), or starts sending  *)
(* media in single-stream mode, or goes inactive.  A receiver only logs.  *)
PrepareReady(e) ==
    LET x == st[e]
    IN IF x.snd # "ready" \/ ~x.sender THEN [x |-> x, log |-> slog[e]]
       ELSE IF x.start > 0 /\ ~x.startSent
            THEN Encode(x, e, [m |-> "start_point", v |-> x.start], "sending_start_point")
       ELSE IF x.final > 0 /\ ~x.finalSent
            THEN Encode(x, e, [m |-> "final_point", v |-> x.final], "sending_final_point")
       ELSE IF x.rt /\ ~x.cacheSent
            THEN Encode(x, e, [m |-> "cache_policy", v |-> 1], "sending_cache_policy")
       ELSE IF x.mode = "single_stream" /\ FragmentReadyToSend(x)
            THEN [x |-> [x EXCEPT !.snd = "sending_single_stream"], log |-> slog[e]]
       ELSE [x |-> [x EXCEPT !.act = FALSE], log |-> slog[e]]

(* The outcome of one case of the send_state switch. *)
Emit(e, y, log, w) ==
    /\ st' = [st EXCEPT ![e] = y]
    /\ slog' = [slog EXCEPT ![e] = log]
    /\ chan' = IF w = Write(<<>>, FALSE) THEN chan ELSE [chan EXCEPT ![e] = Append(@, w)]

(* Mutant: a skipped object does not advance next_object_id. *)
MediaToStreamSkipStays(e, x, log, skip) ==
    LET id == Len(log) + 1
        ended == finished /\ x.nxt + 1 = avail
        sent == [x EXCEPT !.nxt = IF skip THEN @ ELSE @ + 1, !.act = TRUE,
                          !.final = IF ended THEN x.nxt + 1 ELSE @,
                          !.snd = IF ended THEN "ready" ELSE @]
    IN \/ /\ x.nxt < avail
          /\ Emit(e, sent, Append(log, [m |-> "fragment", v |-> [obj |-> x.nxt, skip |-> skip]]),
                  Write(Units(id, MsgUnits), FALSE))
       \/ /\ x.nxt >= avail /\ finished /\ ~skip
          /\ Emit(e, [x EXCEPT !.final = x.nxt, !.lfin = TRUE, !.finalSent = TRUE, !.act = FALSE],
                  Append(log, [m |-> "final_point", v |-> x.nxt]),
                  Write(Units(id, MsgUnits), TRUE))
       \/ /\ x.nxt >= avail /\ ~finished /\ ~skip
          /\ Emit(e, [x EXCEPT !.act = FALSE], log, Write(<<>>, FALSE))

(* quicrq_prepare_to_send_media_to_stream: ask the publisher for the next *)
(* object.  A skipped object goes as a zero-length FRAGMENT with flags    *)
(* 0xFF; with nothing left and the media finished, FIN_DATAGRAM goes at   *)
(* once with the stream FIN; with nothing available the stream sleeps.   *)
(* When the publisher reports the end after an object, the final point is *)
(* the next object and send_state returns to sending_ready.              *)
MediaToStream(e, x, log, skip) ==
    LET id == Len(log) + 1
        ended == finished /\ x.nxt + 1 = avail
        sent == [x EXCEPT !.nxt = @ + 1, !.act = TRUE,
                          !.final = IF ended THEN x.nxt + 1 ELSE @,
                          !.snd = IF ended THEN "ready" ELSE @]
    IN \/ /\ x.nxt < avail
          /\ Emit(e, sent, Append(log, [m |-> "fragment", v |-> [obj |-> x.nxt, skip |-> skip]]),
                  Write(Units(id, MsgUnits), FALSE))
       \/ /\ x.nxt >= avail /\ finished /\ ~skip
          /\ Emit(e, [x EXCEPT !.final = x.nxt, !.lfin = TRUE, !.finalSent = TRUE, !.act = FALSE],
                  Append(log, [m |-> "final_point", v |-> x.nxt]),
                  Write(Units(id, MsgUnits), TRUE))
       \/ /\ x.nxt >= avail /\ ~finished /\ ~skip
          /\ Emit(e, [x EXCEPT !.act = FALSE], log, Write(<<>>, FALSE))

(* Mutant: the final point goes sending_ready whether or not it was sent *)
(* whole, as the start point and cache policy cases do.                    *)
SendOnStreamFinalNoCheck(e, x, log, space) ==
    LET y(more) == MsgBufferPrepareToSend(x, space, more)
        w == Write(SentUnits(x, space), FALSE)
    IN \/ x.snd = "ready" /\ Emit(e, [x EXCEPT !.act = FALSE], log, Write(<<>>, FALSE))
       \/ x.snd = "sending_initial"
          /\ Emit(e, y(x.final > 0 /\ ~x.finalSent), log, w)
       \/ x.snd = "sending_final_point"
          /\ Emit(e, [y(FALSE) EXCEPT !.finalSent = TRUE, !.snd = "ready"], log, w)
       \/ x.snd = "sending_start_point"
          /\ Emit(e, [y(~x.cacheSent /\ x.rt) EXCEPT !.startSent = TRUE, !.snd = "ready"], log, w)
       \/ x.snd = "sending_cache_policy"
          /\ Emit(e, [y(~x.startSent /\ x.start > 0) EXCEPT !.cacheSent = TRUE, !.snd = "ready"], log, w)
       \/ x.snd = "sending_single_stream"
          /\ \E skip \in BOOLEAN : MediaToStream(e, x, log, skip)
       \/ x.snd = "sending_fin"
          /\ LET z == [x EXCEPT !.snd = "no_more", !.lfin = TRUE, !.act = FALSE]
             IN Emit(e, IF x.pfin THEN DeleteStreamCtx(z) ELSE z, log, Write(<<>>, TRUE))

(* The send_state switch of quicrq_prepare_to_send_on_stream. *)
SendOnStream(e, x, log, space) ==
    LET y(more) == MsgBufferPrepareToSend(x, space, more)
        w == Write(SentUnits(x, space), FALSE)
    IN \/ x.snd = "ready" /\ Emit(e, [x EXCEPT !.act = FALSE], log, Write(<<>>, FALSE))
       \/ x.snd = "sending_initial"
          /\ Emit(e, y(x.final > 0 /\ ~x.finalSent), log, w)
       \/ x.snd = "sending_final_point"
          /\ Emit(e, IF y(FALSE).snd = "ready" THEN [y(FALSE) EXCEPT !.finalSent = TRUE] ELSE y(FALSE),
                  log, w)
       \/ x.snd = "sending_start_point"
          /\ Emit(e, [y(~x.cacheSent /\ x.rt) EXCEPT !.startSent = TRUE, !.snd = "ready"], log, w)
       \/ x.snd = "sending_cache_policy"
          /\ Emit(e, [y(~x.startSent /\ x.start > 0) EXCEPT !.cacheSent = TRUE, !.snd = "ready"], log, w)
       \/ x.snd = "sending_single_stream"
          /\ \E skip \in BOOLEAN : MediaToStream(e, x, log, skip)
       \/ x.snd = "sending_fin"
          /\ LET z == [x EXCEPT !.snd = "no_more", !.lfin = TRUE, !.act = FALSE]
             IN Emit(e, IF x.pfin THEN DeleteStreamCtx(z) ELSE z, log, Write(<<>>, TRUE))

(* The send space offered to a context about to send x.snd.  picoquic     *)
(* never provides less than 17 bytes (quicrq.c:224), more than a start    *)
(* point or cache policy message (a type and two varints), so these two   *)
(* always fit; the other messages may be cut.                             *)
OfferedSpaces(x) ==
    IF x.snd \in {"sending_start_point", "sending_cache_policy"}
    THEN {MsgUnits} ELSE Spaces

(* picoquic_callback_prepare_to_send on the active control stream. *)
PrepareToSendOnStream(e) ==
    /\ ~err
    /\ st[e].act
    /\ LET r == PrepareReady(e) IN
          \E space \in OfferedSpaces(r.x) : SendOnStream(e, r.x, r.log, space)
    /\ UNCHANGED <<rbuf, rlog, avail, finished, err>> /\ UNCHANGED dgvars

---------------------------------------------------------------------------
(* quicrq_receive_stream_data, dispatch of one decoded message.  Returns  *)
(* the context, the encoded-message log and the callback's error.         *)

(* REQUEST: open the local media (quicrq_subscribe_local_media, which     *)
(* wakes the stream), become the sender, apply the start intent: a start  *)
(* point is encoded at once (quicrq_prepare_start_point); else a          *)
(* single-stream sender starts sending media; else datagrams will carry   *)
(* the media and the stream is ready.                                     *)
OnRequest(e, x, v) ==
    LET y == [x EXCEPT !.sender = TRUE, !.mode = v.mode, !.rt = RealTime,
                       !.rcv = "done", !.act = TRUE]
    IN IF v.start > 0
       THEN LET r == Encode([y EXCEPT !.start = v.start, !.nxt = v.start], e,
                            [m |-> "start_point", v |-> v.start], "sending_start_point")
            IN [x |-> r.x, log |-> r.log, err |-> FALSE]
       ELSE IF v.mode = "single_stream"
       THEN [x |-> [y EXCEPT !.snd = "sending_single_stream"], log |-> slog[e], err |-> FALSE]
       ELSE [x |-> [y EXCEPT !.snd = "ready"], log |-> slog[e], err |-> FALSE]

(* START_POINT: valid once, in receive_fragment; passed to the consumer. *)
OnStartPoint(x, v) ==
    [x |-> [x EXCEPT !.start = v], err |-> x.rcv # "fragment" \/ x.start # 0]

(* FIN_DATAGRAM: valid in receive_fragment unless a final point is known;  *)
(* the test reads final_object_id twice and the receiving context never   *)
(* sets it, so only the receive state is checked.  The consumer learns the *)
(* final point.                                                           *)
OnFinalPoint(x, v) ==
    [x |-> [x EXCEPT !.learned = v], err |-> x.rcv # "fragment" \/ x.final # NoFinal]

(* CACHE_POLICY: valid in receive_fragment while not yet real time. *)
OnCachePolicy(x) ==
    [x |-> [x EXCEPT !.rt = TRUE], err |-> x.rcv # "fragment" \/ x.rt]

(* FRAGMENT: valid in receive_fragment; the data goes to the consumer. *)
OnFragment(x) == [x |-> x, err |-> x.rcv # "fragment"]

Dispatch(e, x, msg) ==
    CASE msg.m = "request" /\ x.rcv # "initial" -> [x |-> x, log |-> slog[e], err |-> TRUE]
      [] msg.m = "request" -> OnRequest(e, x, msg.v)
      [] OTHER -> LET r == CASE msg.m = "start_point" -> OnStartPoint(x, msg.v)
                             [] msg.m = "final_point" -> OnFinalPoint(x, msg.v)
                             [] msg.m = "cache_policy" -> OnCachePolicy(x)
                             [] msg.m = "fragment" -> OnFragment(x)
                  IN [x |-> r.x, log |-> slog[e], err |-> r.err]

(* Unit i of the 2-byte length that quicrq_msg_buffer_prepare_to_send_    *)
(* message writes before every message: message_size, high byte first.    *)
LenByte(i) == IF i = 1 THEN ((MsgUnits - 2) \div 256) % 256 ELSE (MsgUnits - 2) % 256

(* quicrq_msg_buffer_store: while fewer than two units are stored, shift   *)
(* the next one into message_size; then store at most the message_size    *)
(* units still required.  The message is finished once they are all there. *)
MsgBufferStore(rb, ids) ==
    LET np == IF Len(rb.units) >= 2 THEN 0 ELSE Min({2 - Len(rb.units), Len(ids)})
        size == FoldLeft(LAMBDA z, i : z * 256 + LenByte(i), rb.size,
                         [j \in 1..np |-> Len(rb.units) + j])
        stored == Len(rb.units) + np
        required == size - (stored - 2)
        left == Len(ids) - np
        take == IF stored < 2 THEN 0 ELSE Min({required, left})
    IN [rb |-> [units |-> rb.units \o SubSeq(ids, 1, np + take), size |-> size],
        rest |-> SubSeq(ids, np + take + 1, Len(ids)),
        fin |-> stored >= 2 /\ left >= required]

(* Mutant: the reset leaves message_size, which the next length shifts.   *)
MsgBufferResetKeepSize(rb) == [units |-> <<>>, size |-> rb.size]

(* quicrq_msg_buffer_reset: nb_bytes_read and message_size back to 0. *)
MsgBufferReset(rb) == [units |-> <<>>, size |-> 0]

(* The receive loop over the bytes of one callback: data in receive_done  *)
(* is a protocol violation; quicrq_msg_buffer_store accumulates units     *)
(* until a message is complete, which is decoded and dispatched, and the  *)
(* buffer is reset whatever the handler returned.  A message assembled    *)
(* from two messages' units decodes as the message its first units came   *)
(* from, with its fields taken from the others.                           *)
RECURSIVE ReceiveLoop(_, _, _, _, _, _)
ReceiveLoop(e, x, rb, ids, rl, log) ==
    IF ids = <<>> THEN [x |-> x, rb |-> rb, rl |-> rl, log |-> log, err |-> FALSE]
    ELSE IF x.rcv = "done" THEN [x |-> x, rb |-> rb, rl |-> rl, log |-> log, err |-> TRUE]
    ELSE LET s == MsgBufferStore(rb, ids)
             b == s.rb.units
         IN IF ~s.fin
            THEN [x |-> x, rb |-> s.rb, rl |-> rl, log |-> log, err |-> FALSE]
            ELSE LET mixed == \E i \in DOMAIN b : b[i] # b[1]
                     d == Dispatch(e, x, slog[Peer(e)][b[1]])
                     rl2 == Append(rl, IF mixed THEN 0 ELSE b[1])
                 IN IF d.err
                    THEN [x |-> d.x, rb |-> MsgBufferReset(s.rb), rl |-> rl2, log |-> d.log, err |-> TRUE]
                    ELSE ReceiveLoop(e, d.x, MsgBufferReset(s.rb), s.rest, rl2, d.log)

(* Mutant: the FIN sets sending_fin but leaves the stream inactive. *)
OnFinNoActivate(x) ==
    LET y == [x EXCEPT !.pfin = TRUE]
    IN IF x.lfin THEN DeleteStreamCtx(y) ELSE [y EXCEPT !.snd = "sending_fin"]

(* The FIN, after the loop: the peer is finished; delete the context if   *)
(* the local side is finished, else send_state becomes sending_fin and the *)
(* stream is marked active.                                               *)
OnFin(x) ==
    LET y == [x EXCEPT !.pfin = TRUE]
    IN IF x.lfin THEN DeleteStreamCtx(y) ELSE [y EXCEPT !.snd = "sending_fin", !.act = TRUE]

(* picoquic_callback_stream_data / stream_fin on the control stream: find *)
(* or create the context, then quicrq_receive_stream_data.                *)
ReceiveStreamData(e) ==
    /\ ~err
    /\ chan[Peer(e)] # <<>>
    /\ LET w == Head(chan[Peer(e)])
           x0 == IF st[e].snd \in {"none", "deleted"} THEN CreatedCtx ELSE st[e]
           r == ReceiveLoop(e, x0, rbuf[e], w.ids, rlog[e], slog[e])
       IN /\ chan' = [chan EXCEPT ![Peer(e)] = Tail(@)]
          /\ st' = [st EXCEPT ![e] = IF w.fin THEN OnFin(r.x) ELSE r.x]
          /\ rbuf' = [rbuf EXCEPT ![e] = r.rb]
          /\ rlog' = [rlog EXCEPT ![e] = r.rl]
          /\ slog' = [slog EXCEPT ![e] = r.log]
          /\ err' = r.err
    /\ UNCHANGED <<avail, finished>> /\ UNCHANGED dgvars

---------------------------------------------------------------------------
(* Application and media source *)

(* quicrq_cnx_subscribe_media (not in this tree): create the stream,      *)
(* encode REQUEST, send_state sending_initial, receive_state              *)
(* receive_fragment, mark the stream active.                              *)
SubscribeMedia(req) ==
    /\ ~err
    /\ st["cli"].snd = "none"
    /\ LET r == Encode([CreatedCtx EXCEPT !.rcv = "fragment", !.mode = req.mode, !.act = TRUE],
                       "cli", [m |-> "request", v |-> req],
                       "sending_initial")
       IN /\ st' = [st EXCEPT !["cli"] = r.x]
          /\ slog' = [slog EXCEPT !["cli"] = r.log]
    /\ UNCHANGED <<chan, rbuf, rlog, avail, finished, err>> /\ UNCHANGED dgvars

(* The media source (quicrq_fragment.c, not in this tree) publishes an    *)
(* object or finishes, and wakes the sending stream.                      *)
WakeUp == IF st["srv"].snd \in {"none", "deleted"} THEN st
          ELSE [st EXCEPT !["srv"].act = TRUE]
SourcePublish ==
    /\ ~err /\ ~finished
    /\ avail < NbObjects
    /\ avail' = avail + 1
    /\ st' = WakeUp
    /\ UNCHANGED <<chan, rbuf, slog, rlog, finished, err>> /\ UNCHANGED dgvars
SourceFinish ==
    /\ ~err /\ ~finished
    /\ avail >= MinObjects
    /\ finished' = TRUE
    /\ st' = WakeUp
    /\ UNCHANGED <<chan, rbuf, slog, rlog, avail, err>> /\ UNCHANGED dgvars

(* quicrq_prepare_to_send_datagram: the datagram publisher of the        *)
(* server's datagram-mode sender (quicrq_fragment_datagram_publisher_fn,   *)
(* not in this tree) sends the next object, from the start point on.       *)
SendDatagram ==
    LET x == st["srv"]
    IN /\ ~err
       /\ x.sender /\ x.mode = "datagram" /\ x.snd # "deleted"
       /\ x.nxt < avail
       /\ dg' = dg \cup {x.nxt}
       /\ st' = [st EXCEPT !["srv"].nxt = @ + 1]
       /\ UNCHANGED <<chan, rbuf, slog, rlog, avail, finished, err, dgot>>

(* picoquic_callback_datagram_lost, then quicrq_datagram_handle_lost: a    *)
(* copy of an object sent is sent again while the sender's context lives.  *)
(* A loss may be spurious, so the copy may follow a datagram that arrived. *)
RepeatDatagram(o) ==
    LET x == st["srv"]
    IN /\ ~err
       /\ x.sender /\ x.mode = "datagram" /\ x.snd # "deleted"
       /\ o \in x.start..(x.nxt - 1) /\ o \notin dg
       /\ dg' = dg \cup {o}
       /\ UNCHANGED <<st, chan, rbuf, slog, rlog, avail, finished, err, dgot>>

(* Mutant: a datagram with no context closes the connection, as if the    *)
(* client's media id were not below next_media_id.                        *)
ReceiveDatagramLateError(o) ==
    LET x == st["cli"]
        known == x.snd \notin {"none", "deleted"} /\ x.mode = "datagram"
    IN /\ ~err /\ o \in dg
       /\ dg' = dg \ {o}
       /\ dgot' = IF known THEN dgot \cup {o} ELSE dgot
       /\ err' = ~known
       /\ UNCHANGED <<st, chan, rbuf, slog, rlog, avail, finished>>

(* quicrq_receive_datagram: quicrq_find_stream_ctx_for_datagram finds the  *)
(* client's datagram-mode context of the media id, whose consumer gets the *)
(* object (one below the start point it knows is counted in             *)
(* useless_fragments, a statistic for the tests).  With no               *)
(* context the datagram is late, for a media id below next_media_id (the   *)
(* client allocated it when it subscribed), and is dropped.               *)
ReceiveDatagram(o) ==
    LET x == st["cli"]
        known == x.snd \notin {"none", "deleted"} /\ x.mode = "datagram"
    IN /\ ~err /\ o \in dg
       /\ dg' = dg \ {o}
       /\ dgot' = IF known THEN dgot \cup {o} ELSE dgot
       /\ UNCHANGED <<st, chan, rbuf, slog, rlog, avail, finished, err>>

(* The datagram publisher sets the final point once the last object is    *)
(* sent, and wakes the control stream.                                    *)
DatagramFinal ==
    LET x == st["srv"]
    IN /\ ~err /\ finished
       /\ x.sender /\ x.mode = "datagram" /\ x.final = NoFinal /\ x.nxt >= avail
       /\ x.snd \notin {"deleted", "sending_fin", "no_more"}
       /\ st' = [st EXCEPT !["srv"] = [x EXCEPT !.final = avail, !.act = TRUE]]
       /\ UNCHANGED <<chan, rbuf, slog, rlog, avail, finished, err>> /\ UNCHANGED dgvars

(* The objects the client's consumer received on the stream, in order. *)
ReceivedObjects ==
    LET frag(n) == n # 0 /\ slog["srv"][n].m = "fragment"
        ids == SelectSeq(rlog["cli"], frag)
    IN [i \in DOMAIN ids |-> slog["srv"][ids[i]].v.obj]

(* quicrq_cnx_handle_consumer_finished (not in this tree): once the       *)
(* consumer has every object up to the final point, the client closes     *)
(* the stream gracefully with a FIN.                                      *)
ConsumerFinished ==
    LET x == st["cli"]
    IN /\ ~err
       /\ x.learned # NoFinal
       /\ \A o \in x.start..(x.learned - 1) :
            o \in IF x.mode = "datagram" THEN dgot ELSE ToSet(ReceivedObjects)
       /\ x.snd = "ready"
       /\ st' = [st EXCEPT !["cli"] = [x EXCEPT !.snd = "sending_fin", !.act = TRUE]]
       /\ UNCHANGED <<chan, rbuf, slog, rlog, avail, finished, err>> /\ UNCHANGED dgvars

---------------------------------------------------------------------------
Next ==
    \/ \E r \in Requests : SubscribeMedia(r)
    \/ SourcePublish \/ SourceFinish \/ DatagramFinal \/ ConsumerFinished
    \/ SendDatagram \/ \E o \in 0..NbObjects : RepeatDatagram(o) \/ ReceiveDatagram(o)
    \/ \E e \in Ends : PrepareToSendOnStream(e) \/ ReceiveStreamData(e)

(* picoquic calls prepare_to_send on an active stream and delivers every   *)
(* stream byte; the datagram loop runs while media is pending and every   *)
(* datagram sent, or its repeat after a loss, arrives (QuicrqAckHorizon    *)
(* shows the repair); the consumer finishes once it has the media.  Loss   *)
(* repeats, the application and the source are not forced to act.        *)
Fairness ==
    /\ \A e \in Ends : WF_vars(PrepareToSendOnStream(e)) /\ WF_vars(ReceiveStreamData(e))
    /\ WF_vars(DatagramFinal) /\ WF_vars(SendDatagram)
    /\ \A o \in 0..NbObjects : WF_vars(ReceiveDatagram(o))
    /\ WF_vars(ConsumerFinished)

Spec == Init /\ [][Next]_vars /\ Fairness

---------------------------------------------------------------------------
(* Every variable holds a value of its type. *)
TypeOK ==
    /\ \A e \in Ends :
         /\ st[e].nread \in 0..(MsgUnits - 1)
         /\ st[e].mid \in 0..Len(slog[e])
         /\ Len(rbuf[e].units) < MsgUnits /\ rbuf[e].size \in {0, MsgUnits - 2}
         /\ slog[e] \in Seq(Msgs)
    /\ avail \in 0..NbObjects
    /\ err \in BOOLEAN
    /\ dg \subseteq 0..(NbObjects - 1) /\ dgot \subseteq 0..(NbObjects - 1)

(* No callback fails: every message arrives in a receive state that takes *)
(* it, at both ends, whatever the send space and the source's timing.     *)
NoProtocolError == ~err

(* Each end decodes exactly the messages the other encoded, in order and  *)
(* whole: whatever the send space and however the reads split the bytes,  *)
(* quicrq_prepare_to_send_on_stream never re-encodes message_sent, nor    *)
(* writes media, while a REQUEST or a FIN_DATAGRAM is half sent,         *)
(* and the receive buffer never mixes two messages.                       *)
ReceivedAsSent ==
    \A e \in Ends : \A i \in DOMAIN rlog[e] : rlog[e][i] = i

(* In single-stream mode the client's consumer gets the objects from the  *)
(* start point of its REQUEST on, each once and in order, skipped ones as *)
(* placeholders.                                                          *)
ObjectsInOrder ==
    slog["cli"] # <<>> =>
        \A i \in DOMAIN ReceivedObjects : ReceivedObjects[i] = slog["cli"][1].v.start + i - 1

(* Once the source has finished and the server has the REQUEST, the       *)
(* stream eventually closes and both contexts are deleted.                *)
MediaCompletes ==
    (finished /\ st["srv"].rcv = "done")
        ~> (st["cli"].snd = "deleted" /\ st["srv"].snd = "deleted")

=============================================================================
