-------------------------- MODULE QuicrqSubscribe --------------------------
(***************************************************************************)
(* Subscribe-pattern control streams of quicrq (src/lib/quicrq.c).         *)
(*                                                                         *)
(* A client opens one bidirectional stream per subscription and sends      *)
(* SUBSCRIBE with a URL prefix (quicrq_cnx_subscribe_pattern).  The server *)
(* creates the stream context on the first bytes, records the prefix and   *)
(* queues a NOTIFY for every known source that matches                     *)
(* (quicrq_process_incoming_subscribe); a source published later is       *)
(* queued by quicrq_notify_url_to_all.  The server sends the queued        *)
(* NOTIFYs (quicrq_prepare_to_send_on_stream); the client hands each URL   *)
(* to its notify callback.  Closing is a FIN in each direction; a stream   *)
(* context is deleted once both FINs are sent and received.                *)
(*                                                                         *)
(* Each action is one picoquic callback or one application call, run to    *)
(* completion on the single event-loop thread.  Messages are cut in       *)
(* chunks of the send space picoquic offers; QUIC delivers them in order   *)
(* and reliably, so a channel is a FIFO sequence.                          *)
(***************************************************************************)
EXTENDS Naturals, Sequences, SequencesExt, Functions

CONSTANTS
    Subs,       \* subscription streams, one per quicrq_cnx_subscribe_pattern call
    Conns,      \* the server's connection contexts (qr_ctx->first_cnx list)
    SubConn,    \* SubConn[s]: the connection stream s belongs to
    URLs,       \* media source URLs
    Match,      \* Match[s]: the URLs that start with the prefix of s
    MsgUnits,   \* length of an encoded SUBSCRIBE or NOTIFY, with its 2-byte size
    Spaces      \* the send space picoquic may offer to prepare_to_send

ASSUME /\ SubConn \in [Subs -> Conns]
       /\ Match \in [Subs -> SUBSET URLs]
       /\ MsgUnits \in Nat \ {0}
       /\ Spaces \subseteq 1..MsgUnits /\ Spaces # {}

VARIABLES
    st,         \* st[e][s]: the stream context of s at endpoint e
    queue,      \* queue[s]: the server's first_notify_url list of s
    order,      \* order[c]: the server's first_stream list of connection c
    chan,       \* chan[e][s]: chunks sent by e on s, not yet received
    sources,    \* the registered media sources, in registration order
    notified,   \* ghost: notified[s], URLs given to the client's media_notify_fn
    err         \* a callback returned an error: picoquic closes the connection

vars == <<st, queue, order, chan, sources, notified, err>>

Ends == {"cli", "srv"}
Peer(e) == IF e = "cli" THEN "srv" ELSE "cli"

(* message_sent: the message being sent; m = "none" is message_size = 0. *)
NoMsg == [m |-> "none", u |-> "none"]

(* A stream context (quicrq_stream_ctx_t): send_state, receive_state,    *)
(* picoquic's active flag, message_sent.nb_bytes_read, message_sent,      *)
(* is_local_finished, is_peer_finished.  snd = "none": not created yet.   *)
NoCtx == [snd |-> "none", rcv |-> "none", act |-> FALSE, prog |-> 0,
          cur |-> NoMsg, lfin |-> FALSE, pfin |-> FALSE]

(* quicrq_create_stream_context zeroes the context: sending_ready and     *)
(* receive_initial are the zero values of the two state enums.            *)
CreatedCtx == [NoCtx EXCEPT !.snd = "ready", !.rcv = "initial"]

SendStates == {"none", "ready", "sending_subscribe", "waiting_notify",
               "notify_ready", "sending_notify", "sending_fin", "no_more",
               "deleted"}
RecvStates == {"none", "initial", "notify", "done"}
Chunks == [m : {"subscribe", "notify"}, u : URLs \cup {"none"}, last : BOOLEAN]
          \cup [m : {"fin"}, u : {"none"}, last : {TRUE}]

Init ==
    /\ st = [e \in Ends |-> [s \in Subs |-> NoCtx]]
    /\ queue = [s \in Subs |-> <<>>]
    /\ order = [c \in Conns |-> <<>>]
    /\ chan = [e \in Ends |-> [s \in Subs |-> <<>>]]
    /\ sources = <<>>
    /\ notified = [s \in Subs |-> <<>>]
    /\ err = FALSE

(* Mutant: nb_bytes_read is not reset once the whole message is sent. *)
MsgBufferPrepareToSendNoReset(x, space, more) ==
    LET left == MsgUnits - x.prog
        whole == left <= space
    IN [x EXCEPT !.prog = IF whole THEN @ + left ELSE @ + space,
                 !.cur = IF whole THEN NoMsg ELSE @,
                 !.snd = IF whole THEN "ready" ELSE @,
                 !.act = more \/ ~whole]

(* quicrq_msg_buffer_prepare_to_send: send what is left of the message,  *)
(* at most space; when all is sent the buffer is empty and send_state is *)
(* sending_ready.  picoquic_provide_stream_data_buffer leaves the stream  *)
(* active iff more_to_send, which is forced on when the message is cut.  *)
MsgBufferPrepareToSend(x, space, more) ==
    LET left == MsgUnits - x.prog
        whole == left <= space
    IN [x EXCEPT !.prog = IF whole THEN 0 ELSE @ + space,
                 !.cur = IF whole THEN NoMsg ELSE @,
                 !.snd = IF whole THEN "ready" ELSE @,
                 !.act = more \/ ~whole]

(* The bytes that call writes on the stream. *)
Chunk(x, space) == [m |-> x.cur.m, u |-> x.cur.u, last |-> MsgUnits - x.prog <= space]

(* One case of the send_state switch that sends message_sent, then moves *)
(* from sending_ready to the state that follows the message.             *)
SendMessage(e, s, x, space, more, after) ==
    LET y == MsgBufferPrepareToSend(x, space, more)
    IN /\ st' = [st EXCEPT ![e][s] = IF y.snd = "ready" THEN [y EXCEPT !.snd = after] ELSE y]
       /\ chan' = [chan EXCEPT ![e][s] = Append(@, Chunk(x, space))]

(* quicrq_delete_stream_ctx: frees the notify list and unlinks the        *)
(* context from its connection; picoquic forgets the stream.             *)
DeleteStreamCtx(e, s, y, ord) ==
    /\ st' = [st EXCEPT ![e][s] = [y EXCEPT !.snd = "deleted", !.act = FALSE,
                                            !.cur = NoMsg, !.prog = 0]]
    /\ queue' = IF e = "srv" THEN [queue EXCEPT ![s] = <<>>] ELSE queue
    /\ order' = IF e = "srv" THEN [ord EXCEPT ![SubConn[s]] = Remove(@, s)] ELSE ord

(* quicrq_wakeup_media_stream (not in this tree): marks the stream active. *)
WakeupMediaStream(x) == [x EXCEPT !.act = TRUE]

(* quicrq_notify_url_to_stream: a URL matching the stored prefix is      *)
(* pushed at the head of first_notify_url.                               *)
NotifyUrlToStream(q, s, u) == IF u \in Match[s] THEN <<u>> \o q ELSE q

(* Mutant: the stream is not woken up after queueing the known sources. *)
ProcessIncomingSubscribeNoWakeup(s, x, ord) ==
    LET q == FoldLeft(LAMBDA acc, u : NotifyUrlToStream(acc, s, u), queue[s], sources)
    IN /\ queue' = [queue EXCEPT ![s] = q]
       /\ st' = [st EXCEPT !["srv"][s] = [x EXCEPT !.rcv = "done", !.snd = "notify_ready"]]
       /\ order' = ord

(* quicrq_process_incoming_subscribe: store the prefix, stop receiving,  *)
(* become notify_ready, and queue every known source that matches.        *)
ProcessIncomingSubscribe(s, x, ord) ==
    LET q == FoldLeft(LAMBDA acc, u : NotifyUrlToStream(acc, s, u), queue[s], sources)
        y == [x EXCEPT !.rcv = "done", !.snd = "notify_ready"]
    IN /\ queue' = [queue EXCEPT ![s] = q]
       /\ st' = [st EXCEPT !["srv"][s] = IF q # queue[s] THEN WakeupMediaStream(y) ELSE y]
       /\ order' = ord

(* quicrq_notify_url_to_all: in each connection, walk the stream list and *)
(* give the URL to the first notify_ready stream whose prefix matches;   *)
(* the loop breaks there.                                                 *)
Eligible(s, u) == st["srv"][s].snd = "notify_ready" /\ u \in Match[s]
FirstEligible(c, u) ==
    {order[c][i] : i \in {i \in DOMAIN order[c] :
                          Eligible(order[c][i], u)
                          /\ \A j \in 1..(i - 1) : ~Eligible(order[c][j], u)}}
NotifyUrlToAll(u) ==
    LET targets == UNION {FirstEligible(c, u) : c \in Conns}
    IN /\ queue' = [s \in Subs |-> IF s \in targets THEN NotifyUrlToStream(queue[s], s, u)
                                                   ELSE queue[s]]
       /\ st' = [st EXCEPT !["srv"] = [s \in Subs |->
                     IF s \in targets THEN WakeupMediaStream(st["srv"][s]) ELSE st["srv"][s]]]

---------------------------------------------------------------------------
(* Application calls *)

(* Mutant: receive_state is left at its zero value, receive_initial. *)
SubscribePatternNoRecvState(s) ==
    /\ ~err
    /\ st["cli"][s].snd = "none"
    /\ st' = [st EXCEPT !["cli"][s] = [CreatedCtx EXCEPT !.snd = "sending_subscribe",
                 !.cur = [m |-> "subscribe", u |-> "none"], !.act = TRUE]]
    /\ UNCHANGED <<queue, order, chan, sources, notified, err>>

(* quicrq_cnx_subscribe_pattern: create the stream, encode SUBSCRIBE,     *)
(* send_state sending_subscribe, receive_state receive_notify, active.    *)
SubscribePattern(s) ==
    /\ ~err
    /\ st["cli"][s].snd = "none"
    /\ st' = [st EXCEPT !["cli"][s] = [CreatedCtx EXCEPT !.snd = "sending_subscribe",
                 !.rcv = "notify", !.cur = [m |-> "subscribe", u |-> "none"], !.act = TRUE]]
    /\ UNCHANGED <<queue, order, chan, sources, notified, err>>

(* quicrq_cnx_subscribe_pattern_close: from waiting_notify, send the FIN. *)
(* In any other state it changes nothing.                                 *)
SubscribePatternClose(s) ==
    /\ ~err
    /\ st["cli"][s].snd = "waiting_notify"
    /\ st' = [st EXCEPT !["cli"][s].snd = "sending_fin", !["cli"][s].act = TRUE]
    /\ UNCHANGED <<queue, order, chan, sources, notified, err>>

(* publish_object_source (quicrq_fragment.c, not in this tree): register *)
(* the source, then quicrq_notify_url_to_all.                             *)
PublishObjectSource(u) ==
    /\ ~err
    /\ u \notin Range(sources)
    /\ sources' = Append(sources, u)
    /\ NotifyUrlToAll(u)
    /\ UNCHANGED <<order, chan, notified, err>>

---------------------------------------------------------------------------
(* picoquic_callback_prepare_to_send: quicrq_prepare_to_send_on_stream,  *)
(* called only while the stream is active.  A stream is never active in  *)
(* sending_ready or waiting_notify here, and never in sending_no_more, so  *)
(* the "nothing to send" and default branches are not actions.            *)

(* Mutant: first_notify_url is not advanced after encoding its head. *)
PrepareNotifyReadyNoPop(s, space) ==
    LET x == st["srv"][s]
    IN /\ x.snd = "notify_ready"
       /\ IF queue[s] # <<>>
          THEN /\ UNCHANGED queue
               /\ SendMessage("srv", s, [x EXCEPT !.snd = "sending_notify",
                                  !.cur = [m |-> "notify", u |-> Head(queue[s])]],
                              space, TRUE, "notify_ready")
          ELSE /\ st' = [st EXCEPT !["srv"][s].act = FALSE]
               /\ UNCHANGED <<queue, chan>>

(* notify_ready: pop the head of the notify list into message_sent and   *)
(* fall into the sending_notify case; with an empty list, go inactive.    *)
PrepareNotifyReady(s, space) ==
    LET x == st["srv"][s]
    IN /\ x.snd = "notify_ready"
       /\ IF queue[s] # <<>>
          THEN /\ queue' = [queue EXCEPT ![s] = Tail(@)]
               /\ SendMessage("srv", s, [x EXCEPT !.snd = "sending_notify",
                                  !.cur = [m |-> "notify", u |-> Head(queue[s])]],
                              space, Tail(queue[s]) # <<>>, "notify_ready")
          ELSE /\ st' = [st EXCEPT !["srv"][s].act = FALSE]
               /\ UNCHANGED <<queue, chan>>

(* sending_notify: the rest of a NOTIFY cut by the send space. *)
PrepareSendingNotify(s, space) ==
    LET x == st["srv"][s]
    IN /\ x.snd = "sending_notify"
       /\ SendMessage("srv", s, x, space, queue[s] # <<>>, "notify_ready")
       /\ UNCHANGED queue

(* sending_subscribe: send SUBSCRIBE, then waiting_notify. *)
PrepareSendingSubscribe(s, space) ==
    LET x == st["cli"][s]
    IN /\ x.snd = "sending_subscribe"
       /\ SendMessage("cli", s, x, space, FALSE, "waiting_notify")
       /\ UNCHANGED queue

(* sending_fin: send the FIN, become no_more and locally finished; delete *)
(* the context if the peer already finished.                              *)
PrepareSendingFin(e, s) ==
    LET x == st[e][s]
        y == [x EXCEPT !.snd = "no_more", !.lfin = TRUE, !.act = FALSE]
    IN /\ x.snd = "sending_fin"
       /\ chan' = [chan EXCEPT ![e][s] = Append(@, [m |-> "fin", u |-> "none", last |-> TRUE])]
       /\ IF x.pfin THEN DeleteStreamCtx(e, s, y, order)
                    ELSE st' = [st EXCEPT ![e][s] = y] /\ UNCHANGED <<queue, order>>

PrepareToSendOnStream(e, s) ==
    /\ ~err
    /\ st[e][s].act
    /\ \/ \E space \in Spaces :
             \/ e = "srv" /\ PrepareNotifyReady(s, space) /\ UNCHANGED order
             \/ e = "srv" /\ PrepareSendingNotify(s, space) /\ UNCHANGED order
             \/ e = "cli" /\ PrepareSendingSubscribe(s, space) /\ UNCHANGED order
       \/ PrepareSendingFin(e, s)
    /\ UNCHANGED <<sources, notified, err>>

---------------------------------------------------------------------------
(* picoquic_callback_stream_data / stream_fin: quicrq_callback finds or   *)
(* creates the context (quicrq_find_or_create_stream, appended to the     *)
(* connection's list), then quicrq_receive_stream_data.                   *)

(* The receive state each message is valid in. *)
Expected == [subscribe |-> "initial", notify |-> "notify"]

(* Message bytes: any data in receive_done is a protocol violation; a     *)
(* completed message is decoded and dispatched on its type.  A NOTIFY in *)
(* the wrong state returns -1 but still calls media_notify_fn.            *)
ReceiveMessage(e, s, x, c, ord) ==
    LET dispatch == c.last /\ x.rcv # "done"
        wrong == x.rcv = "done" \/ (dispatch /\ x.rcv # Expected[c.m])
    IN /\ err' = wrong
       /\ notified' = IF dispatch /\ c.m = "notify"
                      THEN [notified EXCEPT ![s] = Append(@, c.u)] ELSE notified
       /\ IF dispatch /\ c.m = "subscribe" /\ ~wrong
          THEN ProcessIncomingSubscribe(s, x, ord)
          ELSE st' = [st EXCEPT ![e][s] = x] /\ order' = ord /\ UNCHANGED queue

(* Mutant: the peer's FIN moves to sending_fin without waking the stream. *)
ReceiveFinNoActivate(e, s, x, ord) ==
    LET y == [x EXCEPT !.pfin = TRUE]
    IN /\ IF x.lfin THEN DeleteStreamCtx(e, s, y, ord)
                    ELSE /\ st' = [st EXCEPT ![e][s] = [y EXCEPT !.snd = "sending_fin"]]
                         /\ order' = ord /\ UNCHANGED queue
       /\ UNCHANGED <<notified, err>>

(* The FIN: the peer is finished.  Delete the context if the local side  *)
(* finished too; otherwise send_state becomes sending_fin, whatever it    *)
(* was, and the stream is marked active.                                  *)
ReceiveFin(e, s, x, ord) ==
    LET y == [x EXCEPT !.pfin = TRUE]
    IN /\ IF x.lfin THEN DeleteStreamCtx(e, s, y, ord)
                    ELSE /\ st' = [st EXCEPT ![e][s] = [y EXCEPT !.snd = "sending_fin", !.act = TRUE]]
                         /\ order' = ord /\ UNCHANGED queue
       /\ UNCHANGED <<notified, err>>

ReceiveStreamData(e, s) ==
    /\ ~err
    /\ chan[Peer(e)][s] # <<>>
    /\ LET c == Head(chan[Peer(e)][s])
           new == st[e][s].snd \in {"none", "deleted"}
           x == IF new THEN CreatedCtx ELSE st[e][s]
           ord == IF new /\ e = "srv" THEN [order EXCEPT ![SubConn[s]] = Append(@, s)] ELSE order
       IN /\ chan' = [chan EXCEPT ![Peer(e)][s] = Tail(@)]
          /\ \/ c.m = "fin" /\ ReceiveFin(e, s, x, ord)
             \/ c.m = "subscribe" /\ ReceiveMessage(e, s, x, c, ord)
             \/ c.m = "notify" /\ ReceiveMessage(e, s, x, c, ord)
    /\ UNCHANGED sources

---------------------------------------------------------------------------
Next ==
    \/ \E s \in Subs : SubscribePattern(s) \/ SubscribePatternClose(s)
    \/ \E u \in URLs : PublishObjectSource(u)
    \/ \E e \in Ends, s \in Subs : PrepareToSendOnStream(e, s) \/ ReceiveStreamData(e, s)

(* picoquic calls prepare_to_send on every active stream and delivers all *)
(* stream data; the application calls are not forced.                     *)
Fairness ==
    \A e \in Ends, s \in Subs :
        /\ WF_vars(PrepareToSendOnStream(e, s))
        /\ WF_vars(ReceiveStreamData(e, s))

Spec == Init /\ [][Next]_vars /\ Fairness

---------------------------------------------------------------------------
(* Every variable holds a value of its type. *)
TypeOK ==
    /\ \A e \in Ends, s \in Subs :
         /\ st[e][s].snd \in SendStates /\ st[e][s].rcv \in RecvStates
         /\ st[e][s].act \in BOOLEAN /\ st[e][s].prog \in 0..(MsgUnits - 1)
         /\ chan[e][s] \in Seq(Chunks)
    /\ queue \in [Subs -> Seq(URLs)]
    /\ \A c \in Conns : order[c] \in Seq(Subs)
    /\ notified \in [Subs -> Seq(URLs)]
    /\ err \in BOOLEAN

(* The client's media_notify_fn is called only with published URLs that  *)
(* match its prefix, and at most once per URL: the server's notify list   *)
(* (first_notify_url) is popped as each NOTIFY is encoded.                *)
NotifyExact ==
    \A s \in Subs :
        /\ IsInjective(notified[s])
        /\ Range(notified[s]) \subseteq Match[s] \cap Range(sources)

(* No callback ever fails: every message and FIN arrives in a receive    *)
(* state that accepts it, on both ends of every stream, whatever the      *)
(* order of publishes, sends and closes.                                  *)
NoProtocolError == ~err

(* Spec 4.8 and scenario S5: once the server has processed a SUBSCRIBE,   *)
(* every source matching its prefix, published before or after, is        *)
(* eventually notified to the client, unless the client closed first.     *)
ClientClosing(s) == st["cli"][s].snd \in {"sending_fin", "no_more", "deleted"}
AllNotified ==
    \A s \in Subs, u \in URLs :
        (u \in Match[s] /\ u \in Range(sources) /\ st["srv"][s].rcv = "done")
            ~> (u \in Range(notified[s]) \/ ClientClosing(s))

(* quicrq_cnx_subscribe_pattern_close: once the client sends its FIN,     *)
(* the server answers with its own and both contexts are deleted.         *)
CloseCompletes ==
    \A s \in Subs :
        st["cli"][s].snd = "sending_fin"
            ~> (st["cli"][s].snd = "deleted" /\ st["srv"][s].snd = "deleted")

=============================================================================
