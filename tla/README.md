# TLA+ models of quicrq

This directory holds TLA+ models of the QUIC real-time media relay library
in `src/lib/quicrq.c`, the TLC configurations that check them, and
`PROJECT.json`, which lists the components, the runs, the mutants, the map
from definitions to source lines, the findings and the hazards.

## The system

`quicrq.c` is driven by picoquic's single-threaded event loop. Every entry
point is a callback (`quicrq_callback`), or `quicrq_time_check`, which the
application calls on every wake-up. Each callback runs to completion. So the
model's unit of atomicity is one callback, and the interleavings come from the
order in which the transport delivers events.

| Part | Code | Role |
|---|---|---|
| Message buffer | `quicrq_msg_buffer_*` (40-188) | Accumulates length-prefixed control messages |
| Control stream protocol | `quicrq_prepare_to_send_on_stream` (1144-1336), `quicrq_receive_stream_data` (1625-1902) | Per-stream send/receive states: subscribe, start point, repair requests, final point, FIN |
| Warp/rush uni streams | 1337-1527, 1916-2071 | One uni stream per group (warp) or object (rush) |
| Subscribe/notify | 1528-1624, 2250-2299 | URL pattern subscriptions and notifications |
| Datagram receive | `quicrq_receive_datagram` (383-470) | Decode, hand to the consumer |
| **Datagram ack tree and horizon** | 471-1042 | Sender-side loss repair for media sent as datagrams |
| Datagram send loop | `quicrq_prepare_to_send_datagram` (1055-1082) | Asks the fragment publisher for the next fragment |
| Time check | `quicrq_time_check` (2331-2365) | Extra repeats, relay cache hook |
| Lifecycle | 2300-2815 | Contexts, connections and streams |

The ack tree parts interact like this. Each datagram sent is recorded by
`quicrq_datagram_ack_init` in a splay tree ordered by (group, object,
offset). picoquic reports each datagram as acked, lost or spurious (lost,
then acknowledged after all) through `quicrq_handle_datagram_ack_nack`.
- An ack marks records acknowledged and may move the *horizon*: everything
  at or below it is acknowledged and forgotten.
- A loss repeats the data through `quicrq_datagram_handle_repeat`. The
  repeat splits a record when the repeat no longer fits in a datagram,
  because the header grows with the queue delay. It may also schedule an
  extra repeat.
- `quicrq_handle_extra_repeat`, called from `quicrq_time_check`, sends the
  extra repeats that are due.

## Modules

- `QuicrqAckHorizon`: one datagram stream's sender. It models the ack tree,
  the horizon, the extra-repeat list, the datagrams in flight, and time.
- `MCQuicrqAckHorizon`: the media shapes given to TLC.
- `QuicrqDatagramWindow`: what the datagram sender promises, without the
  ack tree. Media units are transmitted in order, the peer acknowledges
  transmitted units in any order, and the sender forgets a prefix that is
  all acknowledged. `QuicrqAckHorizon` instantiates it as `Window` with a
  refinement mapping: `sent` is the number of units before the publisher
  cursor, `acked` is `delivered`, and `forgotten` is the number of units
  below the horizon (`quicrq_datagram_check_horizon` < 0), with units
  ranked in the order of `quicrq_datagram_ack_node_compare`.
- `QuicrqSubscribe`: subscribe-pattern streams at both ends. It covers
  SUBSCRIBE, the server's notify list, notify-to-all over the server's
  connections, NOTIFY and the closing FINs.
- `MCQuicrqSubscribe`: subscriptions, connections and URLs given to TLC.
- `QuicrqMediaStream`: one media control stream at both ends. It covers
  REQUEST, the sender's START_POINT, FIN_DATAGRAM and CACHE_POLICY, the
  single-stream media FRAGMENTs, datagram-mode media sent, repeated and
  received by datagram, the consumer's close and the FINs.
- `MCQuicrqMediaStream`: the REQUESTs given to TLC.
- `QuicrqWarp`: one media in warp or rush mode. It covers the server's
  control stream and its uni streams, the client's control stream and the
  uni stream contexts the callback creates, and the path between them.
- `MCQuicrqWarp`: the media shape given to TLC.
- `MCQuicrqMediaStream`: the REQUESTs given to TLC.

### State

| Variable | Code |
|---|---|
| `tree` | The set of `quicrq_datagram_ack_state_t` records. Field `key` is (group_id, object_id, object_offset); `len` is length; `delayed` is queue_delay > 20; `start` is start_time; `last` is last_sent_time; `acked` is is_acked; `xqd` is is_extra_queued; `xdata` is extra_data != NULL; `xtime` is extra_repeat_time. |
| `xq` | The extra_first..extra_last list, as a sequence of keys |
| `horizon` | horizon_group_id, horizon_object_id, horizon_offset, horizon_is_last_fragment. UINT64_MAX is -1, so the code's wrapped `+ 1` and subtractions give the same answers on these small values. |
| `net` | A bag of copies in flight: key, length, send time, and `late` for a copy reported lost that actually arrived |
| `nxt` | The fragment publisher's cursor |
| `delivered` | Ghost: the media units the peer acknowledged |
| `now`, `nLost` | Time in ms; the number of losses, bounded by `MaxLoss` |
| `status` | `"error"` once a callback returned non-zero (picoquic closes the connection); `"crash"` once the code dereferenced a NULL record |

Time is counted in milliseconds, so the NACK filter's 1000 us tolerance is
`+ 1`.

### Actions

Each action is a whole handler, with the helpers it calls as operators:
- `SendDatagram` is `quicrq_prepare_to_send_datagram` together with `ack_init`.
- `DatagramAcked`, `DatagramLost` and `DatagramSpurious` are the three cases
  of `quicrq_handle_datagram_ack_nack`. They use `HandleAck`, `MarkAcked`,
  `Walk` and `JustAfter` for `handle_ack`, and `HandleLost` and
  `RepeatLoop` for `handle_lost` and `handle_repeat`.
- `TimeCheck` is `quicrq_time_check` running `ExtraLoop`
  (`quicrq_handle_extra_repeat`).
- `StreamClose` is `quicrq_delete_stream_ctx`, which first calls
  `quicrq_datagram_ack_ctx_release` (`AckCtxRelease`). That function empties
  the tree through the delete hook `quicrq_datagram_ack_node_delete`
  (`NodeDelete`), which dequeues a record that owns extra data. The variable
  `open` records that the stream context still exists. The constant
  `CanClose` allows the close; it is TRUE only in the delayed run, because
  AllDelivered cannot hold once the sender may give up.
- `DatagramIgnored` is the event handler for a datagram of a deleted
  stream: no stream context is found and the event is dropped.
- `Tick` advances time.
- `Done` is the end: all media sent and every copy reported, or the
  connection closed after a failure, or the stream deleted and every copy
  reported.

A repeat's room for data is chosen from `RepeatCaps` on each call. This
abstracts `PICOQUIC_DATAGRAM_QUEUE_MAX_LENGTH - header_length`, which
shrinks as the encoded queue delay grows. A copy reported lost may have
arrived; it is then reported spurious later.

The fragment publisher is in `quicrq_fragment.c`, which is not in this
tree. Its choice of fragment length (`FragLens`), its cursor (`Advance`) and
its `nb_objects_previous_group` (`NbOpg`) are modelled from the spec.

### QuicrqSubscribe

| Variable | Code |
|---|---|
| `st[e][s]` | The `quicrq_stream_ctx_t` of subscription `s` at the client (`"cli"`) or server (`"srv"`). `snd` is send_state, `rcv` is receive_state, `act` is picoquic's active flag, `prog` is message_sent.nb_bytes_read, `cur` is message_sent, and `lfin`/`pfin` are is_local_finished/is_peer_finished. `snd = "none"` means no context yet, and `"deleted"` means it was freed. |
| `queue[s]` | The server's first_notify_url list |
| `order[c]` | The server's first_stream list of connection `c` |
| `chan[e][s]` | Chunks written by `e` and not yet read: the message type, its URL and whether it ends the message, or the FIN |
| `sources` | Registered media sources, in order |
| `notified[s]` | Ghost: the URLs passed to the client's media_notify_fn |
| `err` | A callback returned -1, so picoquic closes the connection |

The actions:
- The application calls are `SubscribePattern`, `SubscribePatternClose`
  and `PublishObjectSource`.
  - `PublishObjectSource` registers a source and runs `NotifyUrlToAll`.
  - The registration and `quicrq_wakeup_media_stream` live in
    `quicrq_fragment.c` and are modelled from the spec.
- `PrepareToSendOnStream(e, s)` is the prepare-to-send callback on an active
  stream. It covers the notify_ready pre-step and the switch cases
  sending_notify, sending_subscribe and sending_fin.
  - The send space is chosen from `Spaces`.
  - A stream is never active in sending_ready, waiting_notify or no_more in
    this protocol, so those branches are not actions.
- `ReceiveStreamData(e, s)` reads one chunk. It covers find-or-create
  (appending to the connection's stream list), the receive_done check,
  dispatch of a completed SUBSCRIBE (`ProcessIncomingSubscribe`) or NOTIFY,
  and the FIN.

The model assumes that `quicrq_sending_ready` and `quicrq_receive_initial`
are the zero values of their enums, which the header (not in this tree)
fixes. Allocation failures are not modelled.

### QuicrqMediaStream

| Variable | Code |
|---|---|
| `st[e]` | The `quicrq_stream_ctx_t` at `"cli"` or `"srv"`. `snd`, `rcv` and `act` are as in QuicrqSubscribe. `mid` is the message in message_sent and `nread` its nb_bytes_read. `sender` is is_sender, `mode` is transport_mode, `start` the start point, `final` the final point (-1 for none), `startSent`/`finalSent`/`cacheSent` the is_*_sent flags, `rt` is_cache_real_time, `nxt` next_object_id. `learned` is the final point the client's consumer was given. |
| `chan[e]` | Writes by `e` not yet read: the units written (each unit carries the serial of the message it belongs to) and the FIN bit |
| `rbuf[e]` | message_receive: `units` stored so far (nb_bytes_read is their number) and `size`, the message_size shifted in from the length units |
| `slog[e]`, `rlog[e]` | Ghosts: the messages `e` encoded, and the serial of each message `e` decoded (0 for one made of two messages' units) |
| `avail`, `finished` | Objects published by the media source, and whether it has finished |
| `err` | A callback returned -1 |
| `dg` | Objects in datagrams sent and not yet received; a set, so any order, and a repeat of an object already received arrives again |
| `dgot` | Objects the client's consumer got by datagram |

The actions:
- `SubscribeMedia(req)` is `quicrq_cnx_subscribe_media`, which is not in
  this tree: the client encodes REQUEST and goes sending_initial.
- `SourcePublish`, `SourceFinish` and `DatagramFinal` are the media source
  and the datagram publisher (`quicrq_fragment.c`, not in this tree). They
  wake the server stream, and `DatagramFinal` sets the final point once
  the last object is sent.
- `SendDatagram` is `quicrq_prepare_to_send_datagram` for the server's
  datagram-mode context: the next object from the start point on goes as
  one datagram (reassembly of fragments is in `quicrq_fragment.c`, not in
  this tree).
- `RepeatDatagram(o)` is a loss reported by picoquic and
  `quicrq_datagram_handle_lost`: a sent object goes again while the server
  context lives. Which losses are repeated is checked in QuicrqAckHorizon.
- `ReceiveDatagram(o)` is `quicrq_receive_datagram`. The client's
  datagram-mode context (`quicrq_find_stream_ctx_for_datagram`) hands the
  object to the consumer (its useless_fragments statistic is left out).
  With no context the datagram is late, its media id is below
  next_media_id, and it is dropped.
- `ConsumerFinished` is `quicrq_cnx_handle_consumer_finished`: once the
  consumer has every object up to the final point, the client sends its
  FIN.
- `PrepareToSendOnStream(e)` is the whole of
  `quicrq_prepare_to_send_on_stream` for media states: the sending_ready
  priority (start point, final point, cache policy, single-stream media),
  then the switch, with `quicrq_prepare_to_send_media_to_stream` for
  single-stream mode.
- `ReceiveStreamData(e)` is `quicrq_receive_stream_data` for one write: the
  loop over complete messages with the receive_done check, the REQUEST,
  START_POINT, FIN_DATAGRAM, CACHE_POLICY and FRAGMENT handlers, and the
  FIN.

A message is `MsgUnits` units. `quicrq_msg_buffer_alloc` does not reset
nb_bytes_read, so a message encoded while the last one is half sent goes out
from the old offset. The receiver then assembles one message from units of
two, which `rlog` records as 0. The first two units of every message are
its length (`LenByte`, high byte first). On receipt `MsgBufferStore` is
`quicrq_msg_buffer_store`: it shifts the length units into message_size,
possibly over two callbacks when a write ends between them, then stores
the units still required. `MsgBufferReset` clears both after every decoded
message. A single-stream fragment is one whole object
written in one call.

### QuicrqWarp

The state starts after the REQUEST was accepted (the handshake is
QuicrqMediaStream's): the server's control context is a sender in ready
state, the client's is in receive state fragment. `mode` is the REQUEST's
transport mode, chosen in `Init` from `Modes`.

| Variable | Code |
|---|---|
| `sCtl`, `cCtl` | The control `quicrq_stream_ctx_t` at each end: `live` (not yet freed), `snd` send_state, `lfin`/`pfin` is_local_finished/is_peer_finished, `act` active in picoquic; `finalSent` is_final_object_id_sent (server), `learned` the consumer has the final point (client) |
| `sUni[k]` | The server's `quicrq_uni_stream_ctx_t` whose first object is `k`, or `None`: `ss` send_state, `cur`/`off`/`len` current object, offset and length, `last` last_object_id, `act` |
| `cUni[k]` | The client's uni stream context for stream `k`, or `None`: `rs` receive_state, `chained` (control_stream_ctx is not NULL), `cur`/`off`/`len` |
| `down`, `up` | Items written and not yet read: uni and control stream items from the server, the client's control FIN |
| `pub`, `fin` | Objects the source has published, and whether the final point is known |
| `got`, `status` | Ghost: objects the client's consumer has; `"error"` when a callback returned -1, `"crash"` when a NULL control_stream_ctx is used |

The actions:
- `SourcePublish` and `SourceFinish` are the media source and fragment
  cache (`quicrq_fragment.c`, not in this tree): an object enters the
  cache, a new group (warp) or object (rush) opens a uni stream, and the
  streams are woken. `ObjectCount` is `quicrq_fragment_get_object_count`.
- `PrepareUni(k)` is `quicrq_prepare_to_send_on_unistream` with
  `quicrq_prepare_warp_header` and `quicrq_prepare_warp_object_header`:
  object data cut by the send space, a header, or the FIN and the
  deletion of the context.
- `PrepareServerCtl` sends the final point and then the FIN. The deletion
  (`quicrq_delete_stream_ctx`) resets every uni stream still open, whose
  items in flight may then be lost. `ServerReceiveFin` is the client's FIN.
- `ClientReceive` is the callback for one item. A control item is the final
  point or the FIN, and a FIN after the local one deletes the context and
  its chained uni contexts. A uni item goes to
  `quicrq_receive_warp_or_rush_stream_data`, through a fresh unchained
  context when picoquic holds none.
- `PrepareClientCtl` sends the client's FIN, which
  `quicrq_cnx_handle_consumer_finished` (`ConsumerFinished`) requests once
  the consumer has every object and the final point.

QUIC orders each stream and nothing more. With `Reorder = FALSE`, `down`
is one FIFO, as on a lossless path. With `Reorder = TRUE`, the first item
of any stream may be read next. A uni stream header is written whole:
under the 17-byte floor of `quicrq.c:224` a WARP_HEADER or OBJECT_HEADER
always fits. (Were an OBJECT_HEADER cut, it would be abandoned: 1435 has
already moved to the object-data state.) Object data is cut by
`Spaces`. `MaxInFlight` bounds the unread items: picoquic asks a stream
for data only while congestion and flow control leave room.

## Runs

| Run | Cfg | Expect | Checks |
|---|---|---|---|
| ack_horizon_safety | `MCQuicrqAckHorizon.cfg` | pass | TypeOK, ExtraQueueConsistent, NoFailure, AllDelivered, ImplementsWindow |
| ack_after_delayed | `MCQuicrqAckHorizonDelayed.cfg` | pass | HorizonSafe, ExtraQueueConsistent, NoFailure |
| horizon_group_stall | `MCQuicrqAckHorizonGroupStall.cfg` | violation | HorizonMaximal |
| repeat_split_duplicate | `MCQuicrqAckHorizonSplitDup.cfg` | violation | NoFailure |
| subscribe_notify | `MCQuicrqSubscribe.cfg` | pass | TypeOK, NotifyExact, NoProtocolError, CloseCompletes |
| notify_shared_connection | `MCQuicrqSubscribeShared.cfg` | violation | AllNotified |
| notify_while_sending | `MCQuicrqSubscribeCut.cfg` | violation | AllNotified |
| media_stream | `MCQuicrqMediaStream.cfg` | pass | TypeOK, NoProtocolError, ObjectsInOrder, ReceivedAsSent, MediaCompletes |
| start_point_stall | `MCQuicrqMediaStreamStartStall.cfg` | violation | MediaCompletes |
| warp_streams | `MCQuicrqWarp.cfg` | pass | TypeOK, NoFailure, WarpCompletes |
| warp_uni_fin_after_close | `MCQuicrqWarpReorder.cfg` | violation | NoFailure |

The properties:
- **HorizonSafe**: every unit below the horizon was acknowledged.
- **ImplementsWindow**: `QuicrqAckHorizon` implements
  `QuicrqDatagramWindow` (the property is `Window!Spec`). Every step either
  transmits the next media, or acknowledges transmitted data and moves the
  horizon forward over acknowledged data only; the horizon never moves
  back (spec 5: "horizon advances monotonically"). It implies
  HorizonSafe, which the delayed run still checks on its own. The window
  has no liveness part: the horizon need not reach the end of the media,
  as finding 1 shows.
- **ExtraQueueConsistent**: the extra-repeat list holds exactly the records
  that own extra data, each once. `node_delete` must dequeue.
- **NoFailure**: no callback returns an error and no NULL record is used.
- **AllDelivered**: the media is eventually all acknowledged.
- **HorizonMaximal**: the spec's rule that the horizon advances over every
  acknowledged record just after it.
- **NotifyExact**: the client is notified only of published URLs that match
  its prefix, each at most once.
- **NoProtocolError**: every message and FIN arrives in a receive state that
  accepts it, at both ends.
- **AllNotified**: once the server has processed a SUBSCRIBE, every matching
  source, published before or after, is eventually notified, unless the
  client closed first.
- **CloseCompletes**: after the client's close, both contexts are deleted.
- **ObjectsInOrder**: in single-stream mode, the objects the client's
  consumer receives are the start point of its REQUEST and the ones after
  it, each once and in order.
- **MediaCompletes**: once the source has finished and the server has the
  REQUEST, both media stream contexts are eventually deleted. In datagram
  mode this needs every datagram from the start point to the final point.
- **ReceivedAsSent**: each end decodes exactly the messages the other
  encoded, whole and in order, though the send space cuts a REQUEST or a
  FIN_DATAGRAM and the peer's reads split the bytes and the 2-byte length
  across callbacks.
- **NoFailure** (QuicrqWarp): no callback at either end returns -1, and no
  uni FIN finds a NULL control_stream_ctx.
- **WarpCompletes**: once the source has finished, the consumer eventually
  has every object, and every control and uni context at both ends is
  deleted.

**Subscribe bounds.**
- There are two subscriptions: `s1` with prefix "video/" (matching u1 and
  u2) and `s2` with "video/camA" (matching u1).
- Both URLs can be published in any order against any stage of either
  subscription. So the server may queue two URLs at once, and a publish can
  land before, during and after SUBSCRIBE processing.
- A message is 2 units. `Spaces = {2}` sends whole messages, and
  `{1, 2}` also cuts them, so a FIN can arrive in the middle of a NOTIFY.
- The passing run cuts messages and puts each subscription on its own
  connection. `AllNotified` fails under cut messages (finding 4), so it is
  checked only by the two violation runs. The shared-connection run puts
  both subscriptions on one connection, with whole messages.

**Subscribe fairness.** picoquic calls prepare-to-send on every active
stream and delivers every stream byte, so `PrepareToSendOnStream` and
`ReceiveStreamData` are weakly fair for each endpoint and stream. The
application calls are not. The system may stop when no stream is active and
the application is idle, so these runs use `CHECK_DEADLOCK FALSE`.

**Media stream bounds.** `media_stream` has three objects, a 3-unit message
and one object before the source may finish. It sends a datagram REQUEST
from 0 and from start points 1 and 2 and a single-stream REQUEST from 0,
with a real-time cache, so every ready-branch message is sent. The send
space (1, 2 or 3 units) cuts every message except a START_POINT or
CACHE_POLICY. picoquic never offers less than 17 bytes (`quicrq.c:224`),
more than these two messages (a type and two varints) need, so they always
fit. The source may publish and
finish before, during or after the REQUEST. Datagrams arrive in any order,
before or after START_POINT and FIN_DATAGRAM, and a repeat can arrive after
the client has deleted its context. Fairness is that of the subscribe
streams, plus `SendDatagram` and `DatagramFinal` (the datagram loop runs
while media is pending), `ReceiveDatagram` (every datagram sent, or its
repeat after a loss, arrives: QuicrqAckHorizon's `AllDelivered`) and
`ConsumerFinished` (the consumer closes once it has the media). Repeats and
the source are not fair, and `MediaCompletes` assumes the source has
finished.

**Warp bounds.**
- `MCMedia` has two groups: objects of 1 and 2 units, then one of 1 unit.
  In warp, group 0's stream learns its last object from the object count
  and group 1's from the final point. Rush opens three streams.
- Object data is cut by the send space (`Spaces = {1, 2}`), and congestion
  may skip any object (`Skip`), which sends a 0-length object.
- `MaxInFlight = 4` in the passing run lets two uni streams' items, a
  control item and a FIN be in flight together (135,727 states). The reorder run needs only 2: a uni FIN and
  the control FIN.

**Warp fairness.** picoquic calls prepare-to-send on every active stream
and delivers every item, so `PrepareUni(k)`, both control prepares,
`ServerReceiveFin` and `ClientReceive` are weakly fair. The source is not,
and `WarpCompletes` assumes it has finished. The system stops once
everything is deleted, so deadlock is not checked.

**Bounds.**
- `MCMedia` has two groups: (2, 1) units and (1). It covers an object
  split into fragments, the next object, and the next group.
- Fragments are up to 2 units and repeats hold 1, so every repeat of a
  2-unit fragment splits.
- Two losses and three time steps let a record be lost, repeated,
  extra-repeated and lost again.
- The delayed run uses one 3-unit object and a 2 ms delay, so the extra
  repeat and a late NACK are distinct in time. It lets the stream close at
  any point, including while records are queued for extra repeat and
  copies are in flight (1,122,532 states, about 1 minute).

**Fairness.** The event loop keeps calling `prepare_datagram` while the
stream is active, so `SendDatagram` is weakly fair. The transport eventually
reports every datagram, so transport events are weakly fair. `time_check`
runs on every wake-up, so `TimeCheck` is weakly fair.
- The last two are written as `[]<>~en \/ []<><<A>>_vars`, where `en` is a
  state predicate equal to `ENABLED <<A>>_vars`.
  - `TransportPending`: every copy is accepted by the acked or spurious
    handler and every event removes it.
  - `ExtraDue`: the guard of `TimeCheck`.
- This keeps TLC from re-evaluating the recursive handlers inside `ENABLED`.
- `Tick` is not fair. Time need not advance, and `AllDelivered` holds
  without it.

**Mutants.** Each property of a passing run is broken by a plausible bug:
- a walk without the `is_acked` test;
- a deletion that leaves the record in the extra list (in the horizon walk,
  and in the delete hook at stream close);
- the ack loop going one record past the acked length;
- a NACK filter without tolerance;
- a split tail given the whole length;
- a NACK filter removed;
- a message buffer whose byte count is not reset;
- a notify list that is not popped;
- a subscribe stream left in receive_initial;
- a peer FIN that does not wake the stream (both modules);
- a message buffer whose byte count is not reset (media stream);
- a receive buffer reset that keeps message_size;
- a start point re-encoded after it was sent;
- a skipped object that does not advance next_object_id;
- a write that fills the whole send space past the message end;
- a cut message that does not keep the stream active;
- a FIN_DATAGRAM marked sent and ready although the space cut it;
- a late datagram treated as an unknown media id;
- a uni stream whose offset is not reset after an object;
- a warp header that leaves the stream in state open;
- a warp stream that takes the final point's object id whatever its group.

## Findings

1. **The horizon stalls at a group boundary** (`quicrq.c:721`). With no
   loss and acks in order, the ack of (g+1, 0, 0) sets no horizon check. The
   horizon stays at the end of group 0 and the tree keeps every record. This
   contradicts spec 4.4 and section 8, property 2.
2. **A late NACK after an extra repeat aborts the connection**
   (`quicrq.c:913`, `878`, `657`). It needs an extra-repeat delay of
   1000 us or less. A NACK for the original copy passes the filter, and its
   repeat re-splits a record whose tail already exists. `ack_init` returns 1,
   and the callback returns it.

3. **A second subscription on a connection is never notified**
   (`quicrq.c:1567`). `quicrq_notify_url_to_all` breaks after the first
   matching notify_ready stream of each connection.
4. **A source published while a NOTIFY is half sent is lost**
   (`quicrq.c:1563`). Only notify_ready streams are considered, and a
   stream whose NOTIFY was cut by the send space is in sending_notify.

Both contradict spec 4.8 ("all matching subscribers").

5. **Single-stream media after a start point can stall**
   (`quicrq.c:1285`). After START_POINT the stream stays active only if
   CACHE_POLICY is pending. If the source has already finished, nothing
   wakes the stream, and the media and FIN_DATAGRAM are never sent.

6. **A uni FIN after the control stream closed crashes the client**
   (`quicrq.c:2065`). QUIC may deliver the server's control FIN before a
   uni stream's FIN. The client then deletes its control stream and the uni
   contexts chained to it. The late FIN gets a fresh, unchained context,
   and `uni_stream_ctx->control_stream_ctx->cnx_ctx` reads through NULL.
   The function's own `cnx_ctx` argument would do. The same race sends a
   late WARP_HEADER to an unknown media id (-1). With in-order delivery
   nothing fails, and every context is deleted.

Not kept as a finding: the sending_start_point and sending_cache_policy
cases (`quicrq.c:1283-1293`) set the message sent and send_state ready
without checking that it was sent whole. A cut would corrupt the stream,
but it needs less send space than the few bytes of these messages, and
picoquic never offers less than 17 (`quicrq.c:224`).

Not kept as a run: a datagram-mode media that finishes before its first
object would have final point 0/0, which the ready branch (`quicrq.c:1157`)
never sends. The model shows the client then never closes, but the final
point of an empty media is set by the publisher, which is not in this tree.

## Not modelled yet, and the plan

Later modules:
1. The start point for the ack horizon (a horizon that never initialises for
   a start group above 0).
2. Several streams sharing one extra-repeat pass.

Out of scope:
- The bytes of the message buffer: messages are units that carry their
  message's serial, which is what the properties tell apart.
- POST and ACCEPT, whose handlers and `quicrq_cnx_accept_media` are not in
  this tree, and sending_repair.
- Fragments split across calls by the send space, and allocation failures.
- Logging and text helpers, which are formatting.
- The tests and build files.
