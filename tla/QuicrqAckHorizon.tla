-------------------------- MODULE QuicrqAckHorizon --------------------------
(***************************************************************************)
(* Sender side of the datagram transport of quicrq (src/lib/quicrq.c):     *)
(* the acknowledgement tree of transmitted fragments, the horizon below    *)
(* which every fragment is acknowledged and forgotten, the repetition of   *)
(* lost fragments (splitting them when they no longer fit a queued         *)
(* datagram), and the extra-repeat queue.                                  *)
(*                                                                         *)
(* One media stream is sent by one stream context.  The media is the       *)
(* constant Media: Media[g+1][o+1] is the length of object o of group g    *)
(* (identifiers are 0-based as in the code).  Lengths and offsets count    *)
(* abstract data units.  Every action is one callback of the picoquic      *)
(* event loop (section 5 of the spec: single threaded, callbacks are       *)
(* atomic).                                                                *)
(*                                                                         *)
(* UINT64_MAX, the value of the uninitialised horizon, is represented by   *)
(* -1: for the small values of the model the two's complement arithmetic  *)
(* of the code (differences cast to int64, "+ 1" wrapping to 0) is then    *)
(* ordinary integer arithmetic.                                            *)
(***************************************************************************)
EXTENDS Integers, Sequences, FiniteSets, Bags, BagsExt, FiniteSetsExt

CONSTANTS
    Media,            \* sequence of groups, each a sequence of object lengths
    MaxFragment,      \* largest fragment the publisher puts in one datagram
    RepeatCaps,       \* data that fits a queued datagram, per header size
    ExtraRepeatOnNack,           \* qr_ctx->extra_repeat_on_nack
    ExtraRepeatAfterDelayed,     \* qr_ctx->extra_repeat_after_received_delayed
    ExtraDelay,       \* qr_ctx->extra_repeat_delay, in ticks of 1000 us
    MaxLoss,          \* bound on the number of datagram_lost events
    MaxTime,          \* bound on the clock, in ticks of 1000 us
    CanClose          \* the stream context may be deleted while datagrams are unacknowledged

ASSUME /\ Len(Media) >= 1
       /\ \A g \in 1..Len(Media) : Len(Media[g]) >= 1
       /\ MaxFragment \in Nat \ {0}
       /\ RepeatCaps \subseteq Nat \ {0}
       /\ ExtraRepeatOnNack \in BOOLEAN /\ ExtraRepeatAfterDelayed \in BOOLEAN
       /\ ExtraDelay \in Nat /\ MaxLoss \in Nat /\ MaxTime \in Nat
       /\ CanClose \in BOOLEAN

VARIABLES
    tree,       \* datagram_ack_tree: the set of ack records
    xq,         \* extra_first .. extra_last: keys of records queued for extra repeat
    horizon,    \* horizon_group_id, horizon_object_id, horizon_offset, horizon_is_last_fragment
    nxt,        \* publisher cursor: next (group, object, offset) to send
    net,        \* bag of datagram copies handed to the transport and not yet reported
    delivered,  \* history: data units the peer acknowledged (acked or spurious events)
    now,        \* picoquic_get_quic_time, in ticks of 1000 us
    nLost,      \* number of datagram_lost events so far
    status,     \* "ok", "error" (a callback returned non-zero), "crash" (NULL dereference)
    open        \* the stream context exists (quicrq_delete_stream_ctx not yet called)

vars == <<tree, xq, horizon, nxt, net, delivered, now, nLost, status, open>>

UMAX == -1                        \* UINT64_MAX
NoKey == <<UMAX, UMAX, UMAX>>

NbGroups == Len(Media)
Count(g) == Len(Media[g + 1])     \* number of objects of group g
OLen(g, o) == Media[g + 1][o + 1] \* object_length
Objects == UNION {{<<g, o>> : o \in 0..Count(g) - 1} : g \in 0..NbGroups - 1}
Units == UNION {{<<ob[1], ob[2], b>> : b \in 0..OLen(ob[1], ob[2]) - 1} : ob \in Objects}

\* Length fields of a key <<group_id, object_id, object_offset>>.
KG(k) == k[1]
KO(k) == k[2]
KOff(k) == k[3]

\* A zero length object is sent as a placeholder with flags 0xFF.
IsSkip(k) == OLen(KG(k), KO(k)) = 0

\* nb_objects_previous_group, carried by the first fragment of a group.
NbOpg(k) == IF KG(k) > 0 /\ KO(k) = 0 /\ KOff(k) = 0 THEN Count(KG(k) - 1) ELSE 0

(***************************************************************************)
(* Order of keys: quicrq_datagram_ack_node_compare and                     *)
(* quicrq_datagram_check_horizon.  The sign of the lexicographic           *)
(* difference.                                                             *)
(***************************************************************************)
KeyCmp(a, b) ==
    IF a[1] # b[1] THEN a[1] - b[1]
    ELSE IF a[2] # b[2] THEN a[2] - b[2]
    ELSE a[3] - b[3]

HKey(h) == <<h.g, h.o, h.off>>

(***************************************************************************)
(* The ack tree.  A record is quicrq_datagram_ack_state_t restricted to    *)
(* the fields that change behaviour: object_length, flags and              *)
(* nb_objects_previous_group follow from the key and Media; nack_received  *)
(* and the counters only feed debug output.                                *)
(***************************************************************************)
Rec == [key : (Nat \X Nat \X Nat), len : Nat, delayed : BOOLEAN,
        start : Nat, last : Nat, acked : BOOLEAN,
        xqd : BOOLEAN, xdata : BOOLEAN, xtime : Nat]

Has(T, k) == \E r \in T : r.key = k
Find(T, k) == CHOOSE r \in T : r.key = k
Upd(T, r, r2) == (T \ {r}) \cup {r2}
FirstRec(T) == CHOOSE r \in T : \A s \in T : KeyCmp(r.key, s.key) <= 0
HasSucc(T, r) == \E s \in T : KeyCmp(s.key, r.key) > 0
Succ(T, r) == FirstRec({s \in T : KeyCmp(s.key, r.key) > 0})

\* A datagram copy: the key and data length of its header, its send time,
\* and whether it was declared lost although the peer received it.
Copy(k, l, t, late) == [key |-> k, len |-> l, sent |-> t, late |-> late]
CopyUnits(c) == {<<KG(c.key), KO(c.key), b>> : b \in KOff(c.key)..KOff(c.key) + c.len - 1}

\* The sender state a handler transforms.
Cur == [tree |-> tree, xq |-> xq, net |-> net, status |-> status]

----------------------------------------------------------------------------
(* quicrq_datagram_ack_extra_dequeue *)
ExtraDequeue(S, k) ==
    LET r == Find(S.tree, k) IN
    IF ~r.xdata THEN S
    ELSE [S EXCEPT !.tree = Upd(@, r, [r EXCEPT !.xdata = FALSE, !.xtime = 0]),
                   !.xq = SelectSeq(@, LAMBDA x : x # k)]

(* quicrq_datagram_ack_extra_queue *)
ExtraQueue(S, k, t) ==
    LET r == Find(S.tree, k)
        S1 == IF r.xdata THEN ExtraDequeue(S, k) ELSE S
        r1 == Find(S1.tree, k)
    IN IF r.xqd THEN S
       ELSE [S1 EXCEPT !.tree = Upd(@, r1, [r1 EXCEPT !.xqd = TRUE, !.xdata = TRUE, !.xtime = t]),
                       !.xq = Append(@, k)]

(* quicrq_datagram_ack_init: "below" (below the horizon), "duplicate"      *)
(* (ret = 1) or "created".                                                 *)
AckInit(S, h, k, l, delayed, t) ==
    IF KeyCmp(k, HKey(h)) < 0 THEN [st |-> S, res |-> "below"]
    ELSE IF Has(S.tree, k) THEN [st |-> S, res |-> "duplicate"]
    ELSE LET r == [key |-> k, len |-> l, delayed |-> delayed, start |-> t, last |-> 0,
                   acked |-> FALSE, xqd |-> FALSE, xdata |-> FALSE, xtime |-> 0]
             S1 == [S EXCEPT !.tree = @ \cup {r}]
         IN [st |-> IF ExtraRepeatAfterDelayed /\ ExtraDelay > 0 /\ delayed
                    THEN ExtraQueue(S1, k, t + ExtraDelay) ELSE S1,
             res |-> "created"]

(***************************************************************************)
(* quicrq_datagram_handle_repeat: queue a copy of the lost data under the  *)
(* key of the record; when the data does not fit (more than cap units) the *)
(* record shrinks to the first cap units and a new record is created for   *)
(* the rest by quicrq_datagram_ack_init, with the record's start_time as   *)
(* current time, and the loop continues on it.  dl is the length of the    *)
(* data passed in, not the record's length.  cap is chosen once per call. *)
(***************************************************************************)
(* Mutant of RepeatLoop: the new record for the rest of the data is      *)
(* given the whole data length.                                           *)
RECURSIVE RepeatLoopTailFullLength(_, _, _, _, _, _, _)
RepeatLoopTailFullLength(S, h, k, dl, px, cap, t) ==
    IF ~(dl > 0 \/ IsSkip(k)) THEN S
    ELSE
    LET r  == Find(S.tree, k)
        fl == IF dl > cap THEN cap ELSE dl
        S1 == [S EXCEPT !.tree = Upd(@, r, [r EXCEPT !.last = t]),
                        !.net = BagAdd(@, Copy(k, fl, t, FALSE))]
        S2 == IF px /\ ExtraDelay > 0 THEN ExtraQueue(S1, k, t + ExtraDelay) ELSE S1
        nk == <<KG(k), KO(k), KOff(k) + fl>>
        ini == AckInit(S2, h, nk, dl, r.delayed, r.start)
        r2 == Find(ini.st.tree, k)
    IN IF fl >= dl THEN S2
       ELSE CASE ini.res = "created" ->
                    RepeatLoopTailFullLength([ini.st EXCEPT !.tree = Upd(@, r2, [r2 EXCEPT !.len = fl])],
                               h, nk, dl - fl, px, cap, t)
              [] ini.res = "duplicate" -> [ini.st EXCEPT !.status = "error"]
              [] ini.res = "below" -> [ini.st EXCEPT !.status = "crash"]

RECURSIVE RepeatLoop(_, _, _, _, _, _, _)
RepeatLoop(S, h, k, dl, px, cap, t) ==
    IF ~(dl > 0 \/ IsSkip(k)) THEN S
    ELSE
    LET r  == Find(S.tree, k)
        fl == IF dl > cap THEN cap ELSE dl
        S1 == [S EXCEPT !.tree = Upd(@, r, [r EXCEPT !.last = t]),
                        !.net = BagAdd(@, Copy(k, fl, t, FALSE))]
        S2 == IF px /\ ExtraDelay > 0 THEN ExtraQueue(S1, k, t + ExtraDelay) ELSE S1
        nk == <<KG(k), KO(k), KOff(k) + fl>>
        ini == AckInit(S2, h, nk, dl - fl, r.delayed, r.start)
        r2 == Find(ini.st.tree, k)
    IN IF fl >= dl THEN S2
       ELSE CASE ini.res = "created" ->
                    RepeatLoop([ini.st EXCEPT !.tree = Upd(@, r2, [r2 EXCEPT !.len = fl])],
                               h, nk, dl - fl, px, cap, t)
              [] ini.res = "duplicate" -> [ini.st EXCEPT !.status = "error"]
              [] ini.res = "below" -> [ini.st EXCEPT !.status = "crash"]

(* Mutant of HandleLost: a NACK is only honoured for a copy sent after the *)
(* last transmission (strict comparison, no 1000 us tolerance).            *)
HandleLostStrict(S, h, k, sent, dl, cap, t) ==
    IF ~Has(S.tree, k) THEN S
    ELSE LET r == Find(S.tree, k) IN
         IF r.acked THEN S
         ELSE IF ~r.xqd \/ r.last < sent
              THEN RepeatLoop(S, h, k, dl, ExtraRepeatOnNack, cap, t)
              ELSE S

(* Mutant of HandleLost: every NACK of unacknowledged data is repeated.   *)
HandleLostNoFilter(S, h, k, sent, dl, cap, t) ==
    IF ~Has(S.tree, k) THEN S
    ELSE LET r == Find(S.tree, k) IN
         IF r.acked THEN S
         ELSE RepeatLoop(S, h, k, dl, ExtraRepeatOnNack, cap, t)

(* quicrq_datagram_handle_lost *)
HandleLost(S, h, k, sent, dl, cap, t) ==
    IF ~Has(S.tree, k) THEN S
    ELSE LET r == Find(S.tree, k) IN
         IF r.acked THEN S
         ELSE IF ~r.xqd \/ r.last <= sent + 1
              THEN RepeatLoop(S, h, k, dl, ExtraRepeatOnNack, cap, t)
              ELSE S

----------------------------------------------------------------------------
(***************************************************************************)
(* quicrq_datagram_handle_ack.  The marking loop walks successive records *)
(* while the acknowledged range extends past the current one; the         *)
(* successor is dereferenced without a NULL check ("crash").              *)
(***************************************************************************)
(* Mutant of MarkAcked: the successor is looked up once the acknowledged  *)
(* length is used up exactly (acked_length >= 0 instead of > 0).          *)
RECURSIVE MarkAckedPastEnd(_, _, _)
MarkAckedPastEnd(T, k, alen) ==
    IF ~Has(T, k) \/ alen <= 0 THEN [tree |-> T, crash |-> FALSE]
    ELSE LET r  == Find(T, k)
             T1 == Upd(T, r, [r EXCEPT !.acked = TRUE])
             rest == alen - r.len
             nk == <<KG(k), KO(k), KOff(k) + r.len>>
         IN IF rest < 0 THEN [tree |-> T1, crash |-> FALSE]
            ELSE IF ~HasSucc(T1, r) THEN [tree |-> T1, crash |-> TRUE]
            ELSE IF Succ(T1, r).key # nk THEN [tree |-> T1, crash |-> FALSE]
            ELSE MarkAckedPastEnd(T1, nk, rest)

RECURSIVE MarkAcked(_, _, _)
MarkAcked(T, k, alen) ==
    IF ~Has(T, k) \/ alen <= 0 THEN [tree |-> T, crash |-> FALSE]
    ELSE LET r  == Find(T, k)
             T1 == Upd(T, r, [r EXCEPT !.acked = TRUE])
             rest == alen - r.len
             nk == <<KG(k), KO(k), KOff(k) + r.len>>
         IN IF rest <= 0 THEN [tree |-> T1, crash |-> FALSE]
            ELSE IF ~HasSucc(T1, r) THEN [tree |-> T1, crash |-> TRUE]
            ELSE IF Succ(T1, r).key # nk THEN [tree |-> T1, crash |-> FALSE]
            ELSE MarkAcked(T1, nk, rest)

(* The record d is just after the horizon h (the tests of the walk). *)
JustAfter(d, h) ==
    IF KG(d.key) = h.g
    THEN IF KO(d.key) = h.o THEN KOff(d.key) = h.off
         ELSE h.last /\ KO(d.key) - h.o = 1 /\ KOff(d.key) = 0
    ELSE /\ h.last
         /\ KG(d.key) = h.g + 1
         /\ KOff(d.key) = 0
         /\ NbOpg(d.key) = h.o + 1

(* Mutants of Walk: the acked test is missing; a deleted record is left   *)
(* in the extra-repeat list.                                               *)
RECURSIVE WalkNoAckCheck(_)
WalkNoAckCheck(W) ==
    IF W.tree = {} THEN W
    ELSE LET d == FirstRec(W.tree) IN
         IF ~JustAfter(d, W.h) THEN W
         ELSE LET S == ExtraDequeue(W, d.key)
                  noff == KOff(d.key) + d.len
              IN WalkNoAckCheck([tree |-> S.tree \ {Find(S.tree, d.key)}, xq |-> S.xq,
                       h |-> [g |-> KG(d.key), o |-> KO(d.key), off |-> noff,
                              last |-> noff >= OLen(KG(d.key), KO(d.key))]])

RECURSIVE WalkKeepsExtra(_)
WalkKeepsExtra(W) ==
    IF W.tree = {} THEN W
    ELSE LET d == FirstRec(W.tree) IN
         IF ~d.acked \/ ~JustAfter(d, W.h) THEN W
         ELSE LET noff == KOff(d.key) + d.len
              IN WalkKeepsExtra([tree |-> W.tree \ {d}, xq |-> W.xq,
                       h |-> [g |-> KG(d.key), o |-> KO(d.key), off |-> noff,
                              last |-> noff >= OLen(KG(d.key), KO(d.key))]])

(* Collapse the horizon over the acked records that follow it; a deleted  *)
(* record is removed from the extra queue (quicrq_datagram_ack_node_delete).*)
RECURSIVE Walk(_)
Walk(W) ==
    IF W.tree = {} THEN W
    ELSE LET d == FirstRec(W.tree) IN
         IF ~d.acked \/ ~JustAfter(d, W.h) THEN W
         ELSE LET S == ExtraDequeue(W, d.key)
                  noff == KOff(d.key) + d.len
              IN Walk([tree |-> S.tree \ {Find(S.tree, d.key)}, xq |-> S.xq,
                       h |-> [g |-> KG(d.key), o |-> KO(d.key), off |-> noff,
                              last |-> noff >= OLen(KG(d.key), KO(d.key))]])

HandleAck(S, h, k, l) ==
    LET g == KG(k)  o == KO(k)  off == KOff(k)
        dg == g - h.g
        d  == o - h.o
        branch ==
            IF dg = 0 /\ d = 0
            THEN IF off + l < h.off THEN "below"
                 ELSE IF off < h.off THEN "trim"
                 ELSE IF off = h.off THEN "check"
                 ELSE "mark"
            ELSE IF dg < 0 \/ (dg = 0 /\ d < 0) THEN "below"
            ELSE IF dg = 0 /\ d = 1 /\ h.last /\ off = 0 THEN "check"
            ELSE IF h.g = UMAX THEN "check"
            ELSE "mark"
        aoff == IF branch = "trim" THEN h.off ELSE off
        alen == IF branch = "trim" THEN l - (h.off - off) ELSE l
        M == IF branch = "below" THEN [tree |-> S.tree, crash |-> FALSE]
             ELSE MarkAcked(S.tree, <<g, o, aoff>>, alen)
        W == IF branch \in {"trim", "check"} /\ ~M.crash
             THEN Walk([tree |-> M.tree, xq |-> S.xq, h |-> h])
             ELSE [tree |-> M.tree, xq |-> S.xq, h |-> h]
    IN [st |-> [S EXCEPT !.tree = W.tree, !.xq = W.xq,
                         !.status = IF M.crash THEN "crash" ELSE @],
        h |-> W.h]

----------------------------------------------------------------------------
(* quicrq_handle_extra_repeat, for the one stream: repeat and dequeue     *)
(* every record at the head of the queue whose time has come; the result *)
(* of the repeat is ignored.                                              *)
RECURSIVE ExtraLoop(_, _, _, _)
ExtraLoop(S, h, cap, t) ==
    IF S.xq = <<>> \/ S.status # "ok" THEN S
    ELSE LET k == Head(S.xq)
             r == Find(S.tree, k)
         IN IF r.xtime > t THEN S
            ELSE LET S1 == RepeatLoop(S, h, k, r.len, FALSE, cap, t)
                     S2 == IF S1.status = "error" THEN [S1 EXCEPT !.status = "ok"] ELSE S1
                 IN ExtraLoop(IF S2.status = "crash" THEN S2 ELSE ExtraDequeue(S2, k), h, cap, t)

----------------------------------------------------------------------------
Finished == nxt.g = NbGroups

\* Fragment lengths the publisher may choose at the cursor.
FragLens == IF OLen(nxt.g, nxt.o) = 0 THEN {0}
            ELSE 1..(IF OLen(nxt.g, nxt.o) - nxt.off < MaxFragment
                     THEN OLen(nxt.g, nxt.o) - nxt.off ELSE MaxFragment)

\* queue_delay > 20 of the fragment (a relay forwarding a delayed fragment);
\* only observed when extra repeats after delay are enabled.
Delays == IF ExtraRepeatAfterDelayed THEN BOOLEAN ELSE {FALSE}

Advance(l) ==
    IF nxt.off + l < OLen(nxt.g, nxt.o) THEN [nxt EXCEPT !.off = @ + l]
    ELSE IF nxt.o + 1 < Count(nxt.g) THEN [g |-> nxt.g, o |-> nxt.o + 1, off |-> 0]
    ELSE [g |-> nxt.g + 1, o |-> 0, off |-> 0]

Apply(S) == /\ tree' = S.tree
            /\ xq' = S.xq
            /\ net' = S.net
            /\ status' = S.status

Init ==
    /\ tree = {}
    /\ xq = <<>>
    /\ horizon = [g |-> UMAX, o |-> UMAX, off |-> UMAX, last |-> TRUE]
    /\ nxt = [g |-> 0, o |-> 0, off |-> 0]
    /\ net = EmptyBag
    /\ delivered = {}
    /\ now = 0
    /\ nLost = 0
    /\ status = "ok"
    /\ open = TRUE

(* prepare_datagram callback: quicrq_prepare_to_send_datagram; the        *)
(* publisher formats the next fragment and records it with ack_init.      *)
SendDatagram ==
    /\ status = "ok" /\ open /\ ~Finished
    /\ \E l \in FragLens, dly \in Delays :
         LET k == <<nxt.g, nxt.o, nxt.off>> IN
         \E ini \in {AckInit(Cur, horizon, k, l, dly, now)} :
            /\ ini.res = "created"
            /\ Apply([ini.st EXCEPT !.net = BagAdd(@, Copy(k, l, now, FALSE))])
            /\ nxt' = Advance(l)
    /\ UNCHANGED <<horizon, delivered, now, nLost, open>>

(* datagram_acked callback for a copy the peer received. *)
DatagramAcked(c) ==
    /\ status = "ok" /\ open
    /\ ~c.late
    /\ \E R \in {HandleAck([Cur EXCEPT !.net = BagRemove(@, c)], horizon, c.key, c.len)} :
         Apply(R.st) /\ horizon' = R.h
    /\ delivered' = delivered \cup CopyUnits(c)
    /\ UNCHANGED <<nxt, now, nLost, open>>

(* datagram_lost callback; the copy was lost, or it arrived and its       *)
(* acknowledgement will come later (late copy, spurious event).           *)
DatagramLost(c) ==
    /\ status = "ok" /\ open
    /\ ~c.late /\ nLost < MaxLoss
    /\ \E arrived \in BOOLEAN, cap \in RepeatCaps :
         LET N == BagRemove(net, c)
             S == [Cur EXCEPT !.net = IF arrived THEN BagAdd(N, [c EXCEPT !.late = TRUE]) ELSE N]
         IN \E R \in {HandleLost(S, horizon, c.key, c.sent, c.len, cap, now)} : Apply(R)
    /\ nLost' = nLost + 1
    /\ UNCHANGED <<horizon, nxt, delivered, now, open>>

(* datagram_spurious callback: handled as an acknowledgement. *)
DatagramSpurious(c) ==
    /\ status = "ok" /\ open
    /\ c.late
    /\ \E R \in {HandleAck([Cur EXCEPT !.net = BagRemove(@, c)], horizon, c.key, c.len)} :
         Apply(R.st) /\ horizon' = R.h
    /\ delivered' = delivered \cup CopyUnits(c)
    /\ UNCHANGED <<nxt, now, nLost, open>>

(* quicrq_time_check calling quicrq_handle_extra_repeat, when the head of *)
(* the extra queue is due.                                                *)
ExtraDue == status = "ok" /\ open /\ xq # <<>> /\ Find(tree, Head(xq)).xtime <= now

TimeCheck ==
    /\ ExtraDue
    /\ \E cap \in RepeatCaps : \E R \in {ExtraLoop(Cur, horizon, cap, now)} : Apply(R)
    /\ UNCHANGED <<horizon, nxt, delivered, now, nLost, open>>

Tick ==
    /\ now < MaxTime
    /\ now' = now + 1
    /\ UNCHANGED <<tree, xq, horizon, nxt, net, delivered, nLost, status, open>>

(* quicrq_datagram_ack_node_delete, called by picosplay for each freed    *)
(* record: a record that owns extra data is dequeued from the extra list.  *)
NodeDeleteNoDequeue(S, r) == [S EXCEPT !.tree = {q \in @ : q.key # r.key}]
NodeDelete(S, r) ==
    LET S1 == IF Find(S.tree, r.key).xdata THEN ExtraDequeue(S, r.key) ELSE S
    IN [S1 EXCEPT !.tree = {q \in @ : q.key # r.key}]

(* quicrq_datagram_ack_ctx_release: after the debug count, picosplay_empty_ *)
(* tree deletes every record of the ack tree.                               *)
AckCtxRelease(S) == FoldSet(LAMBDA r, T : NodeDelete(T, r), S, S.tree)

(* quicrq_delete_stream_ctx, when both directions of the control stream    *)
(* are finished (or the subscription fails): it releases the ack context   *)
(* first.  Datagrams may still be in flight or queued for extra repeat.    *)
StreamClose ==
    /\ CanClose /\ status = "ok" /\ open
    /\ Apply(AckCtxRelease(Cur))
    /\ open' = FALSE
    /\ UNCHANGED <<horizon, nxt, delivered, now, nLost>>

(* quicrq_handle_datagram_ack_nack for a datagram of a deleted stream:     *)
(* quicrq_find_stream_ctx_for_datagram finds nothing and the event is      *)
(* ignored ("the stream may already be closed").                           *)
DatagramIgnored(c) ==
    /\ status = "ok" /\ ~open
    /\ net' = BagRemove(net, c)
    /\ UNCHANGED <<tree, xq, horizon, nxt, delivered, now, nLost, status, open>>

(* Nothing left to do: the media is sent and every copy reported, or a    *)
(* callback failed and picoquic closes the connection, or the stream is   *)
(* deleted and every copy reported.                                       *)
Done ==
    /\ status # "ok" \/ (Finished /\ net = EmptyBag) \/ (~open /\ net = EmptyBag)
    /\ UNCHANGED vars

TransportEvent ==
    \E c \in BagToSet(net) :
        DatagramAcked(c) \/ DatagramLost(c) \/ DatagramSpurious(c) \/ DatagramIgnored(c)

Next ==
    \/ SendDatagram
    \/ StreamClose
    \/ TransportEvent
    \/ TimeCheck
    \/ Tick
    \/ Done

(* A transport event is enabled exactly when the connection is up and a  *)
(* copy is in flight: the acked and spurious handlers accept every copy  *)
(* and every event removes the copy from the bag.  TimeCheck is enabled  *)
(* exactly under its guard, and each run dequeues the head or fails.     *)
(* Weak fairness of A is then []<>~en \/ []<><<A>>_vars with en standing  *)
(* for ENABLED <<A>>_vars.                                                *)
TransportPending == status = "ok" /\ net # EmptyBag

(* The event loop keeps calling prepare_datagram while the stream is      *)
(* active and time_check at every wake-up; the transport eventually       *)
(* reports every datagram as acked or lost.                               *)
Fairness ==
    /\ WF_vars(SendDatagram)
    /\ []<>~TransportPending \/ []<><<TransportEvent>>_vars
    /\ []<>~ExtraDue \/ []<><<TimeCheck>>_vars

Spec == Init /\ [][Next]_vars /\ Fairness

----------------------------------------------------------------------------
TypeOK ==
    /\ tree \subseteq Rec
    /\ \A r \in tree : /\ <<KG(r.key), KO(r.key)>> \in Objects
                      /\ KOff(r.key) + r.len <= OLen(KG(r.key), KO(r.key))
    /\ xq \in Seq(Nat \X Nat \X Nat)
    /\ horizon \in [g : Int, o : Int, off : Int, last : BOOLEAN]
    /\ nxt \in [g : 0..NbGroups, o : Nat, off : Nat]
    /\ BagToSet(net) \subseteq [key : Nat \X Nat \X Nat, len : Nat, sent : 0..MaxTime, late : BOOLEAN]
    /\ delivered \subseteq Units
    /\ now \in 0..MaxTime
    /\ nLost \in 0..MaxLoss
    /\ status \in {"ok", "error", "crash"}
    /\ open \in BOOLEAN

(* Every unit of media below the horizon was acknowledged by the peer:    *)
(* the walk of quicrq_datagram_handle_ack only forgets records (and with  *)
(* them the ability to repeat a loss) for data that was received.         *)
BelowHorizon(u) ==
    \/ u[1] < horizon.g
    \/ u[1] = horizon.g /\ u[2] < horizon.o
    \/ u[1] = horizon.g /\ u[2] = horizon.o /\ u[3] < horizon.off
HorizonSafe == \A u \in Units : BelowHorizon(u) => u \in delivered

(* The extra-repeat list only holds records of the ack tree that own extra *)
(* data (quicrq_datagram_ack_node_delete dequeues a record it frees), and   *)
(* holds each at most once.                                                 *)
ExtraQueueConsistent ==
    /\ \A i \in 1..Len(xq) : Has(tree, xq[i]) /\ Find(tree, xq[i]).xdata
    /\ \A r \in tree : r.xdata => \E i \in 1..Len(xq) : xq[i] = r.key
    /\ \A i, j \in 1..Len(xq) : i # j => xq[i] # xq[j]

(* No handler returns an error to picoquic (which closes the connection)  *)
(* nor dereferences a missing record.                                      *)
NoFailure == status = "ok"

(* Spec 4.4 and property 2 of section 8: whenever the first record of the *)
(* tree is acknowledged and just after the horizon (by the four rules of  *)
(* the spec), the horizon has already advanced over it.                   *)
SpecJustAfter(d, h) ==
    \/ KG(d.key) = h.g /\ KO(d.key) = h.o /\ KOff(d.key) = h.off
    \/ KG(d.key) = h.g /\ KO(d.key) = h.o + 1 /\ KOff(d.key) = 0 /\ h.last
    \/ KG(d.key) = h.g + 1 /\ KO(d.key) = 0 /\ KOff(d.key) = 0 /\ h.last
       /\ NbOpg(d.key) = h.o + 1
    \/ h.g = UMAX
HorizonMaximal ==
    tree # {} => ~(FirstRec(tree).acked /\ SpecJustAfter(FirstRec(tree), horizon))

(* Refinement mapping to QuicrqDatagramWindow: units are ranked in the    *)
(* order of quicrq_datagram_ack_node_compare; the transmitted prefix is    *)
(* what lies before the publisher cursor; the forgotten prefix is what     *)
(* lies below the horizon.                                                 *)
UnitRank == [u \in Units |-> Cardinality({v \in Units : KeyCmp(v, u) <= 0})]
Transmitted == Cardinality({u \in Units : KeyCmp(u, <<nxt.g, nxt.o, nxt.off>>) < 0})
Forgotten == Cardinality({u \in Units : BelowHorizon(u)})
Window == INSTANCE QuicrqDatagramWindow
              WITH Rank <- UnitRank, sent <- Transmitted, acked <- delivered,
                   forgotten <- Forgotten

(* The sender implements the window: whatever the order of acks, losses,   *)
(* repeats, splits and extra repeats, each step transmits the next media,  *)
(* or acknowledges transmitted data and moves the horizon forward over     *)
(* acknowledged data only; the horizon never moves back.                   *)
ImplementsWindow == Window!Spec

(* The peer eventually acknowledges the whole media despite losses: every *)
(* loss reported for the latest copy of unacknowledged data is repeated.  *)
AllDelivered == <>(delivered = Units)

=============================================================================
