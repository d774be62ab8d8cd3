-------------------------------- MODULE PcmLink --------------------------------
(***************************************************************************)
(* What becomes of each captured interval: the ring that queues it         *)
(* (stream/queue.rs), the batch it is sent in (stream/network.rs), the     *)
(* connection (transport.rs, adapters/tcp.rs) and the counters of          *)
(* stream/status.rs.  Pipeline interleaves the tasks at single loads and   *)
(* stores; here a pass of a task is one step, and the ring, the connection *)
(* setup, the partial write and the accounting are taken apart.            *)
(*                                                                         *)
(* Also the packet header as it is encoded (protocol.rs, packet.rs) and    *)
(* parsed by the bridge (protocol.py).                                     *)
(***************************************************************************)
EXTENDS Integers, Sequences, FiniteSets

CONSTANTS
  ChunkDepth,    \* CHUNK_DEPTH
  ChunkCount,    \* CHUNK_COUNT
  BatchPackets,  \* BATCH_PACKETS
  MaxIntervals,  \* bound: intervals captured
  MaxLostAtOnce  \* bound: intervals lost in one outage

ASSUME LinkAssumption ==
  /\ ChunkDepth \in Nat \ {0} /\ ChunkCount \in Nat \ {0}
  /\ BatchPackets \in Nat \ {0}
  /\ MaxIntervals \in Nat /\ MaxLostAtOnce \in Nat

QueueDepth == ChunkDepth * ChunkCount

VARIABLES
  ring,      \* PacketQueue.packets: the chunks, head, len, and whether it is there
  interval,  \* StreamStatus.sequence
  batch,     \* intervals collected for the next send
  link,      \* ReconnectingSender and the handle below it
  totals,    \* the counters an interval can end in
  allowed,   \* streaming is enabled and no quiesce is requested
  aside,     \* intervals a pause kept off the wire, which no counter shows
  carried    \* connections that carried a batch

pcmVars == <<ring, interval, batch, link, totals, allowed, aside, carried>>

-----------------------------------------------------------------------------
(***************************************************************************)
(* The ring: a queue of QUEUE_DEPTH packets over chunks of CHUNK_DEPTH.    *)
(***************************************************************************)
EmptyRing ==
  [there |-> TRUE, head |-> 0, len |-> 0, chunks |-> [c \in 0 .. ChunkCount - 1 |-> <<>>]]
NoRing == [EmptyRing EXCEPT !.there = FALSE]

ChunkOf(place) == (place % QueueDepth) \div ChunkDepth

\* pop_front of a chunk: nothing when it is empty.
Foremost(r) ==
  LET chunk == r.chunks[ChunkOf(r.head)]
  IN IF chunk = <<>> THEN <<>> ELSE <<Head(chunk)>>

PoppedFront(r) ==
  [r EXCEPT !.chunks[ChunkOf(r.head)] = SubSeq(@, 2, Len(@)), !.head = (@ + 1) % QueueDepth,
            !.len = @ - 1]

\* The tail counted from the start of the ring, whatever its head.
PushedFromZero(r, p) ==
  [r EXCEPT !.chunks[ChunkOf(r.len)] = Append(@, p), !.len = @ + 1]

PushedBack(r, p) ==
  [r EXCEPT !.chunks[ChunkOf(r.head + r.len)] = Append(@, p), !.len = @ + 1]

PushDropOldest(r, p) ==
  IF ~r.there THEN [ring |-> r, dropped |-> FALSE]
  ELSE IF r.len = QueueDepth
       THEN [ring |-> PushedBack(PoppedFront(r), p), dropped |-> TRUE]
       ELSE [ring |-> PushedBack(r, p), dropped |-> FALSE]

\* Packets popped one after the other, and the ring they leave.
PopOne(p) ==
  [ring |-> PoppedFront(p.ring), packets |-> p.packets \o Foremost(p.ring)]

Popped(r, n) ==
  LET popped[k \in 0 .. n] ==
        IF k = 0 THEN [ring |-> r, packets |-> <<>>] ELSE PopOne(popped[k - 1])
  IN  popped[n]

Listed(r) == Popped(r, r.len).packets

-----------------------------------------------------------------------------
(***************************************************************************)
(* The header of a packet: "<4sBBBBIIII" in both programs, 24 bytes.       *)
(***************************************************************************)
Magic == <<69, 76, 73, 49>>
ProtocolVersion == 2
HeaderLen == 24
SampleRate == 48000
Channels == 2
Bits == 16
FramesPerPacket == 256
PayloadBytes == FramesPerPacket * Channels * (Bits \div 8)

\* A 32-bit number given as its high and low half, least significant byte first.
LittleEndian(hi, lo) == <<lo % 256, lo \div 256, hi % 256, hi \div 256>>

EncodeHeader(seq, silence) ==
  Magic \o <<ProtocolVersion, HeaderLen, Channels, Bits>>
    \o LittleEndian(seq.hi, seq.lo)
    \o LittleEndian(SampleRate \div 65536, SampleRate % 65536)
    \o LittleEndian(0, FramesPerPacket)
    \o LittleEndian(0, IF silence THEN 0 ELSE PayloadBytes)

\* What AudioPacket::as_bytes hands to the batch: the header, and PCM if any.
WireBytes(silence) == HeaderLen + (IF silence THEN 0 ELSE PayloadBytes)
MaxBatchBytes == BatchPackets * WireBytes(FALSE)

Half(bytes, i) == bytes[i] + 256 * bytes[i + 1]

\* parse_header of the bridge: the payload length, or -1 for a ValueError.
ParseHeader(bytes) ==
  IF /\ Len(bytes) = HeaderLen
     /\ SubSeq(bytes, 1, 4) = Magic
     /\ SubSeq(bytes, 5, 8) = <<ProtocolVersion, HeaderLen, Channels, Bits>>
     /\ <<Half(bytes, 15), Half(bytes, 13)>> = <<SampleRate \div 65536, SampleRate % 65536>>
     /\ <<Half(bytes, 19), Half(bytes, 17)>> = <<0, FramesPerPacket>>
     /\ Half(bytes, 23) = 0 /\ Half(bytes, 21) \in {0, PayloadBytes}
  THEN [hi |-> Half(bytes, 11), lo |-> Half(bytes, 9), payload |-> Half(bytes, 21)]
  ELSE [hi |-> 0, lo |-> 0, payload |-> -1]

-----------------------------------------------------------------------------
PcmInit ==
  /\ ring = EmptyRing
  /\ interval = 0 /\ batch = <<>>
  /\ \E secure \in BOOLEAN :
       link = [secure |-> secure, open |-> FALSE, shaking |-> FALSE, fresh |-> FALSE,
               cut |-> FALSE, handles |-> 0, probe |-> FALSE]
  /\ totals = [packets |-> 0, drops |-> 0, lost |-> 0, failed |-> 0, reconnects |-> 0,
               errors |-> 0, handshakes |-> 0]
  /\ allowed = TRUE
  /\ aside = 0 /\ carried = 0

\* StreamStatus: record_queue_drop, record_capture_loss, record_failed_send and
\* record_network_error, record_sent_batch.
QueueDropped(t) == [t EXCEPT !.drops = @ + 1]
CaptureLost(t, n) == [t EXCEPT !.lost = @ + n]
SendFailed(t, n) == [t EXCEPT !.failed = @ + n]
NetworkFailed(t, handshake) ==
  [t EXCEPT !.errors = @ + 1, !.handshakes = IF handshake THEN @ + 1 ELSE @]

\* The first connection is no reconnect.
BatchSent(t, n, fresh) ==
  [t EXCEPT !.packets = @ + n,
            !.reconnects = IF fresh /\ t.packets > 0 THEN @ + 1 ELSE @]

\* A complete packet, or the silence that stands for one.
CaptureInterval ==
  /\ interval < MaxIntervals
  /\ interval' = interval + 1
  /\ IF allowed
     THEN LET pushed == PushDropOldest(ring, interval)
          IN /\ ring' = pushed.ring
             /\ totals' = IF pushed.dropped THEN QueueDropped(totals) ELSE totals
             /\ aside' = IF ring.there THEN aside ELSE aside + 1
     ELSE aside' = aside + 1 /\ UNCHANGED <<ring, totals>>
  /\ UNCHANGED <<batch, link, allowed, carried>>

\* observe_time: an outage takes its intervals out of the sequence.
LoseIntervals ==
  \E n \in 1 .. MaxLostAtOnce :
    /\ interval + n <= MaxIntervals
    /\ interval' = interval + n
    /\ totals' = CaptureLost(totals, n)
    /\ UNCHANGED <<ring, batch, link, allowed, aside, carried>>

SwitchStreaming ==
  /\ allowed' = ~allowed
  /\ UNCHANGED <<ring, interval, batch, link, totals, aside, carried>>

-----------------------------------------------------------------------------
(***************************************************************************)
(* The network task.                                                       *)
(***************************************************************************)
Closed ==
  [link EXCEPT !.open = FALSE, !.fresh = FALSE, !.cut = FALSE,
               !.handles = @ - (IF link.open THEN 1 ELSE 0)]

\* A paused pass: connection and queue are given up.
Suspended ==
  /\ ~allowed /\ batch = <<>>
  /\ link' = Closed /\ ring' = NoRing
  /\ aside' = aside + ring.len
  /\ UNCHANGED <<interval, batch, totals, allowed, carried>>

\* A batch of what is queued, up to four packets; the last one is not awaited
\* longer than 40 ms.
Collect ==
  /\ allowed /\ batch = <<>>
  /\ \/ ~ring.there /\ ring' = EmptyRing /\ UNCHANGED batch
     \/ /\ ring.there /\ ring.len > 0
        /\ \E n \in 1 .. BatchPackets :
             LET popped == Popped(ring, n)
             IN  n <= ring.len /\ batch' = popped.packets /\ ring' = popped.ring
  /\ UNCHANGED <<interval, link, totals, allowed, aside, carried>>

\* The batch is discarded when the stream was paused meanwhile.
DiscardedQueue ==
  /\ ~allowed /\ batch # <<>> /\ ~link.shaking
  /\ batch' = <<>> /\ aside' = aside + Len(batch)
  /\ UNCHANGED <<ring, interval, link, totals, allowed, carried>>

\* A failed batch, and in secure mode a failed handshake.
Failed(handshake) ==
  /\ totals' = NetworkFailed(SendFailed(totals, Len(batch)), handshake)
  /\ batch' = <<>>

Unconnected == batch # <<>> /\ ~link.open /\ ~link.shaking
Connected == [link EXCEPT !.open = TRUE, !.fresh = TRUE, !.shaking = FALSE]

\* The bridge's name has no address.
Unresolved ==
  /\ Unconnected
  /\ Failed(FALSE) /\ UNCHANGED link
  /\ UNCHANGED <<ring, interval, allowed, aside, carried>>

\* A plain connection and its three options; one that fails drops the socket.
ConnectPlain ==
  /\ Unconnected /\ ~link.secure
  /\ \/ link' = [Connected EXCEPT !.handles = @ + 1] /\ UNCHANGED <<batch, totals>>
     \/ Failed(FALSE) /\ UNCHANGED link
  /\ UNCHANGED <<ring, interval, allowed, aside, carried>>

\* TlsConnection::connect allocates its handle.
Shake ==
  /\ Unconnected /\ link.secure
  /\ \/ /\ link' = [link EXCEPT !.shaking = TRUE, !.handles = @ + 1]
        /\ UNCHANGED <<batch, totals>>
     \/ Failed(TRUE) /\ UNCHANGED link
  /\ UNCHANGED <<ring, interval, allowed, aside, carried>>

\* validate_tls_profile: the one profile, no certificate, room for a batch.
ProfileAccepted(p) ==
  /\ p.version = "TLSv1.3" /\ p.cipher = "PSK suite" /\ ~p.certificate
  /\ p.room >= MaxBatchBytes

\* configure_tls_socket: no delay, then set_media_priority.
SocketConfigured(options) == options.noDelay /\ options.priority

\* What a handshake that ended may have left.
Negotiated ==
  [version : {"TLSv1.3", "older"}, cipher : {"PSK suite"}, certificate : BOOLEAN,
   room : {MaxBatchBytes - 1, MaxBatchBytes}]
Options == [noDelay : BOOLEAN, priority : BOOLEAN]

\* The handle is destroyed before the failure is reported.
Refused == Failed(TRUE) /\ link' = [link EXCEPT !.shaking = FALSE, !.handles = @ - 1]

\* The handshake fails, or what it left is looked at.
Shaken ==
  /\ link.shaking
  /\ \/ Refused
     \/ \E p \in Negotiated, o \in Options :
          IF ProfileAccepted(p) /\ SocketConfigured(o)
          THEN link' = Connected /\ UNCHANGED <<batch, totals>>
          ELSE Refused
  /\ UNCHANGED <<ring, interval, allowed, aside, carried>>

\* A write that failed drops the connection.
AfterFailure == Closed

\* write_all_with: complete, or failed after any prefix of it.
Transmit ==
  /\ batch # <<>> /\ link.open /\ allowed
  /\ \/ /\ totals' = BatchSent(totals, Len(batch), link.fresh)
        /\ carried' = IF link.fresh THEN carried + 1 ELSE carried
        /\ link' = [link EXCEPT !.fresh = FALSE] /\ batch' = <<>>
     \/ Failed(FALSE) /\ link' = AfterFailure /\ UNCHANGED carried
  /\ UNCHANGED <<ring, interval, allowed, aside>>

-----------------------------------------------------------------------------
\* TlsKeyVerifier: a connection of its own, which a request makes and drops, or
\* which ends where it failed.
ProbeKey ==
  /\ ~link.probe
  /\ link' = [link EXCEPT !.probe = TRUE, !.handles = @ + 1]
  /\ UNCHANGED <<ring, interval, batch, totals, allowed, aside, carried>>

ProbeEnds ==
  /\ link.probe
  /\ link' = [link EXCEPT !.probe = FALSE, !.handles = @ - 1]
  /\ UNCHANGED <<ring, interval, batch, totals, allowed, aside, carried>>

PcmNext ==
  \/ CaptureInterval \/ LoseIntervals \/ SwitchStreaming
  \/ Suspended \/ Collect \/ DiscardedQueue
  \/ Unresolved \/ ConnectPlain \/ Shake \/ Shaken \/ Transmit
  \/ ProbeKey \/ ProbeEnds

PcmSpec == PcmInit /\ [][PcmNext]_pcmVars

(***************************************************************************)
(* Every captured interval ends in one counter: sent, dropped from the     *)
(* queue, lost by the capture or failed in a send; or a pause put it       *)
(* aside, or it is on its way, in order, in the ring or the batch.  A      *)
(* reconnect is a connection that carried a batch, but for the first       *)
(* (status.rs:212-214).                                                    *)
(***************************************************************************)
IntervalsAccounted ==
  LET waiting == batch \o Listed(ring)
  IN /\ interval = totals.packets + totals.drops + totals.lost + totals.failed
                     + aside + Len(waiting)
     /\ \A i \in 1 .. Len(waiting) - 1 : waiting[i] < waiting[i + 1]
     /\ totals.reconnects = IF carried = 0 THEN 0 ELSE carried - 1
     /\ totals.handshakes <= totals.errors

(***************************************************************************)
(* A connection carries whole packets: nothing follows a write that was    *)
(* cut, and every connection made is still in use or was destroyed, by the *)
(* sender and by the key verifier alike.                                   *)
(***************************************************************************)
LinkFramed ==
  /\ ~link.cut
  /\ link.handles = (IF link.open \/ link.shaking THEN 1 ELSE 0)
                      + (IF link.probe THEN 1 ELSE 0)

(***************************************************************************)
(* The link accounts for every interval and every connection.              *)
(***************************************************************************)
LinkAccounts == IntervalsAccounted /\ LinkFramed

-----------------------------------------------------------------------------
\* classify_tls_failure: the layer's own error first, then the library's.
TlsFailure(layer, library) ==
  CASE layer \in {"cannot resolve", "cannot create socket", "failed connect"} -> "unreachable"
    [] layer \in {"connection timeout", "handshake timeout"} -> "timeout"
    [] layer = "closed by fin" -> "closed before handshake"
    [] layer = "other" /\ library \in {"fatal alert", "handshake failure"} -> "credential rejected"
    [] layer = "other" /\ library \in {"eof", "invalid record", "unexpected message",
                                      "recv failed", "reset"} -> "closed before handshake"
    [] layer = "other" /\ library = "timeout" -> "timeout"
    [] OTHER -> "other"
=============================================================================
