---------------------------- MODULE RecordRelay ----------------------------
(***************************************************************************)
(* One direction of the data path in reassemble mode: an endpoint cuts a   *)
(* record into fragments as it pleases, ingest() puts them together,       *)
(* fragment() cuts the record anew at the other leg's size, and the chunks *)
(* go out one by one to the other endpoint.  Both directions are this, the *)
(* way up in handle_supplicant_eap() and _forward_record_upstream(), the   *)
(* way down in _drain_upstream_fragments() and                             *)
(* _begin_downstream_fragmentation().                                      *)
(***************************************************************************)
EXTENDS EapTls

CONSTANTS Unit,
          Records,   \* what the endpoint may send
          Size       \* fragment_size of the leg the record goes out on

ASSUME SizeAssumption == Size \in Nat \ {0}
ASSUME RecordsAssumption == Records \subseteq Seq(Unit) \ {<<>>}

VARIABLES phase,     \* "idle", "gathering", "relaying", or "failed"
          record,    \* the record under way
          cut,       \* units of it that have come in
          reasm,     \* the Reassembler of this direction
          outbox,    \* chunks that have still to go out
          rx,        \* what the other endpoint has of the record
          delivered  \* the records it has had whole

relayVars == <<phase, record, cut, reasm, outbox, rx, delivered>>

Init ==
  /\ phase = "idle"
  /\ record = <<>>
  /\ cut = 0
  /\ reasm = EmptyReassembler
  /\ outbox = <<>>
  /\ rx = <<>>
  /\ delivered = <<>>

-----------------------------------------------------------------------------
Begin ==
  /\ phase = "idle"
  /\ record' \in Records
  /\ cut' = 0
  /\ phase' = "gathering"
  /\ UNCHANGED <<reasm, outbox, rx, delivered>>

(* The next n units of the record; the first fragment may declare the      *)
(* length of the whole.                                                    *)
Incoming(n, length) ==
  Frame(0, length, cut + n < Len(record), SubSeq(record, cut + 1, cut + n))

(* The endpoint sends its next fragment and ingest() gives verdict.        *)
Take(verdict) ==
  \E n \in 1 .. Len(record) - cut :
    \E length \in {Nil} \cup (IF cut = 0 THEN {Len(record)} ELSE {}) :
      LET in == Ingest(reasm, Incoming(n, length)) IN
      /\ in.verdict = verdict
      /\ reasm' = in.reasm
      /\ cut' = cut + n

(* Not the last fragment: it is acknowledged locally.                      *)
Gather ==
  /\ phase = "gathering"
  /\ Take("more")
  /\ UNCHANGED <<phase, record, outbox, rx, delivered>>

(* The last one: the record is cut anew.                                   *)
Complete ==
  /\ phase = "gathering"
  /\ Take("done")
  /\ outbox' = Fragment(reasm'.buffer, Size)
  /\ phase' = "relaying"
  /\ UNCHANGED <<record, rx, delivered>>

(* ingest() raises, and the authentication is over.                        *)
Refuse ==
  /\ phase = "gathering"
  /\ Take("error")
  /\ phase' = "failed"
  /\ UNCHANGED <<record, outbox, rx, delivered>>

(* The head of the queue, with the L bit on the first chunk and the M bit  *)
(* on all but the last.                                                    *)
Outgoing ==
  Frame(0, IF rx = <<>> THEN Len(record) ELSE Nil, Len(outbox) > 1, Head(outbox))

(* The other endpoint takes it for data, unless it looks like an ACK, and  *)
(* acknowledges it.                                                        *)
RelayChunk ==
  /\ phase = "relaying"
  /\ ~IsAck(Outgoing)
  /\ outbox' = Tail(outbox)
  /\ IF Outgoing.more
       THEN /\ rx' = rx \o Outgoing.data
            /\ UNCHANGED <<phase, delivered>>
       ELSE /\ delivered' = Append(delivered, rx \o Outgoing.data)
            /\ rx' = <<>>
            /\ phase' = "idle"
  /\ UNCHANGED <<record, cut, reasm>>

Next == Begin \/ Gather \/ Complete \/ Refuse \/ RelayChunk

Spec == Init /\ [][Next]_relayVars

(* The endpoint goes on with the record it has begun and acknowledges what *)
(* it is sent; nobody is obliged to begin one.                             *)
FairSpec == Spec /\ WF_relayVars(Gather \/ Complete \/ Refuse \/ RelayChunk)

-----------------------------------------------------------------------------
TypeOK ==
  /\ phase \in {"idle", "gathering", "relaying", "failed"}
  /\ record \in Seq(Unit)
  /\ cut \in Nat
  /\ reasm \in Reassembler(Unit)
  /\ outbox \in Seq(Seq(Unit))
  /\ rx \in Seq(Unit)
  /\ delivered \in Seq(Seq(Unit))

(* Whatever sizes the endpoint cuts its fragments to and whatever size     *)
(* they go out at, the direction is a channel of whole records (eap_tls.py *)
(* : "This is what keeps the end-to-end TLS handshake transcript intact    *)
(* through the proxy").                                                    *)
Channel == INSTANCE RecordChannel WITH
  sent <- IF phase = "idle" THEN delivered ELSE Append(delivered, record)

ChannelSpec == Channel!Spec

(* Every chunk is within the budget of its leg, and none is empty: an      *)
(* empty one would be taken for an ACK, and the endpoint would wait for    *)
(* data that never comes (fragment(), EapTlsPacket.is_ack).                *)
ChunksAreData ==
  \A i \in DOMAIN outbox : 1 <= Len(outbox[i]) /\ Len(outbox[i]) <= Size

(* A record is refused only if it is longer than max_message_len, and one  *)
(* that is longer is never handed on, declared or not, in however many     *)
(* fragments it comes (the two checks of ingest()).                        *)
RefusalExact ==
  /\ phase = "failed" => Len(record) > MaxMessageLen
  /\ phase = "relaying" => Len(record) <= MaxMessageLen

(* A record once begun is delivered, or refused.                           *)
Settles == phase = "gathering" ~> phase \in {"idle", "failed"}

-----------------------------------------------------------------------------
(* The inductive strengthening.  What has come in is in the reassembler,   *)
(* what has not gone out is in the outbox, and both are pieces of the      *)
(* record under way.                                                       *)
Gathered ==
  phase = "gathering" =>
    /\ record \in Records
    /\ cut < Len(record)
    /\ cut = 0 => StartsRecord(reasm)
    /\ cut > 0 => reasm = [state |-> "in_progress", buffer |-> SubSeq(record, 1, cut)]

Relayed ==
  phase = "relaying" =>
    /\ Len(rx) < Len(record)
    /\ rx = SubSeq(record, 1, Len(rx))
    /\ outbox = Fragment(SubSeq(record, Len(rx) + 1, Len(record)), Size)

AtRest ==
  /\ phase # "relaying" => rx = <<>> /\ outbox = <<>>
  /\ phase \in {"idle", "relaying"} => StartsRecord(reasm)

RelayInv == TypeOK /\ Gathered /\ Relayed /\ AtRest /\ RefusalExact
=============================================================================
