----------------------------- MODULE EapProxy ------------------------------
(***************************************************************************)
(* The proxy process: src/proxy/downstream_server.py, mediator.py and      *)
(* upstream_radius.py over the session table.  One thread takes a RADIUS   *)
(* datagram from the access point, and either answers it at once or sends  *)
(* an Access-Request to the auth server and blocks until that is answered  *)
(* or times out.  A step below is what the thread does between two such    *)
(* points: Receive handles a datagram up to the reply or the first         *)
(* upstream request, Answer goes on from an upstream reply to the next     *)
(* request or to the reply.                                                *)
(*                                                                         *)
(* The module has no next-state relation: OpenProxy closes it with an      *)
(* arbitrary environment, Testbed with stations and an auth server.        *)
(***************************************************************************)
EXTENDS Session

CONSTANTS UpstreamFragmentSize,    \* upstream.fragment_size, in units
          DownstreamFragmentSize,  \* downstream.fragment_size, in units
          FramedMtuOverride,       \* upstream.framed_mtu, or Nil
          StripFramedMtu,          \* upstream.strip_framed_mtu
          IoMayFail                \* may sending and reporting fail?

ASSUME FragmentSizeAssumption ==
  UpstreamFragmentSize \in Nat \ {0} /\ DownstreamFragmentSize \in Nat \ {0}
ASSUME SwitchAssumption == StripFramedMtu \in BOOLEAN /\ IoMayFail \in BOOLEAN

VARIABLES sessions,   \* SessionTable._sessions
          handler,    \* the blocked handler, or Nil when the thread listens
          upstream,   \* the Access-Request the handler is blocked on, or Nil
          toAp,       \* RADIUS replies on their way to the AP
          minted,     \* downstream States minted so far
          reports     \* records written by Reporter.report

proxyVars == <<sessions, handler, upstream, toAp, minted, reports>>

ProxyInit ==
  /\ sessions = <<>>
  /\ handler = Nil
  /\ upstream = Nil
  /\ toAp = {}
  /\ minted = 0
  /\ reports = {}

-----------------------------------------------------------------------------
(* Access-Request to the server: what send_eap() does before it blocks.    *)

Reassembling == Mode = "reassemble"

(* Mutants of UpstreamAttrs: Framed-MTU left alone in reassemble mode;     *)
(* Framed-MTU overridden in passthrough mode too.                          *)
UpstreamAttrsVerbatim(s) == s.ap_attrs
UpstreamAttrsUngated(s) ==
  [a \in DOMAIN s.ap_attrs |->
     IF a = "Framed-MTU" /\ FramedMtuOverride # Nil THEN FramedMtuOverride ELSE s.ap_attrs[a]]

UpstreamAttrs(s) ==
  LET stripped == IF StripFramedMtu /\ Reassembling THEN {"Framed-MTU"} ELSE {}
      overridden == FramedMtuOverride # Nil /\ Reassembling
  IN  [a \in DOMAIN s.ap_attrs \ stripped |->
         IF a = "Framed-MTU" /\ overridden THEN FramedMtuOverride ELSE s.ap_attrs[a]]

(* The handler of datagram d, now at pc, asks the server with eap; rest    *)
(* are the chunks of the record still to be sent.                          *)
Ask(d, s, pc, eap, rest) ==
  /\ sessions' = Put(sessions, [s EXCEPT !.upstream_round_trips = @ + 1])
  /\ handler' = [pc |-> pc, key |-> s.key, datagram |-> d, rest |-> rest]
  /\ upstream' = [authenticator |-> s.last_ap_authenticator,
                  state |-> s.radius_state,
                  calling |-> d.calling,
                  attrs |-> UpstreamAttrs(s),
                  eap |-> eap]
  /\ UNCHANGED <<toAp, minted, reports>>

(* One iteration of the loop of _forward_record_upstream.                  *)
AskChunk(d, s, chunks, length) ==
  Ask(d, Echoed(s), "forward",
      Frame(EchoId(s), length, Len(chunks) > 1, Head(chunks)), Tail(chunks))

AskAck(d, s, pc) == Ask(d, Echoed(s), pc, AckPacket(EchoId(s)), <<>>)

(* What send_eap() and its callers take from the server's reply r: the     *)
(* Identifier of a Request, the MPPE keys of an Accept, the State.         *)
Learned(s, r) ==
  [s EXCEPT
     !.radius_state = r.state,
     !.upstream_last_eap_req_id =
        IF r.eap # Nil /\ r.eap.kind \notin {"success", "failure"} THEN r.eap.id ELSE @,
     !.keys = IF r.code = "accept" /\ r.keyed THEN upstream.authenticator ELSE @]

-----------------------------------------------------------------------------
(* Reply to the AP: _build_reply(), the send, and the report and drop of a *)
(* session that has reached its verdict.  The first challenge of a session *)
(* mints its downstream State and moves it to that key.  A send that       *)
(* raises loses the reply.                                                 *)

Summary(s) ==
  [key |-> s.key, result |-> s.result, upstream_round_trips |-> s.upstream_round_trips]

(* The record is written, or writing it fails and nobody notices; then the *)
(* summary is printed and the session dropped, or printing it raises.      *)
Report(s, table) ==
  /\ \/ reports' = reports \cup {Summary(s)}
     \/ IoMayFail /\ UNCHANGED reports
  /\ \/ sessions' = Drop(table, s.key)
     \/ IoMayFail /\ sessions' = table

Reply(d, s, code, eap) ==
  LET mints == code = "challenge" /\ s.downstream_state = Nil
      t == IF mints
             THEN [s EXCEPT !.downstream_state = minted, !.key = StateKey(minted)]
             ELSE s
      kept == Rekey(sessions, s.key, t)
      packet == [to |-> d.authenticator,
                 code |-> code,
                 state |-> IF code = "challenge" THEN t.downstream_state ELSE Nil,
                 keys |-> IF code = "accept" THEN s.keys ELSE Nil,
                 eap |-> eap]
  IN  /\ handler' = Nil
      /\ upstream' = Nil
      /\ minted' = IF mints THEN minted + 1 ELSE minted
      /\ \/ /\ toAp' = toAp \cup {packet}
            /\ IF t.result \in Verdict
                 THEN Report(t, kept)
                 ELSE sessions' = kept /\ UNCHANGED reports
         \/ /\ IoMayFail
            /\ sessions' = kept
            /\ UNCHANGED <<toAp, reports>>

(* Mutant of Raise: the exception ends the thread.                         *)
RaiseFatally(s) ==
  /\ sessions' = Put(sessions, s)
  /\ upstream' = Nil
  /\ UNCHANGED <<handler, toAp, minted, reports>>

(* An exception: serve_forever() logs it and listens on, s as it was left. *)
Raise(s) ==
  /\ sessions' = Put(sessions, s)
  /\ handler' = Nil
  /\ upstream' = Nil
  /\ UNCHANGED <<toAp, minted, reports>>

(* _send_next_downstream_fragment(): the head of the queue.                *)
ReplyFragment(d, s, length) ==
  LET id == NextId(s.down_next_id)
      chunks == s.down_outbox
  IN  Reply(d, [s EXCEPT !.down_next_id = id, !.down_outbox = Tail(chunks)],
            "challenge", Frame(id, length, Len(chunks) > 1, Head(chunks)))

(* Mutant of ReplyRecord: the two fragment sizes confused.                 *)
ReplyRecordUpstreamSize(d, s, record) ==
  ReplyFragment(d, [s EXCEPT !.down_outbox = Fragment(record, UpstreamFragmentSize)],
                Len(record))

ReplyRecord(d, s, record) ==
  ReplyFragment(d, [s EXCEPT !.down_outbox = Fragment(record, DownstreamFragmentSize)],
                Len(record))

-----------------------------------------------------------------------------
(* A datagram from the AP.                                                 *)

KeyOf(d) ==
  IF d.state # Nil THEN StateKey(d.state)
  ELSE IF d.calling # Nil THEN <<"new", d.calling>>
  ELSE <<"new", d.from, d.eap.id>>

(* Mutant of Opened: the authenticator captured once, like the attributes. *)
OpenedOnce(d) ==
  [Get(sessions, KeyOf(d)) EXCEPT
     !.last_ap_authenticator = IF @ = Nil THEN d.authenticator ELSE @,
     !.ap_attrs = IF DOMAIN @ = {} THEN d.attrs ELSE @]

(* The session of d, with the AP's authenticator and, when none have been  *)
(* captured yet, its attributes.                                           *)
Opened(d) ==
  [Get(sessions, KeyOf(d)) EXCEPT
     !.last_ap_authenticator = d.authenticator,
     !.ap_attrs = IF DOMAIN @ = {} THEN d.attrs ELSE @]

(* Mutant of Synced: the downstream counter left to itself.                *)
SyncedNot(d) ==
  [Opened(d) EXCEPT !.down_last_req_id = IF Reassembling THEN d.eap.id ELSE @]

(* The two Identifiers handle_supplicant_eap() sets from the Response.     *)
Synced(d) ==
  [Opened(d) EXCEPT
     !.down_next_id = d.eap.id,
     !.down_last_req_id = IF Reassembling THEN d.eap.id ELSE @]

IsTls(d) == d.eap.kind = "tls"

(* Not EAP-TLS (the Identity exchange): forwarded as it is.                *)
ForwardNonTls(d) ==
  /\ d.eap.kind \in {"other", "success", "failure"}
  /\ Ask(d, Opened(d), "non_tls", d.eap, <<>>)

(* parse() raises.                                                         *)
RefuseMalformed(d) ==
  /\ d.eap.kind = "malformed"
  /\ Raise(Opened(d))

(* Mutant of ForwardVerbatim: the packet built anew, without its M bit.    *)
ForwardRebuilt(d) ==
  /\ IsTls(d) /\ ~Reassembling
  /\ Ask(d, Synced(d), "passthrough",
         Frame(d.eap.id, d.eap.length, FALSE, d.eap.data), <<>>)

ForwardVerbatim(d) ==
  /\ IsTls(d) /\ ~Reassembling
  /\ Ask(d, Synced(d), "passthrough", d.eap, <<>>)

(* The supplicant ACKs a fragment and there is another one queued.         *)
SendNextFragment(d) ==
  LET s == Synced(d) IN
  /\ IsTls(d) /\ Reassembling /\ IsAck(d.eap)
  /\ s.down_outbox # <<>>
  /\ ReplyFragment(d, s, Nil)

(* It ACKs the last one and the verdict is already known.                  *)
SendPendingVerdict(d) ==
  LET s == Synced(d) IN
  /\ IsTls(d) /\ Reassembling /\ IsAck(d.eap)
  /\ s.down_outbox = <<>>
  /\ s.result # Nil
  /\ Reply(d, s, s.result, Restamp(s, s.pending[s.result]))

(* It ACKs the last one and the server has yet to conclude.                *)
PollUpstream(d) ==
  LET s == Synced(d) IN
  /\ IsTls(d) /\ Reassembling /\ IsAck(d.eap)
  /\ s.down_outbox = <<>>
  /\ s.result = Nil
  /\ AskAck(d, s, "forward")

(* A fragment of a supplicant record that is not the last: the local ACK   *)
(* that saves an upstream round trip.                                      *)
AckLocally(d) ==
  LET s == Synced(d)
      in == Ingest(s.up_reasm, d.eap)
      id == NextId(s.down_next_id)
  IN
  /\ IsTls(d) /\ Reassembling /\ ~IsAck(d.eap)
  /\ in.verdict = "more"
  /\ Reply(d, [s EXCEPT !.up_reasm = in.reasm, !.down_next_id = id],
           "challenge", AckPacket(id))

(* The last fragment: the record is cut anew and its first chunk sent.     *)
ForwardRecord(d) ==
  LET s == Synced(d)
      in == Ingest(s.up_reasm, d.eap)
      record == in.reasm.buffer
  IN
  /\ IsTls(d) /\ Reassembling /\ ~IsAck(d.eap)
  /\ in.verdict = "done"
  /\ AskChunk(d, [s EXCEPT !.up_reasm = in.reasm],
              Fragment(record, UpstreamFragmentSize), Len(record))

RefuseOversize(d) ==
  LET s == Synced(d)
      in == Ingest(s.up_reasm, d.eap)
  IN
  /\ IsTls(d) /\ Reassembling /\ ~IsAck(d.eap)
  /\ in.verdict = "error"
  /\ Raise([s EXCEPT !.up_reasm = in.reasm])

Receive(d) ==
  /\ handler = Nil
  /\ \/ ForwardNonTls(d)
     \/ RefuseMalformed(d)
     \/ ForwardVerbatim(d)
     \/ SendNextFragment(d)
     \/ SendPendingVerdict(d)
     \/ PollUpstream(d)
     \/ AckLocally(d)
     \/ ForwardRecord(d)
     \/ RefuseOversize(d)

-----------------------------------------------------------------------------
(* A reply from the server.                                                *)

Blocked(r) == Learned(sessions[handler.key], r)

(* session.finish(), with the terminal packet stashed by the mediator.     *)
Finished(s, verdict) == [s EXCEPT !.result = verdict]
Stashed(s, verdict, eap) ==
  [Finished(s, verdict) EXCEPT !.pending = [@ EXCEPT ![verdict] = eap]]

(* pc "forward" with nothing left to send is _handle_upstream_reply, the   *)
(* point where a forwarded record and a poll both end; pc "drain" is the   *)
(* loop of _drain_upstream_fragments.                                      *)
Settling == handler.pc = "drain" \/ (handler.pc = "forward" /\ handler.rest = <<>>)

(* The loop over chunks looks at nothing but the State and the Identifier. *)
ForwardNextChunk(r) ==
  /\ handler.pc = "forward"
  /\ handler.rest # <<>>
  /\ AskChunk(handler.datagram, Blocked(r), handler.rest, Nil)

Conclude(r) ==
  LET s == Stashed(Blocked(r), r.code, r.eap) IN
  /\ Settling
  /\ r.code \in Verdict
  /\ Reply(handler.datagram, s, r.code, Restamp(s, r.eap))

(* A challenge without EAP-Message.  After a record or a poll the AP gets  *)
(* an empty challenge; inside a drain the loop breaks off and the buffer   *)
(* as it stands goes to the supplicant.                                    *)
RelayEmptyChallenge(r) ==
  /\ Settling /\ handler.pc = "forward"
  /\ r.code = "challenge" /\ r.eap = Nil
  /\ Reply(handler.datagram, Blocked(r), "challenge", Nil)

(* Mutant of BreakOffDrain: a verdict breaks the drain off as well.        *)
BreakOffDrainOnVerdict(r) ==
  LET s == Blocked(r) IN
  /\ handler.pc = "drain"
  /\ r.code # "challenge" \/ r.eap = Nil
  /\ ReplyRecord(handler.datagram, s, s.down_reasm.buffer)

BreakOffDrain(r) ==
  LET s == Blocked(r) IN
  /\ handler.pc = "drain"
  /\ r.code = "challenge" /\ r.eap = Nil
  /\ ReplyRecord(handler.datagram, s, s.down_reasm.buffer)

(* A fragment of the server's record.                                      *)
IsFragment(r) == Settling /\ r.code = "challenge" /\ r.eap # Nil /\ r.eap.kind = "tls"

RefuseUnparsable(r) ==
  /\ Settling
  /\ r.code = "challenge" /\ r.eap # Nil /\ r.eap.kind # "tls"
  /\ Raise(Blocked(r))

PullNextFragment(r) ==
  LET s == Blocked(r)
      in == Ingest(s.down_reasm, r.eap)
  IN
  /\ IsFragment(r)
  /\ in.verdict = "more" /\ r.eap.more
  /\ AskAck(handler.datagram, [s EXCEPT !.down_reasm = in.reasm], "drain")

(* The last fragment, or an empty packet, on which the buffer is returned  *)
(* whatever it holds.                                                      *)
RelayRecord(r) ==
  LET s == Blocked(r)
      in == Ingest(s.down_reasm, r.eap)
  IN
  /\ IsFragment(r)
  /\ in.verdict # "error" /\ ~r.eap.more
  /\ ReplyRecord(handler.datagram, [s EXCEPT !.down_reasm = in.reasm], in.reasm.buffer)

RefuseOversizeUpstream(r) ==
  LET s == Blocked(r)
      in == Ingest(s.down_reasm, r.eap)
  IN
  /\ IsFragment(r)
  /\ in.verdict = "error"
  /\ Raise([s EXCEPT !.down_reasm = in.reasm])

RelayNonTls(r) ==
  /\ handler.pc = "non_tls"
  /\ Reply(handler.datagram,
           IF r.code \in Verdict THEN Finished(Blocked(r), r.code) ELSE Blocked(r),
           r.code, r.eap)

(* Mutant of RelayVerbatim: EAP-Success dropped as EAP-Failure is.         *)
RelayVerbatimBare(r) ==
  /\ handler.pc = "passthrough"
  /\ Reply(handler.datagram,
           IF r.code \in Verdict THEN Finished(Blocked(r), r.code) ELSE Blocked(r),
           r.code, IF r.code \in Verdict THEN Nil ELSE r.eap)

(* Passthrough relays the server's packet, except that of a reject.        *)
RelayVerbatim(r) ==
  /\ handler.pc = "passthrough"
  /\ Reply(handler.datagram,
           IF r.code \in Verdict THEN Finished(Blocked(r), r.code) ELSE Blocked(r),
           r.code, IF r.code = "reject" THEN Nil ELSE r.eap)

Answer(r) ==
  /\ handler # Nil
  /\ \/ ForwardNextChunk(r)
     \/ Conclude(r)
     \/ RelayEmptyChallenge(r)
     \/ BreakOffDrain(r)
     \/ RefuseUnparsable(r)
     \/ PullNextFragment(r)
     \/ RelayRecord(r)
     \/ RefuseOversizeUpstream(r)
     \/ RelayNonTls(r)
     \/ RelayVerbatim(r)

-----------------------------------------------------------------------------
(* SendPacket() gives up: the exception unwinds the handler, and whatever  *)
(* it had already changed in the session stays changed.                    *)
UpstreamTimeout ==
  /\ handler # Nil
  /\ Raise(sessions[handler.key])

(* The process dies and is started again: the table was its only state.    *)
Restart ==
  /\ sessions' = <<>>
  /\ handler' = Nil
  /\ upstream' = Nil
  /\ UNCHANGED <<toAp, minted, reports>>
=============================================================================
