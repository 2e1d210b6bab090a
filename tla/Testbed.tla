------------------------------ MODULE Testbed ------------------------------
(***************************************************************************)
(* The whole path of an authentication: stations behind an access point,   *)
(* the proxy, and the auth server, over networks that may lose, delay and  *)
(* repeat.  Station, access point and server are not code of this          *)
(* repository (wpa_supplicant, hostapd, FreeRADIUS); they are modelled as  *)
(* the proxy's code and documents take them to behave (RFC 3748, RFC 3579, *)
(* RFC 5216).  A station and the access point it talks through are one     *)
(* actor: the wire between them is not the proxy's business.               *)
(***************************************************************************)
EXTENDS EapProxy, SequencesExt

CONSTANTS Stations,
          Scripts,             \* the possible flight sizes of a handshake
          FlightCount,         \* flights of a handshake
          FirstIds,            \* Identifiers an Identity exchange may start at
          PeerFragmentSize,    \* fragment size of the stations
          ServerFragmentSize,  \* fragment size of the server
          ApMtu,               \* the access point's Framed-MTU
          CallingSent,         \* does it send Calling-Station-Id?
          ServerMayReject,     \* may the server reject at any round?
          MaxLosses, MaxRetransmissions, MaxTimeouts, MaxRestarts,
          MaxFaults,           \* of all four kinds together
          MaxAttempts          \* authentications begun anew

ASSUME TestbedAssumption ==
  /\ FlightCount \in Nat /\ FlightCount % 2 = 0
  /\ \A s \in Scripts : s \in Seq(Nat) /\ Len(s) = FlightCount
  /\ FirstIds \subseteq Identifier
  /\ {PeerFragmentSize, ServerFragmentSize, ApMtu} \subseteq Nat \ {0}

ASSUME BudgetAssumption ==
  {MaxLosses, MaxRetransmissions, MaxTimeouts, MaxRestarts, MaxAttempts} \subseteq Nat

VARIABLES script,   \* the flight sizes of each station's handshake
          peer,     \* the stations
          inbox,    \* datagrams on their way to the proxy
          server,   \* the server's conversations, in the order they began
          budget    \* the faults still to come

testbedVars == <<script, peer, inbox, server, budget>>
vars == <<sessions, handler, upstream, toAp, minted, reports,
          script, peer, inbox, server, budget>>

-----------------------------------------------------------------------------
(* TLS data: unit j of flight i of station st is <<st, i, j>>, so a unit   *)
(* lost, repeated, moved or sent to another station is noticed.            *)
Flight(st, i) ==
  IF i > FlightCount THEN <<>> ELSE [j \in 1 .. script[st][i] |-> <<st, i, j>>]

(* The first of the chunks of a flight, and one of the following.          *)
FirstFragment(id, flight, chunks) ==
  Frame(id, IF Len(chunks) > 1 THEN Len(flight) ELSE Nil, Len(chunks) > 1, Head(chunks))
NextFragment(id, chunks) == Frame(id, Nil, Len(chunks) > 1, Head(chunks))

Bare(kind, id) == [kind |-> kind, id |-> id, length |-> Nil,
                   more |-> FALSE, start |-> FALSE, data |-> <<>>]

(* One of the events of which a run has only so many.                      *)
Spend(fault) ==
  /\ budget[fault] > 0
  /\ budget' = [budget EXCEPT ![fault] = @ - 1]

-----------------------------------------------------------------------------
(* A station.  request is the datagram it awaits an answer to, rounds      *)
(* counts them all, id is the Identifier of the EAP-Request it answered    *)
(* last, got the records its TLS stack was handed.                         *)

NewPeer == [status |-> "off", request |-> Nil, rounds |-> 0, id |-> Nil,
            tx |-> <<>>, rx |-> <<>>, got |-> <<>>]

(* p, having answered with eap, sends it in a fresh Access-Request that    *)
(* quotes state.                                                           *)
Sending(st, p, state, eap) ==
  [p EXCEPT
     !.status = "waiting",
     !.rounds = @ + 1,
     !.id = eap.id,
     !.request = [from |-> "ap", calling |-> IF CallingSent THEN st ELSE Nil,
                  state |-> state,
                  authenticator |-> <<st, p.rounds + 1>>,
                  attrs |-> [a \in {"Framed-MTU"} |-> ApMtu],
                  eap |-> eap]]

Transmit(st, p) ==
  /\ peer' = [peer EXCEPT ![st] = p]
  /\ inbox' = Append(inbox, p.request)

(* It answers the access point's Request for its Identity.                 *)
Begin(st, p) ==
  \E id \in FirstIds :
    Transmit(st, Sending(st, p, Nil, [Bare("other", id) EXCEPT !.data = <<<<st, 0, 0>>>>]))

Start(st) ==
  /\ peer[st].status = "off"
  /\ Begin(st, NewPeer)
  /\ UNCHANGED <<proxyVars, script, server, budget>>

Awaited(st, m) ==
  peer[st].status = "waiting" /\ m.to = peer[st].request.authenticator

(* Flight i, or the final ACK after the last one.                          *)
SendFlight(st, p, m, i) ==
  IF i > FlightCount
    THEN Transmit(st, Sending(st, p, m.state, AckPacket(m.eap.id)))
    ELSE LET chunks == Fragment(Flight(st, i), PeerFragmentSize)
         IN  Transmit(st, Sending(st, [p EXCEPT !.tx = Tail(chunks)], m.state,
                                  FirstFragment(m.eap.id, Flight(st, i), chunks)))

(* A Request it has answered before is answered the same way again.        *)
AnswerAgain(st, m) ==
  /\ m.eap.id = peer[st].id
  /\ Transmit(st, Sending(st, peer[st], m.state, peer[st].request.eap))

AnswerStart(st, m) ==
  /\ m.eap.id # peer[st].id /\ m.eap.start
  /\ SendFlight(st, peer[st], m, 1)

AnswerAck(st, m) ==
  LET p == peer[st] IN
  /\ m.eap.id # p.id /\ IsAck(m.eap) /\ p.tx # <<>>
  /\ Transmit(st, Sending(st, [p EXCEPT !.tx = Tail(@)], m.state,
                          NextFragment(m.eap.id, p.tx)))

(* TLS notices a record that is not the one sent and gives up.             *)
AnswerData(st, m) ==
  LET p == peer[st]
      record == p.rx \o m.eap.data
      got == Append(p.got, record)
  IN
  /\ m.eap.id # p.id /\ m.eap.data # <<>>
  /\ IF m.eap.more
       THEN Transmit(st, Sending(st, [p EXCEPT !.rx = record], m.state,
                                 AckPacket(m.eap.id)))
     ELSE IF record # Flight(st, 2 * Len(got))
       THEN /\ peer' = [peer EXCEPT ![st] = [p EXCEPT !.got = got, !.status = "failure"]]
            /\ UNCHANGED inbox
     ELSE SendFlight(st, [p EXCEPT !.got = got, !.rx = <<>>], m, 2 * Len(got) + 1)

(* EAP-Success counts only with the Identifier of the last Response.       *)
TakeVerdict(st, m) ==
  /\ \/ m.code = "reject"
     \/ m.code = "accept" /\ m.eap # Nil /\ m.eap.id = peer[st].id
  /\ peer' = [peer EXCEPT ![st].status = IF m.code = "accept" THEN "success" ELSE "failure"]
  /\ UNCHANGED inbox

Respond(st, m) ==
  /\ m.code = "challenge" /\ m.eap # Nil /\ m.eap.kind = "tls"
  /\ AnswerAgain(st, m) \/ AnswerStart(st, m) \/ AnswerAck(st, m) \/ AnswerData(st, m)

(* A reply nobody waits for, or that the station can do nothing with.      *)
Useless(st, m) ==
  \/ ~Awaited(st, m)
  \/ m.code = "accept" /\ (m.eap # Nil => m.eap.id # peer[st].id)
  \/ m.code = "challenge" /\ m.eap = Nil
  \/ /\ m.code = "challenge" /\ m.eap # Nil
     /\ m.eap.id # peer[st].id /\ IsAck(m.eap) /\ peer[st].tx = <<>>

TakeReply(st, m) ==
  /\ m.to[1] = st
  /\ \/ Awaited(st, m) /\ (Respond(st, m) \/ TakeVerdict(st, m))
     \/ Useless(st, m) /\ UNCHANGED <<peer, inbox>>
  /\ toAp' = toAp \ {m}
  /\ UNCHANGED <<sessions, handler, upstream, minted, reports, script, server, budget>>

(* No answer is on its way to the station any more.                        *)
Abandoned(st) ==
  /\ \A d \in Range(inbox) : d.authenticator[1] # st
  /\ handler # Nil => handler.datagram.authenticator[1] # st
  /\ \A m \in toAp : m.to[1] # st

(* A station that failed, or has waited long enough, begins anew.          *)
Retry(st) ==
  /\ Spend("attempt")
  /\ \/ peer[st].status = "failure"
     \/ peer[st].status = "waiting" /\ Abandoned(st)
  /\ Begin(st, [NewPeer EXCEPT !.rounds = peer[st].rounds])
  /\ UNCHANGED <<proxyVars, script, server>>

-----------------------------------------------------------------------------
(* The server.  Conversation c expects the State <<c, step>> and a         *)
(* Response to its Request id.                                             *)

(* It cuts its flights to its own size, or to a smaller Framed-MTU.        *)
ServerLimit(attrs) ==
  IF "Framed-MTU" \in DOMAIN attrs
    THEN Smaller(ServerFragmentSize, attrs["Framed-MTU"])
    ELSE ServerFragmentSize

Challenge(c, v, eap) ==
  [server |-> [i \in 1 .. Len(server) \cup {c} |->
                 IF i = c THEN [v EXCEPT !.id = eap.id, !.step = @ + 1] ELSE server[i]],
   reply |-> [code |-> "challenge", eap |-> eap, state |-> <<c, v.step + 1>>, keyed |-> FALSE]]

Verdicts(c, v, code, id) ==
  [server |-> [server EXCEPT ![c] = [v EXCEPT !.verdict = code]],
   reply |-> [code |-> code, state |-> Nil, keyed |-> code = "accept",
              eap |-> Bare(IF code = "accept" THEN "success" ELSE "failure", id)]]

(* It knows the station by its Identity.                                   *)
Converse(q) ==
  LET v == [st |-> q.eap.data[1][1], id |-> Nil, step |-> 0, tx |-> <<>>, rx |-> <<>>,
            got |-> <<>>, verdict |-> Nil]
  IN  Challenge(Len(server) + 1, v,
                [Bare("tls", NextId(q.eap.id)) EXCEPT !.start = TRUE])

NoSuchConversation(q) ==
  [server |-> server,
   reply |-> [code |-> "reject", state |-> Nil, keyed |-> FALSE,
              eap |-> Bare("failure", q.eap.id)]]

Continues(q) ==
  /\ q.state # Nil /\ q.state[1] \in DOMAIN server
  /\ LET v == server[q.state[1]] IN
     v.step = q.state[2] /\ v.verdict = Nil /\ q.eap.kind = "tls" /\ q.eap.id = v.id

(* The next packet of conversation c: an ACK, the next fragment, the next  *)
(* flight, or the verdict.                                                 *)
Proceed(c, q) ==
  LET v == server[c]
      id == NextId(v.id)
      record == v.rx \o q.eap.data
      got == Append(v.got, record)
      flight == Flight(v.st, 2 * Len(got))
      chunks == Fragment(flight, ServerLimit(q.attrs))
  IN  IF IsAck(q.eap) /\ v.tx # <<>>
        THEN Challenge(c, [v EXCEPT !.tx = Tail(@)], NextFragment(id, v.tx))
      ELSE IF IsAck(q.eap)
        THEN Verdicts(c, v, IF 2 * Len(v.got) = FlightCount THEN "accept" ELSE "reject", v.id)
      ELSE IF q.eap.more
        THEN Challenge(c, [v EXCEPT !.rx = record], AckPacket(id))
      ELSE IF record # Flight(v.st, 2 * Len(got) - 1)
        THEN Verdicts(c, [v EXCEPT !.got = got], "reject", v.id)
      ELSE Challenge(c, [v EXCEPT !.got = got, !.rx = <<>>, !.tx = Tail(chunks)],
                     FirstFragment(id, flight, chunks))

IsIdentity(eap) == eap.kind = "other" /\ eap.data # <<>>

Outcomes(q) ==
  IF q.state = Nil /\ IsIdentity(q.eap) THEN {Converse(q)}
  ELSE IF Continues(q)
    THEN LET c == q.state[1]
         IN  {Proceed(c, q)} \cup
             (IF ServerMayReject THEN {Verdicts(c, server[c], "reject", server[c].id)} ELSE {})
  ELSE {NoSuchConversation(q)}

-----------------------------------------------------------------------------
ProxyStep ==
  /\ inbox # <<>>
  /\ Receive(Head(inbox))
  /\ inbox' = Tail(inbox)
  /\ UNCHANGED <<script, peer, server, budget>>

ServerStep ==
  /\ upstream # Nil
  /\ \E o \in Outcomes(upstream) : server' = o.server /\ Answer(o.reply)
  /\ UNCHANGED <<script, peer, inbox, budget>>

-----------------------------------------------------------------------------
(* Faults, each within its budget.                                         *)

LoseDatagram ==
  /\ Spend("loss")
  /\ inbox # <<>>
  /\ inbox' = Tail(inbox)
  /\ UNCHANGED <<proxyVars, script, peer, server>>

LoseReply ==
  /\ Spend("loss")
  /\ \E m \in toAp : toAp' = toAp \ {m}
  /\ UNCHANGED <<sessions, handler, upstream, minted, reports, script, peer, inbox, server>>

(* The access point's RADIUS client repeats a request it had no answer to. *)
Retransmit(st) ==
  /\ Spend("retransmission")
  /\ peer[st].status = "waiting"
  /\ inbox' = Append(inbox, peer[st].request)
  /\ UNCHANGED <<proxyVars, script, peer, server>>

(* All retries of an upstream request run out: either the server never saw *)
(* it, or its replies were lost.                                           *)
TimeOut ==
  /\ Spend("timeout")
  /\ UpstreamTimeout
  /\ \/ UNCHANGED server
     \/ \E o \in Outcomes(upstream) : server' = o.server
  /\ UNCHANGED <<script, peer, inbox>>

RestartProxy ==
  /\ Spend("restart")
  /\ Restart
  /\ UNCHANGED <<script, peer, inbox, server>>

(* The faults there have been.                                             *)
FaultsSeen ==
  MaxLosses + MaxRetransmissions + MaxTimeouts + MaxRestarts
    - (budget.loss + budget.retransmission + budget.timeout + budget.restart)

Fault ==
  /\ FaultsSeen < MaxFaults
  /\ \/ LoseDatagram \/ LoseReply \/ TimeOut \/ RestartProxy
     \/ \E st \in Stations : Retransmit(st)

-----------------------------------------------------------------------------
Init ==
  /\ ProxyInit
  /\ script \in [Stations -> Scripts]
  /\ peer = [st \in Stations |-> NewPeer]
  /\ inbox = <<>>
  /\ server = <<>>
  /\ budget = [loss |-> MaxLosses, retransmission |-> MaxRetransmissions,
               timeout |-> MaxTimeouts, restart |-> MaxRestarts,
               attempt |-> MaxAttempts]

PeerStep(st) == Start(st) \/ Retry(st) \/ \E m \in toAp : TakeReply(st, m)

System == ProxyStep \/ ServerStep \/ \E st \in Stations : PeerStep(st)

(* Nothing is under way: every station has its verdict or waits in vain.   *)
Quiet ==
  /\ \A st \in Stations : peer[st].status # "off"
  /\ inbox = <<>> /\ handler = Nil /\ toAp = {}

Stop == Quiet /\ UNCHANGED vars

Next == System \/ Fault \/ Stop

Spec == Init /\ [][Next]_vars

(* The process keeps taking datagrams, the server answers what reaches it, *)
(* and stations and the access point act on what they are sent; faults are *)
(* never obliged to happen.                                                *)
FairSpec ==
  /\ Spec
  /\ WF_vars(ProxyStep)
  /\ WF_vars(ServerStep)
  /\ \A st \in Stations : WF_vars(PeerStep(st))

-----------------------------------------------------------------------------
(* The proxy implements the tunnel.  It never hands an endpoint a record   *)
(* that is not, unit for unit, the next one the other endpoint of the same *)
(* handshake sent, whatever fragments the two legs are cut into, and lets  *)
(* no station in before its last record has arrived (eap_tls.py: "never    *)
(* parses, validates, or alters a single byte of the TLS records").        *)
AtServer ==
  [st \in Stations |->
     LET mine == {c \in DOMAIN server : server[c].st = st}
     IN  IF mine = {} THEN <<>> ELSE server[Min(mine)].got]

Tunnel == INSTANCE TlsTunnel WITH
  flights <- [st \in Stations |-> [i \in 1 .. FlightCount |-> Flight(st, i)]],
  atServer <- AtServer,
  atPeer <- [st \in Stations |-> peer[st].got],
  verdict <- [st \in Stations |-> IF peer[st].status \in {"success", "failure"}
                                    THEN peer[st].status ELSE "none"]

TunnelSpec == Tunnel!Spec

(* Every station that starts is let in (mediator.py: a collision of        *)
(* Identifiers would leave it waiting, "the auth then hangs"); and with an *)
(* attempt more than there are faults, so is one a fault has hit, whatever *)
(* it left behind in the table or at the server (serve_forever's handler   *)
(* of exceptions, _lookup_session()).                                      *)
Completes == <>(\A st \in Stations : peer[st].status = "success")

(* Each leg sees its own Identifiers in order: a Request the AP still      *)
(* waits for is new to the station, an EAP-Success or EAP-Failure answers  *)
(* its last Response, and what goes upstream answers the server's last     *)
(* Request (handle_supplicant_eap's sync of down_next_id,                  *)
(* _restamp_terminal, upstream_last_eap_req_id).                           *)
IdentifiersMatch ==
  /\ \A st \in Stations : \A m \in toAp :
       Awaited(st, m) /\ m.eap # Nil =>
         IF m.code = "challenge" THEN m.eap.id # peer[st].id ELSE m.eap.id = peer[st].id
  /\ upstream # Nil /\ upstream.state # Nil => Continues(upstream)

(* The figure the project measures: a handshake costs one upstream round   *)
(* trip for Identity, one for each chunk of a station flight at the        *)
(* upstream size, one more for every further fragment of a server flight,  *)
(* and one for the verdict, so four when every flight fits one packet      *)
(* whatever the downstream size.  In passthrough the station's own         *)
(* fragment size and the access point's Framed-MTU count instead           *)
(* (upstream_round_trips, send_eap()'s handling of Framed-MTU).            *)
ChunkSize(i) ==
  IF i % 2 = 1
    THEN IF Reassembling THEN UpstreamFragmentSize ELSE PeerFragmentSize
  ELSE IF Reassembling /\ StripFramedMtu THEN ServerFragmentSize
  ELSE IF Reassembling /\ FramedMtuOverride # Nil
    THEN Smaller(ServerFragmentSize, FramedMtuOverride)
  ELSE Smaller(ServerFragmentSize, ApMtu)

Cost(i, size) == ChunkCount(size, ChunkSize(i)) - (IF i % 2 = 0 THEN 1 ELSE 0)

(* After Identity and flight i of a handshake of the given flight sizes.   *)
TripsAfter(sizes) ==
  LET trips[i \in 0 .. FlightCount] ==
        IF i = 0 THEN 1 ELSE trips[i - 1] + Cost(i, sizes[i])
  IN  trips

ExpectedTrips(st) == TripsAfter(script[st])[FlightCount] + 1

(* A request that timed out counts too, and a session left under its       *)
(* synthetic key takes it into the next authentication begun there, be it  *)
(* another station's (_lookup_session()).                                  *)
RoundTripsExact ==
  \A x \in reports :
    x.result = "accept" =>
      \E v \in Range(server) :
        /\ v.verdict = "accept"
        /\ x.upstream_round_trips - ExpectedTrips(v.st) \in 0 .. MaxTimeouts - budget.timeout

(* No packet handed to the access point holds more TLS data than its link  *)
(* takes (send_eap(): "the AP can't deliver it as a single EAPOL frame");  *)
(* README.md: the server flight goes to it "in multiple EAP fragments based *)
(* on the original Framed-MTU".  It takes a downstream.fragment_size chosen *)
(* for the access point: the code compares the two nowhere.                *)
FitsApLink == \A m \in toAp : m.eap # Nil => Len(m.eap.data) <= ApMtu

(* A session is left in the table only by a fault that leaves its station  *)
(* waiting, one by each: every other one is dropped with its verdict (the  *)
(* drop at the end of _handle_datagram, rekey()).                          *)
LeaksBounded == Quiet => Cardinality(DOMAIN sessions) <= FaultsSeen

(* A station is let in only by the server, in a conversation of its own    *)
(* (the session an Access-Accept is taken from, _lookup_session()).        *)
AdmissionHonest ==
  \A m \in toAp : m.code = "accept" =>
    \E v \in Range(server) : v.st = m.to[1] /\ v.verdict = "accept"

(* The keys of an Access-Accept were encrypted under the authenticator of  *)
(* the request it answers (last_ap_authenticator: "the same encrypted      *)
(* bytes decrypt cleanly at the AP").                                      *)
KeysBound == \A m \in toAp : m.code = "accept" => m.keys = m.to

(* Nothing of one station's handshake is ever handed to another, not even  *)
(* when requests are repeated (_lookup_session()'s keys).                  *)
StationsSeparate ==
  LET Own(st, records) == \A i \in DOMAIN records : \A u \in Range(records[i]) : u[1] = st
  IN  /\ \A st \in Stations : Own(st, peer[st].got)
      /\ \A v \in Range(server) : Own(v.st, v.got)

(* The one thread there is always comes back to its socket: a drain ends,  *)
(* a timeout unwinds (serve_forever, _drain_upstream_fragments).           *)
ThreadReturns == handler # Nil ~> handler = Nil

-----------------------------------------------------------------------------
(* Statements of the code's documents, which the code does not meet.       *)

(* eap_tls.py on the TLS payload: "It never parses, validates, or alters a *)
(* single byte".                                                           *)
RecordsIntact ==
  /\ \A st \in Stations : \A i \in DOMAIN peer[st].got : peer[st].got[i] = Flight(st, 2 * i)
  /\ \A v \in Range(server) : \A i \in DOMAIN v.got : v.got[i] = Flight(v.st, 2 * i - 1)
=============================================================================
