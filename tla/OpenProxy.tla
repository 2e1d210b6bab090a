----------------------------- MODULE OpenProxy -----------------------------
(***************************************************************************)
(* The proxy in an arbitrary environment: any access point may send any    *)
(* well-typed datagram, quoting any State the proxy has minted, the server *)
(* may answer any request with any reply, requests time out, replies get   *)
(* lost, the process restarts.  What holds here holds whatever the two     *)
(* peers do.                                                               *)
(***************************************************************************)
EXTENDS EapProxy

CONSTANTS Unit, Address, Station, Authenticator, ServerState, AttrValue,
          Datagrams,      \* what an access point may send
          ServerReplies   \* what the server may answer

Attributes == UNION {[names -> AttrValue] : names \in SUBSET {"Framed-MTU", "NAS-IP-Address"}}

Datagram ==
  [from : Address, calling : Station \cup {Nil}, state : Nat \cup {Nil},
   authenticator : Authenticator, attrs : Attributes, eap : Packet(Unit)]

ServerReply ==
  [code : {"challenge"} \cup Verdict, eap : Packet(Unit) \cup {Nil},
   state : ServerState \cup {Nil}, keyed : BOOLEAN]

Key ==
  ({"st"} \X Nat) \cup ({"new"} \X Station) \cup ({"new"} \X Address \X Identifier)

HandlerType ==
  [pc : {"forward", "drain", "passthrough", "non_tls"},
   key : Key, datagram : Datagram, rest : Seq(Seq(Unit))]

UpstreamType ==
  [authenticator : Authenticator, state : ServerState \cup {Nil},
   calling : Station \cup {Nil}, attrs : Attributes, eap : Packet(Unit)]

ASSUME NoneAssumption ==
  /\ Nil \notin Authenticator /\ Nil \notin Packet(Unit) /\ Nil \notin Station
  /\ Nil \notin ServerState
  /\ Nil \notin HandlerType /\ Nil \notin UpstreamType /\ Nil \notin Verdict
ASSUME MtuAssumption == FramedMtuOverride \in AttrValue \cup {Nil}
ASSUME DatagramsAssumption == Datagrams \subseteq Datagram

(* A server that accepts an EAP-TLS authentication hands out the keys it   *)
(* derived, so every Accept is keyed.                                      *)
ASSUME ServerRepliesAssumption ==
  /\ ServerReplies \subseteq ServerReply
  /\ \A r \in ServerReplies : r.code = "accept" => r.keyed

-----------------------------------------------------------------------------
(* A State is 16 random octets: nobody can quote one not minted yet.       *)
ReceiveAny ==
  \E d \in Datagrams : (d.state # Nil => d.state < minted) /\ Receive(d)

AnswerAny == \E r \in ServerReplies : Answer(r)

(* A reply reaches the AP, or is lost on the way.                          *)
Leave ==
  \E m \in toAp :
    /\ toAp' = toAp \ {m}
    /\ UNCHANGED <<sessions, handler, upstream, minted, reports>>

OpenNext == ReceiveAny \/ AnswerAny \/ UpstreamTimeout \/ Restart \/ Leave

OpenSpec == ProxyInit /\ [][OpenNext]_proxyVars

-----------------------------------------------------------------------------
SessionType ==
  [key : Key,
   radius_state : ServerState \cup {Nil},
   downstream_state : Nat \cup {Nil},
   ap_attrs : Attributes,
   keys : Authenticator \cup {Nil},
   last_ap_authenticator : Authenticator \cup {Nil},
   upstream_last_eap_req_id : Identifier \cup {Nil},
   down_last_req_id : Identifier \cup {Nil},
   up_reasm : Reassembler(Unit),
   down_reasm : Reassembler(Unit),
   down_outbox : Seq(Seq(Unit)),
   up_next_id : Identifier,
   down_next_id : Identifier,
   upstream_round_trips : Nat,
   result : Verdict \cup {Nil},
   pending : [Verdict -> Packet(Unit) \cup {Nil}]]

ApReplyType ==
  [to : Authenticator, code : {"challenge"} \cup Verdict, state : Nat \cup {Nil},
   keys : Authenticator \cup {Nil}, eap : Packet(Unit) \cup {Nil}]

(* Type correctness of the proxy's state.                                  *)
TypeOK ==
  /\ DOMAIN sessions \subseteq Key
  /\ \A k \in DOMAIN sessions : sessions[k] \in SessionType
  /\ handler \in HandlerType \cup {Nil}
  /\ upstream \in UpstreamType \cup {Nil}
  /\ toAp \subseteq ApReplyType
  /\ minted \in Nat
  /\ \A x \in reports :
       x \in [key : Key, result : Verdict, upstream_round_trips : Nat]

(* Every session is filed under the key it carries, and once it has a      *)
(* State of its own that key is made of it: the State the AP quotes in the *)
(* next round finds the session, no two sessions share one (rekey() and    *)
(* _build_reply() of downstream_server.py).                                *)
TableCoherent ==
  \A k \in DOMAIN sessions :
    /\ sessions[k].key = k
    /\ sessions[k].downstream_state # Nil =>
         /\ k = StateKey(sessions[k].downstream_state)
         /\ sessions[k].downstream_state < minted

(* While the thread is blocked upstream, the session it will go on with is *)
(* in the table, and that session, the request on the upstream wire and    *)
(* the datagram being answered carry one authenticator (send_eap()'s       *)
(* "Mirror the AP's Request Authenticator").                               *)
HandlerCoherent ==
  /\ handler = Nil <=> upstream = Nil
  /\ handler # Nil =>
       /\ handler.key \in DOMAIN sessions
       /\ sessions[handler.key].last_ap_authenticator = handler.datagram.authenticator
       /\ upstream.authenticator = handler.datagram.authenticator

(* Unless I/O fails, a session that has reached its verdict is gone     *)
(* from the table with the reply that carries it (the drop at the end of   *)
(* _handle_datagram).                                                      *)
NoFinishedSession ==
  ~IoMayFail => \A k \in DOMAIN sessions : sessions[k].result = Nil

(* The MPPE keys of an Access-Accept are encrypted under the authenticator *)
(* of the very Access-Request it answers, so the AP can decrypt them, for  *)
(* all that they were made for another request, on another leg             *)
(* (last_ap_authenticator, ms_mppe_*_key).                                 *)
KeysUsable ==
  ~IoMayFail => \A m \in toAp : m.code = "accept" => m.keys = m.to

(* The inductive strengthening of the above.                               *)
ProxyInv ==
  TypeOK /\ TableCoherent /\ HandlerCoherent /\ NoFinishedSession /\ KeysUsable

(* mediator.py on the drain of a server flight: "Returns the complete      *)
(* record, or None".  When a drain ends with something for the supplicant, *)
(* the reassembler has seen the last fragment.                             *)
NoHalfRecord ==
  [][ handler # Nil /\ handler.pc = "drain" =>
        \A m \in toAp' \ toAp : m.code = "challenge" =>
          sessions'[StateKey(m.state)].down_reasm.state = "complete" ]_proxyVars
=============================================================================
