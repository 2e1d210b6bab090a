------------------------------ MODULE Session -------------------------------
(***************************************************************************)
(* Session and SessionTable of src/proxy/session.py: what the proxy keeps  *)
(* for one authentication in flight, and the dictionary it keeps it in.    *)
(* Of the counters only upstream_round_trips, the figure the project       *)
(* measures, is kept.                                                      *)
(***************************************************************************)
EXTENDS EapTls

CONSTANTS Mode             \* "reassemble" or "passthrough"

ASSUME ModeAssumption == Mode \in {"reassemble", "passthrough"}

-----------------------------------------------------------------------------
(* keys is the authenticator under which the server encrypted the MPPE     *)
(* keys the session holds: the two keys are opaque and always travel       *)
(* together.  pending[v] is the terminal EAP packet held for verdict v.    *)
(* Of down_outbox only the chunks are kept: chunks leave it in order, so   *)
(* the index the code stores beside each is implied.                       *)

NewSession(key) ==
  [key |-> key,
   radius_state |-> Nil,
   downstream_state |-> Nil,
   ap_attrs |-> <<>>,
   keys |-> Nil,
   last_ap_authenticator |-> Nil,
   upstream_last_eap_req_id |-> Nil,
   down_last_req_id |-> Nil,
   up_reasm |-> EmptyReassembler,
   down_reasm |-> EmptyReassembler,
   down_outbox |-> <<>>,
   up_next_id |-> 0,
   down_next_id |-> 0,
   upstream_round_trips |-> 0,
   result |-> Nil,
   pending |-> [accept |-> Nil, reject |-> Nil]]

Verdict == {"accept", "reject"}

(* The Identifier of the next Response sent upstream: the server's last    *)
(* Request, or a counter of the session's own when there has been none.    *)
EchoId(s) ==
  IF s.upstream_last_eap_req_id # Nil
    THEN s.upstream_last_eap_req_id
    ELSE NextId(s.up_next_id)

Echoed(s) ==
  IF s.upstream_last_eap_req_id # Nil
    THEN s
    ELSE [s EXCEPT !.up_next_id = NextId(@)]

(* Mutant of Restamp: the server's packet relayed as it is.                *)
RestampNot(s, eap) == eap

(* Rewrite a terminal packet to the Identifier the supplicant expects.     *)
Restamp(s, eap) ==
  IF eap = Nil \/ s.down_last_req_id = Nil
    THEN eap
    ELSE [eap EXCEPT !.id = s.down_last_req_id]

-----------------------------------------------------------------------------
(* The table is a partial function from keys to sessions.                  *)

(* Mutant of StateKey: the key made of a part of the State.                *)
StateKeyTruncated(token) == <<"st", token \div 2>>

StateKey(token) == <<"st", token>>

Get(table, key) == IF key \in DOMAIN table THEN table[key] ELSE NewSession(key)

Put(table, s) ==
  [k \in DOMAIN table \cup {s.key} |-> IF k = s.key THEN s ELSE table[k]]

(* Mutant of Drop: the entry stays.                                        *)
DropNot(table, key) == table

Drop(table, key) == [k \in DOMAIN table \ {key} |-> table[k]]

(* Mutants of Rekey: the old entry not popped; the session's own key not   *)
(* updated.                                                                *)
RekeyCopying(table, old, s) == Put(table, s)
RekeyStaleKey(table, old, s) ==
  [Put(Drop(table, old), s) EXCEPT ![s.key] = [s EXCEPT !.key = old]]

(* rekey(): the session at key old becomes s, under the key s now has.     *)
Rekey(table, old, s) == Put(Drop(table, old), s)
=============================================================================
