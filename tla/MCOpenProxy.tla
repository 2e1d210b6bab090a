---------------------------- MODULE MCOpenProxy ----------------------------
(* OpenProxy on a small instance: one station behind one access point, two *)
(* authenticators, records of at most MaxMessageLen units.                 *)
EXTENDS OpenProxy, FiniteSets, FiniteSetsExt, TLC

CONSTANTS MaxMinted,   \* downstream States minted
          MaxTrips,    \* upstream round trips of the sessions in the table
          MaxWire,     \* replies on their way to the AP
          MaxSessions, \* entries of the table
          MaxBuffer    \* units in a reassembler

MCOther(kind) == [kind |-> kind, id |-> 255, length |-> Nil,
                  more |-> FALSE, start |-> FALSE, data |-> <<>>]

MCDatagrams ==
  [from : Address, calling : Station, state : {Nil, 0, 1},
   authenticator : Authenticator, attrs : {<<>>},
   eap : {Frame(255, Nil, FALSE, <<>>), Frame(255, 1, TRUE, <<"a">>),
          Frame(255, Nil, FALSE, <<"a">>), Frame(255, 2, FALSE, <<"a">>),
          MCOther("other"), MCOther("malformed")}]

MCServerReplies ==
  LET FromServer(code, eap) == [code |-> code, eap |-> eap, state |-> "s", keyed |-> TRUE]
  IN  {FromServer("challenge", eap) :
         eap \in {Frame(7, Nil, FALSE, <<>>), Frame(7, Nil, TRUE, <<"a">>),
                  Frame(7, Nil, FALSE, <<"a">>), Frame(7, 2, FALSE, <<"a">>),
                  MCOther("other"), Nil}}
      \cup {FromServer("accept", MCOther("success")), FromServer("reject", Nil)}

(* The bounds: the largest numbers of mints, trips, replies and sessions.  *)
Bounds ==
  /\ minted <= MaxMinted
  /\ Cardinality(toAp) <= MaxWire
  /\ Cardinality(DOMAIN sessions) <= MaxSessions
  /\ MapThenSumSet(LAMBDA k : sessions[k].upstream_round_trips, DOMAIN sessions) <= MaxTrips
  /\ \A k \in DOMAIN sessions :
       /\ Len(sessions[k].up_reasm.buffer) <= MaxBuffer
       /\ Len(sessions[k].down_reasm.buffer) <= MaxBuffer

(* The log of reports is written and never read: states that differ in it  *)
(* alone are one.                                                          *)
MCView == <<sessions, handler, upstream, toAp, minted>>

(* No property tells one authenticator from another.                       *)
MCSymmetry == Permutations(Authenticator)

MCNext == OpenNext /\ Bounds'
MCSpec == ProxyInit /\ [][MCNext]_proxyVars
=============================================================================
