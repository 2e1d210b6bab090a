# eap-accel: a TLA+ development

`src/proxy` is a RADIUS proxy that shortens EAP-TLS authentications with large
(post-quantum) certificates. It sits between an access point (AP) and an auth
server, reassembles the TLS records of each direction, answers the small
fragments of one leg locally and carries whole records, in large fragments, on
the other. A baseline mode, passthrough, relays every packet as it is. The
figure the project measures is the number of upstream round trips.

These modules model the proxy, close it with two different environments, look
into its upstream requests, its data path and the life of its process in modules
of their own, check all of them with TLC and prove all their invariants and their
three refinements with TLAPS.

## The system

| Component | State | Operations | Talks to |
|---|---|---|---|
| Framing core `eap_tls.py` | reassembler: state, buffer | `parse`, `build`, `build_ack`, `ingest`, `fragment` | called by the mediator |
| Session, SessionTable `session.py` | one `Session` per authentication; table from keys to sessions | `get_or_create`, `rekey`, `drop`, `finish`, `next_*_id`, `reap_idle` (never called) | shared by server and mediator |
| Mediator `mediator.py` | none of its own | `handle_supplicant_eap`, `_forward_record_upstream`, `_handle_upstream_reply`, `_drain_upstream_fragments`, `_begin_downstream_fragmentation`, `_passthrough_upstream` | calls `send_eap` and blocks |
| Downstream server `downstream_server.py` | the socket, the one thread | `serve_forever`, `_handle_datagram`, `_lookup_session`, `_build_reply`, `_passthrough_non_tls` | the AP, over UDP |
| Upstream client `upstream_radius.py` | pyrad client | `send_eap`, `_SendPacket` with its retries | radsecproxy and the auth server |
| Reporter `report.py` | sequence number, the files | `report`, `_write_json` | files, terminal |
| `proxy.py`, `config.py` | the configuration | `main`, `_resolve_config`, `load`, `validate` | builds all of the above |

**Concurrency.** There is one thread. It takes a datagram, and either answers at
once or sends an upstream request and *blocks*, possibly several times, until
that request is answered or its retries run out. So handlers do not interleave
with each other. What interleaves is everything else: the datagrams of several
stations between handlers, the replies in flight, the server's conversations,
retransmissions, losses, and a restart or timeout at any point a handler blocks.

**What is hard here.**
- Two legs with Identifier spaces, States and fragment boundaries of their own,
  that the proxy has to keep apart and in step.
- MPPE keys encrypted under an authenticator that is mirrored from the other leg.
- Sessions whose table key changes in the middle of a handler.
- A handler abandoned half-way by a timeout, with its changes to the session kept.
- UDP: requests repeated by the AP, lost replies, a restart with States outstanding.
- Upstream requests of one handler that share an authenticator, so that only an
  Identifier of one octet tells a late reply from the one awaited.
- What a fault leaves in the table, under a synthetic key that the next attempt,
  or another station, finds again.
- Settings from a file, the flags over them, and the mode, which decide together
  what the server is told.

`PROJECT.json` lists these as hazards, each at its line with the properties that
watch it; a note says why three of them have none.

**What makes each part correct.** The framing core returns the record that was
cut up; the table files every session under the key the AP will quote; the
mediator hands each side complete records, in turn, under Identifiers that side
expects; the server answers every request with at most one reply, bound to it,
and always returns to its socket; the upstream client's authenticator is that
of the request being answered; Framed-MTU is rewritten in reassemble mode only.

## Modules

| Module | Models |
|---|---|
| `EapTls` | packets, `ingest`, `fragment`, Identifier arithmetic |
| `Session` | `Session` and `SessionTable` as records and a partial function; `_restamp_terminal` |
| `EapProxy` | the process: one disjunct of `Receive` for each branch taken on a datagram, one of `Answer` for each branch taken on an upstream reply; `Report`; `UpstreamTimeout`; `Restart` |
| `OpenProxy` | `EapProxy` in an arbitrary environment, its type invariant, its safety invariants, `ProxyInv` |
| `TlsTunnel` | abstract: an opaque tunnel for the flights of TLS handshakes |
| `Testbed` | `EapProxy` with stations, access point, auth server, faults and second attempts; the refinement of `TlsTunnel`; end-to-end properties |
| `RecordChannel` | abstract: a channel that delivers whole records in order, once |
| `RecordRelay` | one direction of the data path: a record cut by one endpoint, put together by `ingest`, cut anew by `fragment`, sent chunk by chunk; implements `RecordChannel` |
| `RequestReply` | abstract: calls that end with their own answer, processed at most once, or with a timeout |
| `UpstreamClient` | `SendPacket()` with its retries over a network that loses, repeats and delays; implements `RequestReply` |
| `ProxyProcess` | `main()` from command line to serving, exits and starts, the reporter's files |
| `EapTlsProofs`, `OpenProxyProofs`, `TestbedProofs`, `TunnelProofs`, `BoundProofs`, `RecordRelayProofs`, `UpstreamClientProofs`, `ProxyProcessProofs` | the proofs |
| `MC...` | instances for TLC |

`EapTls` <- `Session` <- `EapProxy` <- `OpenProxy`, and `EapProxy` <- `Testbed`,
which instantiates `TlsTunnel`. Their proofs build on each other in the same way:
`OpenProxyProofs` <- `TestbedProofs` <- `TunnelProofs` <- `BoundProofs`, the last two
with the lemmas of `EapTlsProofs` about chunks. `EapTls` <- `RecordRelay`, which instantiates
`RecordChannel`. `UpstreamClient` instantiates `RequestReply`. `RecordRelay` and
`UpstreamClient` are what `EapProxy` takes for granted in one step: that the
chunks it hands out are the record it took in, and that the reply to `Answer`
is the reply to the request in `upstream`.

### How the model corresponds to the code

*State.* `sessions` is `SessionTable._sessions`. `handler` is the call stack of
the blocked thread: where it will go on (`pc`: the loop over chunks, the drain,
passthrough or a non-TLS packet), the table key of its session, the datagram it
answers and the chunks it still has to send; `Nil` when the thread waits in
`recvfrom`. `upstream` is the Access-Request it is blocked on. `toAp` holds the
replies on their way to the AP, `reports` the records written, and `minted`
counts the States handed out: a State is 16 random octets, so the n-th is the
number n. An Access-Request is identified by its Request Authenticator.

*Steps.* A step runs from one blocking point to the next. Since handlers cannot
interleave, nothing else can happen between those points that would see the
state in between. A reply and the report and drop that follow it are one step,
with its failures as alternatives where `IoMayFail`: a send that raises loses the
reply and keeps the session; a record that cannot be written is lost unnoticed
(`report` catches `OSError`); a summary that cannot be printed raises after the
reply has gone, and the session stays (`Report`).

*Packets.* A packet is a record with its kind, Identifier, L/M/S bits and data.
A malformed packet is one on which `parse` raises. TLS data is a sequence of
units: one unit stands for as many octets as one likes, and fragment sizes are
in units. In the testbed unit *j* of flight *i* of station *s* is `<<s, i, j>>`,
so that any loss, repetition, transposition or crossing shows.

*Simplifications that lose nothing the properties see.* The index beside each
chunk of the outbox is implied by the order they leave in. The expected length
of a reassembler is checked when declared and then ignored by the code itself.
MPPE keys are represented by the authenticator they are encrypted under. Of the
metrics only `upstream_round_trips` is kept. Of the forwarded attributes the
model tells Framed-MTU, the only one rewritten, from the others.

*The retries of one upstream request* are one exchange of `EapProxy`: the request
is answered once, or times out, and the server may have seen it then or not.
`UpstreamClient` shows why. There a request is a draw from the process-wide
counter of Identifiers (each datagram decoded draws one too), with the mirrored
authenticator; the network keeps copies of requests and replies as it likes; a
reply is accepted if Identifier and authenticator match (`VerifyReply`); the
server answers a repeat as it answered the original. What has outlived
`Lifetime` draws is gone: `LifetimeAssumption` has it at most a round of the
counter. The code does not enforce that. Its ten seconds of timeout, three
times, are about a server's memory for duplicates, and 256 packets in that time are
far beyond one thread that blocks on each.

*The process.* A step of `ProxyProcess` is a phase of `main()`; each may end in
`Exit` (a file that does not load, a value that is not valid, a directory that
cannot be made, a port that is taken, a kill). `Advertised` is what `UpstreamAttrs`
of `EapProxy` makes of Framed-MTU, for a configuration rather than for constants: an
attribute the access point sent is relayed, rewritten or dropped, and none is added.
A file name is directory, second, counter, mode and result, and a write puts the
record in place of whatever that name held; a report may write its record, leave it
truncated, or write nothing, with its number drawn or not. The second is one of local
time, as in the code, which goes on (`Tick`) or back to any earlier one (`SetBack`) at
any moment, and a process may be started in the second its predecessor ended in.

## Environments

`OpenProxy`: any datagram of a given set, from any AP, quoting any State minted so
far; any server reply of a given set to any request; timeouts, restarts, lost
replies. The one assumption about behaviour is that an Access-Accept carries
keys. What holds here is due to the proxy alone.

`Testbed`: stations that follow RFC 5216 (stop-and-wait fragments, duplicates of a
Request answered again, EAP-Success believed only with the right Identifier), an
AP, a server that follows RFC 3579 and RFC 5216 and checks State and Identifier,
and a budget of faults: lost datagrams and replies, repeated requests, upstream
timeouts, restarts, `MaxFaults` of all kinds together. A station that has failed, or
that nothing is under way for, may begin anew, `MaxAttempts` times in all. The
server knows a station by its Identity; the AP may leave Calling-Station-Id out
(`CallingSent`). These programs are not in the repository, and are modelled as
the proxy's code and comments take them to behave.

`RecordRelay`: an endpoint that cuts each record into fragments of any sizes and
declares its length or not, and another that takes the chunks and acknowledges
them. `UpstreamClient`: the network and the server described above.

## Properties and runs

A property is stated in the module, under a comment that says which code it is
about. Each property of a passing run has a mutant, a plausible bug in one
definition kept beside that definition in its module, which breaks it.

| Run | Question | Properties |
|---|---|---|
| `OpenProxy` | Does the invariant hold before it is proved? | `TypeOK`, `TableCoherent`, `HandlerCoherent`, `NoFinishedSession`, `KeysUsable` |
| `Shapes` | Does every shape of handshake complete, unaltered, at the price claimed, with a Framed-MTU towards the server larger than the AP's? | `TunnelSpec`, `Completes`, `IdentifiersMatch`, `RoundTripsExact`, `FitsApLink` |
| `Passthrough` | Is the baseline the same tunnel, with Framed-MTU left alone? | `TunnelSpec`, `Completes`, `RoundTripsExact`, `FitsApLink` |
| `Faults` | What survives losses, timeouts, restarts and rejects, in any combination, with two stations? | `TunnelSpec`, `ThreadReturns`, `AdmissionHonest`, `KeysBound`, `RoundTripsExact`, `LeaksBounded` |
| `Recovery` | Does what a fault leaves behind keep anybody out who tries again, or mix up two stations? | `Completes`, `AdmissionHonest`, `StationsSeparate`, `RoundTripsExact`, `LeaksBounded` |
| `Framing` | Is each direction a channel of whole records, for every way to cut them? | `TypeOK`, `ChunksAreData`, `RefusalExact`, `ChannelSpec`, `Settles` |
| `Exchange` | Is each upstream request answered by its own answer, once? | `TypeOK`, `RequestReplySpec`, `CallEnds` |
| `Process` | Is the server told of the link what the operator asked for, and what can replace a record? | `AdvertisesAsAsked`, `RecordsStay` |

`RoundTripsExact` is the claim the project is about (`src/README.md`, "reassemble
holds at 4 upstream round-trips"): it equates the counter that gets reported
with a formula in the sizes of the flights, for every shape, mode and treatment
of Framed-MTU. It has a slack of one for each upstream timeout: when the
Identity round times out, its session stays under the synthetic key with its
counter, and the next authentication that begins under that key, the same
station's or, without Calling-Station-Id, another's, is reported with that round
trip on top. So a record is not always that of one authentication
(`src/proxy/session.py:157` calls it "the per-auth measurement record").

`LeaksBounded` bounds what stays in the table by the number of faults. That
anything stays at all is due to `reap_idle`, which has no caller, so an abandoned
session stays as long as the process (`src/proxy/session.py:182` says the table
"handles key lookup/eviction").

`Completes` in `Recovery` has a fault of any kind hit any step of either station, and
each station one attempt more: both are let in.

### What the documents say and the code does not do

Four runs check a sentence of the repository's comments and documents and find
it violated. `PROJECT.json` has the quotations.

| Run | What happens |
|---|---|
| `DocRecordsIntact` | A request the AP repeats makes the proxy take a fragment twice, or skip one: there is no check for duplicates. The TLS stacks notice and the authentication fails; nobody is admitted by it, and the next attempt succeeds (run `Recovery`). |
| `DocKeysBound` | After a failed send of an Access-Accept, or of the printing of its summary, a later request is answered with keys it cannot decrypt. |
| `DocHalfRecord` | A challenge without EAP-Message, or with an empty packet, in the middle of a drain hands the supplicant half a record. |
| `DocOriginalMtu` | Fragments towards the AP are cut to a setting, not to the AP's Framed-MTU, and nothing compares the two. |

Five more were met on the way and have no run. "Verbatim" passthrough drops the
EAP-Failure of a reject (`src/proxy/mediator.py:397`, against line 377). An explicit
path `config.yaml` that does not exist falls back to the packaged file, because
`_resolve_config` tells an explicit path by its value (`src/proxy/proxy.py:94`,
against lines 88-90); `Launch` has the step. A `fragment_size` between 64956 and 65000 is
valid and yet its packets exceed the 65535 octets of a RADIUS packet. An override of
Framed-MTU is said to go out "on every upstream Access-Request"
(`src/proxy/upstream_radius.py:191`), but `send_eap` only rewrites an attribute the AP
has sent (line 267): for an AP without Framed-MTU it has no effect, and
`AdvertisesAsAsked` says so of it. And an output directory does not always hold "one
file per auth" (`src/proxy/config.py:44`): the names are made of local time in seconds
and a counter that starts again with the process (`src/proxy/report.py:70-75`), so a
process started in the second its predecessor ended in, or when local time has gone
back (the end of daylight saving time, a clock that is set), may replace a record of an
earlier process. The exception in `RecordsStay` is that case, and without it the property
fails within twelve steps; what it says is that nothing else replaces a record.

### Bounds

*Testbed.* `MCTestbed` fixes four flights, as in a TLS 1.2 handshake with client
certificates (ClientHello, server flight, client flight, ChangeCipherSpec and
Finished). `Shapes` takes every combination of 1-3, 1-4, 1-4 and 1-2 units
against fragment sizes of 1 and 2 units: one fragment, several, exact multiples
and remainders, both directions, both legs cut differently. Identifiers keep
their full octet; exchanges start at 0 and at 250, so that one of them wraps.
In `Shapes` the AP's Framed-MTU is 1, the override 2 and the server's own size
4; in `Passthrough` they are 2, 4 and 4, so that a rewritten Framed-MTU would show.
The runs with two stations use one shape in which every flight is fragmented;
two stations are enough for every pairwise mix-up. `Faults` allows one loss, one
timeout and one restart in the same run. `Recovery` allows one fault of the four
kinds (a second would need a second attempt, and brings nothing new: attempts share
nothing but the table), two attempts, and a handshake of two flights of two
units, so that there is a local ACK, a record sent in two chunks, a drain and a
queue of two fragments for the fault to fall into. Counterexamples of the `Doc...`
runs need at most one fault. The testbed stops when every station has its verdict
or waits in vain; that is the disjunct `Stop`, and any other deadlock is an error.

*Framing.* All records of up to 9 units, of two contents, two in a row, in every
cut, against a size of 3 and a limit of 8: under, at and over both. *Exchange.* Two
authenticators, two sends of each request, and a counter of four Identifiers that
comes round within the six draws of a run; `Lifetime` is the largest allowed.
*Process.* Values on both sides of each limit of `validate`, files that set, strip
or leave Framed-MTU, every combination of flags, access points with and without
Framed-MTU, two processes that get as far as serving (and any number that do not),
three authentications, and two seconds between which the clock moves back and forth:
enough for a record to be replaced across processes, with another file of either
process beside it. In these three the bounds cut behaviours short, so deadlock is not checked.

*OpenProxy.* One station, one unit of data, two authenticators (interchangeable:
symmetry), records of at most one unit against `MaxMessageLen = 1`, and the
bounds `MaxMinted`, `MaxTrips`, `MaxWire`, `MaxSessions`, `MaxBuffer` on what
would grow. The bounds cut behaviours short, so deadlock is not checked there.
The log of reports, never read by the proxy, is left out of the view. Datagrams
start at Identifier 255, so that every increment wraps. The proof has none of
these bounds.

### Fairness

`FairSpec` assumes weak fairness of `ProxyStep` (the loop of `serve_forever`
takes the next datagram whenever the thread is back), of `ServerStep` (a server
that got a request answers it; `_SendPacket` otherwise ends in a timeout, which is a
fault with a budget) and of each station with its AP. No fault is ever obliged
to happen. `Completes` is checked without faults in `Shapes` and `Passthrough`, since
the proxy never retransmits anything to the AP on its own account; in `Recovery`
the fairness of a station includes that it begins anew when its attempt has come
to nothing, as a supplicant does.

`Settles` assumes that the endpoint goes on with a record it has begun and
acknowledges what it is sent. `CallEnds` assumes weak fairness of `Resend \/ GiveUp`
alone: the poll loop of `_SendPacket` compares a clock. Nothing is assumed of the
network or the server.

## Proofs

### The session table, the keys (`OpenProxyProofs`)

`OpenSpec => []ProxyInv`, and from it each of the five invariants, for every value
of the constants: any number of stations, APs, sessions and States, any fragment
sizes and message limit, both modes, any sets of datagrams and server replies of
the right type.

Assumptions: `Nil` is none of the other values (`NilAssumption`,
`NoneAssumption`, by which no State of the server is `None` either: a reply without
a State is told from one with), sizes are positive (`FragmentSizeAssumption`, from
`Config.validate`), the limit is a natural number, inputs are well typed
(`DatagramsAssumption`, `ServerRepliesAssumption`), Accepts carry keys.

Why five conjuncts: `KeysUsable` is the property wanted, and is not inductive.
The keys of a session are bound to the authenticator of the request `upstream`
carried; that this is the authenticator of the datagram being answered is
`HandlerCoherent`, which has to say in addition that the session a blocked
handler will go on with is still in the table under its key; that it is the
right session is `TableCoherent`; and that no keys of an earlier verdict can be
handed out, through the branch for a pending verdict, is `NoFinishedSession`.
The last two are hedged by `~IoMayFail`; `DocKeysBound` shows the hedge is
needed.

Outline: lemmas on the operators (`NextIdType`, `IngestType`, `FragmentType`, ...);
`Kept(s)`, a session fit to be put into the table, and `Current(s, d)`, the
session of the handler of datagram `d`, with lemmas that lookup, Identifier
sync and learning from a reply give such sessions (`OpenedCurrent`,
`SyncedCurrent`, `BlockedCurrent`); one lemma for each of the three ways a step
can end, an exception, an upstream request, a reply (`RaiseStep`, `AskStep`,
`ReplyStep`); `ReceiveShape` and `AnswerShape`, with one case for each branch of the
handlers, which say in which of four shapes (`Fails`, `Asks`, `Challenges`,
`Concludes`) a handler leaves the session it found; `NextInv`. The shapes say more
than `ProxyInv` needs, because the next proof builds on them.

### The whole path (`TestbedProofs`)

`Spec => []AdmissionHonest`, `Spec => []StationsSeparate` and, unless I/O fails,
`Spec => []KeysBound`, for any number of stations, handshakes of any flights and
sizes, both modes, with or without Calling-Station-Id, and faults without limit.

Assumptions: `Alphabet`, which says what the values of `OpenProxy`'s constants are
in the testbed (a unit is a station, a flight and a position, an authenticator a
station and a number, a server State a conversation and a step), and those of
`OpenProxy` and `Testbed`. Nothing is assumed of how stations, network and server
are scheduled. `DatagramsAssumption` and `ServerRepliesAssumption` play no part:
that what stations and server send is well typed is proved (`SendingType`,
`TakeReplyShape`, `OutcomeFits`).

`AdmissionHonest` is far from inductive: an Accept is honest because the server
was asked in a conversation with the right station, and that depends on the
`radius_state` of the session found, hence on the State the AP quoted, hence on
whom that State was sent to. `TestbedInv` therefore says of everything whose it is:
- `SessionsOwned`: the session's server State and verdict are those of the
  station whose authenticator it holds, and so is every unit in its reassemblers,
  its queue and its terminal packets (`Carries`); under a synthetic key, which two
  stations may share, it has none of these (`Scope`).
- `StatesUnshared`: a State that is in a reply, in a request, awaited by a
  station or the key of a session is known to one station only, and has been
  minted.
- `ChallengesQuote`: every challenge carries a State, so that a station only ever
  starts with its Identity, which names it.
- `HandlerOwned`: the request about belongs to the session of the blocked handler,
  and so do its data and the chunks still to be sent; only the Identity exchange
  runs under a synthetic key.
- `RepliesOwned`: the data of a reply are those of the station it goes to.
- `Admits`: `AdmissionHonest` itself.

`StationsSeparate` follows from the types, which are one station's: `Peer(st)` and
`Conversation(st)` hold units `Of(st)` only. That the proxy adds none to them is in
the lemmas about it, each of which is stated for any set `U` of units: a handler
that has come upon units of `U` only leaves and sends such only. One set for each
station would not do: what two stations share under a synthetic key is made of
`{}`, and takes on a station's units as it is moved to the key of a State.

Outline: `OutcomeFits`, whatever the server answers a request made in a station's
own conversation, or with its Identity, is that station's, and conversations only
grow, and outside a conversation it brings no data; `OpenedReady`, a datagram
finds a session of its own station, or nobody's, also one a fault left behind;
`RaiseOwned`, `AskOwned`, `ReplyOwned` and `EndOwned`, a handler that found such a
session leaves everything owned, in each of the four shapes; `OutsideStep`, a step
around the proxy after which nobody knows a State he did not know before; then one
case for each step and each fault.

### The tunnel and the Identifiers (`TunnelProofs`)

`Spec => TunnelSpec` and `Spec => []IdentifiersMatch`, for any number of stations,
flights of any sizes, any fragment sizes at the stations, on both legs and at the
server, any treatment of Framed-MTU, both modes, with or without Calling-Station-Id,
and losses, timeouts, restarts and rejects without limit, also where I/O fails.

Assumptions beside those of `TestbedProofs`: every flight holds some data
(`FlightsCarryData`), and requests are not repeated, by the AP or by a station that
begins anew (`NothingRepeated`). Without the latter the theorems are false:
`DocRecordsIntact` shows what a repeated request does to a record. `Shapes`,
`Passthrough` and `Faults` are instances of these assumptions.

The invariant has to say, at every moment, how far each unit of each flight has got,
through up to four buffers: the station's queue, the proxy's reassemblers and
chunks, the proxy's queue to the station, the server's queue and buffer.
`TunnelInv` says that at most one conversation with a station is about, and one
thing under way for it (`OneAtATime`): a request, the handler of one, or a reply.
Whatever it is tells where the rest is:
- `RequestFine`: the request is the station's `Identity`, or says what is next in
  the conversation (`Speaking`): the units from `a` to `b` of the flight (`Piece`)
  while the proxy or the server has gathered those before `a` (`AwaitsUp`) and the
  station still has those after `b` (`CutFrom`); or an ACK of a part of the server's
  flight, of which the rest is still queued (`AwaitsDown`).
- `HandlerFine`: the same in the middle of a record forwarded (`Forwarding`), a
  server flight drained (`Draining`), or a packet passed through.
- `ReplyFine`: the reply asks for a part of the station's flight (`Bids`), brings a
  part of the server's, or is a verdict; a success only when the station has all.
- Both legs' Identifiers are part of this: a challenge has another than the
  station's last, and the session's copy of the server's last is the server's
  (`Linked`).

A fault leaves a station without anything under way, or sets its session back to a
new one (`Dead`): from there only a refusal follows, which is why every one of these
has `Dead` as an alternative. A restart does that to all stations, in one step. What is under a synthetic
key, shared between stations, is `Blank`.

Outline: chunk arithmetic (`NextPiece`, `PieceIngested`); a handler that deals with
a request or an answer leaves its station in a good state and the others alone
(`RaiseTurn`, `AskTurn`, `ReplyTurn`, one lemma for each branch of `Receive` and of
`Answer` on top of them, joined in `ReceiveTurn` and `AnswerTurn`); what the server's
`Proceed` does with each packet (`ServerPiece`, `ServerAck`, `ConverseTalks`); what the station does with a
reply (`ReplyTaken`). For the refinement, each step is shown to add at most the next
flight at one end (`OutcomeGot` and `HeardTunnel` at the server, `PeerTunnel` at the
station) and to leave the tunnel alone otherwise (`NextImplements`).

### The link to the access point (`BoundProofs`)

`Spec => []FitsApLink`: with a `downstream.fragment_size` no larger than the AP's
Framed-MTU (`LinkSized`; `DocOriginalMtu` shows it is needed) in reassemble mode, and
without condition in passthrough, for all other values of the constants and all
faults, repeated requests among them. The two modes have different reasons, and the
invariant `LinkInv` holds both. In reassemble mode all data that a session has queued is
in chunks the proxy has cut, and no verdict it holds back carries data (`TableSlim`),
so that nothing depends on what the server does. In passthrough every request names
the link (`RequestsNameLink`), also the next one after a restart, which the session made
for it captures anew; the request upstream still names it (`HandlerSlim`), so the
server cuts to it (`ServerSlim`), and the proxy passes on what it gets.

### What is left in the table (`BoundProofs`)

`Spec => []LeaksBounded`: when nothing is under way, there are no more sessions in the
table than there have been losses, timeouts and restarts, for any number of stations
and authentications, all sizes and both modes.

Assumptions beside those of the tunnel: no flight, and so no length announced for one,
is over `MaxMessageLen` (`FlightsFit`; for one that is, `ingest` raises, nobody gets an
answer and the session stays), no send and no summary fails (`~IoMayFail`; such a
failure leaves its session too, and is not among the faults counted), and the
budgets are natural numbers (`BudgetAssumption`). `Faults` is an instance.

`LeaksBounded` speaks of quiet states only. In between, what the table holds is *claimed*
by something on its way: the blocked handler, a request that quotes the State, a
challenge that carries it (`Claimed`). The invariant `LeakInv` counts the others
(`Accounted`: no more `Orphans` than faults), and a quiet state has no claims. The work
is in the steps that are no faults, none of which may make an orphan: a handler must
end by blocking, by dropping its session or by sending a challenge that carries its
new key (`Ends`), hence not by raising, and a station must answer every challenge. So
`LeakInv` also says that there is always room for what a station says (`AllSaid`:
what the reassembler holds is no more than the units of the flight already sent,
also in the new session of a request after a restart) and that what it is told is
something it answers, an ACK only while it has a part of its flight left to send
(`AllTold`). `TunnelInv` alone does not give that: after a restart it only says that a
refusal follows (`Dead`), and the sessions made then must be accounted for as well.

Outline: `PieceTaken`, the next part of a flight that fits never raises; `ReceiveEnds`
and `AnswerEnds`, how each branch of the handlers ends; `EndsAccounted` and `TurnLeaks`,
such an end leaves nothing behind; `FaultLeaks`, a fault leaves one session at most;
`SentLeaks` and `TakenLeaks`, a station passes its claim on, or had none.

### The round trips (`BoundProofs`)

`Spec => []RoundTripsExact`: an authentication reported as accepted has cost the round
trips that the flights of an accepted handshake and the fragment sizes ask for, plus at
most one for each request that timed out, for any number of stations, handshakes of any
shape, sizes, treatment of Framed-MTU and both modes. Assumptions: those of the tunnel
(`Alphabet`, `FlightsCarryData`, `NothingRepeated`). Sends and reports may fail, and
`downstream.fragment_size` may be any: it changes no count.

The counter is kept by the proxy, one for each `Ask`, and the price is a sum over the
flights, so the property relates the two only at the end. The invariant `TripInv` does
it at every round trip. `Spent(v)` is what the server's conversation `v` has taken so
far: the price of the flights that are over, the chunks of the station's flight that have
come in, less the fragments of its own flight the server still holds. `Owes` says which
conversation a session pays for: none while its station has not been introduced, the one
whose last State it holds otherwise. The `Ledger` then says of every session in the
table, whatever else is under way: its counter, without the request on the wire
(`Wire`), is what it owes, plus at most one for each timeout (`Charged`). A
session that has missed a round, its request having timed out after the server saw it,
has a State its conversation is past and never catches up with, so it owes nothing
and is never accepted; `Charged` therefore also bounds the step of every State held.
`Follows` is what the conversations may do meanwhile. A session under a synthetic key
keeps its counter when its station, or another, begins there again; that is
where the slack is needed.

That each request moves the conversation on by exactly one round trip depends on the
sizes of packets, which `TunnelInv` says nothing of: `RequestsCut` and `HandlerCut` say
that every packet but the last of a flight is full (`Even`, `Full`) and that the
Framed-MTU the server is told is the one the price is computed with (`LimitOfAttrs`).

Outline: `TripsSum`, the price satisfies its recurrence; `OnwardSpends`, each packet the
server proceeds with adds one to `Spent`; `OutcomeSpends`, so does every outcome of a
request the proxy makes (`Bills`); `ReceiveLeavesOff` and `AnswerLeavesOff`, each branch
of the handlers ends by raising, asking or replying with a session that has paid the same
(`Tally`); `LeftOffSettles`, what that makes of the table and the reports; `BillCharged`
and `ChargeKept`, that keeps the ledger. The recurrence is the one induction over data in
the development: `AllNaturals` gives it in terms of sets, from the well-foundedness of <
on the natural numbers, since the library's induction theorem, which takes a predicate,
cannot be instantiated.

### The data path (`EapTlsProofs`, `RecordRelayProofs`)

`Spec => ChannelSpec`: for all records, ways to cut them, sizes and limits a direction
delivers every record whole, in order and once. `FragmentChunks`: every chunk of
`fragment()` is between 1 and `size` units. The invariant `RelayInv` says that
what has come in is a prefix of the record and is in the reassembler, and that
what has not gone out is `Fragment` of the rest of it: `FragmentHead` and
`FragmentTail` show that the head of the queue is the next chunk of that rest and
the tail its fragmentation again. Since the chunks are given by position, with the
number of them as a quotient, no induction over the record is needed; the
arithmetic is in the lemmas on `ChunkCount`.

### Upstream requests (`UpstreamClientProofs`)

`Spec => RequestReplySpec`, for every number of Identifiers, retries and
authenticators. Its core is `MatchUnique`: two packets about that match are the
same, because both were drawn in the last `Lifetime` draws and two draws less
than `PacketIds` apart differ modulo `PacketIds` (`ModDistance`). The invariant adds
that whatever is about belongs to a call (`Recent`) and that the server remembers
what it has processed while any of it is about (`Answered`); without the latter a
repeat would be processed twice.

### The process (`ProxyProcessProofs`)

`AdvertisesAsAsked`, whatever files and flags hold: what was loaded and the flags over
it determine `cfg` in every phase from `Override` on (`CfgInv`), and what is advertised
follows from `cfg` by cases.

`RecordsStay`, for any number of processes, errors and movements of the clock: a record
is replaced only by one of a later process at the same reading of local time. The
invariant `ProcessInv` adds that the files of this process have numbers it has drawn,
and that files carry the time in their names (`NamesUsed`, `NamesDated`). So a file of
the name about to be written is of an earlier process (`ReplacesOlder`), and of the
same second as the new one; what it had itself replaced was older still.

### Only model-checked

Liveness (`Completes`, `ThreadReturns`, `Settles`, `CallEnds`), since temporal reasoning
under fairness and `ENABLED` are beyond the backends in use. `TunnelSpec` with repeated
requests is not claimed, and no run checks it; `LeaksBounded` and `RoundTripsExact` with
second attempts, which the theorems leave out, are checked in `Recovery`.

## Not modelled

- Octets: attribute splitting, lengths on the wire, the HMAC of
  Message-Authenticator, the 4096/8192/65535 limits the upstream client lifts.
- `DirectionMetrics`, time stamps, the layout of the reporter's files and summary.
- YAML syntax and logging.
- `reap_idle`, which no code calls.
- A server that answers a complete record with an empty EAP-TLS packet in the
  testbed; `OpenProxy` takes that branch.
- Two proxies that share an output directory.
- The lab: shell scripts, patches of external programs, plots, captures, results.

## Where to go on

1. `LeaksBounded` and `RoundTripsExact` with second attempts: `TunnelInv` has at most one
   conversation for each station, which would become one for each attempt.
2. A numeric module for octets: configuration limits against the 65535 octets of a
   RADIUS packet, with the splitting into attributes of 253.
3. An idle reaper as the class defines it, and what calling it would change.
