# Verification of the H.248 / SIP gateway

TLA+ specifications of the gateway in `src/`, checked with TLC and, in part, proved with TLAPS.

## 1. The system

A carrier's Media Gateway Controller (MGC) controls one analogue line (the physical termination) over H.248/UDP.
An IP-PBX speaks SIP/UDP.
The gateway joins the two: it answers the MGC's commands, places and accepts SIP calls, and relays RTP.

| component | state | operations | works with |
|---|---|---|---|
| call bridge, `internal/bridge/{bridge,h248,sip}.go` | `line`, the `Call` objects, the indexes `callsByH248`, `callsBySIP`, `outboundCall`, `pendingH248`, `retainedSIPInvites`, timers | handlers for H.248 transactions and replies, SIP requests and responses; ready / unavailable callbacks; timers | is called by both endpoints, sends through them, owns the media relays |
| H.248 endpoint, `internal/h248/server.go` | `activeMGC`, `lastMGCActivity`, the current ServiceChange, the channel `serviceChangeReply`, the reply cache | registration loop, gate for foreign messages, duplicate suppression | calls the bridge's H.248 handlers |
| SIP endpoint, `internal/sip/server.go` | response cache with order and expiry, in-flight marks | duplicate suppression | calls `HandleSIP` |
| media relay, `internal/bridge/media.go` | four sockets, peers, payload types, tone state | open, close, forward RTP and RTCP, map telephone events, make tones | opened and closed by the bridge, told of SDPs by it |
| H.248 codec, `internal/h248/{message,interop}.go` | none | parse transactions, find descriptors, build replies | used by the H.248 side |
| SIP codec, `internal/sip/{message,sdp}.go` | none | parse and build messages and SDP | used by the SIP side |
| SIP digest, `internal/sip/digest.go` | none | parse a challenge, build the answer | used by the registration probe |
| configuration, `internal/config/config.go` | none | load and validate | used at start-up |
| socket binding, gateway process, probes, scripts | none of interest | operating-system calls, wiring, test clients, installation | |

What makes it hard:

* every datagram and every timer has its own goroutine; handlers look a call up in one critical section, send, and change the call in another;
* both networks lose, repeat, delay and reorder messages;
* a call can be ended by either side, by a timeout, by a failed send and by the loss of the MGC, at the same time;
* the line is shared: an origination and an incoming call can collide;
* the MGC can be replaced in the middle of everything;
* SDPs, learnt addresses and media change one relay from several goroutines; ports are handed out without a look at the sockets.

What makes each component right:

* **bridge** - the indexes name exactly the live calls; the on-hook of a call is reported once and the answer is reported in whichever order its two causes come; an ended call is released and its ports are closed; an answered dialog is ended; calls do not outlive the MGC's service; the line is not left off-hook; no message leaves that the other side must not get at that moment;
* **H.248 endpoint** - only an MGC that has accepted this registration is served; a dead MGC is dropped; the loop never stops trying; a request is handled once;
* **SIP endpoint** - a request is handled once; the cache stays within its limit and in order;
* **media relay** - sockets and goroutines are reclaimed, also after a partial failure; media comes to go where the far end sends from; a telephone event leaves with a payload type its receiver knows; a tone has no gaps, and is A-law;
* **codecs, configuration** - what was written is what is read, whatever else is in the text; a validated port range has room for a call.

## 2. Modules

| module | models | notes |
|---|---|---|
| `BridgeState` | `bridge.go`: state, types, threads, release, timers | a thread is the sequence of critical sections it still has to run (`todo`) |
| `BridgeH248` | `h248.go` | one action per section or send |
| `BridgeSIP` | `sip.go` | likewise |
| `Bridge` | the composition: `Next`, fairness, properties | |
| `CallProtocol` | what the bridge promises the MGC and the PBX: which message may follow which | abstract; `Bridge` implements it |
| `BridgeProofs`, `BridgeSafetyProofs`, `BridgeProtocolProofs` | proofs about `Bridge`: types and indexes; the safety properties; the implementation of `CallProtocol` | section 5 |
| `SIPTransactions` | `sip/server.go`: response cache and in-flight marks | |
| `H248Transactions` | `h248/server.go`: reply cache | |
| `MGCService` | what registration promises the bridge | abstract; `BridgeH248` uses its actions, `H248Registration` implements it |
| `H248Registration` | `h248/server.go`: registration loop, replies, failover, activity watch | |
| `MediaPorts` | `bridge.go`: the circle of RTP ports, shutdown; `media.go`: opening and closing of relays | |
| `MediaForwarding` | `media.go`: forwarding, peers, payload types; `h248.go`, `sip.go`: the SDPs that set them | |
| `ToneSynthesis` | `media.go`: tone state of the inband mode | |
| `ALaw` | `media.go`: `linearToALaw`, with G.711 to compare | pure |
| `H248Text` | `h248/{message,interop}.go`, `simpleActionReplies`: parser, descriptors, replies | pure, recursive |
| `SDP`, `Digest`, `Config` | `sip/sdp.go`, `sip/digest.go`, `config/config.go` | pure |
| `H248RegistrationProofs`, `MediaPortsProofs`, `MediaForwardingProofs` | proofs about the module each is named after | section 5 |
| `TransactionsProofs`, `CodecsProofs` | proofs about `SIPTransactions` and `H248Transactions`; about `ToneSynthesis` and `Config` | section 5 |
| `MC...` | instances for TLC; `MCTransactions` and `MCCodecs` put several models side by side | constants in the `.cfg` files |

### The bridge model

A Go method is a chain of sections under `Bridge.mu` and of sends between them.
The model keeps the chain: `todo[t]` is what thread `t` still has to do, each element names a method or a section of it and its arguments, and an action runs the first element and puts what it calls in front of the rest.
So everything that can happen between two sections of one handler happens in the model: other handlers, timers, the registration callbacks.
A send is one step together with the section that undoes its effect when it fails.

Three kinds of threads run: `Goroutines` (datagram handlers, as many as the constant allows), `"timer"` (`time.AfterFunc` callbacks, one at a time) and `"reg"` (the registration loop, which calls `HandleH248Ready` and `HandleH248Unavailable`).
Time is abstract: an armed timer fires at any later moment.
One interval is kept because the code depends on it: the 32 seconds of a retained INVITE do not pass while an older handler of the same call is still running (`RetainedExpires`).

Left out as data: addresses, SDP contents, digits, codecs, texts, `call.State` (only logged).
A request ID is represented by the MGC that issued it; a Context ID by its call (they come from a counter); the Call-ID the gateway draws at random by the call it is drawn for.
Call-IDs of the PBX are a constant set, so that the PBX can use one again.
A Transaction with several commands behaves as several Transactions.
The gate of the H.248 server admits only audits from addresses other than `mgc` (`Senders`); one of a Context makes its sender the call's `H248Responder`, one of the line changes nothing.
Re-INVITE, UPDATE, INFO, OPTIONS and PRACK change media addresses only (`MediaForwarding`).

The variables `relay`, `finals`, `sent`, `hook`, `onhooks` and `pbx` record what the outside sees; no section reads them, except that the environment uses `sent` and `pbx` to answer only INVITEs that were sent and to settle on one final response.

The registration is reduced to `mgc` and `registered` here: `RegistrationStarts`, `RegistrationFails`, `HandleH248Ready` and `HandleH248Unavailable` take the steps of `MGCService`, and the run `registration` shows that `H248Registration`, which has the detail, takes no others (`ImplementsService`, a refinement that maps `mgc` to the address `expectedMGCAddress` lets through).
What the bridge model shows thus holds with the detailed registration underneath; the audits the gate admits from elsewhere are in the bridge model itself.

### The call protocol

`CallProtocol` is the bridge without its inside: no goroutines, sections, indexes, timers and retransmissions, only decisions (a call is offered, admitted, answered, released) and messages that reach somebody.
Its guards are the promises: a PBX call is admitted to a line that is free and in service; a BYE goes into an answered dialog, a late BYE into one the PBX accepted and whose ACK went out; an ACK is of the kind the PBX's final response asks for; 200 is sent for an answered call; al/of is sent for a call of the PBX or an answered one of the carrier, and al/on once for each call.
What section 4 lists as not holding has no guard: a second final response, a message of a call that is released, an al/of after the al/on.
`ImplementsProtocol` in `Bridge` is the refinement: `serving` is `line.ready`, `st` and `answered` are read from the call records, and the observations `sent`, `pbx`, `finals`, `hook`, `onhooks` are the same in both.
In the other direction, `MGCService` is the abstract registration the bridge relies on.

### The endpoint models

`SIPTransactions` has the two lookups of `handle` (`cachedResponse`, `beginTransaction`) as separate steps, since each takes the lock by itself, and `Respond` as another, which any goroutine holding the responder may take.
`H248Transactions` is the same without in-flight marks and expiry.
`H248Registration` has the loop of `registrationLoop` / `serviceChangeLoop` / `registerTermination`, the goroutines that carry a Reply through gate, activity note, match and channel send, and MGCs that answer late, repeatedly or not at all.
Transaction IDs are recycled once nobody knows them, which keeps the state space finite without a cap on registrations.

### The media models

`MediaPorts` has one slot per relay that is alive at the same time.
`AllocateCallIdentifiers` is the section under `Bridge.mu`; the four sockets are then opened one step at a time, outside of it, and each may find its address taken by another relay or by a foreign process, upon which the open ones are closed one step at a time.
`Close` and the forwarding goroutines race in the same way.

`MediaForwarding` follows one relay.
Each SDP has a goroutine, which changes the call in one section and the relay in a later one, as `updateSIPRemoteMedia`, `processH248Command` and `handleOutboundCallAdd` do.
A far end may send from another port than its SDP says and may move; packets and SDPs are handled in any order.
`ToneSynthesis` is one goroutine against a network that loses, repeats and reorders the packets of telephone events; timestamps count modulo a constant, 2^32 in the code.

### The codec models

They keep no state: each operator is the function of the same name, on sequences of tokens (`H248Text`), lines (`SDP`, `Config`) or characters (`Digest`), and each property compares what is read with the structure the text was made from.
`MCCodecs` gives them every input of a bounded set.
`ALaw` compares the encoder with the decoder of G.711 on every sample a tone can have.

## 3. Runs

`tlc -config X.cfg M` with the module and configuration of the table; times are for two workers.

| run | configuration | shows |
|---|---|---|
| `inbound_races` | `MCBridge_inbound_races` (1.1M states, 1.5 min) | one carrier call, two handlers at a time, no faults: `IndexConsistent`, `AnswerReported`, `LateByeOnce`, `MediaReclaimed`, `DialogOrder`, and the refinement `ImplementsProtocol` |
| `inbound_faults` | `MCBridge_inbound_faults` (0.3M, 2.5 min) | one handler, every fault: `TypeOK`, `OnhookAtMostOnce`, and under fairness `EndedCallReleased`, `UnansweredInviteEnds` |
| `outbound_races` | `MCBridge_outbound_races` (0.5M, 1 min) | one PBX call up to its media, two handlers: `IndexConsistent`, and the refinement `ImplementsProtocol` |
| `outbound_faults` | `MCBridge_outbound_faults` (0.5M, 2.5 min) | one handler, send, relay and reject faults, answer included: `DigitsBeforeAnswer`, and under fairness `EndedCallReleased` |
| `failover` | `MCBridge_failover` (0.6M, 2.5 min) | two MGCs, either lost at any time, audits from both: `OutboundReleasedFirst`, and under fairness `LineSynchronised` |
| `transactions` | `MCTransactions` (67K, 10 s) | `CacheOrdered`, `InFlightSuppressed`, `H248CacheOrdered` |
| `registration` | `MCH248Registration` (0.5M, 2 min) | `TypeOK`, `ReadyConfirmed`, the refinement `ImplementsService`, and under fairness `FailsOver`, `EveryMGCTried`, `DeadMGCDropped` |
| `media_ports` | `MCMediaPorts` (43K, 15 s) | two relays on six even ports, a foreign socket: `SocketsAccounted`, and under fairness `RelayEnds`, `CallsServed` |
| `media_forwarding` | `MCMediaForwarding` (0.3M, 1.5 min) | a call of either direction and either DTMF mode, two further SDPs: `TypeOK`, `EventsTranslated`, `EventsRecognised`, and under fairness `PeersConverge` |
| `codecs` | `MCCodecs` (105K, 1 min) | `TonesContinuous` over two key presses of three packets; `TransactionsRead`, `RepliesByContext`, `OffersRead`, `DescriptionsRead`, `ChallengesRead`, `FilesLoaded`, `PortsSuffice` for every input |

`ImplementsProtocol` includes that an al/on is sent once for each call, so `OnhookAtMostOnce` is checked by itself only where a send may fail and give the claim back.

The endpoints share no state, so `MCTransactions` runs either one while the other rests, which reaches every state of both; `MCCodecs` does the same with the tones and the inputs.

`LineSynchronised` speaks of a line that has had no call.
A carrier release delayed until after a failover copies the lost MGC's request ID into the line `HandleH248Unavailable` has just reset (`h248.go:580`); after that the initial on-hook need not follow, and no document says that it should.

**Bounds.** A call has a bounded life, so one call with two concurrent handlers, the timer thread and the registration thread already gives every pair of racing handlers, with the background threads as a third and fourth party.
Calls meet on the line and in the indexes: that a Call-ID used again, or a second call, cannot confuse the indexes is a theorem for any number of calls (section 5); what happens on the line is in section 4.
Races and faults are separate runs because their product is out of reach; in the fault runs the timer and registration threads still race the one handler.
A cache of two entries with three or four keys meets eviction, expiry and re-insertion; a channel of one entry is full at once.
Six even ports and two relays make the circle come round with either relay still open; both legs on one address make their sockets collide.
Two further SDPs are two handlers at once on either leg or one on each; port 65535 has no RTCP port next to it.
Two key presses of three packets meet the same key again, another key, another source, a lost first packet and the wrap of the timestamp; that tones join for any number of presses, packets and any width of the timestamp is a theorem.
The H.248 inputs are transactions of up to three actions with the commands, unknown items, quoted braces and nested descriptors that steer the parser differently; SDP inputs put another section before, after and around the audio section; digest values hold every character the parser looks at; port ranges lie around both ends of the valid ones.
Deadlock checking is off only where a carrier call has ended and the instance has no further call to offer.

**Fairness.** Every thread keeps running (`WF` on its sections: the Go scheduler), armed timers fire, an INVITE retransmitter ticks or reaches its deadline; in the registration model the loop runs, its timers expire, time passes, and a message on its way is delivered or lost.
In `MediaPorts` the goroutine that opens or closes a relay and the forwarding goroutines run on, and nobody has to end a call; `CallsServed` assumes that calls keep coming, a circle of an even number of even ports, and fewer other relays and foreign sockets than pairs of ports.
In `MediaForwarding` the handlers and forwarders run on; that far ends keep sending media (`SF`) is their side of the promise that the relay finds them.
Otherwise nothing is assumed about the MGC or the PBX.

## 4. Where the code does not do what its documents say

Two runs are expected to be violated; the trace is the counterexample, and `PROJECT.json` quotes the lines concerned.

| run | property | what happens |
|---|---|---|
| `v_deadline_race` | `AnsweredDialogCleared` | the INVITE is answered and ACKed after the last retransmission tick at 31.5 s; the 32 s deadline then releases the call without a look at `SIPAnswered` (`sip.go:359`), and no BYE is sent |
| `v_alaw` | `ToneIsALaw` | the thresholds of `linearToALaw` begin at 64 instead of 256 (`media.go:370`): most samples of a tone get an octet that stands for another value |

The same specifications show more with other constants; these have no run of their own.

| property | constants | what happens | document |
|---|---|---|---|
| `TeardownSendsBye` | as `v_deadline_race`, `Acts = {"ring", "Subtract"}` | the teardown of a carrier's Subtract runs after the ACK of a 2xx and before `SIPAnswered` is set (`sip.go:452`): `SIPInviteFinal` makes it return with neither CANCEL nor BYE (`sip.go:655`), and only `releaseCall` follows | `docs/SIP-PBX-INTEROP.md:251`: "H.248 release and gateway-originated BYE to the PBX" |
| `OneFinalResponse` | `OutCalls = {o1}`, no faults, all commands | after CANCEL the INVITE gets 487, then a carrier command within the 2 seconds the call is kept sends another final response (`sip.go:233`) | `README.md:54`: "Correct CANCEL 200, INVITE 487, and non-2xx ACK behavior." |
| `LineBackOnhook` | `OutCalls = {o1}`, `FairSpec` | CANCEL before the off-hook timer: al/on first, al/of afterwards, and no al/on again (`h248.go:320`) | `docs/H248-SIP-INTERWORKING.md:49`: "On-hook; mapped to BYE, CANCEL, or Context release" |
| `H248Transactions!DuplicateSuppressed` | one key, two goroutines | a duplicate before the reply is cached is handled again (`server.go:175`) | `README.md:45`: "Exact H.248 reply caching and duplicate suppression." |
| `SIPTransactions!DuplicateSuppressed` | one key, two goroutines | a duplicate that looks up the cache before the response and begins after it is handled again (`sip/server.go:134`) | `sip/server_test.go:78`: "in-flight duplicate reached handler" |
| `AnsweredDialogCleared` | one goroutine, `Answers = {"2xx-bad-sdp"}` | a 2xx with an unusable SDP is ACKed, and `sendSIPTeardown` returns without BYE because `SIPInviteFinal` is set and `SIPAnswered` is not (`sip.go:655`) | `bridge.go:53`: "a late 2xx must be ACKed and then cleared with BYE" |
| `MediaReclaimed` | `OutCalls = {o1}`, `Faults = {"mgc"}` | the call is released before `call.Media` is set (`sip.go:149`): the relay stays open | `docs/H248-SIP-INTERWORKING.md:202`: "reclaim the Context and media ports" |
| `CallsOnActiveMGC` | `InCalls = {i1}`, two MGCs, `Faults = {"mgc"}` | a call from a candidate MGC whose registration fails survives the switch (`server.go:213`) | `docs/H248-SIP-INTERWORKING.md:201`: "release active calls before switching between primary and backup MGCs" |
| `NoFalseAnswer` | one call of each direction, `Acts = {"lineEvents", "ring"}` | the off-hook of an origination is sent with an incoming call on the line (`h248.go:320`) | `docs/H248-SIP-INTERWORKING.md:48`: "drives answer state according to call direction" |

`AnsweredDialogCleared` asks about the end of a call, and its run stops at the deadline because that way is the shortest and needs no second handler.
`TeardownSendsBye` therefore asks about the decision of `sendSIPTeardown` itself.
A carrier's release leaves the dialog in two more interleavings, in which the teardown is right when it decides: it finds no Call-ID and the ring signal's INVITE goes out and is answered afterwards, or it sends CANCEL and the answer comes afterwards, both before `releaseCall`.

Three things the media and codec models keep out of their properties because the code does not promise them: SDPs of one far end that overtake one another leave the relay with the older one (`sip.go:424`); a `c=` line of a section that is not audio is taken for the session's (`sdp.go:107`); and in inband mode only an originated call forgets the carrier's payload type (`h248.go:244`), an incoming one keeps it (`h248.go:157`).

## 5. Proofs

`tlapm M.tla` checks module M.
Each theorem holds for every value of the constants that the named `ASSUME` of its model allows; those assumptions say that names do not overlap, that numbers are numbers, and that the explored faults and commands are known ones.
What they ask beyond that is in the last column.

| module | theorem | states | inductive invariant | assumes |
|---|---|---|---|---|
| `BridgeProofs` | `TypeCorrect`, `IndexesAgree` | `[]TypeOK`, `[]IndexConsistent` | `TypeOK`, `KeysOK`, `IndexConsistent` | |
| `BridgeSafetyProofs` | `OneOnhook` | `[]OnhookAtMostOnce` | `SafeInv` (`OnhookInv`) | |
| | `OneLateBye` | `[]LateByeOnce` | `SafeInv` (`InviteInv`, `LateInv`) | |
| | `AnswerAfterDigits` | `[]DigitsBeforeAnswer` | `SafeInv` (`DigitsInv`, `HeadInv`) | |
| | `OutboundReleased` | `[]OutboundReleasedFirst` | `SafeInv` (`OutInv`) | |
| | `AnswersReported` | `[]AnswerReported` | `SafeInv`, `AnswerInv` | no send fails and the MGC rejects nothing (`Reliable`), as in the run |
| | `IncomingReclaimed` | `[]IncomingMediaReclaimed` | `SafeInv` (`MediaInv`) | |
| | `RelaysReclaimed` | `[]MediaReclaimed` | as above | no call of the PBX, as in the run: for those it is false (section 4) |
| `BridgeProtocolProofs` | `BridgeImplementsProtocol` | `ImplementsProtocol` | `SafeInv`, `GroundsInv` | |
| | `DialogsOrdered` | `[]DialogOrder` | the same, `DialogOrder` | |
| `TransactionsProofs` | `DuplicatesWait` | `[]InFlightSuppressed` | `Typed`, `Marked`, `InFlightSuppressed` | |
| | `CacheStaysOrdered` | `[]CacheOrdered` | `CacheInv` | |
| | `H248CacheStaysOrdered` | `[]H248CacheOrdered` | `H248IInv` | |
| `H248RegistrationProofs` | `TypesKept`, `RegistrationImplementsService` | `[]TypeOK`, `ImplementsService` | `LInv`, for the types `TypeOK` as well | |
| | `ActiveMGCAccepted` | `[]ReadyConfirmed` | `TypeOK`, `LInv`, `Confirmed` | |
| | `LossFailsOver` | `FailsOver` | `LInv` | the configuration names no MGC twice (`DistinctRemotes`) |
| `MediaPortsProofs` | `TypesKept`, `SocketsAreAccounted` | `[]TypeOK`, `[]SocketsAccounted` | `TypeOK`, `Paired`, `ClosesOnce`, `Owned` | two even ports in the range, which `config.Load` checks |
| `MediaForwardingProofs` | `TypesKept`, `EventsAreTranslated`, `EventsAreRecognised` | `[]TypeOK`, `[]EventsTranslated`, `[]EventsRecognised` | `Types`, `HandlersInOrder`, `Translated`, and `Recognised` unless exempt | the gateway's own payload types are not 0 |
| `CodecsProofs` | `TonesAreContinuous` | `[]TonesContinuous` | `Types`, `Distinct`, `Tracks`, `Future`, `TonesContinuous` | |
| | `AcceptedRangesSuffice`, `PortsAlwaysSuffice` | `ValidatedPortsSuffice` for every range, `[]PortsSuffice` | `RangeTyped` | ports are integers |

Why the properties are not inductive by themselves:

* **Indexes of the bridge.**
  Releasing a call deletes the entry of *its* key; that this leaves no live call without an entry needs the converse direction, which is part of `IndexConsistent`, and that two live calls never share a key.
  The latter follows from `KeysOK`: a carrier call is only ever known under the Call-ID drawn for it, a PBX call under one of the PBX's, and a live PBX call always has one.
  That there is at most one live PBX call comes from `outboundCall`, which admission checks in the section that sets it.
  `TypeOK` is needed throughout, above all for the directions of the calls that pending sections carry.
  Most actions leave `st`, `SIPCallID` and the indexes alone; the lemma `FrameKeeps` handles them at once, and each has a short lemma that shows it keeps its types.
  The actions that create, index or release a call (`ReleaseCall`, `InsertContext`, `HandleOutboundCallAdd`, `HandleNewSIPInvite`, `StartSIPInvite`, `InviteSend`) have proofs of their own.
* **Safety of the bridge.**
  A call belongs to no goroutine, so each part of `SafeInv` ties the flags of a call to the sections that any thread still has to run for it (`Pends`), or says that at most one section of a kind is pending (`Only`).
  * `OutInv`: while the line is without service, the registration thread still has every live PBX call to release, and none can be admitted meanwhile.
  * `DigitsInv`: a call that is indexed or has its digits flagged as sent (`Beyond`) has them sent, on their way, or is being released (`Paid`), and so has one that is answered or about to be. A failing send gives the flag back in the section that also schedules the release; `HeadInv` says that the send is what its thread runs next.
  * `OnhookInv`: the flag `H248OnhookSent` stands for a message on the network or for one section about to send it, never both and never two; that is why it may be given back after a failed send.
  * `InviteInv`, `LateInv`: a late answer needs an INVITE that was sent, and its BYE is claimed in the retained INVITE by one section at a time. What remains is that the claim could be lost, if the INVITE expired and a teardown retained it again; but it expires only when nothing works on the call, and only pending sections lead to a teardown.
  * `AnswerInv`: an answer that can be reported and has not been leaves a section that will report it, or a release (`Waiting`). A lost send or a rejection breaks it, which is why the theorem assumes neither.
  * `MediaInv`: a relay is open only while its call holds it or the section that stores it in the call is pending.

  Of the bridge's actions each disturbs few of these; `CalmX` and `FlowX` say what a step may leave to invariant X, and every action has one lemma that it is such a step (`Stepped`) for all of them.
* **Call protocol.**
  The code decides on a message in one section and sends it in another, and by then other handlers have run.
  It is allowed all the same because what it was decided on lasts: a call that exists, a final response of the PBX, an answered call, an ACK that went out (`Kept`).
  `Founded` is the set of sections whose ground holds, and `GroundsInv` says that every pending section is founded, and that the sections that need an ACK have it or come right behind it in their own thread (which is why the order of the code, first the ACK, then the mark and the BYE, matters).
  `FoundedKept` and `GroundsPreserved` reduce a step to what it leaves behind in its own thread (`GroundStep`); each action then has one lemma, named `...Allowed`, that it makes such a step and a step of the protocol.
  Most sections are invisible (`Quiet`, `StillAllowed`); the ones that are not are the steps of `CallProtocol` one for one, except that the loss of the MGC and the release of a call are seen in the section that changes the line or the call, not where they were asked for.
  That an al/on is the first of its call comes from `OnhookInv`.
  `DialogOrder` then follows from the protocol alone, since each of its steps keeps it.
* **Duplicates of a SIP request.**
  That a second handling finds an answer or an expired mark needs that the first handling left a mark (`Marked`).
* **Caches of both endpoints.**
  The limit and the agreement of list and entries survive eviction only because no key is listed twice (`Distinct`).
  `removeCachedKeyLocked` is a loop, modelled as a recursive function.
  The induction theorems of the library take an operator, which the provers do not instantiate; `UpFromZero` is induction for a set of numbers, proved from the pigeon hole principle, and gives both that the function exists and what it returns (`LoopEnds`, `KeyRemoved`).
* **Registration.**
  The MGC that `expectedMGCAddress` lets through is the candidate from the registration to the loss, and the Transaction the loop is in is its own (`LInv`).
  For `ReadyConfirmed` no other ServiceChange on its way may bear the Transaction ID the loop waits for, and an acceptance that bears it was given by the candidate, wherever it is: on the network, in a goroutine, in the channel (`Confirmed`).
  `FailsOver` is arithmetic: the index after the lost one, modulo the number of MGCs, is another.
* **Sockets.**
  Who has an address is read from the address (`Owned`), which gives `SocketsAccounted` both ways; it needs that the two ports of a relay differ, which the circle gives from two even ports on (`Paired`), and that a relay closes no socket twice (`ClosesOnce`), since it would be another's by then.
* **Telephone events.**
  A payload type passes from an SDP through a handler, the call and the relay; `Translated` says of each of these places that the far end has given it.
  `Recognised` says of the handler of the last SDP what it still has to bring about (`Pending`).
* **Tones.**
  The state of the generator belongs to the key press a tone was made for last, and counts all of its packets (`Tracks`); two presses of one source differ in their timestamps (`Distinct`).

* **Port ranges.**
  No invariant but arithmetic: `port_min` is rounded up before it is compared, so the first two even ports are in the range, and they are two.

Only model-checked:

* every liveness property: `EndedCallReleased`, `UnansweredInviteEnds`, `LineSynchronised`, `EveryMGCTried`, `DeadMGCDropped`, `RelayEnds`, `CallsServed`, `PeersConverge` (fairness and `ENABLED` are out of the prover's reach);
* the readers of texts: `TransactionsRead`, `RepliesByContext`, `OffersRead`, `DescriptionsRead`, `ChallengesRead`, `FilesLoaded` fold a reader over a sequence of any length, which takes induction over an operator.

`GroundsInv` was checked on the constants of the runs `inbound_races`, `inbound_faults`, `outbound_races` and `outbound_faults` before it was proved.
`MediaReclaimed` with calls of the PBX, `OneFinalResponse`, `LineBackOnhook` and the others of section 4 cannot be proved: they do not hold.

## 6. Plan

1. *(done)* bridge core, its races and faults, indexes proved; endpoint transactions; registration.
2. *(done)* ports and sockets, forwarding, tones, A-law; the codecs; the abstract MGC service between registration and bridge, which the registration is proved to implement; proofs about both endpoints, the ports, the forwarding and the tones.
3. *(done)* the safety properties of the call bridge and the caches of both endpoints proved.
4. *(done)* the call protocol that the bridge implements, proved; the ranges of ports.
5. Open: lemmas about the codecs' readers by the induction of `TransactionsProofs` (`UpFromZero`).

## 7. Not modelled

* `sip/message.go`: a header parser without interplay of its lines; the bridge models take parsed messages as inputs.
* The fallback of `h248.Parse` by regular expressions, the builders of Notify, ServiceChange and Add replies, caller ID and timestamps: wording.
* Digest hashes, the sines of the tones: arithmetic a model checker adds nothing to.
* `Config`: comments, lists, and the checks of names and addresses.
* Socket binding, the gateway process, the probes, the scripts: operating-system calls, wiring and test clients with no state the gateway relies on.
