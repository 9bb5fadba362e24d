# Verification of PJNetwork

PJNetwork simulates a small internetwork in one C++ process: a sender host, two
receiver hosts and seven routers in five autonomous systems, each host and router
a thread, joined by queues. This directory models the protocols it runs in TLA+,
checks them with TLC on small instances, and proves the central invariants for
every instance with TLAPS.

`PROJECT.json` lists components, runs, mutants (a plausible bug for every
property, which breaks it), the map from definitions to source lines, findings,
hazards and theorems.

## 1. The system

| part | state | operations | talks to |
|---|---|---|---|
| main menu (`main.cpp`) | none of its own | type a message to receiver 1 or 2, attach AS5, withdraw AS5 | sender's user queue; the AS objects, by direct calls |
| sender host (`host.cpp`, `runSender.cpp`) | per receiver a `SenderBlock`: `LAR`, `LFS`, `SEQ`, `pending_frame_list`, 256 slots | `handleIncomingRouterMessage`, `handleUserInput`, `handlePendingFrames`, `sendMessageToRouter`, in a loop | pushes to router 1, is pushed to by it |
| receiver host (`host.cpp`, `runReceiver.cpp`) | a `ReceiverBlock`: `NFE`, 256 slots | `handlePacket`, `printOutMessage`, `sendMessageToRouter` | router 4 or router 7 |
| router (`router.cpp`, `runRouter.cpp`) | input, switch and output queues, ARP cache, ARP queues and request records | cleaning, intake, switching, sweeping, sending, in a loop | `sendThread` pushes to the next queue |
| routing trie (`router.cpp`) | rows with `in_use`, trie nodes | `trieInsert`, `longestPrefixMatch` | `in_use` is written by the main thread |
| autonomous systems (`AS.cpp`, `AS.h`) | reachable destinations, paths, the flags of their routers' rows | `hookUpRequest`, `broadcastUpdate`, `withdrawl`, `withdrawalSignal` | all in the main thread, without a lock |
| tampering router (`AttackerRouter.cpp`) | the first number it altered, a flag per sender | alters one message, drops an ack, renumbers the rest | takes the place of router 4 |
| message framing (`handleUserInput`, `printOutMessage`) | none of its own | cut a message into frames of 20 bytes, print them again | used by both hosts |
| threads (`run*.cpp`, `sendThread`) | one mutex and condition variable per shared queue | lock, push, unlock, signal; lock, timed wait, drain | every queue |

What is hard about it: every queue crosses threads; the numbers are `uint8_t` and
wrap; nothing is ever sent a second time (the call of `handleTimeoutFrames` is
commented out), so every loss is final; routes change flag by flag while frames
are under way; ARP requests are repeated on a clock and answered late; and an
ICMP message destroys a `SenderBlock` while its frames and acks are still about.

What makes each part right:

- *hosts*: messages are printed whole, once, in order; the window closes and opens
  again; a slot is not reused too early; this across any number of wraps.
- *router*: one fate per packet, no overtaking on the way to one next hop, ARP
  tables in agreement, no packet waiting and no cache entry staying for ever, also while
  routes are taken out of use and back.
- *trie*: the answer is the longest match, and none where there is none; a host route
  follows its flag.
- *autonomous systems*: between two calls all of them agree; attaching loses
  nothing; paths are loop-free ways to the newcomer; the calls return.
- *tampering router*: one message is altered, the shifted numbers fit both hosts, and
  when they stop fitting the flow stops and nothing wrong is printed.
- *framing*: the frames of a message are its text, whatever the last one has left over.
- *threads*: a batch pushed under the lock is there once, whole and in order; lost
  signals lose nothing; nobody is kept out.
- *withdrawal under traffic*: each loss is reported; what is printed ends in a frame
  that was not printed before, and is not taken out of an empty slot before the window
  wraps; what is confirmed to the sender was received, and no frame is refused and
  confirmed all the same; every ack finds its block (the last three fail).

## 2. Modules

| module | models | uses |
|---|---|---|
| `MessageDelivery` | what the user sees: messages typed come out printed, in order | |
| `MessageFraming` | a message cut into chunks of any payload size, the text printed from them | |
| `SlidingWindow` | both hosts, their threads, routers that lose nothing | extends `MessageFraming`, refines `MessageDelivery` |
| `Membership` | the two flags a frame to receiver 2 meets, and the order they are set in | |
| `Withdrawal` | the same with AS5 attached and withdrawn, ICMP messages, erased blocks | extends `SlidingWindow`, `Membership` |
| `TamperingRouter` | router 4 between the hosts | extends `SlidingWindow` |
| `LossyLines` | what the hosts see of a router: lines that keep order and may lose | |
| `Selection` | taking elements out of a queue by their places | |
| `Router` | one router, its neighbours, the clock | extends `Selection`, refines `LossyLines` |
| `RoutingTrie` | the routing table, its trie, lookups | |
| `AutonomousSystems` | the ASes, the flags of their routers, frames | |
| `BorderFlags` | what of that the frames to one destination see | extends `AutonomousSystems`, refines `Membership` |
| `BatchQueue` | a queue that whole batches are added to and that is emptied in one step | |
| `HandOff` | the queues under one mutex with its condition variable, their pushers and consumer | refines `BatchQueue` |
| `MC...` | the instances TLC checks | |
| `SlidingWindowProofs` | lemmas on remainders, proofs about `SlidingWindow` and `MessageFraming` | |
| `DeliveryProofs` | that `SlidingWindow` prints what `MessageDelivery` allows | extends `SlidingWindowProofs` |
| `RouterProofs`, `RoutingTrieProofs`, `HandOffProofs`, `WithdrawalProofs`, `TamperingRouterProofs`, `AutonomousSystemsProofs` | proofs about the module of the name | |

A definition whose comment begins with "Mutant:" is a variant with a bug, used to
see that a property would notice; the specifications do not mention it.

### How the models relate to the code

**Steps.** Whatever a thread does under one mutex is one step, or one step per
element when it drains a queue. Draining one by one gives the same results as
draining under the lock: a push that another thread makes between two elements has
the effect of that push just before the lock was taken. That a locked section may be
taken for one step at all is what `HandOff` is about. The sender's variable `pc`
says which call of the loop in `runSender` comes next; the receiver's loop needs
none, since `handlePacket` empties its queue before the acks are sent. The two
`while(...ack_marked)` loops are steps of their own, taken before anything else.

**Data.** A message is a sequence of chunks named by message and position, a frame
has a chunk, a number and its two markers. Buffers are values: the code hands one
`malloc`ed buffer from queue to queue, and only a retransmission (switched off)
would meet a buffer somebody else has changed. A `SenderBlock` that does not exist
yet has the values of a new one, with `listed` saying whether it exists.

**`MessageFraming`.** A chunk is the range of characters `printf` shows of it, so that a
message has any length without being spelled out. The code takes a message of at most 20
characters whole (the terminating zero of one of exactly 20 lands behind the payload,
on `crc`) and cuts a longer one every 19. `Copied` is how many characters the loops of
`handleUserInput` copy: for a multiple of 19 the last chunk is filled with 19 from beyond
the end of the string, and shows none, since the first is the string's own zero. `Text`
is what is printed of the chunks.

**`SlidingWindow`.** Routers are one FIFO per direction. That they do not reorder is
what `Router` shows as `NoOvertaking` and `ImplementsLossyLines`, both proved
(`InOrder`, `RouterIsLines`); that they lose nothing holds while routes are in use, replies come and time-to-live lasts (the hosts send 250). The tampering
router is not on the path to receiver 2; what it does on the path to receiver 1 is
`TamperingRouter`.

**`TamperingRouter`.** The maps of `AttackerRouter.cpp` are keyed by the sender, of
which there is one. A frame that ends a message is altered while no number is
remembered (`AttackObject`); the ack of the inserted frame, known by its number alone,
is dropped (`DropAck`), and from then on frames with a greater number are raised and
acks with a greater number lowered, compared as plain integers. `passed`, `alteredAt`
and `overtaken` are history. Routes, ARP and TTL, which the router repeats from
`handlePacket`, are in `Router`.

**`Membership`.** The calls of the main thread and the flags they set, as the frames
of `Withdrawal` see them. `Withdrawal` takes these actions for its own. For
`AutonomousSystems` the mapping is in `BorderFlags`, for one destination and the ASes of
the sender (`Entrance`) and of the provider, in any network: a flag is the conjunction of
an AS's rows, `attached` is the provider's list with no withdrawal on its way there, and
what is still to be set is read off the announcements, signals and writes not yet handled.

**`HandOff`.** The queues under one mutex, one for each thread that pushes: a router's
input queues are one per interface, and a router joins its `sendThread`s before it starts
the next ones. Before it is initialised the memory of a mutex may say that it is free, that
it is held, or nothing `pthread_mutex_lock` accepts; nobody looks at its return value, so in
the last case threads go on without a lock. The consumer initialises the mutex late
(`runRouter.cpp:13`), which frees it if it is held, or nobody does (`host.h:43`, the sender).
A pusher unlocks, then signals, or, a host, does not signal at all; the consumer waits with
a deadline. The sender does not wait: it reads `empty()` without the lock (`Poll`,
host.cpp:514), where the answer may be either while its pusher is in the section, and only
then locks (`LocksWhatItFound`, host.cpp:518). That unlocked read is a data race by the
language; `SectionsOverlap` speaks of the locked sections, and `ImplementsBatchQueue` says
that the read does no harm as long as it gives an answer. `Completed` maps a batch that is
partly pushed to one that is not pushed yet, so that `BatchQueue` sees it at the unlock.

**`Withdrawal`.** A frame to receiver 2 meets two places where a route may be out of
use: router 1 (AS1) and routers 5 and 6 (AS4, written one after the other and merged).
The routes back are never touched. `SetRoute` writes one flag per step, in the order
of the calls: AS4 then AS1 when attaching, AS1 then AS4 when withdrawing. ICMP
messages and acks share the way back. A new message is typed only when the menu is
back (`changing` empty), since one thread does both. `taken` and `refused` are history:
the frames the receiver has looked at, inside its window and outside.

**`Router`.** `pc` names the five parts of the loop. A route stands for the row
`longestPrefixMatch` finds, in use or not (`in_use`): the main thread writes that flag at
any time (`SetInUse`), and the router reads it when it looks the route up, whatever waited
for that next hop before. The rows themselves never change. An iteration over an `unordered_map` visits the keys in
any order. `ImplementsLossyLines` maps the packets from one interface to one next
hop to a line: those on the wire are delivered, those in the output queue, waiting for
a reply, in the switch queue and in the input queue are inside. What is selected from a
queue is given by its places (`Selection`): `SelectSeq` has no definition the
provers can use. Erasing the node an iterator stands on (`router.cpp:214`, `:635`) is
undefined: the model goes on, stops the loop early, or ends the process. The time in
a new `ArpReq` is not initialised: any age, or one in the future (-1). Left out:
packets for the router's own address and malformed packets, which no part of this
program sends, and `echoIcmp`, `inputToOutputQueue`, `flipRoutingTable` and
`randomEarlyDetection`, which are never reached.

**`RoutingTrie`.** A node is the path of bits that leads to it. The root's own row
(a mask of zero) is never met by a lookup, as in the code.

**`AutonomousSystems`.** Bookkeeping belongs to the main thread alone, so each call
does it in one step; the flags are read by router threads, so each is written in a
step of its own, in the order of the loops. The code takes no lock here
(`AS.cpp:229`: "Lock should be added"); a flag is a `bool`, and each read is taken to
see it before or after the write. `withdrawalSignal` erases one destination per step:
`WithdrawalSignal` takes any that `to_erase` still has, `SignalNext` goes on to the next
AS when none is left for this one. `Way` names the routers a frame to the newcomer meets.

## 3. Runs

| run | instance | shows |
|---|---|---|
| `sliding_window` | 4 numbers, windows 2, 3 messages of 4, 5, 9 or 12 characters with 4 per frame | every counter and slot wraps; windows close; remainders of zero and one, a message that just fits one frame; all safety properties, `MessageDelivery` character by character, and that the window reopens |
| `withdrawal` | 4 numbers, windows 2, 2 messages of 1, 2 or 3 frames, 3 changes | what is printed under erased blocks, and every drop reported |
| `null_block` | 8 numbers, windows 2, 3 messages of 1 or 2 frames, 3 changes | **fails in the code**: an ack without a block is dereferenced |
| `acked_not_stored` | the same | **fails in the code**: an ack of an erased block confirms a frame nobody stored |
| `refused_confirmed` | the same | **fails in the code**: a frame outside the window is acknowledged, and confirmed |
| `tampering_router` | 6 numbers, windows 2, 3 messages of 1, 2 or 6 frames | one message altered and all printed while the flow is orderly; how and where it stops otherwise |
| `router` | router 5 with 2 next hops, one route taken out of use and back, 2 packets, limits 0, 1 and 1 | fates, order, ARP tables, ends of waits and entries, `LossyLines` |
| `late_reply` | the code's limits 4, 5, 20 | **fails in the code**: the assertion of `router.cpp:605` |
| `autonomous_systems` | the network of `main.cpp`, 2 frames | agreement, no loss on attaching, paths, ends of calls, `Membership` |
| `given_paths` | the same | **fails in the code**: `addPathList` stores nothing |
| `routing_trie` | 2-bit addresses, every table of 3 rows | whole answers against a comparison of all rows |
| `hand_off` | 2 pushers, batches of up to 2, 3 items | `BatchQueue` until sections overlap, and what that takes; nothing lost, nobody kept out |

The five failures are described in `PROJECT.json` under `findings`.

**Bounds and why they are enough.**

- `SeqMod` 4 with windows of 2 stands for 256 with 8: the window tests tell apart
  only whether an interval wraps and whether a number is in it, and windows of half
  the numbers are the hard case. Three messages of up to five frames wrap every
  counter. The proofs of section 5 need no such bound. `FRAME_PAYLOAD_SIZE` 4 stands
  for 20: the lengths 4, 5, 9 and 12 are the last that fits one frame, the first that
  does not, and two multiples of the room per frame, 3.
- The three failing runs of `Withdrawal` take 8 numbers, so that what they show does
  not come from numbers running out. In `null_block` one change is enough: the first frame
  is dropped at AS1 before attaching has reached it, the second is let through. In
  `acked_not_stored` the ack of frame 0 of the erased block comes while frame 0 of the
  next one is on its way. In `refused_confirmed` the numbers of the next block start
  again at 0 while the receiver waits for 1.
- `Withdrawal`: three changes are attach, withdraw, attach, or a withdrawal before
  and after. With windows of two no slot is left empty behind `NFE`, so the run says
  that none is printed; what wider windows do is proved (section 5, *Empty slots*).
  The user may stop at any time and the process may die, so the run does not check
  for deadlock.
- `TamperingRouter`: six numbers and messages of up to six frames let the altered
  frame, the end of the first message, be the first, second or last of a lap, and let
  numbers wrap after it (before it they cannot, in messages of no more than a lap);
  three messages give one before, at and after the alteration.
- `HandOff`: two pushers, a router's thread and a host, differ in all they can
  differ in, and the sender's queue has the first of them alone; batches of two show a
  batch taken half; three items let one pusher come back. Everything made may have been pushed, and a mutex nobody initialised may keep
  everybody out, so the run does not check for deadlock.
- `Router`: with limits of 0 and 1 every comparison still has both outcomes, and ages
  stop one past the limit. Two packets suffice for order, two next hops for the tables to
  be confused, one route that comes and goes for a packet to be reported between others
  that wait. One neighbour asks for the router's address at a time. A `ip_ttl` of 1
  is one at the end of its hops, 3 one that goes on. The process may die, so no
  deadlock check.
- `AutonomousSystems`: the real topology; two frames can be at different routers.
- `RoutingTrie`: three rows give a node its first, second and third row, and two
  bits give prefixes of length 0, 1 and 2.

## 4. Fairness

Outside `HandOff` each thread has weak fairness and no more: the operating system keeps scheduling it
and every wait is a `pthread_cond_timedwait` of at most a second, so a thread that can
go on does (a missed signal only delays it). The routers' forwarding has it per
direction. In `Router` time passes, and neighbours need not ever answer. In
`Withdrawal` and `AutonomousSystems` the main thread goes on with a call it has begun;
nothing makes the user type. `WaitingEnds` leaves out a request whose time lies in
the future: `router.h:64` calls `sent` the time of the last request, but `router.cpp:562`
leaves it uninitialised in a new one, and the model starts it at any outcome. `DropsReported`
leaves out a process that has died (`null_block`).

In `HandOff` asking for the lock has strong fairness per thread: the consumer sleeps
with the mutex free again and again, long enough for whoever is ready to run to get it;
a thread that met a mutex that looks held sleeps in the kernel (`parked`) and has no such
promise: `EverybodyGetsIn` is about the others. The sender polls again and again, so it
sees what nobody is moving (weak fairness of `Poll` while a queue is not empty). In `TamperingRouter` router 4 has weak fairness for each
direction, since `runAttackerRouter` empties all its input queues in turn.

## 5. Proofs

`tlapm` checks, for every value of the constants that meets the named assumptions:

| theorem | module | says |
|---|---|---|
| `TypeCorrect` | `SlidingWindowProofs` | `Spec => []TypeOK` |
| `NumberingCorrect` | `SlidingWindowProofs` | all counters and queue numbers are true counts modulo `SeqMod` |
| `WindowCorrect` | `SlidingWindowProofs` | at most `SWS` frames unacknowledged; one ack per frame taken in |
| `TransitCorrect` | `SlidingWindowProofs` | frames on the links in order, once, with their data |
| `SlotsCorrect` | `SlidingWindowProofs` | a slot keeps its frame until the ack comes |
| `ArrivalCorrect` | `SlidingWindowProofs` | nothing that arrives is refused by a window test |
| `SplitCovers` | `SlidingWindowProofs` | the frames of a message of any length, for any payload size, are its text without gap or overlap |
| `MessagesInOrder` | `DeliveryProofs` | what is printed is what was typed, once and in order, whole up to `SeqMod` frames: the safety part of `MessageDelivery` |
| `ArpTablesCorrect` | `RouterProofs` | the three ARP tables agree |
| `TypeCorrect` | `RouterProofs` | `Spec => []TypeOK` |
| `InOrder` | `RouterProofs` | packets from one interface to one next hop never overtake each other |
| `OneFateEach` | `RouterProofs` | each packet is in one place, and leaves once, changed as it should be |
| `RouterIsLines` | `RouterProofs` | `Spec => ImplementsLossyLines`: a router is lines that keep order and may lose |
| `ImplementsBatchQueueAlways` | `HandOffProofs` | locked sections are single steps: `HandOff` implements `BatchQueue` until two overlap |
| `SectionsOverlapAlways` | `HandOffProofs` | sections overlap only after a mutex was initialised with a thread inside, or on one nobody initialised that cannot be locked |
| `TypesAlways` | `HandOffProofs` | `Spec => []TypeOK` |
| `LongestAlways` | `RoutingTrieProofs` | a lookup gives the longest match among the rows, and none where there is none to give |
| `FirstUsableRowAlways` | `RoutingTrieProofs` | a node keeps the first row in use at start-up |
| `HostRoutesAlways` | `RoutingTrieProofs` | a host route answers exactly while its flag is set |
| `TypesAlways` | `RoutingTrieProofs` | `Spec => []TypeOK` |
| `WTypesAlways` | `WithdrawalProofs` | `WSpec => []WTypeOK` |
| `PrintsEndNew` | `WithdrawalProofs` | what is printed ends in a frame not printed before, whatever is erased and numbered again |
| `EmptySlotsALapAhead` | `WithdrawalProofs` | the only way `printOutMessage` meets an empty slot |
| `SmallWindowsPrintFrames` | `WithdrawalProofs` | with windows of one or two it never does |
| `TypeCorrect` | `AutonomousSystemsProofs` | `Spec => []TypeOK` |
| `PathsLead` | `AutonomousSystemsProofs` | every path kept is a loop-free way to the newcomer |
| `NetworkAgreement` | `AutonomousSystemsProofs` | between calls all ASes agree with the provider |
| `NothingLost` | `AutonomousSystemsProofs` | attaching loses no frame that was let in |
| `FlagsInOrder` | `AutonomousSystemsProofs` | `Spec => ImplementsMembership`: an AS's rows are one flag, set and cleared in the order of `Membership` |
| `TamperTypesAlways` | `TamperingRouterProofs` | `TSpec => []TTypeOK` |
| `LapNeverPassed` | `TamperingRouterProofs` | a tampered flow ends with the lap it began in |
| `OvertakingAlwaysStalls` | `TamperingRouterProofs` | frames that overtake the drop stop the window in front of the last of them |
| `OnlyFirstMessageAltered` | `TamperingRouterProofs` | in an orderly flow all is printed in order, with the one insertion |

*Assumptions.* `SeqMod > 1`, windows between 1 and `SeqMod - 1` (wider ones would let
the first and the last frame of a window share a slot), a payload of more than one
character, `MaxMessages` and all lengths naturals; in `HandOff` threads that are told
apart from each other and from the marks of a mutex; in `RoutingTrie` addresses of at
least one bit; in `Router` one interface per next hop, a route to every next hop, and
natural limits; in `AutonomousSystems` what `main.cpp` and the configuration give:
neighbours that know each other and ASes without a host that hang together
(`NeighbourAssumption`), destinations nobody reaches at first, a first router whose rows
for them are not in use and that is not the provider's, and behind it routers of the
provider, or routers of no such AS whose rows are in use (`WayAssumption`); for the two
flags also routers that belong to one AS, an AS list without repetition and with the
sender's in front of the provider, and rows that at first are in use at the provider and
not at the entrance (`BorderAssumption`).

*Sliding window.* The invariant is the conjunction `Inv` of `TypeOK`,
`NumberingSound`, `WindowRespected`, `FramesInTransit` and `UnackedFramesKept`. None of
the last four is inductive alone: that a frame is in the receive window follows from
its number being the true count (`NumberingSound`) and from how much may be under way
(`WindowRespected`), which follows from the acks on the way back, whose numbers are
those of the frames. The history variables `sent`, `accepted` and `acked` give the
counts; the first section of `SlidingWindowProofs` has the facts on remainders that lead from a window test
on wrapped numbers to a comparison of counts. `InOrderArrival` is then a consequence.

*Delivery.* `DeliveryInv` adds where each message begins in the stream of all frames
(`Layout`), that a frame's two markers say whether its chunk is the first or the last of
its message, that the slots still hold the last `SeqMod` frames taken in, and that what
is printed are the messages that end before the next frame to be delivered
(`PrintedUpTo`). `printOutMessage` walks back from the last frame until it meets the
marker of a first one, so it prints the whole message, or its last `SeqMod` frames where
the first ones have been overwritten; either way the text is `Shown` of the message.

*ARP tables.* `ArpTablesAgree` says that a queue's packets leave by the interface of its
request. A packet that joins a queue was looked up later than the one that opened it,
so the invariant `ArpInv` adds that a request's interface is the one of every route
to its next hop, and that what is in the queues has a destination at all. `TypesRight`
adds to it what may stand at each place (`PlacesRight`): a packet that came in, as it
came, on its way in; one with a route to that next hop where packets wait; one with its
`ip_ttl` decremented, or a report about one that came in there, in an output queue and on
the wire. `TypeOK` follows, with the limits of the counters from `TablesRight`.

*Streams.* `NoOvertaking`, `OneFate` and `ImplementsLossyLines` speak of packets spread
over five places. The proofs follow streams instead. The packets from one interface to one
next hop, in the order wire, output queue, ARP queue, switch queue, input queue (`Whole`),
are a routed stream; the reports sent back through an interface, on the wire and in the
output queue, are another kind, since a route may be taken out of use and back and so a
packet of any routed stream may be reported. `StreamsStep` is the heart of it: every step
leaves a stream as it is, or lets one packet in at the end, or lets the output queues out
at the front, or loses one packet whose `ip_ttl` ran out or that had no route, or loses all
that wait for a next hop that is given up; and a report is added just when a packet is lost
for want of a route. That most steps change nothing in a stream is where order could
go wrong: a packet that finds the MAC address in the cache goes past the ARP queue, and
`ArpTablesAgree` is what says that queue is empty then; a reply puts those that waited
behind the output queue, whose packets are older, and before the switch queue, whose are
younger. From this, `StreamsRight` is inductive: the numbers of a routed stream rise
(`Ordered`), no report is there twice (`Singly`), both are of packets that came (`Known`),
and a packet that could live is in exactly one of its stream, the reports of its interface
and the packets given up (`Fates`). `NoOvertaking` is `Ordered`. For `OneFate`, a number
that stands once in a list stands in one stage, and `CountComing` to `CountLeaving` say
that a packet's copies are counted where its number stands. For the refinement, the kinds
of steps are `Enter`, `Leave`, `Lose` and stuttering of `LossyLines`. The first two
sections have what these proofs need of `Selection`: the places of a queue are met by `Nth`
in their order, so what is taken from two queues joined is what is taken from each, joined.

*Framing.* `CopiedReaches` is the arithmetic of quotient and remainder: what is copied into
a chunk ends where the next one begins, and what is copied into the last one ends where
the message does or beyond. So the chunks have the bounds `SplitIs` gives, and `SplitCovers`
follows: the last one shows the rest of the message, be it nothing or not.

*Hand-off.* `HandOffInv` adds to the types that the mutex names whoever is inside, unless
it cannot be locked or was initialised with somebody inside (`HolderIsInside`); that the
consumer that initialises a mutex does so before it does anything else (`BrokenAtFirst`),
so a mutex that cannot be locked overlaps sections only where nobody initialises it; that
a thread's counters add up to its batch (`InHand`); and that, as long as no sections have
overlapped, what a thread has pushed in this section is the end of its queue
(`EndOfQueue`). A push is then a stutter of `BatchQueue`, and the unlock appends the whole
batch. That the sender finds something in the queue tells nothing in this proof: it locks
before it takes anything.

*Trie.* `TrieInv` says that the nodes are closed under prefixes, that every row's node
is among them and every node of full length has a row, and that a node points to the row
`trieInsert` was to keep (`Meant`), judged by what was in use when the file was read. None
of it changes with `in_use`. The
longest match exists because lengths are bounded (well-foundedness of the naturals
for a set of lengths, no induction), and the walk meets its node by closedness.

*Types.* The type invariants of `Withdrawal` and `TamperingRouter` need those of the
queues before the links, and `TTypeOK` also that nothing is dropped while nothing is
remembered: otherwise an ack's number would be lowered below zero.

*Where a tampered flow stops.* Behind router 4 a frame has a number of its own on
either side, and `NumberingSound` is false. `NumbersInv` gives the number of every frame
and ack on its way from its place in the flow: the sender's on the sender's side; behind
the router one more behind the inserted frame, as long as the plain number is greater
than the altered one's, and except for the `overtaken` frames, which come by unshifted
between the alteration and the drop (`ForwardedNumber`). From there on acks may come in
any order and twice, so what must hold for ever is only that one of them never comes: the
first that is one short, at the drop when frames have overtaken it or in front of the
wrap otherwise (`Unheard`). `AcksHeard` says that no ack under way to the sender and no
marked slot is it, and `acked` stays below: the window closes, so not even a later lap
can bring the number back. If the altered frame is the last of its lap (number 255), the
inserted one is number 0, whose ack `dropAck` looks for under 256 and never drops;
`NumbersInv` says nothing of that case (`WithinLap`), and both properties leave it out.

*What an altered flow prints.* `PlacesInv` says where messages begin, twice: in the
sender's flow and in the receiver's, where the first message has one piece more
(`BothLaidOut`). Every frame in a queue is the piece of its message its place in the flow
says, with that piece's markers (`SentPlaced`, `ReceivedPlaced`); so are the last `SeqMod`
slots of the receiver's array. Router 4 alters the first frame it sees with an end marker,
which is where the first message ends, and nothing else. `NumbersInv` gives that an
orderly flow arrives with the numbers the receiver waits for, whose slots are then
those of the right pieces when `printOutMessage` walks back.

*What a print ends in.* A message may be printed twice: frame 1 of an erased block lies in
slot 1, a message of one frame is printed out of slot 0 by the next block, then slot 1 is
delivered, and `printOutMessage` walks back from it to slot 0 and prints that message again
in front. What holds is that a print ends in something new (`PrintsEndInSomethingNew`): in
no frame an earlier print ended in, nor in one that stood before the end of an earlier
print, unless that print's walk was long enough to reach slots ahead of `NFE`.
`NumberingSound` and all that rests on it are false once a block has been erased, so
`OnceInv` speaks of chunks, not of numbers. A chunk is in one place at most, and once: the
five queues, a marked slot, or behind (`Behind`: a slot `NFE` has left, the end of a print,
or any frame of a print of a short walk); what a message still to be cut will be cut into is
in none. A frame is handed from place to place; an erased block only takes chunks away.
What needs care is the delivery: the slot `NFE` leaves turns from marked to behind, and what
is printed with it by a short walk must be behind already, which it is because marked slots
lie less than a window ahead of `NFE` (`MarkedAhead`) and a short walk does not come round
to them.

*Empty slots.* `printOutMessage` walks back to a `start_of_message`; a slot nothing was
stored in has none, and its pointer is null. `FirstLap` says that the slots `NFE` has moved
past, and the marked ones, have a frame, and that slot 0 has the start of a message until
the window wraps. The second is not inductive: frames of two blocks may carry the number 0.
But an ack 0 is sent only for a frame 0, so until the receiver has one every block is at
its first window (`BlockAtStart`), the first frame it sends is the first of a message, and
nothing else with the number 0 is on its way (`CleanLinks`). All of that ends with the
first frame 0, which the receiver stores: its window begins there. `LapInv` is the three
together; with it a walk that meets an empty slot has come past slot 0, so slot 0 has lost
its start, so the window has wrapped while `NFE` has not (`EmptySlotOnlyALapAhead`). With
windows of one or two no slot is then left empty behind `NFE`.

With windows of three it does happen, after five changes: `SeqMod` 4, windows 3, a
message of five frames and one of three. AS5 is attached, frames 0 and 1 arrive; it is
withdrawn, 2 and 3 are lost; it is attached, the fifth frame, number 0 again, is stored in
slot 0; the block is erased. AS5 is withdrawn, the second message's 0 and 1 are lost; it
is attached, and its last frame, number 2, is the one the receiver expects:
`printOutMessage` walks 2, 1, 0 and on to slot 3. (TLC's search of that instance, of more
than 17 million states, is not among the runs.) In the code, with 256 numbers and windows
of 8, it takes a message of more than 256 frames and one of about 250, and it ends the
process (host.cpp:133-137). The model goes on, which only adds behaviours.

*Autonomous systems.* `PathsKept` says of lists and announcements alike that a path with
its owner in front is a way over neighbours to the newcomer without a name twice; that an
announcement never meets an AS of its own path is because those were searched before.
`NetworkInv` follows the breadth-first search: a destination the provider has is
everywhere, or the search goes on, every AS it met has the destination or will be told, and
the neighbours of those that have it are met (`Spreading`). When no announcement is left,
the ASes that have it are closed under neighbours, hence all. `Erased` says what a
withdrawal has still to do. Of the frames, `EntranceShut` and `WayOpen` say that the first
router lets in only what one of its ASes has, and that then the rest of the way is open,
because the provider, who is told first, writes its flags first.

*The flags of one destination.* An AS writes its rows one by one, and `Membership` has one
flag for all of them. It is set with the last row and cleared with the first, which
`BorderInv` makes a single step each: what is being written is for one AS and one
destination (`OneBatch`), and the AS's rows still to be written are all alike, as the call
found them, while the ones written have the new value (`Marching`). The order of the two
ASes is `ProviderWritesFirst` on attaching, since an announcement is handled only when the
provider's rows are written, and `SignalOrder` on withdrawing, since the list has an AS
once and the entrance in front of the provider. That a withdrawal finds nothing left to be
set is `NetworkAgrees`.

*Only model-checked.* All liveness properties, the liveness half of `MessageDelivery`,
and that an orderly flow behind router 4 is printed to its end. Liveness under fairness and `ENABLED` are out of the
prover's reach, and so is induction over recursive data.

## 6. Not modelled

- Retransmission: the only call of `handleTimeoutFrames` is commented out.
  `calculate_timeout` is called when a frame is sent (host.cpp:459), but nothing else
  reads the `time_out` it sets.
- Data races as such: a read without the lock (of `in_use`, and of `empty()` at
  host.cpp:514) gives the value before or after, and `HandOff` ends where the locked
  sections of two threads overlap.
- The bytes of a frame behind its payload: that `crc` is the zero behind a message of
  exactly 20 characters is taken from the code.
- What the tampering router repeats of `handlePacket`, and that it takes the frames
  of one sender to two receivers for one flow: only receiver 1 is behind it.
- In `Router`, packets for the router itself and malformed ones, which nobody sends.
- Parsing of the configuration, checksums, header layout: read once or constant.
- Random early detection, `isThereAlternative`, `flipBorderRouters`: never called.

## 7. Plan

Done: the hosts with framing, delivery and proofs; withdrawal; the router with its
lines; the trie with proofs; the autonomous systems, proved to come down to two flags;
the tampering router, proved to alter one message and where it stops; the hand-off
between threads, proved atomic.

Next, in this order:

1. A path of routers composed from `LossyLines`, shown to be one line, so that the
   FIFO of `SlidingWindow` follows for a path of any length.
2. What the commented-out `handleTimeoutFrames` would do, if it is ever called again.
