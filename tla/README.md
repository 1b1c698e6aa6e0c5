# A TLA+ model of the Watson IoT Platform C++ client

The repository is a C++ client library for the IBM Watson IoT Platform. An
application makes an `IOTP_DeviceClient` or an `IOTP_GatewayClient`, connects,
publishes events, receives commands, and may take part in device management. MQTT
itself is the work of the vendored Paho libraries in `lib/`; the library's own
code is in `src/`. This directory models the parts of it in which threads,
messages and failures meet, checks them with TLC, and proves the central
invariants with TLAPS.

## Inventory

| Component | State | Operations | Hard because | Correct when |
|---|---|---|---|---|
| Reply queue (`IOTP_Client`) | `mReplyMsgs`, `mLock`, `mCond`, `mExit`, `mReplyThread`, `pasync_client` | `IOTF_send_reply`, `_send_reply`, destructor | five kinds of threads, two mutexes, a wait without predicate, publishing under a lock | replies are published once and in order; the client is not deleted under its users; the destructor ends |
| Management requests (`send_message`, `IOTP_ResponseHandler`) | `mReqCounter`, `mResponseMessages` | `manage`, `pushManageMessage`, `unmanage`, `message_arrived`, `wait_for_response` | ids from an unprotected counter plus the time; late, lost and repeated answers; deadlines | `true` only for the answer to the call's own request; every call returns |
| Connection and subscription tables (`IOTP_Client`, `IOTF_Callback`, `IOTF_ActionCallback`) | `callback_ptr`, `mSubscriptions`, `mHandlers`, `mSuccess` | `connect`, `subscribeTopic`, `subscribeCommandHandler`, `unsubscribeCommands`, `disconnect` | tables cache what the broker holds; lost connections and acknowledgements; the listener races the token | the tables agree with the broker; a call that reports success has done it |
| `IOTP_DeviceClient` | handlers | sequences of the operations above | each step may throw | a managed device receives every management message |
| `IOTP_GatewayClient` | `gatewayCMDTopic`, `deviceCMDTopic` | the same, and `subscribeDeviceCommands` | one variable for many devices | `disconnect` removes what was subscribed |
| `IOTP_DeviceFirmwareHandler` | `fwinfo`, two progress threads | `message_arrived`, `check_download_progress`, `check_update_progress` | threads that outlive a request or the client | one reply to each request; at most one progress thread of a kind |
| Action and attribute handlers | `mClient` | `message_arrived` | run on the receive thread; a missing return statement; an exception nobody catches | one reply, or none |
| Command dispatch | `mHandlers`, `user_callback` | `IOTF_Callback::message_arrived` | the application thread changes the tables meanwhile; topics are parsed by searching for words | one reply to a request; the command names the device it is for |
| Configuration | `Properties` | `InitializePropertiesFromFile`, `InitializeMqttClient` | two lists of required keys; a refused file leaves a half-built client | a file that is accepted can be connected with |
| Paho client (`MQTTAsync.c`, protocol, persistence) | command queue, responses, messages in flight, store, session | connect, publish, subscribe, disconnect, send thread, receive thread, restore | three threads, one mutex that is released between check and use, partial writes, crashes | each token is told once, of what happened to its own request; QoS 2 messages arrive once; the store can be restored |
| Paho sockets and packets | pending writes, read queues | `Socket_putdatas`, `Socket_continueWrites`, `Socket_getdata`, `MQTTPacket_Factory`, UTF-8 checks | a non-blocking stream cut anywhere | packets stay whole |
| Paho data structures | tree of allocation records, lists | `mymalloc`, `myfree`, `myrealloc`, `Tree*`, `List*` | rebalancing, parent pointers, a remembered element, no memory left | a tree is a red-black tree of the blocks, a list is a sequence |
| JSON reader (`jsoncpp`) | stack of open values | `readValue`, `readObject`, `readArray`, `decodeNumber` | nesting limit, numbers at the limits, leniencies | what is accepted is JSON and what it says |
| Device data, log4cpp, TLS, synchronous client | - | - | nothing of the client depends on their state, or nothing calls them | not modelled |

How they interact: Paho's receive thread calls `IOTF_Callback::message_arrived`
while it holds `mqttasync_mutex`; that calls the handlers of the topic, which
answer through the reply queue or wake a waiting request. Application threads
call the client classes, which wait on Paho tokens that the receive thread
completes. Firmware progress threads put reports on the reply queue.

## Modules

- `ReplyChannel`: the abstract promise of the reply queue, a FIFO channel.
- `ReplyQueue`: the reply queue with its threads. `IOTF_send_reply(t)` is one step:
  nothing can block inside its critical section. `_send_reply` is split where it
  can block or where another thread can see the difference: the test of `mExit`
  (`TestExit`), the start of the wait (`EnterWait`), the end of it (`Expire`,
  `SpuriousWakeup`, or a notification), taking `mLock` again and the queue's head
  (`TakeReply`, `WaitTimesOut`, `NotifiedButEmpty`), publishing (`CheckConnected`,
  `Publish`) and the token (`Delivered`, `CompletionThrows`). `mLock` is held from
  `TakeReply` to `Delivered`, as in the code. The receive thread holds
  `mqttasync_mutex` from `MessageArrived` to `CallbackReturns`. An exception on the
  reply thread ends the process (`alive`). The model begins with a connected client
  and does not reconnect it.
- `RequestResponse`: management requests of several application threads.
  `++mReqCounter` is two steps (it is not atomic), the platform answers each
  request at most once, the network may lose, delay or repeat an answer, and the
  clock may advance or be set back. `disturbed` remembers that the clock was set
  back or that two threads numbered requests at once: only then may ids collide.
  The subscription to the response topic is in place.
- `Subscriptions`: the connection and the tables beside the broker's view of them.
  An API call is a sequence `todo` of base class operations; an exception drops
  the rest. A client may come from a file that was refused. A CONNACK that comes
  after `connect` has given up completes a token whose listener is gone (`orphan`,
  at most one such token at a time). `subscribeCommandHandler` inserts into
  `mHandlers` (`HandlerInserted`) before it tells the handler its client
  (`HandlerReturns`), and a message may be dispatched between the two. `disconnect`
  queues a DISCONNECT (`DisconnectSent`) that Paho's send thread processes: it ends the
  session and calls the token (`DisconnectReturns`), or the session is gone by then and
  the token is told of a failure (`DisconnectThrows`) or of nothing
  (`DisconnectDropped`), and `disconnect` waits for ever.
- `Dispatch`: `IOTF_Callback::message_arrived`, one step per handler, while the
  application thread goes on. What a handler does about its reply depends on the
  payload (a JSON object, other JSON, no JSON) and on whether it knows its client.
- `DeviceClient` extends `Dispatch`, and `GatewayClient` too, each with the sequences
  that its methods run, for every configuration and every constructor. One
  application thread uses the client and connects only when it is not connected. The
  topics of `GatewayClient` are the command topics of the gateway and of its devices.
- `Configuration`: pure operators. Which files `InitializePropertiesFromFile`
  accepts, what it makes of them, which properties the two `InitializeMqttClient`
  accept, and what `connect` requires of the authentication. `Subscriptions` takes
  its initial properties from it.
- `PahoSocket`: one connection with its pending writes. The descriptor of a closed
  connection is the number of the next one.
- `PahoAsync` extends `PahoSocket`: the asynchronous client as `async_client` uses it.
  What runs outside `mqttasync_mutex` (the check of `connected`, the reading of the id
  given last in `ReadMsgId`, the insertion into the queue, `select`, the rest of a cut
  write) is an action of its own. What runs under the mutex is one action, but for
  `MQTTAsync_processCommand`: it takes a command off the queue and removes its file
  (`TakeCommand`), and then sends it (`ProcessPublish0`, `ProcessRequest`), so that the
  process can die in between; and it notes a cut QoS 0 write in `pending_write`
  (`NotePendingWrite`) before it adds the response (`Register`), while the select loop may
  complete the write. Three histories name what the code gets wrong and the properties
  then leave out: `crossed` (an id was given to another call before the call that has it
  had queued its command), `misplaced` (`MQTTAsync_writeComplete` frees the first response
  in place of its own), and in `PahoSocket` `stale` (the connection was made while the rest
  of a packet of an earlier one was kept). Two calls that overlap are enough for
  `crossed`: the second read `msgID` before the first was given its id. The
  other ways are a `MQTTAsync_cleanSession` that resets `msgID`, and ids that have gone
  round.
- `PacketReader`: `MQTTPacket_Factory` on a stream that is cut anywhere, and the length
  field. `Utf8`: the check of client ids and topics. `CommandTopic`: the `Command` made
  of a topic, whose segments are told apart by the word they end in.
- `Tree`, `Heap`: the red-black tree of `Tree.c` as operators on a record of nodes, and
  the allocation records kept in it. `LinkedList`: the lists, beside the sequence each
  stands for, which is how `PahoAsync` describes them. `JsonReader`: `Json::Reader` as a
  machine with a stack, one step per token, and `decodeNumber`, one step per digit;
  `JsonString`: `decodeString`, one step per character or escape.
- `Library` puts these sequential parts side by side; they share no state, so one of
  them runs in a behaviour.
- `FirmwareHandler`: firmware requests on the receive thread, the two progress
  threads and the destructor. The answers and states of the application's derived
  class are arbitrary. `AssignJoinable` and `PureVirtualCall` are the two ways in
  which the process ends. What happens to a message after `IOTF_send_reply` is in
  `ReplyQueue`. A message that is not JSON gets no reply and changes nothing, so it
  has no action.
- `MC*`: the values of the constants for TLC.
- `ReplyQueueProofs`, `RequestResponseProofs`, `FirmwareHandlerProofs`,
  `SubscriptionsProofs` (lemmas shared by the next two), `DeviceClientProofs`,
  `GatewayClientProofs`, `LibraryProofs` (all parts of `Library` that are proved),
  `PahoAsyncProofs`: the theorems. The inductive invariants of `PahoAsync` are in
  `PahoAsyncInvariants`.

`RequestResponse` and `Subscriptions` share a boundary: `Await` in `Subscriptions`
is a whole request of `RequestResponse`, whose answer can arrive only if the
response topic is subscribed and the callback is that of the present client.
`ReplyQueue` and `Dispatch` share another: a reply that `Dispatch` counts is one that
`ReplyQueue` is given. `ReplyQueue` and `Subscriptions` use tokens as `PahoAsync`
makes them.

## Runs

| Run | Configuration | Shows |
|---|---|---|
| `reply_queue` | 2 callback replies, 2 thread replies, 2 progress threads | conservation and order of replies, no deletion under a user, refinement of `ReplyChannel`; the destructor finishes unless the two mutexes are held crosswise |
| `request_response` | 2 threads, counter to 2, clock to 1 and back | `true` only for a genuine answer; ids are unique and the answer is the call's own unless the numbering was disturbed; answers are not discarded by other calls; every call returns |
| `device_subscriptions` | 4 topics, 5 handlers, every configuration and constructor, any order of calls, messages dispatched meanwhile | tables against the broker, managed means subscribed, one reply to a request, an accepted file passes the later checks, disconnect cleans up, calls end, but for a disconnect whose DISCONNECT is dropped |
| `paho_delivery` | 2 requests of any kind, 2 connects, 1 inbound message, 3 events | packets whole, tokens kept and told once, clean sessions, QoS 2 once; until two calls have been given one id: ids distinct, success means accepted, store matches memory, every request in flight ends |
| `library_parts` | see Bounds | records form a red-black tree of the blocks, lists are sequences, packets are reassembled, lengths and UTF-8 at their limits, JSON and its numbers, command topics |
| `firmware_progress` | 2 requests, 3 reports for the 10 of the code | reports end, no thread outlives the handler, every thread ends |

Six runs show where the code departs from what its comments and documents say:

| Run | Shows |
|---|---|
| `reply_lost_wakeup` | a reply queued while the reply thread is not waiting is not published until another reply is queued |
| `reply_lock_order` | `mLock` and `mqttasync_mutex` are taken in both orders; handler and reply thread wait for each other for ever |
| `request_missed_answer` | an answer that is there before the wait begins is reported as failure |
| `device_connect_race` | `connect` can return true on a reconnect without subscribing: the token is complete before the listener has run |
| `gateway_disconnect` | `disconnect` of a gateway leaves the subscriptions of all devices but the last in the tables: `subscribeDeviceCommands` overwrites `deviceCMDTopic` |
| `firmware_second_request` | a second accepted download or update assigns to a joinable `std::thread`: the process ends, and the request is not reported on |

What the models also show, without a run of its own, because one sequence of calls
is enough to see it:

- After `unmanage` the response topic is no longer subscribed but its handler is still
  in `mHandlers`, so the next `manage` does not subscribe to it (`IOTP_Client.cpp:676`;
  line 669 says "returns true if topic is subscribed successfully else false").
  `ListedIsSubscribed` therefore excepts topics in `dropped`.
- A reconnect makes a new `IOTF_Callback` without the command callback
  (`IOTP_Client.cpp:602`); `docs/cpp_cli_for_gateway.rst:162` promises that it is
  invoked "whenever any command is published".
- `docs/cpp_cli_for_manageddevice.rst` says that `manage` connects by itself;
  `NullCallback` is what happens instead.
- `MQTTAsync_assignMsgId` reads `msgID` before it locks the mutex (`MQTTAsync.c:2395`), so
  that two calls that overlap can be given one id, although its comment says "Make sure it
  isn't already being used" (line 2388). One of them may then be told of the other's
  answer. `MsgIdsDistinct`, `SuccessIsDelivered`, `StoreMatches` and `AnsweredAtLast` hold
  until that happens.
- A publication that the send thread has taken off the queue has no file until it is
  sent (`MQTTAsync.c:1103`): a process that dies in between loses it. `StoreMatches`
  therefore speaks of the queue, and not of the command in the send thread's hands.
- A DISCONNECT that Paho processes after an internal one finds no session and calls no
  callback (`MQTTAsync.c:1240`), and `IOTP_Client::disconnect` waits for it without a
  deadline (`IOTP_Client.cpp:729`). `CallEnds` excepts that call.
- A process that finds a persisted SUBSCRIBE follows a null pointer while it restores it
  (`MQTTAsync.c:682`).
- `mymalloc` and `myrealloc` keep `heap_mutex` when there is no memory. `size` of a list
  is never decremented, and nothing reads it.
- `Json::Reader` accepts `{"":1,}`, takes any token for the comma after a comment,
  ignores what follows the document, and rejects a comment between a name and its ':'
  and in an empty array. A lone "-" is decoded as 0. A high surrogate is combined with
  whatever unit follows it, and a lone low surrogate becomes ill-formed UTF-8. These are the exceptions
  (`lenient`, `Uncommented`, `Paired`) in `JsonExact`.
- A device type that ends in "id", and a type or id that ends in "cmd", give a wrong
  `Command`; `CommandParsed` says exactly which names are safe.

Bounds. Two replies in the queue and one in hand are enough for a lost, doubled
or overtaken reply, and two progress threads compete with each other and with the
receive thread; the proofs cover any number. In `RequestResponse` the counter and the
number of requests are bounded in the guard of `ReadClock` by `MaxRequests`, which two
threads can both pass; the clock is bounded by `MaxClock`. In `DeviceClient` one topic
stands for the firmware topics that have a single handler, one is shared by two. In
`FirmwareHandler` two requests can both be downloads, and three reports have a first, a
middle and a last one. `Subscriptions` has no bound: its state space is finite.

In `PahoAsync` `MaxEvents` is 3: any mixture of three requests, messages, partial writes,
broken connections, crashes, timeouts and keep-alives; a request, a cut write and a
broken connection meet in all orders, and so do two requests and a crash. `MaxMsgId` is 3
for 65535, so ids wrap. In `PacketReader` `Radix` is 2 for 128: packets of four bytes
already have length fields of three. The other end sends one of the four `Packets` at a
time, `MaxPackets` (3) in all, at any moment of the reading; the length field itself is
checked with 128 at the `Lengths` where it gets longer, and `Utf8` with `Strings` on both
sides of every limit of the table.
`MaxAddress` is 8 because a removal that rebalances over two levels needs that many
nodes. Four contents of a list have a first, a last and two in between. `MaxTokens` is
8: two members of an object with a comma, and arrays in objects; `StackLimit` is 3 for
1000; `maxLargestInt` is 63 for 2^63 - 1, and numbers have up to four digits, so that
both ends of the range, and products beyond it, are reached with leading zeros. Strings
have up to three elements, on both sides of every limit of UTF-8 and of the surrogates.

`CHECK_DEADLOCK FALSE` appears where the system may stop: an application that makes
no more calls or whose process has crashed, a parser that has read its input, and in
`reply_queue` the lock-order deadlock that `reply_lock_order` reports. The firmware runs
and `reply_lost_wakeup` check deadlock.

Fairness. `ReplyQueue`: every thread that can take a step eventually does, a free mutex
is taken and a deadline passes, because threads are scheduled and every wait in the code
has a deadline. Arrival of messages, progress reports, spurious wake-ups, lost
connections and destruction are not assumed. `RequestResponse`: only the callers' steps
are fair, deadlines included; the platform and the network promise nothing.
`DeviceClient`: the application thread is strongly fair, since it gets `mqttasync_mutex`
although messages keep coming (the receive thread releases the mutex and sleeps in
`select` between two of them); its waits have deadlines, but for that of `disconnect`,
which the send thread of Paho ends without the broker, or never; and `message_arrived`,
which waits for nothing in this model, comes to its end. `FirmwareHandler`: each thread
goes on, since all it does is sleep, call the derived class and queue a report.
`PahoAsync`: the two threads of the library run, and the broker answers or drops what
reaches it; calls, broken connections, timers and crashes are not assumed.

## Proofs

Every theorem is about the specification that a run checks (those of `LibraryProofs`: each
about its part of `library_parts`, which shares no state with the others), for every value
of the constants that the named assumptions of the modules allow. TLC evaluates these assumptions in each run.

`ReplyQueueProofs` proves, for any sets of replies and progress threads,
`TypeCorrect`, `QueueConserves` (`Conservation`), `WakeupFindsReply`
(`NotifiedMeansQueued`), `ExitSafe` (`NoPublishAfterDelete`), `CallbackSafe`
(`NoDeleteUnderCallback`) and `Refinement` (`ReplyQueue` implements `ReplyChannel`).
None of these is inductive alone. The inductive
invariant adds who owns what: `mLock` is held exactly while the reply thread is
between `TakeReply` and `Delivered`; a reply is in hand exactly before `Publish`;
`mqttasync_mutex` is held exactly while a handler runs; a caller has an argument
exactly while it is about to send; and the destructor passes the join only when
the reply thread is done. `Conservation` then gives the refinement: the head that
`Publish` sends is the oldest accepted reply not yet sent.

`RequestResponseProofs` proves, for any number of threads and any clock,
`TypeCorrect`, `Genuine`, `IdsUnique`, `OwnAnswerOnly` and `KeptForItsCall` (the action
property `AnswerKept`). `IdsUnique` and `OwnAnswerOnly` hold until the numbering is
disturbed, which is in the properties themselves; without that they fail. The
strengthening says that everything in the map was sent by the platform, that ids of
past requests are bounded by the counter plus the latest time read, and that an
answer carries the id of its request.

`FirmwareHandlerProofs` proves `TypeCorrect`, `ReportsSafe` (`ReportsEnd` and
`ReportedWasAccepted`) and `NoThreadLeft` for any requests and any bound on the
reports. The inductive invariant adds that a running thread works for a request
answered with 202 (an answer stays: `AcceptedKept`), that it has a report left and
has seen no final state, that a thread not yet started has reported nothing, and
that the destructor has joined every thread it has passed.

`DeviceClientProofs` proves, for any topics, any handlers and any number of topics of
each handler, `DeviceTypeCorrect`, `DeviceListedIsSubscribed`, `DeviceOneReply`,
`DeviceManagedMeansSubscribed`, `DeviceDisconnectCleansUp` and `FileInitializes`.
`ListedIsSubscribed` is not inductive, because a table is written one step after the
broker was asked: `BaseInv` (in `SubscriptionsProofs`, for both clients) adds that the
thread waits for what the operation at the head of `todo` asks for (`WireFits`), that the
callback is not that of the present session while one may begin (`CallbackFits`), that
what `check_subscription` found, and what the broker acknowledged, is still so when the
answer is used (`RequestFits`), and the same claim for the handlers
(`HandlersSubscribed`). `OneReply` needs that the replies of a message are counted by the
handlers called so far (`RepliesCounted`) and that the two handlers that reply are not
called for the same topic (`TablesFit`, `ArrivingFits`). For
`ManagedMeansSubscribed` the invariant follows `manage` through its subscriptions:
`todo` is a suffix of them (`ManageShape`), the ones before it have their handlers in
the table (`ManageProgress`), and `Managed` is the case of the empty suffix.
`DisconnectCleansUp` needs that what precedes a disconnect in `todo` are the
unsubscriptions of what is still listed (`DisconnectFits`).

`GatewayClientProofs` proves `GatewayRememberedRemoved` and `GatewayListedIsSubscribed`
for any number of devices. The first is what is true of the claim that
`gateway_disconnect` refutes: the two topics that the gateway remembers are removed. The
argument is that of the device over these two (`Cleaning`), with `ListedOnce`: a topic is
in the table once, so that one removal is enough.

`LibraryProofs` proves what five of the sequential parts promise, for inputs of any
length. Where a definition is recursive the proof does without the prover's induction
theorems, which it cannot instantiate: a number for which the claim fails would have a
least one (`LeastNumber`, from well-foundedness), and there it is refuted.

- `TopicParsed`: for any names, the searches of `message_arrived` find the names that were
  put into the topic, except those that `CommandParsed` names. The lemmas follow each
  search to the segment it stops at.
- `Utf8Checked` (`Utf8Exact`), for strings of any bytes but the null. `CharValidated` and
  `CharacterRows` show that a row of `valid_ranges`, compared as signed chars, is what the
  bits of the bytes mean in RFC 3629. `Utf8Inv` says that the whole string is well-formed
  exactly when the rest that is still to be read is; `WellFormed` asks for a
  function over the string, which is built from the places where the string can be cut.
- `ListSequence` (`ListIsSequence`), for any contents. `ListInv` says that the elements are
  linked as the sequence `items` orders them, both ways, and that `first`, `last`, `count`
  and `current` fit it; `ChainInsert` and `ChainRemove` are the two changes of pointers
  that all operations make. That a search meets every element needs it too, as the walk
  follows the pointers and not the sequence.
- `LengthSurvives` (`LengthRoundTrip`), for every length. The length field of `Encode` is
  shown to have the shape that `Decode` reads (`Field`, `EncodeFour`), and a longer length
  to have four bytes that say more follow (`EncodeTooLong`).
- `PacketsArrive` (`PacketsReassembled`), for any radix from 2 on, any packets
  whose data is shorter than the fourth power of the radix (MQTT allows no longer ones, and
  they would be refused), and any number of them.
  `ReaderInv` says that the bytes that were sent and not yet returned are, in order, in
  the queue of the socket, in the kernel and on their way (`Pending`), and that the queue
  holds part of the header of the next packet, or its header and less than its data
  (`Held`). Without the second part the queue could keep a whole packet that nobody
  returns. `ReadMore` follows a call of `MQTTPacket_Factory` through its three outcomes.

`PahoAsyncProofs` proves all eight invariants of `PahoAsync`, for any number of
requests, connects, inbound messages and message ids, and any bound on the events, so
that crashes, broken connections and cut writes come in any number and order. Its
invariants come in layers, and in each layer the actions are first reduced to a few
kinds of steps:

- `WireInv` gives types and the stream: a rest follows its front, a kept write is the
  rest of the last front on this connection (`Pending`). `PahoStreamIntact` follows. The
  exception `stale` is needed: `Socket_close` keeps the cut write, and the next
  connection sends it.
- `InboundInv` ties, for each message, what the broker has sent of it to the packets on
  the way in both directions, to `inbound` and to the store: once a
  message has been delivered no PUBLISH of it is left anywhere and nothing restores it.
  `PahoDeliveredOnce` follows. It rests on the order of the packets: a repeated PUBLISH
  precedes every PUBREL of its message.
- `JobInv` says in which of the queues, files and hands of a thread a request may be, by
  what its caller has done (`PlaceInv`); that a request of this process is in one place
  only and not yet told (`OnceInv`); and that the requests that may still use an id have
  different ones, those between assignment and queue and those in files of a crashed
  process included (`IdsInv`). `PahoSessionStartsClean`, `PahoTokenKept`, `PahoTokenOnce`
  and `PahoMsgIdsDistinct` follow. Ids are not distinct without the exception: a call that
  is between the search and the queue has an id that the search of another does not see.
  `IdsInv` says that while `crossed` is empty this has not happened, whatever the id a
  search starts from, which may be out of date.
- `ConversationInv` rests on the other three. While `crossed` is empty and `misplaced`
  false, every PUBLISH, PUBREL and SUBSCRIBE on its way to the broker and every answer
  on its way back or in the hands of the receive thread is about a request that waits,
  is the only packet under way with its id, and says what is true: behind a PUBACK,
  PUBCOMP or SUBACK is a job the broker has accepted (`Conversation`). What the broker
  keeps of QoS 2 is of this session once it has read CONNECT (`ReleasedFits`); a
  publication in flight has a response or a disconnect is queued ahead of every request,
  and its file is there (`FlightFits`); the ids, the queue's files and the files of
  messages received are as the steps before left them (`TalkBase`).
  `PahoSuccessIsDelivered` and `PahoStoreMatches` follow. Two things carry the proof. An
  answer is matched by its id alone, so that the id of a new request must be free of
  every packet under way and not only of every response: that is why packets are tied to
  waiting requests. And a SUBACK held across the release of the mutex outlives its
  session: it then finds no response, because a session that ends while a packet is held
  has emptied them.

Only model-checked, and why:

- Liveness (`DestructorFinishes`, `CallReturns`, `CallEnds`, `ProgressEnds`,
  `AnsweredAtLast`), which the prover does not reach.
- `RecordsSound` (`Tree`, `Heap`): the operations on the tree are recursive operators,
  which the prover does not read, and their rebalancing needs induction over trees.
- `JsonExact` (`JsonReader`, `JsonString`): its reference is the grammar of JSON, given by
  recursive operators, and for numbers and strings what a fold computes.

## Not modelled

Of the client: the texts of payloads and addresses; logging; `publishEvent` and its
relatives, which hand a message to Paho and keep no state; the overload
`connect(cb)`, which the derived classes hide; TLS options; the data of `fwinfo`,
which every request copies and nothing updates; the device data classes; a second
orphaned token; two application threads in one client's tables.

Of Paho: `SSLSocket.c`, whose partial reads and writes repeat those of `Socket.c` with
results of OpenSSL that are not in the repository; the synchronous `MQTTClient.c`, which
nothing calls; several server URIs, retries, automatic reconnect and the buffering of
messages while disconnected, which `async_client` leaves off; the layout of the fields
of each packet; files that are torn by a crash in the middle of a write; logging and
tracing; the Windows branches.

Of jsoncpp: `Json::Value`, the writers, `decodeDouble`, and `OurReader` and
its builder, which the client does not use. log4cpp is logging only.

Most of the repository's lines are of these kinds: headers and their comments, the
logging library, the synchronous client, the unused half of jsoncpp. The models cover
about an eighth of all lines; of the client's own `.cpp` files in `src/` they cover a
little more than half, and of the vendored code the parts that run under them.

## Plan

1. Done: all modules above, and the theorems listed under Proofs.
2. `JsonReader` with a reference that is not recursive, so that `NumberExact` and
   `StringExact` can be proved.
3. `FirmwareHandler`: destruction of the handler before or after the client.
   Torn files of the persistent store.
