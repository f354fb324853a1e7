# Verification of CCN_Pub_Sub

CCN_Pub_Sub is a content-based publish/subscribe system over IPv6. This
directory holds TLA+ modules of its parts, the TLC configurations that check
them on small instances, and TLAPS proofs of what holds for every instance.

## 1. The system

A deployment is a set of nodes given by a topology file. A *controller* hands
out roles and tables; every other node has a *control panel* that talks to the
controller and a *data panel* that handles messages of its neighbours. The data
panel of a node is one of five kinds.

| Part | State | Operations | Interacts with |
|---|---|---|---|
| Controller (`CCN_Layer/Controller.cpp`) | topology, registered nodes, content list | `handleRegist`, `distributeAllTable`, `handleSubListUpload`, `handleSubListRequest` | every control panel, by messages |
| Topology (`Topology.cpp`, `TopologyNode.cpp`) | nodes, links, applied roles | `initFromFile`, `applyNode`, `getRouterTable` (multi-path Dijkstra) | called by the controller |
| Control panel (`ControlPanel.cpp`) | role, adjacent and router tables | `regist`, `handleAdjacentTable`, `handleRouterTable`, `injectFIB` | controller; sets the FIB and the face table of its data panel |
| Data panel (`DataPanel.cpp`, `Panel.cpp`) | FIB, role, list of content names, two buffers | `running`, `getFaceList`, `setFIB`, `getRRotSet` | its sender, receiver and control panel threads |
| Subscription table (`CCN_Toper/Router.cpp`, `Function.cpp`) | per face: list of names, counting Bloom filter | `addSTItem`, `getSTFaceList` | every router |
| Rendezvous router (`RPSRouter.cpp`) | table, group of each name with member count, groups of each face | `handleSubscribe`, `handleGroupIpRequest`, `handleRPublish`, `handlePublish` | edge routers, plain routers, multicast |
| Edge router (`EPSRouter.cpp`) | table, joined groups of its multicast socket | `handleSubscribe`, `handlePublish`, `handleRPublish`, `handleGroupIpResponse`, `multicast` | subscribers, rendezvous router, multicast |
| Plain router (`PSRouter.cpp`) | table | `handleSubscribe`, `handlePublish`, `handleRPublish` | its neighbours |
| Subscriber, publisher (`Subscriber.cpp`, `Publisher.cpp`) | content list, sequence number | `subscribe`, `publishContent` | a neighbour router |
| Slice transport (`Communicator.cpp`, `MsgSender.cpp`, `MsgReceiver.cpp`, `Slicer.cpp`) | current message and slice, tries left | send with retries, receive and acknowledge | the network, the reformer |
| Reformer (`Reformer.cpp`, `Checker.cpp`) | ten slice buffers | `putSlice`, `check` | receiver thread, checker thread, message buffer |
| Message buffer (`Buffer.cpp`) | ring, two semaphores, mutex | `putMsg`, `getNextMsg` | every pair of threads of a node |
| Threading (`Threading.cpp`) | run/pause status | `pause`, `resume`, `isRunning` | control panel and its threads |
| List upload and download (`SubListUploader.cpp`, `SubListDownloader.cpp`) | content list | `check` | checker thread, controller |

How they talk: within a node, threads hand messages over through message
buffers; between nodes, messages travel as slices over UDP (or a multicast
group), each acknowledged and repeated up to ten times. A subscription goes from
a subscriber to its router and, unless the router's table suppresses it, on to
the rendezvous router that the hash `hRW` chooses for its name; an edge router
turns it into a request for a multicast group. A publication goes from the
publisher to the rendezvous router of every prefix of its name, and from there
down to the routers, by unicast or to the groups, and on to the subscribers.

### What makes each part correct, and what is hard about it

| Part | Correct when | Hard because |
|---|---|---|
| Subscription table | lists hold no redundant name, counters match the lists, nothing requested is missed, nothing is asked upstream twice | entries are erased and counters decremented for names that share them; the decision to forward is taken from a list that is compacted later |
| Rendezvous router | every face that asked for a prefix gets the publication; counts equal the members | tables, groups and counts are kept by separate rules; requests repeat and nest |
| Edge and plain routers | a subscription that is kept is also sent on; group membership follows the rendezvous router | the FIB may come later than the subscription; requests, responses and publications cross |
| Message buffer | no message lost, overwritten or reordered | semaphores are taken before the mutex, by several threads |
| Slice transport, reformer | a message arrives whole, in order, or not at all | lost acknowledgements double a message; a slice is acknowledged before it is stored; slots run out and expire |
| Controller, control panel | each node gets one identifier of its role; tables match the topology | registrations repeat; tables arrive at different times at different nodes |
| Topology | next hops lie on shortest paths and reach the destination | several shortest paths are kept as sets |
| List upload, download | subscribers see what publishers uploaded | the lists of several publishers are merged; a reply may not come |
| Threading | a paused thread stops, a resumed one goes on | flag, mutex and condition are shared by two threads |
| `hRW`, `getPrexfixs` | the rendezvous points of a publication include that of each subscription it matches | products overflow; a weight may be zero |

The hazards are listed one by one, with their lines and the properties meant
for them, in `PROJECT.json`.

## 2. Modules

| Module | Models | State and actions |
|---|---|---|
| `SubscriptionService` | what a table promises: requests per face, what goes upstream, by which faces publications leave | `Request` |
| `SubscriptionTable` | `Router.cpp`, the filter of `Function.cpp` | `cdsList`, `bitmap` are the lists and counters of `m_stList`; `Subscribe` is one call of `addSTItem`; `STFaceList` is `getSTFaceList` |
| `RendezvousRouter` | `RPSRouter.cpp`, extends the table | `cdGroupIPRelation` (names in the order of the list) and `membercount` are `m_cdGroupIPRelation`, `faceGroupIps` is the map of that name, each face with its names in their order; one action per handler |
| `PubSubNet` | `EPSRouter.cpp`, `PSRouter.cpp`, `RPSRouter.cpp`, `Subscriber.cpp` and `Publisher.cpp` together, over a network that doubles and gives up messages | tables as the service describes them (`subReq`, `rotReq`), `groups` (rendezvous routers' view) and `joined` (the sockets of the edge routers), links as sequences, the publication under way |
| `BoundedFifo` | a bounded queue | `Put`, `Get` |
| `MsgBuffer` | `Buffer.cpp` | the fields of `Buffer`, a program counter for each thread; one action per statement others can observe |
| `LossyChannel` | what the slice transport promises: whole messages, in order, some missing, short ones perhaps again | `Send`, `Deliver` |
| `Topology` | what a router table is: distances and next hops of a graph | operators only |
| `Routing` | `Topology.cpp` | `adjacent`, `nodeSet` are the topology; `dist`, `chosen`, `preTable` the locals of `multiPathDijkstra`; `dest`, `hops` those of `translatePreToNextTable`; one action per turn of each loop |
| `Registration` | `Controller.cpp`, `ControlPanel.cpp`, `applyNode` | `registed`, `faces`, `assigned` are the state of the controller, `pc` where `ControlPanel::running` stands, `adjTable` and `fib` what a node made of its tables, links as sequences; one action per message handled |
| `ContentName` | `getPrexfixs`, `hRW`, `readSubList`, the loop of `publishContent` | operators only |
| `SubList` | `SubListUploader.cpp`, `SubListDownloader.cpp`, the two handlers of the controller; extends `Registration` and `ContentName` | `file`, `allSubList`, `subList`; `Request` and `SetSubList` are the two halves of `SubListDownloader::check` around its wait |
| `NodePipeline` | the threads of one node: `ControlPanel.cpp`, `Threading.cpp`, `DataPanel.cpp`, `MsgSender.cpp`, `MsgReceiver.cpp`, `EPSRouter::multicast`, `Checker.cpp`, the mutex of `Reformer.cpp` | where each thread stands, the two buffers (bounded queues, which `MsgBuffer` implements), the mutex of each reformer |
| `ReliableSlices` | `Slicer.cpp`, `MsgSender.cpp`, `Communicator.cpp`, `MsgReceiver.cpp`, `Reformer.cpp` between some senders and one receiver | `at`, `sid`, `tries` are where the loops of `running` and `sendTo` stand; `stored` is `m_sliceBufferSet`; `Receive` is one turn of the receiver thread, `Check` the checker thread |

`MC*` modules give the constants for TLC; `*Proofs` modules hold the theorems.
The definitions whose comment says *mutant*, or that name a variant of the
definition after them (`...Leaving`, `...Silent`, `...TableFirst`, ...), are
faulty versions of a mapped definition. No specification uses them: they show
that each property notices a fault of that kind.

Abstractions, and why they keep what matters:

* In the subscription table a list of names is a set. The order of `m_cds` decides only how many children
  the walk erases before a super-entry stops it (`AddSTItem`), and that is a
  nondeterministic choice; `Antichain`, which is proved of every state, shows the choice never arises. In `RendezvousRouter` the
  lists behind the groups to quit keep their order, because the response pairs them by position.
  `PubSubNet` has sets there: an edge router skips the names (`EPSRouter.cpp:327-337`).
* Links keep their order: the slices and acknowledgements in `ReliableSlices`, the messages in `LossyChannel`,
  `PubSubNet`, `Registration` and `SubList`. A sender has one slice on its way at a time and repeats it
  until it is acknowledged or given up (`Communicator.cpp:106`), but UDP promises no order: a late copy
  could arrive after a message sent later. That the network between two nodes does not reorder datagrams is
  an assumption of these modules, on which all that is checked and proved of them rests. Loss, delay
  and repetition are modelled.
* A hash is the constant `MD5ID`; products are reduced modulo `Word`, the width
  of `unsigned long`, as in the code. The proofs hold for any hash.
* A multicast address is the name it is computed from. Two names whose MD5
  gives the same address would share a group, which is not modelled.
* In `PubSubNet` a table is the set of names each face asked for, which is what
  `TableImplementsService` says of the real table. The filter may send a
  publication by a further face, which no property of `PubSubNet` forbids.
* In `ReliableSlices` a buffer of the reformer is the number of slices it holds:
  `putSlice` appends a slice only when it is the next one, so the number says
  which. Clocks are left out: `Check` may expire a buffer at any time. In the
  code a buffer expires after `REFORMER_TIME_OUT`, 1000 seconds without a slice,
  which is longer than the ten tries of one slice take, but a receiver that
  waits in `putMsg` knows no limit.
* In `PubSubNet` every router is next to every rendezvous router, as in
  `Files/topology.txt` (which has one). With others in between a rendezvous router keeps requests meant for
  another one; `RendezvousRouter` models that handler, with the name of the rendezvous point ignored.
* In `Registration` the links are sequences that keep the order, and each message may
  be doubled or given up, within `MaxFaults`: that is what `LossyChannel` and `ReliableSlices` say of
  the transport. The tables of the i-th node go out by the i-th *face*, as in
  the code. A panel that reads its identifier copies whatever message comes first, so the identifier
  is the first word of that (`FirstWord`): also the `CurrentRole` of an adjacent table. The same copy goes past the end of
  `id` (`ControlPanel.cpp:358`); that the process goes on after it is an assumption. A panel that reads a table
  from a message of another type gets `Garbage`; those bytes are not modelled. The fields
  of `CommunicateAddr` are the name of the node they lead to.
  `Registration` takes its router tables from `Topology`, which is what
  `Routing` computes step by step (`TableExact`).
* In `ContentName` a name is the sequence of its components and an MD5 number
  is a constant; the products of `hRW` wrap around at `Word`. The exclusive or is the constant
  operator `ExOr`, so that the module stays free of `Bitwise`, which no proof can use;
  `MCSubList` gives it its value. `hRW` goes through its
  map in the order of the names `RRot-i`, which is that of the numbers for fewer than ten of them.
* In `NodePipeline` a message is its face. A handler sends up to `MaxOut` messages by
  faces of the FIB or by the one a message came by; which, the routers' modules
  say. The test of `isRunning` and its wait are one action, because the mutex
  is held between them.
* `due` in `PubSubNet` is who a publication is promised to: subscribers whose
  request is in force, whose router has no request or response under way and
  makes none before the publication has come to rest. The code does not promise
  more: between `RPSRouter.cpp:212` and `EPSRouter.cpp:342` the two routers
  disagree about the group, and a publication in that window is missed.

## 3. Runs

| Run | Instance | What it shows |
|---|---|---|
| `subscription_table` | 2 faces, 5 names on three levels, the real number of slots | counters, lists, suppression and routing agree after every order of subscriptions; the table implements the service |
| `rendezvous` | destination router, 2 edge routers, a face that subscribes plainly, 3 nested names, three rendezvous points, one without a route | member counts are exact; names and addresses to quit are of the same groups, and stand in the right pairs just when the face asked in the order in which the groups were made; unicast and multicast together reach every interested face; messages for other rendezvous points are passed on |
| `pubsub_groups` | 2 edge routers with a subscriber each, 1 rendezvous router, 2 nested names, 1 message doubled, 1 given up | `DueReceive`, `GroupsAccounted`, `GroupsUnrelated` |
| `pubsub_mixed` | an edge router, a plain router, 2 rendezvous routers between which the prefixes of a name are split | `DueReceive` over unicast and multicast and over both rendezvous routers; every subscription that finds a route is eventually in force |
| `pubsub_quit` | as `pubsub_groups`, no fault | violation: the groups to quit are never left |
| `reliable_slices` | 1 sender, messages of 1 and 2 slices, 3 messages, 2 tries, 1 slice buffer | refinement to `LossyChannel`; what is acknowledged has arrived unless it found no buffer; no buffer leaks; the sender thread is done with each message |
| `msg_buffer` | 2 producers, 2 consumers, 3 slots, 2 messages | the ring is a bounded FIFO queue; the message at the head is taken |
| `routing` | every file made of some of six links among five nodes, in every order, and every source | predecessors and next hops are those of the topology; the computation ends |
| `control_net` | 2 rendezvous routers, a subscriber and a publisher (a triangle with the subscriber behind one of them), started in any order; 1 message of the list exchange doubled or given up | every node runs with the tables of its own place; hop by hop FIBs lead nearer the rendezvous router; names reach the subscriber; both sides choose the same rendezvous router and have a route to it |
| `registration_faults` | 3 subscribers and a rendezvous router for 2 places and 1, started in any order; 2 messages of the registration, of any type, doubled or given up | a program runs under an identifier that is held for it or, if that message was given up, under the first word of a table; tables go to the owners of the places, also when they are sent again |
| `registration_doubled` | 4 nodes, 1 registration doubled | violation: tables go to other nodes |
| `node_pipeline` | 2 receiver threads, buffers of 2 messages, handlers that send up to 2, 4 messages received, pauses at any time | nothing waits in a circle, a paused panel stops and goes on, the sender thread survives the start |

Bounds. The subscription table and the rendezvous router are finite once the
names are: no bound is needed, and five names suffice for a counter that two
names share, two names with the same counters, an overflow, siblings and three
levels; the rendezvous router has a prefix and two siblings, so that one request can quit two groups, and two edge
routers, which are symmetric. `MSG_SIZE = 3` lets the ring fill, empty and wrap. In
`PubSubNet`, `MaxLink = 1` allows one subscription of a user in flight at a time (requests
and responses behind it may pile up), and `MaxDup` and `MaxLose` allow one fault of
each kind: a second fault of the kind meets the same handlers in the same
states. One publication at a time is enough because no handler of a publication
changes a table.
`ReliableSlices` has `tryNum = 2` for the code's 10: one
repetition already doubles a slice or an acknowledgement and puts a late one
before the next slice. `MaxSend = 3` allows a message to be given up, another
in between, and the first again. `SET_SIZE = 1` makes a message that was given
up keep the next ones from a buffer. The run ends when the sender has sent
`MaxSend` messages, which is why deadlock is not checked there; nor is it in
`routing`, which ends with the table, and in `rendezvous`,
where nothing is left to ask for when every face has asked for every name.
The six links of `routing` make trees, a triangle, diamonds (two and three shortest
paths, also with a tail behind them) and graphs that are not connected; the order of
the lines decides how nodes are numbered, hence which of several nearest nodes is
chosen. `registration_faults` has two faults, which double a registration and give up an identifier, or send a
registration in excess and double its answer, and one program more than places; the subscribers are symmetric. `control_net` has one fault because a second one can only meet a node that
is misled already; `MaxLink = 1` lets an upload wait for the controller before
the next. Replies to several requests cannot pile up but by a fault: a downloader
waits. Its names are two siblings and a longer one, with ids chosen so that
a product wraps around, one weight is zero, and the prefixes of a name go to
different rendezvous routers. In `node_pipeline` four messages from two receiver threads fill
a buffer of two, a handler that sends two fills the other, and both threads
then wait at once; one face is enough, because a face matters only by being
known to the sender or not.

Fairness. `MsgBuffer`: a thread inside a call goes on, and a consumer calls
again; the mutex promises nothing to a particular thread. `PubSubNet`: a message
that waits at a node is handled in the end, since the thread of the data panel
loops over `getNextMsg` and `handleMsg`; users, publishers and the
faults are under no obligation. `ReliableSlices`: a sender thread goes on,
because its socket has a time-out; network and receiver owe nothing.
`Routing`: the controller computes on. `Registration` and `SubList`: controller
and control panels take the messages that wait for them, and the checker
threads of publishers and subscribers check again and again (`Checker.cpp:24`); no node has to be
started, no file edited, no fault to happen. `NodePipeline`: threads that can go
on do so. Three actions have strong fairness, because what enables them comes
and goes: the data panel that is resumed gets to its test before the next pause,
ten seconds later (`ControlPanel.cpp:403`); a handler that waits for room gets it
although the user thread also sends, once in five seconds (`SubscribeThreading.cpp:31`);
and a checker gets the mutex that the receiver takes again and again, because
between two of its checks are twenty seconds and a receiver spends most of them
waiting for the network. The receiver and the checker's sleep owe nothing.

### Where the code and its documentation disagree

* `README.md:211` of the repository wants the FIB looked up before the table is
  updated; `RPS_Router::handleSubscribe` updates first and reads `faceList[0]`
  of an empty list. In the model that sets `crashed`; it takes a FIB without an entry for the rendezvous point,
  which the tables of a connected topology never are, unless they go to other nodes (`registration_doubled`).
* `README.md:216` has an edge router prompted to quit the groups of sub-entries;
  the edge router reads the list and stays (`EPSRouter.cpp:343`, `pubsub_quit`).
  The call is best left out as it stands: a doubled request makes the rendezvous
  router list the very group to be joined among those to quit, and with the call in place the edge router
  would leave it. That is the mutant of `DueReceive`.
* `README.md:114` has an adjacent table built for each node and sent to it. The
  controller appends a face for every registration it receives but numbers only the accepted ones, and
  sends the tables of the i-th accepted node by face i (`Controller.cpp:121`, `:260`).
  A registration that arrives twice, because its acknowledgement was lost, shifts
  the tables of all nodes after it (`registration_doubled`).
* `README.md:112` has every node register and get its identifier. A control panel takes the first message
  that comes for it; when the transport has given up the one with the identifier, that is a table,
  and a subscriber may read the number of its role, 2, which in `Files/topology.txt` is another
  subscriber. `IdentifiersUnique` in `registration_faults` allows a node this, the first word of a table, only when its
  identifier was given up.
* `README.md:157-165` shows a response in which each name to quit stands with its own address. The names are
  collected in the order of the face's list and the addresses in that of the groups
  (`RPSRouter.cpp:198-222`), and paired by position. `QuitPairsMatch` says exactly when the pairs come out right;
  when one edge router has asked for `/sports/basketball`, then another for `/sports/football`, `/sports/basketball` and
  `/sports`, each name goes out with the address of the other. The edge router skips the names, so that
  nothing comes of it yet.

## 4. Proofs

All for every value of the constants that the named assumptions allow: any set
of names with a reflexive, transitive and shortening prefix relation, any hash,
any number of counters and faces, any number of threads and slots, any topology.
Each invariant below was checked by TLC on a small instance before it was proved.

* **`RendezvousRouterProofs`**, first part, about the table alone. `Weight(S, b)`, the
  number of increments that the names of `S` make on counter `b`, is additive over
  disjoint sets. Hence `BitmapExact` is preserved by erasing and inserting: no
  decrement meets the clamp. The inductive invariant `IInv` adds to it the types,
  `Antichain`, and `HistoryInv`: whatever was requested or sent upstream still has a
  listed prefix. Without `Antichain` the early stop of the walk could erase children
  and not insert; without `HistoryInv` nothing ties `ForwardFlag`, which reads
  today's lists, to what was sent upstream before they were compacted. From `IInv`
  follow `TypeCorrect`, `TableCorrect`, `CompactionCorrect` (each list holds just the requested names without a
  shorter requested prefix, `ListsMinimal`), `RoutingComplete`,
  `SuppressionCorrect`, and `TableImplementsService`, that every step of the table
  is a step of `SubscriptionService`.

  Second part, the router. Every handler preserves `IInv` of its table. Added are
  `GroupInv` (counts are cardinalities, groups have entries, and the list of an edge
  router's face is contained in its groups) and `SentInv` (what was sent is what the
  tables say). The containment is what makes delivery by group reach an edge router
  whose face the filter selects. The lists of names and addresses to quit hold the same groups, each once, because no list has a
  name twice: their lengths agree, so that pairing them stays within both. `Among` keeps the order of the list it filters, and there is
  one list only of given names in a given order (`OneOrder`): so the pairs are right if the face asked for the names in the order of
  their groups, and wrong if not. Results:
  `CountsCorrect`, `QuitListsCorrect`, `DeliveryCorrect`.
* **`MsgBufferProofs`**. `BInv` accounts for every unit of the two semaphores: free
  units, threads between their wait and their post, and messages in the ring add
  up to `MSG_SIZE - 1`; exactly the slots between the positions hold messages.
  Results: `BufferTypeCorrect`, `NoLossNoGarbage`, and `RingImplementsFifo`, the
  refinement to `BoundedFifo`.
* **`PubSubNetProofs`**, for any subscribers, routers and names and any number of doubled
  and lost messages. A request for `/a/b` that a rendezvous router takes after one for `/a`
  would put the edge router into both groups. It does not come, because a router
  whose table covers `/a/b` asks no more and links keep their order; a doubled request
  comes right after the first. So `OrderInv` says, of the groups of an edge
  router and the requests behind them on the link, that no name is followed by
  a longer one, and that all are names the table has. `AnswerInv` says that a group is
  joined or its response on the way. Results: `GroupsStayUnrelated`, `GroupsStayAccounted`.

  `DInv` follows a publication to those it is due to. What a subscriber asked for is
  covered by a request of its router that the rendezvous router holds or that is on its way there
  (`CoverInv`); where nothing is under way between the two, the request is held and its
  group is joined. So for each subscriber that is due the publication has come, or a copy is on its
  way to the router, or it is on its way to a rendezvous router from which such a
  group leads to the router (`DueInv`). A router between request and
  response may not be in the group by which the publication comes, which is why `due` leaves
  such routers out. Result: `DueCorrect`.
* **`TopologyProofs`** holds what the next two need of distances: the nodes within
  `k` hops grow until they are closed under neighbours, a distance is 0 only at the
  destination, neighbours differ by one hop at most, and a node within reach has a
  neighbour one hop nearer. What would be an induction over `k` is an argument about a set of
  numbers that has 0 and with every number the next (`AllNumbers`).
* **`RoutingProofs`**, for any file and source. `Ordered`: no chosen node is farther than the one
  chosen last, and none that is left is nearer. `NoShortcut`: no chosen node has a
  neighbour more than one hop farther. With both, a relaxation that shortens a
  distance meets an empty list of predecessors, so `resize(1, index)` has
  nothing stale to keep. Results: `PredecessorsCorrect`, `OrderCorrect`.
  `Found` adds that every distance was offered by a node one hop nearer; with
  `NoShortcut` it makes the distances those of shortest paths: `DistancesCorrect`.
  `TInv` says of the trace from a destination back that the hops after a round are the nodes of one
  distance that lie on shortest paths, so that the last round ends with the next
  hops: `TableCorrect`. Both results are for files of at most (fewer than) `MAXHOP`
  nodes: with more, a distance may reach the 100 that the code takes for "out of reach".
* **`RegistrationProofs`**, about `SubList`, that is the registration and the exchange of the
  list together, for any topology, any roles, names and ids, any faults. `OwnReplies`: an
  `IDAssigned` on its way to a node, the original or a copy, tells it -1 or the
  identifier of a place it has taken, and places are never taken back. `NamesInv`: a node that waits for
  its identifier, and for which that was not given up, finds it before all tables, whatever else is doubled,
  given up or sent for programs in excess. `WordsInv`: all that comes to a node before it has an identifier is an
  identifier of its own or a table of a place, because the faces that a node is sent tables by are places of the face table (`FacesWithin`).
  Results: `IdentifiersCorrect`, about every node: it runs under an identifier that is held for it, or under the first word of
  a table if its own identifier was given up; and from it `NoTwoAlike`, about the nodes whose identifier was not given up,
  since the word of a table may be the identifier of another node. `SInv` is about the tables: as long as
  some node is not misled, the registered nodes have one face each and as many
  places are taken as nodes are registered; the tables go out once, when all
  places are taken, and the places change no more; and a node that is not misled has
  read the first messages of what was sent to it, in the order identifier, adjacent
  table, router table, and the rest are on their way. Without the count of the faces the
  tables of a node could go to another one, which is what `registration_doubled`
  shows. The messages of the list use the same links: `OnceInv`, `AsksInv` and
  `Running` keep them behind the registration on one and behind the tables on the other, because only a
  node that runs asks, and `LInv` says that only such nodes wait for a reply.
  All that is assumed of what a panel reads as a table from a message of another type is that it is no
  adjacent table. Results: `TablesCorrect`, and with the facts about distances `HopsCorrect`.

  From both follows `AgreementCorrect`. Every FIB lists all rendezvous routers, whatever
  its node, so both sides give `hRW` the same set; `ChoiceExists` says that `hRW`
  chooses from it; and `HopsCorrect` that a face leads there. It assumes that each name
  gives some rendezvous router a weight other than zero (`SomeWeight`), without which `hRW` chooses
  none, and that the rendezvous routers are in reach (`InReach`). The exclusive or of the weights
  is a constant operator, of which only its type is assumed: the agreement holds for any hash that
  both sides share.
* **`NodePipelineProofs`**, for any receivers, buffers, faces and handlers. `FaceInv`: whatever is in
  a buffer, with a receiver, the handler or the user is a face of the node;
  `StartInv`: no thread runs before the tables are set; `PauseInv` bounds what the
  data panel takes up in a pause by where it stands. Results: `SenderGoesOn`, `PauseHolds`.
* **`ReliableSlicesProofs`**, for any senders, messages of any lengths, tries and
  buffers, whatever is lost, late or removed by the checker. `OnTheWay`: the slices between a
  sender and the receiver are in the order of message and slice, repetitions included, and none is of a
  message before the one delivered last. `Complete`: of that message only last
  slices follow, and its buffer stays empty, so that none of them completes it
  again. Without the buffer the order alone would let a repeated last slice
  deliver twice. Results: `SlicesInOrder`, and `ChannelImplemented`, the refinement to `LossyChannel`.

  `BInv` follows one message on both ways. While it is sent, the slices and
  acknowledgements of it that are under way belong to the current slice or the one
  before, and once the current one is acknowledged, none of an earlier one is left.
  So the last acknowledgement comes after the buffer was emptied, and what may
  still arrive cannot fill it, since of two slices or more the last is no first.
  Result: `BuffersCorrect`.

  `AInv` compares the two ends for every message that the reformer neither refused
  nor let expire, the ones that were given up included. `SenderAt` counts the slices
  acknowledged to the sender over all copies, `ReceiverAt` those the receiver has
  taken. An acknowledgement does not say which copy it answers; there is, however, for
  each one under way a place (`Stamps`) that the receiver had reached when it
  sent it. These places only grow, and an acknowledged slice that comes no later than
  the next one of the place before is within its own. The sender waits for the next slice
  of where it is, so that with an acknowledgement of it, it gets no further than the first place. That a message is
  acknowledged before the reformer looks at it does no harm, since a slice that is
  dropped was taken before, or is further ahead than the sender can be.
  Result: `AckedCorrect`.

Only model-checked: liveness (`HeadIsTaken`, `EventuallyServed`,
`SenderGetsIdle`, `TableGetsDone`, `AllRun`, `NamesArrive`, `AllHandled`,
`CheckerGoesOn`), which is out of the prover's reach.

## 5. What is left

1. A transit topology for `PubSubNet`: rendezvous routers and plain routers next to each other.

## 6. Not modelled

Text and layout: `printMsg`, the command line (`Main.cpp`), JSON files,
the digits of a multicast address (`hexstr`, `hexToGroupIP`), the bytes of
messages and their lengths. `Node.cpp` is not
part of the build; `readContent` is never called. Vendored libraries are outside the project. The content of
publications is never looked at by a router. Cancelling a subscription is not in the
code (the repository lists it as open).

Unlocked accesses of two threads to one vector or map (`m_fib`, the face table of the
controller's sender) are undefined behaviour whose outcomes
cannot be enumerated; `NodePipeline` has their order only as far as one
thread is started by the other. Failures of system calls other than
time-outs are not modelled: the threads end or go on, and nothing in the
code recovers from them. Nothing is persisted, and a node that stops does not
come back under its identifier, so there is no recovery to model.
