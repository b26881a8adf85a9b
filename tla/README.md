# Verification of nerea (mimapp)

TLA+ models of the parts of this app that keep state across threads, messages and
time, the TLC runs that check them, and TLAPS proofs of what matters most. Paths in
this file are relative to the repository; the modules sit together in this directory.

    tlc -workers 2 -config MCDhtPuts.cfg MCDhtActor     # check one run
    tlapm DhtActorProofs.tla                            # check the proofs

## 1. The system

The app is a Flutter front end over a Rust library. What the two do that is worth
a model is in four places: a fork of the `mainline` DHT node (`rust/mainline`), the
engines built on it and on other networks (`rust/src/gt`), the agents
(`lib/agents`), and the Colab client (`lib/colab_cli`). All but the last are modelled
here, in whole or in part; the rest is screens, wrappers of libraries, and numerical
code (section 7).

| Component | State it keeps | Operations | Interacts with | What is hard |
|---|---|---|---|---|
| **DHT actor** `dht.rs`, `rpc.rs` | `iterative_queries`, `put_queries`, `cached_iterative_queries`, `get_senders`, `put_senders`, the channel | each call of the handle; each step of `Rpc::tick`; the report to the channels | callers block on channels; one thread owns everything else; datagrams | callers that share a target; queries that end in the tick in which somebody joins; puts that wait for lookups |
| **Iterative lookup** `iterative_query.rs`, `closest_nodes.rs` | candidates, visited, in-flight ids, responders, values | visit, add candidate, tick | socket | ends exactly when nothing is in flight and nothing is left to visit |
| **Store query** `put_query.rs` | in-flight ids, acknowledgements, error tally | start, success, error, tick | socket | mixed verdicts of nodes, concurrency rules for mutable items |
| **KRPC socket** `rpc/socket*` | in-flight requests, ids | request, receive, clean-up | every query | late and duplicated answers, wrapping ids |
| **Wire format, ids** `common/messages*`, `common/id.rs` | none | encode, decode; secure ids | socket | kinds told by which fields are there, bits of a prefix |
| **DHT server** `rpc/server*` | tokens, peers, values | handle_request | remote nodes | token age, seq and cas rules, bounded stores |
| **Routing table and upkeep** `routing_table.rs`, `rpc.rs` maintenance | buckets, own id, votes, cache and its sums | add, remove; refresh, ping, purge; address votes, reset of the own id, switch to server mode | every answer | nodes that age, a table that is replaced while lookups run |
| **DHT Busca** `gt/dhtbusca` | stop flag, channel, index, captures, news, stats, session | start, stop, probar, poll, save; spider thread; metadata loop and tasks | DHT actor, librqbit, UI | threads of two runs, index against disk, restart |
| **Iroh P2P** `gt/irohp2p.rs` | channels, incoming lines, endpoint | connect, accept, send, read, stop | QUIC peers | dead channels, reconnection, a six-hour timer |
| **Nostr** `gt/nostrn/*`, `gt/nostrpeer.rs` | receiver, subscriptions; four mutexes of a shared chat; follows; account file | subscribe, poll, disconnect; start, send, poll; seguir; save, load | relays through nostr-sdk | awaits between steps, locks one after another, a file written in place |
| **Agents** `agent_manager.dart`, `key_vault.dart` | status, stop flag, permission waiter, iterations, keys | talk, stop, resolve, revive, the loop | HTTP, UI | actions of the UI during each await, two loops on one agent |
| **Colab** `colab_runtime.dart`, `colab_keep_alive.dart` | socket generation, kernel, active execution, ping count | start, execute, interrupt, close | websocket, HTTP | frames of old sockets, retries |
| Local models, crypto, downloads, demo chat, browser, media, services, UI, platform shells | | | | no protocol of their own, see section 7 |

What makes each correct. *DHT actor*: every call is answered, once, with the outcome
of the query it asked for; a reader gets each value once; Ok of a put means a node
stored it. *Lookup*: it ends, and only when it has asked the closest nodes it knows.
*Store query*: its verdict agrees with the answers. *Socket*: an answer settles one
request, of the address that was asked. *Server*: only a holder of a recent token
stores, and a mutable value never goes back. *Routing table*: a live node stays and a
dead one goes. *DHT Busca*: a find is indexed once, shown once it is indexed, and
survives in the file; one spider runs. *Iroh*: what is sent while a connection lives
is shown, once and in order. *Nostr*: a message is shown once and not lost to a broken
neighbour; nobody acts on half a start; follows and account are what was asked for last.
*Agents*: a tool runs only if granted, stopped means stopped, an agent does not run for
ever. *Colab*: the output of a cell is the output of that cell.

`PROJECT.json` lists the hazards one by one, at the line where each bites.

## 2. Modules

    The DHT node (rust/mainline)
      IterativeQuery, PutQuery --> DhtActor --> DhtStore (implements StoreService)
      WireFormat --> KrpcSocket (implements Asking)
      Lru --> DhtServer
      RoutingTable, QueryCache --> NodeUpkeep --> NodeClaims
      Ids, NodeUpkeep --> NodeIds
      Lists (Vec::retain, Iterator::filter) --> RoutingTable and the engines
    The engines (rust/src/gt)
      DhtBusca        IrohChat
      NostrInbox, NostrShared, NostrContacts, NostrAccount --> Nostr
    The agents (lib/agents)
      AgentManager                        Nostr, AgentManager --> AppServices
    Proofs (TLAPS)
      ListProofs --> DhtServerProofs  NodeUpkeepProofs  DhtBuscaProofs  IrohProofs
                     ServicesProofs
      DhtActorProofs  KrpcProofs
    Instances for TLC
      MCDhtActor  MCKrpc  MCDhtServer  MCNodeUpkeep  MCNodeClaims
      MCDhtBusca  MCIrohChat  MCServices

The parts meet in the promises they make each other. `DhtActor` sees the socket as
requests in flight that are answered once or expire; `KrpcSocket` implements that
(`Asking`). It sees other nodes as anything that stores or refuses; `DhtServer` is what
this code does in their place. It takes any set of nodes from the routing table;
`NodeUpkeep` is where the table comes from, with lookups reduced to what the node learns
from them. `DhtBusca` uses the node through its request filter and its find_node.
The engines share no state with each other.

### IterativeQuery, PutQuery

The record of one query, one operator per method of the struct. Nodes are told apart
by `Rank`, their place in the order of `ClosestNodes` (secure id first, then
distance). `flying` is what `KrpcSocket::inflight` answers for the ids of the query:
a visit sends a request *and a ping* to the address and adds both ids to the query
(`iterative_query.rs` 132-146), so a lookup waits for both; the model keeps them apart
as `<<n, "query">>` and `<<n, "ping">>`. A put sends to the closest nodes chained with
the extra nodes of the caller, so a node in both lists is asked twice (`Sends`).
`tally` and `top` stand for the error vector of `PutQuery::error`, which counts each code
by itself (301, 302 and as many others as `OtherCode` has) and moves an entry up past
strictly smaller counts: only its first entry is ever read. A value is known by the request
it answered and by its type (peers or an item), which need not be the one asked for.
`take_until_secure` cuts the responders where the size estimate says: any cut from K up.

### DhtActor

| Action | Code |
|---|---|
| `Call`, `Return` | a method of `Dht` sends a message and blocks on a fresh channel; the channel is gone when the method returns |
| `Receive`, `ReceiveNothing` | the `try_recv` arm of `run` (`dht.rs` 512-569) with `Rpc::put`, `Rpc::get`, `send` |
| `TickPuts` | `tick_put_queries` |
| `TickGets` | `tick_get_queries`, `cleanup_done_queries`, `cache_iterative_query`: one action, since nothing happens between them |
| `Maintain` | the lookup of the own id that `periodic_node_maintenance` may start |
| `NoMessage`, `LookupAnswer`, `PutAnswer` | one datagram and `handle_response` |
| `Report` | the three loops that serve the channels (`dht.rs` 571-607) |
| `ExpireLookup`, `ExpirePut`, `CacheAges` | time: a request passes its time-out, cached tokens grow older than five minutes |

The network is not a bag of messages here. `recv_from` hands over an answer only to a
request that is in flight from the address it was sent to, so the requests in flight
say which answers can arrive; a lost, late or duplicated one is an expired request or
`NoMessage`. `handle_response` never compares the kind of an answer with that of the request
(`rpc.rs` 592-725), and nor does `LookupAnswer`: to the query of a visit or to its ping a node
may answer with nodes, a token, peers, an item, several of them or none, and the value is
kept, and handed to whoever listens for values of its type (`Wants`). The one tie is that of
the messages: those that hold a value hold a token. The routing table contributes *any* set of nodes as seeds of a lookup.
Callers and the clock act between any two phases of the loop. A `Client` stands for one
caller and one channel at a time; as many callers as wanted are as many clients.

### StoreService and DhtStore

What a thread that stores something may rely on, without queries, nodes or ticks: who
waits at a target, what has become of the put there, what each caller was told. The
mapping reads the fate of a put where the code keeps it: in the query while it runs, in
`done_put_queries` once it is done. What an outcome says is `Justified`: Ok that a node stored,
a concurrency error that a node refused with it, "no nodes" that there was no answer yet,
`Timeout` that nobody stored. The doc of `Timeout` says more, that there was no error either:
`TimeoutMeansSilence` states that and is refuted (section 4). `Admit` may reopen an acknowledged fate, because a
put that names the seq in flight in its `cas` replaces the query, acknowledgements
included, and the first caller is then told the outcome of the second.

### WireFormat, KrpcSocket and Asking

`WireFormat` translates `into_serde_message` and `from_serde_message`: a message is its
kind and a function from the names of its arguments to their values, on the wire it is a
dictionary without the kind of a response. Ids, tokens and signatures are opaque; nodes
become bytes and are read back as whole nodes. A request that lacks an argument is malformed,
but for a put that has a key and no `seq` or `sig`, at which the decoder panics
(`messages.rs` 472-477, `Panic`): the code here builds no such message, and the properties
are about those it builds and about responses.

| Action of KrpcSocket | Code |
|---|---|
| `Request` | `request`: `tid`, `InflightRequests::add`, `send` |
| `ReceiveRequest` | `recv_from` hands a request up, the server answers with `response` or `error` |
| `ReceiveExpected`, `ReceiveUnexpected` | `is_expected_response` and `remove`: the answer settles its request, or is dropped |
| `ReceiveNothing` | `recv_from` runs into `READ_TIMEOUT`; it still cleans up |
| `Lose`, `Tick` | the network, the clock |

Every `recv_from` starts with the clean-up, which runs when `INFLIGHT_CLEANUP_INTERVAL` has
passed (`Table`). The net is a set of datagrams that may be consumed and stay. `TidSpace`
is 2^32 in the code; `IdIsFree` is the one thing the code takes for granted, that an id
does not come round while its last request may be answered. What the two conversions promise
(`MessagesSurvive`, `OrderMatters`) stands in `KrpcSocket`, for the messages, fields and lists
that `Samples`, `Foreign` and `NodeLists` name.

`Asking` is the service: a request is open, then answered once or expired, for good.

### DhtServer

Each action is one call of `handle_request`: ban list, lazy rotation of the secrets
(`Handles`), the request, the answer. `Ping`, `FindNode`, `GetPeers`, `GetMutable`,
`GetImmutable`, `AnnouncePeer`, `PutImmutable`, `PutMutable` are its arms; `Conflict` is
the order of the seq and cas checks; `Lru` is the crate behind the three stores. A
client holds the last token it was given, and presents it whenever it likes, or one of
nobody. The rotation is lazy, as in the code: the first request after an idle time rotates
once, whatever the time, so that a token has no greatest age (section 4). A secret is named by the turn of its rotation. `raises` and `since` are history:
how many conditional puts raised a version, which values came in since a value was used.

### RoutingTable, QueryCache, Ids and NodeUpkeep

`RoutingTable`, `QueryCache` and `Ids` are operators: `Added`, `Without`, the buckets and the
rules for stale and less secure nodes; the LRU of finished lookups with the sums behind
the estimates of the size of the DHT; the 21 bits (here `PrefixBits`) that tie an id to an ip.

| Action of NodeUpkeep | Code |
|---|---|
| `Get` | `Rpc::get` of a find_node or of a value, with the cached nodes |
| `Answer` | `handle_response`: the vote on the own address, the node for the table |
| `EndLookup` | `cleanup_done_queries`: `update_address_votes`, a ping to a new address, `cache_iterative_query` |
| `FindNodeArrives`, `OwnPingArrives` | `handle_request`: the sender of a find_node enters the table; the own ping confirms the address, and an id that is not secure for it is replaced with the table |
| `Maintain` | `periodic_node_maintenance`: populate, ping and purge, the switch to server mode |
| `Tick` | time, in units of the ping interval |

`NodeClaims` adds how long ago each node last answered anything, the pings of the
maintenance included, to state what the comment of the buckets says. `NodeIds` ties the ids
of `NodeUpkeep`, which are values with a table of distances, a prefix and the ips they are
valid for, to the bits of `Ids`.

### DhtBusca

A *run* is one call of `start`. Each has a channel, a spider thread, a metadata loop and
a session; the stop flag, the slot for the node, the index, the captures and the list of
news are shared. The loop is cut into one action per critical section (`pc`): `open`,
`top` (reads the flag), `drain` (a hash is taken and looked for, index lock), `capture` (it is
entered, captures lock), `harvest`, `mark` (captures lock), `index` (index lock),
`announce` (news lock), `stats`. A torrent whose info has no name is never gathered
(`mod.rs` 784-786); whether it has one is settled when its metadata comes. Tasks of the loop wait for a permit and then sit in
`add_torrent`. The session library is external: a torrent is absent, added, or has
metadata; it never goes away, since no code removes one. `Trouble` selects what may
fail: the save, the node, the session, the process (`Crash`; the next one loads the
file, which `guardar` replaces atomically by a rename), or the way in from the network.

### IrohChat

Two nodes and the QUIC connections between them. `StartServidor`, `Stop`, `ChatConectar`,
`Accept`, `ChatMandar`, `ChatLeer` are the calls (each under the one mutex of `con`, so
one step); `Escribe`, `TerminaEscritor`, `Lee`, `TerminaLector` the tasks that
`cablear` spawns for an end of a channel; `Limpia` the six-hour timer, which clears *all*
channels of a node; `Pierde` a connection that goes. A text is two bytes and a line feed;
the two are two characters, or one of two bytes (the texts of `Wide`). A stream delivers its
bytes in pieces of any length (`Split`), each decoded and cut into lines by itself, as the
reader does, with no carry: a half of a character that the cut took from the other becomes
the sign of replacement (`Decoded`, for `String::from_utf8_lossy`), two signs for the two
halves. `Places` says for what is shown which bytes it stands for, so that the properties
can tell text from such signs (`OnlyCutsGarble`: they stand for the halves of a character
that was cut, and for nothing else).

### NostrInbox, NostrShared, NostrContacts, NostrAccount and Nostr

* `NostrInbox`: `subscribe` in its three steps (two awaits, then the receiver), `poll`,
  `disconnect`, and events that arrive over the subscriptions in between, into a
  broadcast channel that drops its oldest. `clase` says which of the two clients it is.
* `NostrShared`: client, keys and receiver under four mutexes. A start takes them one
  after another (`InitStores`); `send` and `poll` collect theirs (`TakeLock`) in their own
  order and act when they have them. A message carries the key and the writer it went
  out with. The receiver is bounded: what arrives may overrun what was not drained, and the
  poll passes over the gap (`Lagged`, `nostrpeer.rs` 278); what a poll drains it may drop, as it
  does with what does not unwrap (261-265) or is too old (255).
* `NostrContacts`: `seguir` reads (`SeguirLee`; the relays may answer with less than
  they hold), edits and publishes (`SeguirPublica`), or fails before or after the relay
  has it (`SeguirFalla`). Of two lists dated in one second the relays keep either.
* `NostrAccount`: the file is truncated, then written (`GuardarCuenta`, `EscribeTodo`), may
  fail (`EscribeFalla`) or be cut short by a stop (`EscribeParte`); a load reads what is
  there at any of these moments.

The four share no state. `Nostr` puts them together: a variable `parte` says which of them a
behaviour is of, so that their state spaces add up instead of multiplying.

### AgentManager and AppServices

Dart runs from one await to the next without interruption, which is the grain of
the actions. A loop of an agent is at `summary` (the request that sums up what has to go from
its history, before the request itself), `post` (the request), `tool` (a tool runs), `asking`
(the completer of a permission), or gone. `talk` starts a loop unless the status is
`running`: so there may be several, and they share every field.

| Action | Code |
|---|---|
| `Talk`, `Stop`, `Revive`, `ResolvePermission`, `RemoveAgent` | the methods the screen calls; `Resumed` is the loop that goes on when its completer completes |
| `Summed` | the summary came, failed or was given up: the request goes out, without another look at the flag |
| `Refused`, `PostFails` | the answer 401 or 403, and any other failure: the key is marked and rotated, the loop tries again or ends |
| `FinalAnswer`, `ToolCalls`, `BadReply` | the three kinds of a reply; `Work` runs the calls in order until one needs an await |
| `ToolDone` | a tool returns, the loop goes on with the next call or the next round |

`Round` is the head of the loop with its stop check and its limit. Calls to tools that do
not exist are answered in place and skipped. `Revived` removes one key, because
`reviveKeys` removes from a set the elements it reads lazily from that same set, which
throws after the first. `AppServices` composes `Nostr` and `AgentManager` in the same way
(`lado`), for one run of TLC.

## 3. Runs

| Run | Instance | Shows | States |
|---|---|---|---|
| `dht_mutable_puts` | 1 node, 1 target, 2 clients, two versions of one item (the second with cas, each also sent to an extra node), readers, K = 1, two other codes, with fairness | nobody forgotten or answered twice; no put without a lookup to start it; `StoreService` implemented; every call is answered | 266 k |
| `dht_lookups` | 2 nodes, 1 target that is an own id, `get_value`, `get_peers`, `find_node`, values of both types, K = 2 | complete streams where lookups of several kinds, and maintenance, share a target; lookups end exhausted | 3.46 M |
| `krpc` | 2 nodes (one seen under two addresses), 2 ids, 3 requests, 2 datagrams, clock 3 | requests settle once, by their own answer; conversions agree; `Asking` implemented | 868 k |
| `dht_server` | one client and a banned one, caps of 1 and 2, 5 units of time at a rotation of 1, seq up to 2 | token lifetimes, seq and cas, caps, values in use stay | 44 k |
| `node_upkeep` | 2 peer ids, 3 addresses, 4-bit ids, K = 1, two own ids, two own addresses of which one is public, with fairness | table sound, address confirmed only where it is public, sums and counter exact, ids fit; a reachable node becomes a server and no other does | 217 k |
| `busca_runs` | 1 hash, 2 runs, crash, deaf network, no node | index and file without doubles, no find lost to the UI, resolved captures are indexed | 2.99 M |
| `busca_caps` | 2 hashes, 1 run, every bound 1, saves and sessions fail, torrents with and without a name, with fairness | bounds hold; a torrent with a name whose metadata arrives is indexed, also after the hash was given up | 278 k |
| `iroh_chat` | 2 nodes, 2 channels, 2 texts, one of them a two-byte character, 3 pieces under way per end, with fairness | nothing shown twice, amiss or lost while a connection lives; what is sent is shown, but for the signs that stand for cut characters | 210 k |
| `app_services` | inbox: 4 events, capacity 2, 3 subscriptions; shared chat: 2 threads, 3 calls, 2 sessions; follows: 3 changes, 3 keys, 3 seconds; account: 3 saves, 3 PINs; agent: 2 loops, 3 tools (1 allowed), 2 keys, 2 iterations; with fairness | see the properties of each part | 216 k |
| `dht_put_in_find_node` | 1 node, 1 target, violation | a put on a target under `find_node` is left without a lookup | |
| `dht_timeout` | 1 node, 1 client, an announcement to it twice, two other codes, violation | a put that was answered with errors ends as timed out | |
| `node_purge` | as `node_upkeep`, violation | a node that answers every ping is purged | |

**Bounds.** Two clients are the least that can share or fight over a target; two signed
items with one cas are the least for join, replace, and both refusals (an older seq and
a wrong cas are the same branch of the reply). The extra node of the caller makes two
sends of one put, so that one may store and the other refuse, codes may differ, and a
majority is more than one answer. Two nodes, in `dht_lookups`, let one name the other (a
lookup in two rounds). That run has no put and one caller, who meets the lookups of the
maintenance; the put runs have no own id, since a `find_node` on their target is the
counterexample of `dht_put_in_find_node`. The theorems cover any number of targets, nodes
and callers. A put is started with at most 255 nodes (`ByteAssumption`): `PutQuery::start`
panics beyond (`put_query.rs` 54-56), and the counters of a put are bytes. In `krpc` two
ids make the third request wrap around; a clock of 3 with a time-out of 2 has every order of
expiry, clean-up and answer. In `dht_server` caps of 1 and 2 make every store overflow,
and five units of time cover two rotations and the request that comes exactly at each.
In `node_upkeep` 4 bits with a prefix of 2 keep the shape of the 160 and 21 (the prefix ends
inside, the seed is in the last bits); K = 1 makes every bucket full. In `DhtBusca` two
runs are the least for the restart races. In `iroh_chat` two channels are the least for a
timer of one that clears the other. In `app_services` two threads and two loops are the
least that meet in the middle of a call, three seconds the least for before, same and
after. Counters without a bound in the code have one in the guards (`MaxAsks`, `MaxNow`,
`MaxCambios`, `MaxLlamadas`, `MaxGuardadas`, `MaxLookups`, `MaxCount` and the like). Symmetry is
used over nodes and clients only in runs without liveness properties. `krpc` and
`app_services` switch the deadlock check off: the first stops when its clock and
requests are used up, the second when its calls are.

**Fairness.** `DhtActor`: the actor thread never blocks (its channel reads are `try_recv`,
its socket has a read time-out), so weak fairness of `Actor`; and requests expire,
weak fairness of each `ExpireLookup` and `ExpirePut`. Nothing is assumed of callers or of
the network. `DhtBusca`: weak fairness of the loop of each run and of its tasks (each has
`RESOLVE_TIMEOUT`), and that a loop is not behind with its channel for ever (`[]<>~Behind`): the drain loop of the
code ends only when it finds the channel empty, so it does assume that hashes do not come in
faster than they are taken out for ever. `NodeUpkeep`: the clock, the maintenance and the
ends of lookups (weak); that some node keeps answering the lookups of the own id
(strong), and that the ping to the own public address arrives: both are what "a node that is
reached" means, and without the second `BecomesServer` does not hold, since that ping is
sent once. `IrohChat`: the tasks of each end run, and the screen polls `chat_leer`. `AppServices`:
the rest of a call of `subscribe` and the polls of the screen; each thread gets its locks
and returns; each loop of an agent goes on, as what it awaits has a time limit. Nothing is
assumed of users, relays or networks there. `krpc` and `dht_server` have safety properties and
a refinement only, and no fairness.

**Mutants.** `PROJECT.json` names for every property a change to a mapped definition that
violates it; the changed forms stand before the definitions they replace, in the modules.

## 4. Findings

`PROJECT.json` quotes the line of the repository each contradicts. Three are violation runs:

* A put on a target with a `find_node` under way waits for ever (`rpc.rs` 1028;
  `dht_put_in_find_node`).
* A put that nodes refused with errors other than 301 and 302 ends as `Timeout`, which is
  documented as "no responses neither success or errors"; the `ErrorResponse` documented for
  it is never constructed (`put_query.rs` 136-138, 219-228; `dht_timeout`).
* A node that answers every ping is purged after fifteen minutes (`routing_table.rs` 56;
  `node_purge`).

The others are steps of models whose runs pass: the property named says what holds instead.

* A token is documented as valid for ten minutes (`tokens.rs` 49) and has no greatest age,
  because rotation waits for a request (`server.rs` 155-158): `OldTokensDie`.
* `find_node` lookups "shouldn't be counted" among the responders (`rpc.rs` 1082), are counted
  at 922 and never taken off again (947): `StatsMatchCache` has the exact value, and the
  estimate that divides by the counter falls with each of them.
* `chat_mandar` sends "por el canal vivo" (`irohp2p.rs` 332) and takes the oldest channel, alive
  or not (338): `SentIsShown` is about channels whose connection lives.
* All that has its metadata is to be gathered (`mod.rs` 775-777), a torrent without a name
  never is (784-786): `ReadyIsIndexed` is about the others.

Two more places where a property says less than a comment might suggest: `TableIsSound` lets
one node that is not secure stand beside secure ones of its ip, as `already_exists` does; and
`ConfirmedMeansPublic` takes it that a ping from the own address arrives only where the node can
be reached, while `rpc.rs` 511-513 takes any ping that bears that address.
The properties that are conditional say so in their comments: `StartsAreWhole` (starts
that do not overlap), `FollowsAreKept` (calls that do not overlap or share a second, and
read all), `StoppedStartsNothing` (but for the request of a round that was being summed up),
`SavedIsLoadable` (saves that are not cut short), `Settles` (no reply broke a
loop), `BecomesServer` (the votes agree in the end).

## 5. What is proved

Every invariant and action property that a passing run checks, and both refinements, for all
values of the constants; two of them under a condition (`UnstartedPutHasLookup` and
`ResolvedIsIndexed`, below). Some properties are stated only in the modules of the proofs: they
say what the checked ones leave open, and TLC found none of them violated on the same
instances before they were proved. The assumptions are the named ones of the modules: numbers are
natural or positive, markers such as `NoHay` or `Nadie` are no values, ids and addresses fit
each other as the code has them. Finite are only what is counted or summed up: the loops of
an agent, the two nodes of a chat, the hashes of a spider, the addresses that are voted for.
Each property has an inductive invariant stronger than itself.

**`DhtActorProofs`**: `TypeCorrect`, `CallersServed`, `LookupsExhausted`, `ReadersGetAll`,
`StoreIsKept`, `WaitingPutsAreStarted`, `NodesAreAskedOnce`.

* `SendersHaveQuery` is not inductive: between the end of a query and its report the sender
  hangs on the report, so the proof carries `ReportEmpty`, that a report is empty until the
  tick fills it. `CallerInv` adds that a client not in a call has no answer waiting. The
  hard step is `Report`, which answers and removes whole sets of senders at once: a client
  is in at most one of them, so its answer does not depend on the order of the loops.
* `LookupsExhausted` needs the types only: a lookup is judged after it has visited its new
  candidates, so with nothing in flight there were none.
* `StreamInv`, for `ReadersGetAll`: until the report a reader misses the value that is the
  news and no other. A value is told by the request it answered, a node is sent each request
  once, and what answered is in flight no more, so that the news is never a value the lookup
  already had (`Fresh`), whatever kind of answer it came in.
* `StoreInv`, for `StoreIsKept`: the mail is about the call its client is in (`MailInv`),
  only a request that was sent is answered (`Sound`), and a put that ended is in the map
  until the clean-up only (`ReportFits`). So a verdict and the fate it seals are about the
  same query (`VerdictFits`), `Report` tells exactly those who wait, and a put that was
  never sent is the only one to end for want of nodes.
* `WaitingPutsAreStarted` states `UnstartedPutHasLookup` under `NoneCrawls`: no `find_node`
  is made on a target that is stored at. Without it the property is false (run
  `dht_put_in_find_node`). `ClearInv` adds what the start of a put from cached nodes needs:
  lookups of other kinds cache a token of every node, so that a started put is sent to
  somebody. Crawls and the lookup of the own id may go on at any other target.
* `NodesAreAskedOnce` compares what a lookup was and what it is a step later (`Advances`), for
  each thing a tick or a datagram may do to it: it forgets nothing, who is asked was not
  asked before, and who answers was waited for.

**`KrpcProofs`**: `InFlightUntilSettled`, `SocketKeepsRequests` (`Spec => Asking`),
`RequestsSettle`, `NoSecondThoughts`, `IdsComeRoundLate`, `NextIdIsFree`,
`EveryMessageSurvives`, `ForeignResponsesAreRead`, `ConversionsDoAgree`.

* `SocketInv`: an entry of the table has the date and the id of its request and waits for
  it, and an open request has its entry. Clean-up and expiry only take entries whose time is
  over (`TableCleans`), and an id that is used again is free, so the entry it overwrites is
  settled. `SettleInv` adds the net: every datagram is of a request that was made and is
  read as it was sent, so an answer that is accepted is of the node that was asked.
* `NoSecondThoughts`: from the same invariant, the outcome of a request does not change once
  there is one. (`Asking` says it of what the mapping shows; this is about the table itself.)
* `IdsComeRoundLate`: the next id of a node is that of any of its requests plus the number of
  requests since, but for whole turns of the counter (`Turns`). So two requests of one id
  are `TidSpace` requests apart, and `IdIsFree`, the guard of `Request`, fails only if a request
  that old is still open or on its way (`NextIdIsFree`): with 2^32 ids the guard leaves out
  nothing that a node which asks less often than that per time-out could meet.
* `EveryMessageSurvives` and `ForeignResponsesAreRead` speak of all messages, with lists of nodes
  and sets of fields of any size, and `ConversionsDoAgree` follows for those that a run
  enumerates. A list of nodes is cut into its entries at the places where they were joined
  (`ByteOf`); the kind of a response is told by the first of the kinds in `ResponseOrder` whose
  fields are there (`FirstThatFits`).

**`DhtServerProofs`**: `ServerTypeCorrect`, `TokensHonoured`, `TokensDie`,
`MutableSeqNeverFalls`, `ConditionalPutsExclude`, `UsedStay`, `HoldersWrite`.

* `TokensInv`: the secrets are numbered as drawn, and a token given before the last rotation
  but one is older than the interval between two. `MutableInv` and `WinnersInv`: a sequence
  number that a conditional put has raised is behind the one of the item kept, so it cannot
  be raised again.
* `UsedStay` needs the order of the cache: the values in front of another were
  used since it was (`ImmutableInv`), so it falls off the end only when as many as the cap
  holds have been.
* `HoldersWrite`, from `TokensInv`: the contents of the three stores change, evictions
  included, only for an address that holds a token of the current secret, or of the one before
  while no rotation is due. A get reorders them and no more. The lemmas on `Lru` (no key twice,
  order and contents agree, what a full cache drops) are in `ListProofs`.

**`NodeUpkeepProofs`**: `NodeTypeCorrect`, `TableStaysSound`, `SumsStayTrue`, `IdsAreSound`,
`FreshNodesStay`, `ReachedWhereItThinks`, `OnlyThePublicServe`.

* `PublicInv`: the pings that arrive were sent to addresses that reach the node; neither the
  table nor the lookups matter to it, so their votes may name any address at any time.
* `TableOK` says what each bucket keeps while nodes are added, replaced, aged and purged,
  and which two nodes of one ip `already_exists` puts up with (`Tolerates`); no peer has an
  id of the node's own, now or later.
* `FreshNodesStay` is what remains true of the comment that `node_purge` contradicts: only stale
  nodes leave while the own id stays, although `ping_and_purge` removes by id and a full
  bucket drops its first. It needs `TableOK`: two nodes of one id would be in one bucket
  (`OneOfAnId`), so that the purge of a stale node never takes a fresh one along.
* `CacheOK`: the sums behind the estimates are exactly the sums over the cached entries, and
  the counter of the responders is the cached entries that are no `find_node` and, from the
  history `finds`, every `find_node` ever cached. What has to be shown is that a sum over a set does not depend on the order in which it is taken
  (`SumsAgree`), and that the entry evicted is the one taken off (`OldestGoes`).
* `IdsAreSound` is about the bits themselves, for ids of any width: `TablesOfIds` ties the
  tables of distances and valid addresses, through which `NodeUpkeep` sees ids, to them.

**`DhtBuscaProofs`**: `SpiderTypeCorrect`, `FindsAreKept`, `ResolvedIsKept`, `OnlyRealFinds`,
`CapturesAreFew`.

* `BuscaInv` adds the types of the index, the file and what each loop gathered; the lemma
  `Pushed` is about a list that grows at one end and is trimmed at the other: it keeps no
  element twice, and none that was not there or is new.
* `ResolvedIsKept` has the hypothesis `[]NeverFull`: the index forgets its oldest entries
  once it is full, by design, and then what was resolved is no longer there. It covers
  crashes, two runs and a save that fails; a find is in the index, or in the hands of the
  loop between `mark` and `index`.
* `OnlyRealFinds` is the converse, without a condition: what is indexed, saved, listed, told or
  marked was resolved by the session of some run. `RealInv` adds what a loop has gathered, and
  that a run without a session has neither torrents nor tasks, so that opening one forgets
  nothing. `CapturesAreFew`: the oldest capture gives way before the list is searched for the
  new one, and still no hash is listed twice.

**`IrohProofs`**: `ChatTypeCorrect`, `NothingTwice`, `NothingLost`. `IInv` has three parts:
`Wiring` (which ends are wired, and that each node lists a channel once), `Data` (types of
what is queued, on the wire and shown) and, for each end, `Flow`: what was sent through it
begins with what the far node was given, followed by what is on the wire, and while the
connection lives the rest of it is the queue of the writer. A stream delivers its bytes in
pieces of any length, and the reader decodes and splits each by itself: the steps are that
what the lines of a piece stand for adds up piece by piece (`LinesAre`, `TwoPieces`), so that each byte comes out once
and in order, as itself or in the sign for a character that was cut, although the text it
belongs to may come out as two lines.

**`ServicesProofs`**: `ServicesTypeCorrect`, `ServicesAreApart`, and of each part

* account: `SavedOpens` (`AccountInv`);
* shared chat: `NoHalfStarts`. `SharedInv` says how far each start has come and that, while
  it is alone, the fields before that place are its own and those after it of the start
  before; `ReadInv` that the receiver holds messages of its session only. `LocksLeadOn` is
  the safety half of `CallsReturn`: the mutexes never close a circle, since whoever keeps
  one waits for one further on (`WaitsFurther`);
* inbox: `MessagesShownOnce`. `ShowInv` counts each event: it is in the buffer, shown, or
  lost, and one of them, over overflow, poll and a new subscription;
* follows: `ListIsKept`. `ContactsInv`: while nothing has disturbed it the list at the
  relays is what was asked for, and the one call that runs has read that list;
* agents: `OnlyGrantedToolsRun`, `StopStops`. `AskInv`: the loop that waits asks for the tool
  the screen shows, and its agent is not stopped. For the types, `RunsInv`: a round is
  counted before it posts, and the rotation of the keys grows past their number only as far
  as there are loops, because a loop that was refused posts again only with a good key.
  `AgentsRunDown` is the safety half of `Settles`: unless the user talks again, each step of a
  loop uses up a round or some of what is left to do in it (`Left`), and both are bounded
  (`RunInv`), also for loops that an earlier talk left behind and that count in one field.

**`ListProofs`** has the lemmas that five of these rest on: what a filter keeps (`Among`), lists
joined and cut, the LRU cache, sums. Theorems of the library that take an operator as a
parameter cannot be used by the provers here; induction is done instead with the claim given as
a set of numbers, of which there is a least that fails (`LeastNumber`, `EveryNumber`,
`EverySequence`). For that recursive definitions are functions: `Among` and not `SelectSeq`.

**Forms chosen for the proofs.** A filter by a test is written as a filter by the set that
passes it. In `DhtServer` the history `since` is a function on the values used so far. An
id is a value with tables of distances and prefixes (`NodeIds` for the bits); `Kept` is what
`cache_iterative_query` keeps of a lookup.

## 6. Only model-checked

* Liveness under fairness (`EveryCallAnswered`, `ReadyIsIndexed`, `BecomesServer`, `SentIsShown`,
  `BufferedIsShown`, `CallsReturn`, `Settles`): fairness is about ENABLED, which is out of reach
  of the prover. Of `EveryCallAnswered` the safety half is `CallersServed`, of `CallsReturn` it
  is `LocksLeadOn`, of `Settles` it is `AgentsRunDown`.
* `UnstartedPutHasLookup` without its hypothesis, and `ResponsiveNodesStay`: they are false, see
  section 4.

## 7. Not modelled

* *Colab* (`lib/colab_cli`): frames are matched neither to the request they answer nor to the
  socket they come from, so there is no promise about the output of a cell that a model
  could show kept; its calls end by their time-outs.
* *DHT node*: the constructor, the testnet and the read-only getters; `get_mutable_most_recent`, a
  fold over one stream inside one call; the choice of the closest nodes by estimated size
  (any choice here); bencode, CRC32C, SHA-1 and signatures, which are data.
* *Async handle*: it sends the same messages to the same actor as the blocking one.
* *DHT Busca*: text search, lists, formatting, the port the node listens on. *Iroh*: sharing and downloading of files, which
  are calls of the library. *Nostr*: search, pages, publishing of posts and of the profile,
  each a single call of nostr-sdk. *Agents*: which part of the history is sent or summed up
  (that a summary is awaited is modelled), the encrypted files, what a tool does.
* *Local language models* (`rust/src/laurelia`, needle): arithmetic on tensors, out of
  TLC's reach. *Cryptographic services*, *downloads*, *event log*, *settings*, *notifications*,
  *browser*, *media*, *demo chat*, *screens*: wrappers and widgets without a protocol.
* *Platform shells, cargokit, generated bindings*: build artefacts.
