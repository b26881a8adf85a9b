------------------------------ MODULE DhtBusca ------------------------------
(***************************************************************************)
(* The torrent spider of the app (rust/src/gt/dhtbusca): start and stop,   *)
(* called from the UI, the spider thread and the DHT node that hand over   *)
(* info hashes, the metadata loop that resolves and indexes them, and the  *)
(* tasks it spawns.  A run is one call of start: it has a channel, a       *)
(* spider thread, a metadata loop and a torrent session of its own, while  *)
(* the stop flag, the slot for the DHT node, the index, the captures and   *)
(* the list of news are shared by all runs.                                *)
(*                                                                         *)
(* One action per critical section: what happens between two locks of the  *)
(* metadata loop interleaves with the UI, the spider and the other runs.   *)
(***************************************************************************)
EXTENDS Naturals, FiniteSets, SequencesExt, Lists

CONSTANTS
    Hash,           \* the info hashes that may show up
    Trouble,        \* what may go wrong: a subset of Troubles
    MaxRun,         \* bound: how often start is called
    MaxTasks,       \* bound: tasks of one run that are waiting or resolving
    QueueBound,     \* bound: hashes in a channel
    MaxMeta,        \* max_meta: how many hashes may be pending
    MaxConcurrent,  \* MAX_CONCURRENT_META: permits of the semaphore
    IndexCap,       \* TOPE_INDICE
    CaptureCap      \* 5000: how many captures are kept

ASSUME CapAssumption ==
    /\ IsFiniteSet(Hash)
    /\ {MaxRun, MaxMeta, MaxConcurrent, IndexCap, CaptureCap} \subseteq Nat \ {0}
    /\ {MaxTasks, QueueBound} \subseteq Nat \ {0}

\* The app dies; the index cannot be written; no DHT node can be built; no
\* session can be opened; the seeds answer but no request comes in.
Troubles == {"crash", "noSave", "noNode", "noSession", "deaf"}

ASSUME TroubleAssumption == Trouble \subseteq Troubles

Run == 1 .. MaxRun
NoRun == 0
RunOrNone == Run \cup {NoRun}

VARIABLES
    \* shared, in struct DhtBusca
    stop,       \* the flag every thread polls
    hilo,       \* hilo_spider.is_some()
    canal,      \* the run whose channel probar sends to
    dht,        \* the run whose DHT node is in the slot
    index,      \* indice.hallados, oldest first
    disk,       \* dhtbusca.json
    nuevos,     \* nuevos_desde_poll
    capturas,   \* newest first
    net,        \* "silent"; "seeds" once a seed answered; "heard" once a request came
    warned,     \* aviso_sordo, shown to the user
    \* per run
    started,    \* the runs so far
    spider,     \* the spider thread of each run
    pc,         \* the metadata loop of each run
    queue,      \* the channel of each run
    pend,       \* pendientes of each run, oldest first
    waiting,    \* tasks waiting for a permit: how many per hash
    adding,     \* tasks in add_torrent: how many per hash
    session,    \* the torrents of the session of each run
    harvest,    \* cosechados of each run
    \* what the UI has seen
    told

uiVars    == <<hilo, canal, disk, told>>
logVars   == <<net, warned>>
taskVars  == <<waiting, adding, session>>
loopVars  == <<pc, pend, harvest>>
foundVars == <<index, nuevos, capturas>>
vars == <<stop, dht, started, spider, queue, uiVars, logVars, taskVars, loopVars, foundVars>>

FirstNet == IF "deaf" \in Trouble THEN "silent" ELSE "heard"

Threads == {"none", "running", "ended"}
Loops == {"none", "open", "top", "drain", "capture", "harvest", "mark", "index",
          "announce", "stats", "ended"}

\* With its metadata a torrent is ready, or turns out to have no name.
Torrent == {"absent", "added", "ready", "nameless"}

Init ==
    /\ stop = FALSE /\ hilo = FALSE /\ canal = NoRun
    /\ dht = NoRun
    /\ index = <<>> /\ disk = <<>> /\ nuevos = {} /\ capturas = <<>> /\ told = {}
    /\ net = FirstNet /\ warned = FALSE
    /\ started = 0
    /\ spider = [r \in Run |-> "none"]
    /\ pc = [r \in Run |-> "none"]
    /\ queue = [r \in Run |-> <<>>]
    /\ pend = [r \in Run |-> <<>>]
    /\ waiting = [r \in Run |-> [h \in Hash |-> 0]]
    /\ adding = [r \in Run |-> [h \in Hash |-> 0]]
    /\ session = [r \in Run |-> [h \in Hash |-> "absent"]]
    /\ harvest = [r \in Run |-> {}]

Tasks(count) == FoldFunction(LAMBDA n, sum : n + sum, 0, count)
Alive(r) == pc[r] \notin {"none", "ended"}

\* rx is dropped with the metadata loop; a send into a closed channel is lost.
Sent(r, h) ==
    IF Alive(r) THEN [queue EXCEPT ![r] = Append(@, h)] ELSE queue
MaySend(r) == Len(queue[r]) < QueueBound

-----------------------------------------------------------------------------
(* The UI. *)

\* start: the old node is still in the slot while the new one is built, on its port
\* or on any other; dropping it ends it.  When no node can be built the channel stays.
Start ==
    /\ ~hilo
    /\ started < MaxRun
    /\ LET r == started + 1 IN
       /\ started' = r
       /\ stop' = FALSE
       /\ canal' = r
       /\ \/ /\ dht' = r
             /\ spider' = [spider EXCEPT ![r] = "running"]
             /\ pc' = [pc EXCEPT ![r] = "open"]
             /\ hilo' = TRUE
          \/ "noNode" \in Trouble /\ UNCHANGED <<dht, spider, pc, hilo>>
    /\ UNCHANGED <<queue, disk, told, logVars, taskVars, pend, harvest, foundVars>>

\* stop: the flag, then the index is saved.  When the save fails the method
\* returns before it gives up the handle.
Stop ==
    /\ hilo
    /\ stop' = TRUE
    /\ canal' = NoRun
    /\ \/ disk' = index /\ hilo' = FALSE
       \/ "noSave" \in Trouble /\ UNCHANGED <<disk, hilo>>
    /\ UNCHANGED <<dht, started, spider, queue, told, logVars, taskVars, loopVars, foundVars>>

GuardarAhora ==
    /\ disk' = index
    /\ UNCHANGED <<stop, dht, started, spider, queue, hilo, canal, told, logVars,
                   taskVars, loopVars, foundVars>>

PollNuevos ==
    /\ nuevos # {}
    /\ told' = told \cup (nuevos \cap ToSet(index))
    /\ nuevos' = {}
    /\ UNCHANGED <<stop, dht, started, spider, queue, hilo, canal, disk, logVars,
                   taskVars, loopVars, index, capturas>>

Probar(h) ==
    /\ canal # NoRun
    /\ MaySend(canal)
    /\ queue' = Sent(canal, h)
    /\ UNCHANGED <<stop, dht, started, spider, uiVars, logVars, taskVars, loopVars, foundVars>>

\* The process dies; the next one loads the index that was saved.
Crash ==
    /\ "crash" \in Trouble
    /\ started > 0
    /\ stop' = FALSE /\ hilo' = FALSE /\ canal' = NoRun
    /\ dht' = NoRun
    /\ spider' = [r \in Run |-> IF r <= started THEN "ended" ELSE "none"]
    /\ pc' = [r \in Run |-> IF r <= started THEN "ended" ELSE "none"]
    /\ queue' = [r \in Run |-> <<>>]
    /\ pend' = [r \in Run |-> <<>>]
    /\ harvest' = [r \in Run |-> {}]
    /\ waiting' = [r \in Run |-> [h \in Hash |-> 0]]
    /\ adding' = [r \in Run |-> [h \in Hash |-> 0]]
    /\ index' = disk /\ nuevos' = {} /\ capturas' = <<>>
    /\ told' = ToSet(disk)
    /\ net' = FirstNet /\ warned' = FALSE
    /\ UNCHANGED <<started, disk, session>>

-----------------------------------------------------------------------------
(* Where hashes come from. *)

\* ping_semillas: a seed answers.
SeedAnswers ==
    /\ "deaf" \in Trouble
    /\ started > 0 /\ net = "silent"
    /\ net' = "seeds"
    /\ UNCHANGED <<stop, dht, started, spider, queue, uiVars, warned, taskVars, loopVars,
                   foundVars>>

\* FiltroAtrapador: a request of the network reaches the node; get_peers and
\* announce_peer carry a hash, the others are only counted.
Request(h) ==
    /\ dht # NoRun
    /\ net' = "heard"
    /\ \/ MaySend(dht) /\ queue' = Sent(dht, h)
       \/ UNCHANGED queue
    /\ UNCHANGED <<stop, dht, started, spider, uiVars, warned, taskVars, loopVars,
                   foundVars>>

\* The spider thread: a random id has a swarm.
SpiderFinds(r, h) ==
    /\ spider[r] = "running"
    /\ ~stop
    /\ MaySend(r)
    /\ queue' = Sent(r, h)
    /\ UNCHANGED <<stop, dht, started, spider, uiVars, logVars, taskVars, loopVars, foundVars>>

SpiderStops(r) ==
    /\ spider[r] = "running"
    /\ stop
    /\ spider' = [spider EXCEPT ![r] = "ended"]
    /\ UNCHANGED <<stop, dht, started, queue, uiVars, logVars, taskVars, loopVars, foundVars>>

-----------------------------------------------------------------------------
(* The metadata loop of a run. *)

Goto(r, place) == pc' = [pc EXCEPT ![r] = place]

\* What the metadata of h may be: the hash is that of its info, always the same.
Metadata(h) ==
    {m \in {"ready", "nameless"} : \A q \in Run : session[q][h] \in {"absent", "added", m}}

\* The session restores the torrents that earlier sessions left in its folder.
Restored(h) ==
    {"absent"} \cup (IF \E q \in Run : session[q][h] # "absent"
                     THEN {"added"} \cup Metadata(h) ELSE {})

OpenSession(r) ==
    /\ pc[r] = "open"
    /\ \/ /\ \E torrents \in [Hash -> Torrent] :
                /\ \A h \in Hash : torrents[h] \in Restored(h)
                /\ session' = [session EXCEPT ![r] = torrents]
          /\ Goto(r, "top")
          /\ UNCHANGED queue
       \/ /\ "noSession" \in Trouble
          /\ Goto(r, "ended")
          /\ queue' = [queue EXCEPT ![r] = <<>>]
          /\ UNCHANGED session
    /\ UNCHANGED <<stop, dht, started, spider, uiVars, logVars, waiting, adding, pend,
                   harvest, foundVars>>

LoopTop(r) ==
    /\ pc[r] = "top"
    /\ Goto(r, IF stop THEN "ended" ELSE "drain")
    /\ queue' = IF stop THEN [queue EXCEPT ![r] = <<>>] ELSE queue
    /\ UNCHANGED <<stop, dht, started, spider, uiVars, logVars, taskVars, pend, harvest,
                   foundVars>>

Indexed(h) == Contains(index, h)

\* Mutant: nothing gives way.
PendingUnbounded(r, h) == Append(pend[r], h)

\* At max_meta the oldest pending hash gives way.
Pending(r, h) ==
    Append(IF Len(pend[r]) >= MaxMeta THEN Tail(pend[r]) ELSE pend[r], h)

\* At the cap the oldest capture is dropped, whether or not h is one already.
Captured(h) ==
    LET kept == IF Len(capturas) >= CaptureCap THEN Front(capturas) ELSE capturas
    IN  IF \E i \in DOMAIN kept : kept[i].hash = h THEN kept
        ELSE <<[hash |-> h, resuelto |-> FALSE]>> \o kept

\* A hash that is neither pending nor in the index becomes pending ...
DrainOne(r) ==
    /\ pc[r] = "drain"
    /\ queue[r] # <<>>
    /\ LET h == Head(queue[r]) IN
       \/ /\ Contains(pend[r], h) \/ Indexed(h)
          /\ UNCHANGED <<pend, pc>>
       \/ /\ ~Contains(pend[r], h) /\ ~Indexed(h)
          /\ Tasks(waiting[r]) + Tasks(adding[r]) < MaxTasks
          /\ pend' = [pend EXCEPT ![r] = Pending(r, h)]
          /\ Goto(r, "capture")
    /\ queue' = [queue EXCEPT ![r] = Tail(@)]
    /\ UNCHANGED <<stop, dht, started, spider, uiVars, logVars, taskVars, harvest,
                   foundVars>>

\* ... and is captured, under another lock, and given a task.
Capture(r) ==
    /\ pc[r] = "capture"
    /\ pend[r] # <<>>
    /\ LET h == Last(pend[r]) IN
       /\ capturas' = Captured(h)
       /\ waiting' = [waiting EXCEPT ![r][h] = @ + 1]
    /\ Goto(r, "drain")
    /\ UNCHANGED <<stop, dht, started, spider, queue, uiVars, logVars, adding, session,
                   pend, harvest, index, nuevos>>

\* The channel is disconnected once canal, the node and the spider let go of it.
HasSender(r) == canal = r \/ dht = r \/ spider[r] = "running"

DrainDone(r) ==
    /\ pc[r] = "drain"
    /\ queue[r] = <<>>
    /\ Goto(r, IF HasSender(r) THEN "harvest" ELSE "ended")
    /\ UNCHANGED <<stop, dht, started, spider, queue, uiVars, logVars, taskVars, pend,
                   harvest, foundVars>>

\* Mutant: only what is still pending is gathered.
GatheredPending(r) ==
    {h \in Hash : session[r][h] = "ready" /\ ~Indexed(h) /\ Contains(pend[r], h)}

\* The torrents that have metadata with a name and are not in the index, pending or not.
Gathered(r) == {h \in Hash : session[r][h] = "ready" /\ ~Indexed(h)}

\* The pending hashes that are too old are given up; then the gathering.
Harvest(r) ==
    /\ pc[r] = "harvest"
    /\ \E n \in 0 .. Len(pend[r]) :
          pend' = [pend EXCEPT ![r] = SubSeq(@, n + 1, Len(@))]
    /\ harvest' = [harvest EXCEPT ![r] = Gathered(r)]
    /\ Goto(r, "mark")
    /\ UNCHANGED <<stop, dht, started, spider, queue, uiVars, logVars, taskVars, foundVars>>

\* Mutant: every torrent of the session is marked.
ResolvedAdded(r) == {h \in Hash : session[r][h] # "absent"}

Resolved(r) == harvest[r]

Mark(r) ==
    /\ pc[r] = "mark"
    /\ pend' = [pend EXCEPT ![r] = Among(@, Hash \ harvest[r])]
    /\ capturas' = [i \in DOMAIN capturas |->
                      [capturas[i] EXCEPT !.resuelto = @ \/ capturas[i].hash \in Resolved(r)]]
    /\ Goto(r, IF harvest[r] = {} THEN "stats" ELSE "index")
    /\ UNCHANGED <<stop, dht, started, spider, queue, uiVars, logVars, taskVars, harvest,
                   index, nuevos>>

\* Mutant: what was gathered is pushed without a second look at the index.
FreshUnchecked(r) == harvest[r]

\* Another run may have indexed the same hash since it was gathered.
Fresh(r) == {h \in harvest[r] : ~Indexed(h)}

Trimmed(found) ==
    SubSeq(found, IF Len(found) > IndexCap THEN Len(found) - IndexCap + 1 ELSE 1,
           Len(found))

PushIndex(r) ==
    /\ pc[r] = "index"
    /\ \E order \in SetToSeqs(Fresh(r)) : index' = Trimmed(index \o order)
    /\ Goto(r, "announce")
    /\ UNCHANGED <<stop, dht, started, spider, queue, uiVars, logVars, taskVars, pend,
                   harvest, nuevos, capturas>>

Announced(r) == harvest[r]

Announce(r) ==
    /\ pc[r] = "announce"
    /\ nuevos' = nuevos \cup Announced(r)
    /\ harvest' = [harvest EXCEPT ![r] = {}]
    /\ Goto(r, "stats")
    /\ UNCHANGED <<stop, dht, started, spider, queue, uiVars, logVars, taskVars, pend,
                   index, capturas>>

\* The warning looks at the semillas_ok of the Stats record, not at the counter
\* of the same name, and nothing ever writes it.
StatsSeeds == FALSE

UpdateStats(r) ==
    /\ pc[r] = "stats"
    /\ warned' = (warned \/ StatsSeeds)
    /\ Goto(r, "top")
    /\ UNCHANGED <<stop, dht, started, spider, queue, uiVars, net, taskVars, pend,
                   harvest, foundVars>>

-----------------------------------------------------------------------------
(* The tasks, and the session library behind them. *)

TaskStarts(r, h) ==
    /\ waiting[r][h] > 0
    /\ Tasks(adding[r]) < MaxConcurrent
    /\ waiting' = [waiting EXCEPT ![r][h] = @ - 1]
    /\ adding' = [adding EXCEPT ![r][h] = @ + 1]
    /\ UNCHANGED <<stop, dht, started, spider, queue, uiVars, logVars, session, loopVars,
                   foundVars>>

\* add_torrent returns or times out: the torrent is in the session, or is not.
TaskEnds(r, h) ==
    /\ adding[r][h] > 0
    /\ adding' = [adding EXCEPT ![r][h] = @ - 1]
    /\ \/ session' = [session EXCEPT ![r][h] = IF @ = "absent" THEN "added" ELSE @]
       \/ UNCHANGED session
    /\ UNCHANGED <<stop, dht, started, spider, queue, uiVars, logVars, waiting, loopVars,
                   foundVars>>

\* A peer sends the metadata of a torrent.
MetadataArrives(r, h) ==
    /\ session[r][h] = "added"
    /\ \E m \in Metadata(h) : session' = [session EXCEPT ![r][h] = m]
    /\ UNCHANGED <<stop, dht, started, spider, queue, uiVars, logVars, waiting, adding,
                   loopVars, foundVars>>

-----------------------------------------------------------------------------

Loop(r) == \/ OpenSession(r) \/ LoopTop(r) \/ DrainOne(r) \/ Capture(r) \/ DrainDone(r)
           \/ Harvest(r) \/ Mark(r) \/ PushIndex(r) \/ Announce(r) \/ UpdateStats(r)

UI == Start \/ Stop \/ GuardarAhora \/ PollNuevos \/ \E h \in Hash : Probar(h)

Network == \/ SeedAnswers
           \/ \E h \in Hash : Request(h) \/ \E r \in Run : SpiderFinds(r, h)
           \/ \E r \in Run, h \in Hash : MetadataArrives(r, h)

TaskSteps == \E r \in Run, h \in Hash : TaskStarts(r, h) \/ TaskEnds(r, h)

Next == \/ UI \/ Crash \/ Network \/ TaskSteps
        \/ \E r \in Run : SpiderStops(r) \/ Loop(r)

Spec == Init /\ [][Next]_vars

\* The channel of r has more for its loop.
Behind(r) == pc[r] = "capture" \/ (pc[r] = "drain" /\ queue[r] # <<>>)

\* The loop of a run goes on, a task gets its permit and gives it back (after
\* RESOLVE_TIMEOUT at the latest), and hashes do not for ever come in faster than
\* the loop takes them out of the channel.
Fairness ==
    /\ \A r \in Run : WF_vars(Loop(r)) /\ SF_vars(DrainDone(r)) /\ []<>~Behind(r)
    /\ \A r \in Run, h \in Hash : WF_vars(TaskStarts(r, h)) /\ WF_vars(TaskEnds(r, h))

FairSpec == Spec /\ Fairness

-----------------------------------------------------------------------------
(* Properties. *)

Captura == [hash : Hash, resuelto : BOOLEAN]

TypeOK ==
    /\ {stop, hilo, warned} \subseteq BOOLEAN /\ net \in {"silent", "seeds", "heard"}
    /\ canal \in RunOrNone
    /\ dht \in RunOrNone
    /\ index \in Seq(Hash) /\ disk \in Seq(Hash) /\ nuevos \subseteq Hash
    /\ capturas \in Seq(Captura)
    /\ Len(index) <= IndexCap /\ Len(disk) <= IndexCap /\ Len(capturas) <= CaptureCap
    /\ started \in 0 .. MaxRun
    /\ spider \in [Run -> Threads]
    /\ pc \in [Run -> Loops]
    /\ queue \in [Run -> Seq(Hash)]
    /\ pend \in [Run -> Seq(Hash)]
    /\ \A r \in Run : Len(pend[r]) <= MaxMeta
    /\ waiting \in [Run -> [Hash -> Nat]]
    /\ adding \in [Run -> [Hash -> Nat]]
    /\ session \in [Run -> [Hash -> Torrent]]
    /\ harvest \in [Run -> SUBSET Hash]
    /\ told \subseteq Hash

\* No torrent is in the index, or in the file, twice: two runs may gather the
\* same one, and a restart may gather it again.
IndexUnique == IsInjective(index) /\ IsInjective(disk)

\* What is in the index has been shown by a poll, will be by the next one, or
\* is about to be put on the list: the UI never misses a find.
NothingUnannounced ==
    \A h \in ToSet(index) :
        \/ h \in told \cup nuevos
        \/ \E r \in Run : pc[r] = "announce" /\ h \in harvest[r]

\* index, disk and nuevos, each under a lock of its own, agree on every find.
IndexIsSound == IndexUnique /\ NothingUnannounced

\* A capture shown as resolved is in the index, or is being pushed to it.  (Of
\* an index that never reached its cap.)
ResolvedIsIndexed ==
    \A i \in DOMAIN capturas :
        capturas[i].resuelto =>
            \/ Indexed(capturas[i].hash)
            \/ \E r \in Run : pc[r] = "index" /\ capturas[i].hash \in harvest[r]

\* A torrent whose metadata came, with a name, is indexed, unless the loop ends first: also
\* when its hash was given up.  (One without a name is passed over every time.)
ReadyIsIndexed ==
    \A r \in Run, h \in Hash :
        session[r][h] = "ready" /\ Alive(r) ~> Indexed(h) \/ ~Alive(r)

=============================================================================
