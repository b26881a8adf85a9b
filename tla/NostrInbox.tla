----------------------------- MODULE NostrInbox -----------------------------
(***************************************************************************)
(* What a Nostr client of the app receives: NostrClient, the chat with one *)
(* peer (rust/src/gt/nostrn/client.rs), and GestionNostrn, the inbox for   *)
(* anyone (rust/src/gt/nostrn/gestion.rs).  Events come over the           *)
(* subscriptions at the relays into a broadcast channel, whose receiver    *)
(* poll_messages drains.                                                   *)
(*                                                                         *)
(* subscribe awaits the relays, so events arrive between its steps; every  *)
(* other call is one step.  The relays and the pool of nostr_sdk, which    *)
(* notifies an event once, and the channel of tokio are external.          *)
(***************************************************************************)
EXTENDS Naturals, SequencesExt, Lists

CONSTANTS
    Evento,         \* events [id, mio, de, kind, abre, rumor, reciente]:
                    \*   addressed to me; author; kind; whether it can be unwrapped;
                    \*   the kind inside; whether its date lies in the window
    Par,            \* the peer of the chat
    SinReceptor,    \* no receiver yet
    Capacidad,      \* of the broadcast channel
    MaxSubs         \* bound: calls of subscribe

ASSUME InboxAssumption ==
    /\ Capacidad \in Nat \ {0} /\ MaxSubs \in Nat
    /\ SinReceptor \notin Seq(Evento)

VARIABLES
    clase,          \* which of the two the client is: "dm" or "bandeja"
    relays,         \* whether it has been given relays
    conectado,
    fase,           \* of subscribe: "listo", "pidiendo" (its second filter), "pedido"
    subs,           \* calls of subscribe so far
    activas,        \* subscriptions [filtro, n, ventana] at the relays
    suscripcion,    \* subscription_id: the call whose first subscription it is, or 0
    receptor,       \* the receiver: events not yet drained, or SinReceptor
    vistos,         \* events the pool has seen
    mostrados,      \* history: events poll has returned
    perdidos        \* history: events that came without a receiver or left it unread

inbox == <<clase, relays, conectado, fase, subs, activas, suscripcion, receptor, vistos,
           mostrados, perdidos>>

InboxInit ==
    /\ clase \in {"dm", "bandeja"}
    /\ relays = FALSE /\ conectado = FALSE
    /\ fase = "listo" /\ subs = 0 /\ activas = {} /\ suscripcion = 0
    /\ receptor = SinReceptor
    /\ vistos = {} /\ mostrados = <<>> /\ perdidos = {}

-----------------------------------------------------------------------------
(* Subscribing.                                                            *)

AddRelays ==
    /\ fase = "listo" /\ ~conectado
    /\ relays' = TRUE /\ conectado' = TRUE
    /\ UNCHANGED <<clase, fase, subs, activas, suscripcion, receptor, vistos, mostrados,
                   perdidos>>

Filtro(filtro, ventana) == [filtro |-> filtro, n |-> subs', ventana |-> ventana]

\* The first await.  The inbox may ask for all times (n_seconds = 0), the chat never.
Subscribe ==
    /\ fase = "listo" /\ relays /\ subs < MaxSubs
    /\ subs' = subs + 1
    /\ \E ventana \in BOOLEAN :
         /\ clase = "dm" => ventana
         /\ activas' = activas \cup {Filtro("to_me", ventana)}
    /\ fase' = IF clase = "dm" THEN "pidiendo" ELSE "pedido"
    /\ UNCHANGED <<clase, relays, conectado, suscripcion, receptor, vistos, mostrados,
                   perdidos>>

\* The second filter of the chat: what the peer publishes; if it fails the first stays.
SubscribePeer ==
    /\ fase = "pidiendo"
    /\ \/ /\ activas' = activas \cup {[filtro |-> "from_peer", n |-> subs, ventana |-> TRUE]}
          /\ fase' = "pedido"
       \/ fase' = "listo" /\ UNCHANGED activas
    /\ UNCHANGED <<clase, relays, conectado, subs, suscripcion, receptor, vistos, mostrados,
                   perdidos>>

Pendientes == IF receptor = SinReceptor THEN {} ELSE ToSet(receptor)

\* client.notifications(): a new receiver, which holds nothing from before.
TakeReceiver ==
    /\ fase = "pedido"
    /\ fase' = "listo"
    /\ suscripcion' = subs
    /\ receptor' = <<>>
    /\ perdidos' = perdidos \cup Pendientes
    /\ UNCHANGED <<clase, relays, conectado, subs, activas, vistos, mostrados>>

-----------------------------------------------------------------------------
(* Receiving.                                                              *)

Matches(sub, e) ==
    /\ sub.ventana => e.reciente
    /\ IF sub.filtro = "to_me" THEN e.mio ELSE e.de = Par

\* The channel keeps its last Capacidad values: a slow receiver lags, and loses the rest.
Pushed(queue, e) == IF Len(queue) < Capacidad THEN Append(queue, e) ELSE Append(Tail(queue), e)

Arrives(e) ==
    /\ conectado /\ e \notin vistos
    /\ \E sub \in activas : Matches(sub, e)
    /\ vistos' = vistos \cup {e}
    /\ IF receptor = SinReceptor
       THEN perdidos' = perdidos \cup {e} /\ UNCHANGED receptor
       ELSE /\ receptor' = Pushed(receptor, e)
            /\ perdidos' = perdidos \cup (Pendientes \ ToSet(Pushed(receptor, e)))
    /\ UNCHANGED <<clase, relays, conectado, fase, subs, activas, suscripcion, mostrados>>

\* The chat returns private messages of its peer, the inbox whatever it can unwrap.
Valido(e) ==
    /\ e.kind = "GiftWrap" /\ e.abre
    /\ clase = "dm" => e.rumor = "PrivateDirectMessage" /\ e.de = Par

Validos == {e \in ToSet(receptor) : Valido(e)}

DrainedUnlessBroken ==
    IF \A e \in ToSet(receptor) : e.abre THEN Among(receptor, Validos) ELSE <<>>

\* One message that cannot be unwrapped is counted and the drain goes on.
Drained == Among(receptor, Validos)

\* Without a receiver poll_messages is an error.
PollMessages ==
    /\ fase = "listo" /\ receptor # SinReceptor /\ receptor # <<>>
    /\ mostrados' = mostrados \o Drained
    /\ receptor' = <<>>
    /\ UNCHANGED <<clase, relays, conectado, fase, subs, activas, suscripcion, vistos,
                   perdidos>>

DisconnectDropping ==
    /\ fase = "listo" /\ relays
    /\ activas' = {} /\ suscripcion' = 0
    /\ conectado' = FALSE
    /\ receptor' = SinReceptor
    /\ UNCHANGED <<clase, relays, fase, subs, vistos, mostrados, perdidos>>

\* Only the subscription of subscription_id is closed, and only the chat leaves its relays.
Disconnect ==
    /\ fase = "listo" /\ relays
    /\ activas' = {sub \in activas : sub.filtro # "to_me" \/ sub.n # suscripcion}
    /\ suscripcion' = 0
    /\ conectado' = (conectado /\ clase # "dm")
    /\ UNCHANGED <<clase, relays, fase, subs, receptor, vistos, mostrados, perdidos>>

InboxNext ==
    \/ AddRelays \/ Subscribe \/ SubscribePeer \/ TakeReceiver
    \/ PollMessages \/ Disconnect
    \/ \E e \in Evento : Arrives(e)

\* The call goes on and the screen polls.
InboxStep == SubscribePeer \/ TakeReceiver \/ PollMessages

-----------------------------------------------------------------------------
(* Properties.                                                             *)

InboxTypeOK ==
    /\ clase \in {"dm", "bandeja"} /\ relays \in BOOLEAN /\ conectado \in BOOLEAN
    /\ conectado => relays
    /\ fase \in {"listo", "pidiendo", "pedido"} /\ subs \in 0 .. MaxSubs
    /\ activas \subseteq [filtro : {"to_me", "from_peer"}, n : 1 .. MaxSubs, ventana : BOOLEAN]
    /\ suscripcion \in 0 .. MaxSubs
    /\ receptor # SinReceptor => Len(receptor) <= Capacidad /\ ToSet(receptor) \subseteq vistos
    /\ vistos \subseteq Evento /\ ToSet(mostrados) \subseteq vistos /\ perdidos \subseteq vistos

\* poll_messages, subscribe: whatever is subscribed again, closed or lost, no message is
\* shown twice; and what the pool has seen and the user may see is shown, still buffered,
\* or was lost on the way into the receiver: a broken neighbour costs a message nothing.
ShownOnce ==
    /\ IsInjective(mostrados)
    /\ \A e \in vistos : Valido(e) => e \in ToSet(mostrados) \cup Pendientes \cup perdidos

\* ... and what is buffered is shown, even when the client is disconnected meanwhile.
BufferedIsShown ==
    \A e \in Evento :
        e \in Pendientes /\ Valido(e) ~> (e \in ToSet(mostrados) \/ e \in perdidos)
=============================================================================
