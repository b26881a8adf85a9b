---------------------------- MODULE NostrShared ----------------------------
(***************************************************************************)
(* SharedKeyChat (rust/src/gt/nostrpeer.rs): a chat of two participants    *)
(* that share a key, and observers who have only the key.  Client, keys    *)
(* and receiver stand under four mutexes; the calls of the interface take  *)
(* &self, so several threads run them at once, one lock after another.     *)
(*                                                                         *)
(* A lock that a call holds only for one assignment is one step.           *)
(***************************************************************************)
EXTENDS Naturals, FiniteSets, Sequences

CONSTANTS
    Hilo,           \* threads of the interface
    Sesion,         \* what a chat may be started with [clave, quien]:
                    \*   the shared key and the writer, or Nadie for an observer
    Nadie,          \* no value
    MaxLlamadas     \* bound: calls of the interface

Campo == {"client", "shared_keys", "sender_keys", "notifications"}

\* A call of the interface: which, the lock it waits for next, and what a start stores.
Llamada == [op : {"init", "send", "poll", "disconnect"}, paso : 1 .. 5,
            sesion : Sesion \cup {Nadie}]

ASSUME SharedAssumption ==
    /\ MaxLlamadas \in Nat
    /\ \A s \in Sesion : s = [clave |-> s.clave, quien |-> s.quien] /\ s.clave # Nadie
    /\ Nadie \notin Sesion \cup Llamada \cup Hilo

VARIABLES
    campo,          \* the values under the four mutexes, Nadie before the first start
    dueno,          \* the thread that holds each mutex, or Nadie
    llamada,        \* of a thread: the call it runs [op, paso, sesion, junto], or Nadie
    llamadas,       \* calls so far
    enviados,       \* messages at the relays [n, clave, quien], Nadie for the others
    llegados,       \* those the receiver was given
    entregados,     \* ... and has not been drained of
    leidos,         \* history: ... and poll_messages returned
    descartados,    \* history: ... and overrun, or dropped by a poll with their own key
    iniciada,       \* history: the session of the last start that finished, or Nadie
    solapadas,      \* history: whether two starts ever ran at once
    torcido,        \* history: a message written outside any start, and not as the
                    \*   last start says
    devuelta        \* history: the starts that returned a key, with that key

recibido == <<llegados, entregados, leidos, descartados>>
shared == <<campo, dueno, llamada, llamadas, enviados, recibido, iniciada, solapadas,
            torcido, devuelta>>

\* What the other participant of each chat has written.
Antiguos == {[n |-> 0, clave |-> s.clave, quien |-> Nadie] : s \in Sesion}

SharedInit ==
    /\ campo = [c \in Campo |-> Nadie] /\ dueno = [c \in Campo |-> Nadie]
    /\ llamada = [h \in Hilo |-> Nadie] /\ llamadas = 0
    /\ enviados = Antiguos /\ llegados = {} /\ entregados = {} /\ leidos = {}
    /\ descartados = {}
    /\ iniciada = Nadie /\ solapadas = FALSE /\ torcido = FALSE /\ devuelta = {}

-----------------------------------------------------------------------------
(* The locks each call takes, in order.  A start takes each for one        *)
(* assignment; the others keep what they took until they return.           *)

LocksReceiverFirst(op) ==
    CASE op = "init" -> <<"notifications", "client", "shared_keys", "sender_keys">>
      [] op = "send" -> <<"client", "sender_keys", "shared_keys">>
      [] op = "poll" -> <<"notifications", "shared_keys">>
      [] op = "disconnect" -> <<"client">>

LocksRelocking(op) ==
    CASE op = "init" -> <<"client", "shared_keys", "sender_keys", "notifications">>
      [] op = "send" -> <<"client", "sender_keys", "shared_keys">>
      [] op = "poll" -> <<"notifications", "shared_keys", "shared_keys">>
      [] op = "disconnect" -> <<"client">>

Locks(op) ==
    CASE op = "init" -> <<"client", "shared_keys", "sender_keys", "notifications">>
      [] op = "send" -> <<"client", "sender_keys", "shared_keys">>
      [] op = "poll" -> <<"notifications", "shared_keys">>
      [] op = "disconnect" -> <<"client">>

Runs(h, op) == llamada[h] # Nadie /\ llamada[h].op = op
Starting == {h \in Hilo : Runs(h, "init")}
NextLock(h) == Locks(llamada[h].op)[llamada[h].paso]
Pending(h) == llamada[h] # Nadie /\ llamada[h].paso <= Len(Locks(llamada[h].op))

Call(h, op, sesion) ==
    /\ llamada[h] = Nadie /\ llamadas < MaxLlamadas
    /\ llamadas' = llamadas + 1
    /\ llamada' = [llamada EXCEPT ![h] = [op |-> op, paso |-> 1, sesion |-> sesion]]

\* init_participant, init_observer: keys parsed, relays added, subscribed; the awaits are over
\* when the values are stored, and a failure stores none.
StartInit(h, sesion) ==
    /\ Call(h, "init", sesion)
    /\ solapadas' = (solapadas \/ Starting # {})
    /\ UNCHANGED <<campo, dueno, enviados, recibido, iniciada, torcido, devuelta>>

GuardadoSwapped(field, sesion) ==
    CASE field = "shared_keys" -> sesion.quien
      [] field = "sender_keys" -> sesion.clave
      [] OTHER -> sesion

\* What a start puts under each mutex; the client and the receiver are of the session.
Guardado(field, sesion) ==
    CASE field = "shared_keys" -> sesion.clave
      [] field = "sender_keys" -> sesion.quien
      [] OTHER -> sesion

InitStores(h) ==
    /\ Runs(h, "init") /\ Pending(h) /\ dueno[NextLock(h)] = Nadie
    /\ campo' = [campo EXCEPT ![NextLock(h)] = Guardado(NextLock(h), llamada[h].sesion)]
    /\ IF NextLock(h) = "notifications"
       THEN llegados' = {} /\ entregados' = {} /\ leidos' = {} /\ descartados' = {}
       ELSE UNCHANGED recibido
    /\ llamada' = [llamada EXCEPT ![h].paso = @ + 1]
    /\ UNCHANGED <<dueno, llamadas, enviados, iniciada, solapadas, torcido, devuelta>>

\* A participant is given what the mutex of the shared key now holds.
InitReturns(h) ==
    /\ Runs(h, "init") /\ ~Pending(h) /\ dueno["shared_keys"] = Nadie
    /\ llamada' = [llamada EXCEPT ![h] = Nadie]
    /\ iniciada' = llamada[h].sesion
    /\ devuelta' = IF llamada[h].sesion.quien = Nadie THEN devuelta
                   ELSE devuelta \cup {<<llamada[h].sesion, campo.shared_keys>>}
    /\ UNCHANGED <<campo, dueno, llamadas, enviados, recibido, solapadas, torcido>>

InitFails(h) ==
    /\ Runs(h, "init") /\ llamada[h].paso = 1
    /\ llamada' = [llamada EXCEPT ![h] = Nadie]
    /\ UNCHANGED <<campo, dueno, llamadas, enviados, recibido, iniciada, solapadas,
                   torcido, devuelta>>

-----------------------------------------------------------------------------
(* Writing, reading and leaving.                                           *)

StartOther(h) ==
    /\ \E op \in {"send", "poll", "disconnect"} : Call(h, op, Nadie)
    /\ UNCHANGED <<campo, dueno, enviados, recibido, iniciada, solapadas, torcido,
                   devuelta>>

TakeLock(h) ==
    /\ ~Runs(h, "init") /\ Pending(h) /\ dueno[NextLock(h)] = Nadie
    /\ dueno' = [dueno EXCEPT ![NextLock(h)] = h]
    /\ llamada' = [llamada EXCEPT ![h].paso = @ + 1]
    /\ UNCHANGED <<campo, llamadas, enviados, recibido, iniciada, solapadas, torcido,
                   devuelta>>

Returns(h) ==
    /\ llamada' = [llamada EXCEPT ![h] = Nadie]
    /\ dueno' = [c \in Campo |-> IF dueno[c] = h THEN Nadie ELSE dueno[c]]

\* An observer, like a chat that was never started, has no sender key: an error.
CanSend == \A c \in {"client", "sender_keys", "shared_keys"} : campo[c] # Nadie

MidStart == \E h \in Starting : llamada[h].paso > 1

\* Written to the shared key as the sender, at the relays of the client.
Sends(h) ==
    /\ Runs(h, "send") /\ ~Pending(h)
    /\ Returns(h)
    /\ IF CanSend
       THEN /\ enviados' = enviados \cup {[n |-> Cardinality(enviados),
                   clave |-> campo.shared_keys, quien |-> campo.sender_keys]}
            /\ torcido' = (torcido \/ (/\ ~MidStart
                                       /\ {iniciada, campo.client} #
                                            {[clave |-> campo.shared_keys,
                                              quien |-> campo.sender_keys]}))
       ELSE UNCHANGED <<enviados, torcido>>
    /\ UNCHANGED <<campo, llamadas, recibido, iniciada, solapadas, devuelta>>

\* The receiver gets what is written to the key of its session, each message once.  Its
\* channel is bounded, and holds other notifications too: what comes may overrun some of
\* what was not drained yet, and the next poll passes over the gap (Lagged => continue).
Arrive(m) ==
    /\ campo.notifications # Nadie /\ m.clave = campo.notifications.clave
    /\ m \notin llegados
    /\ llegados' = llegados \cup {m}
    /\ \E pisados \in SUBSET entregados :
          /\ entregados' = (entregados \ pisados) \cup {m}
          /\ descartados' = descartados \cup pisados
    /\ UNCHANGED <<campo, dueno, llamada, llamadas, enviados, leidos, iniciada, solapadas,
                   torcido, devuelta>>

\* What the key of the moment does not open is dropped.  So is, of what is written to that
\* key, what does not unwrap all the same or is older than the window of the call.
Polls(h) ==
    /\ Runs(h, "poll") /\ ~Pending(h)
    /\ Returns(h)
    /\ IF campo.shared_keys = Nadie \/ campo.notifications = Nadie
       THEN UNCHANGED recibido
       ELSE LET propios == {m \in entregados : m.clave = campo.shared_keys} IN
            /\ \E malos \in SUBSET propios :
                  /\ leidos' = leidos \cup (propios \ malos)
                  /\ descartados' = descartados \cup malos
            /\ entregados' = {}
            /\ UNCHANGED llegados
    /\ UNCHANGED <<campo, llamadas, enviados, iniciada, solapadas, torcido, devuelta>>

\* The client of the moment leaves its relays; nothing else changes.
Disconnects(h) ==
    /\ Runs(h, "disconnect") /\ ~Pending(h)
    /\ Returns(h)
    /\ UNCHANGED <<campo, llamadas, enviados, recibido, iniciada, solapadas, torcido,
                   devuelta>>

SharedStep(h) ==
    InitStores(h) \/ InitReturns(h) \/ TakeLock(h) \/ Sends(h) \/ Polls(h) \/ Disconnects(h)

SharedNext ==
    \/ \E h \in Hilo : \/ \E sesion \in Sesion : StartInit(h, sesion)
                       \/ InitFails(h) \/ StartOther(h) \/ SharedStep(h)
    \/ \E m \in enviados : Arrive(m)

-----------------------------------------------------------------------------
(* Properties.                                                             *)

SharedTypeOK ==
    LET Claves == {s.clave : s \in Sesion} Quien == {s.quien : s \in Sesion} IN
    /\ campo.client \in Sesion \cup {Nadie} /\ campo.notifications \in Sesion \cup {Nadie}
    /\ campo.shared_keys \in Claves \cup {Nadie} /\ campo.sender_keys \in Quien \cup {Nadie}
    /\ dueno \in [Campo -> Hilo \cup {Nadie}]
    /\ llamada \in [Hilo -> Llamada \cup {Nadie}]
    /\ \A h \in Hilo : Pending(h) => dueno[NextLock(h)] # h
    /\ llamadas \in 0 .. MaxLlamadas
    /\ \A m \in enviados : m.clave \in Claves /\ (m.quien = Nadie => m \in Antiguos)
    /\ leidos \cup entregados \cup descartados \subseteq llegados /\ llegados \subseteq enviados
    /\ iniciada \in Sesion \cup {Nadie} /\ {solapadas, torcido} \subseteq BOOLEAN

\* init_observer ("observador NO escribe"), send_message: as long as starts do not run into
\* each other, a message that is not written in the middle of one goes to the chat of the
\* last start, under its key, by its writer; an observer writes nothing.
WritesInItsChat == ~solapadas => ~torcido

\* init_participant reads the key it returns back from the mutex: without a second start at
\* once it is the key of its own chat.
KeyIsItsOwn == ~solapadas => \A d \in devuelta : d[2] = d[1].clave

\* init_participant, poll_messages: the receiver is replaced last, so a poll in the middle
\* of a start cannot drain the new chat with the old key: of what the receiver was given each
\* message is read or waits, was overrun, or was dropped for what it is itself, and none
\* because it was tried with the key of another chat.
NothingOpenedWrongly ==
    ~solapadas => llegados = leidos \cup entregados \cup descartados \/ MidStart

\* A start stores its four values one lock after another: nobody is seen to act on a half
\* of one, as long as no other start runs at once.
StartsAreWhole == WritesInItsChat /\ KeyIsItsOwn /\ NothingOpenedWrongly

\* The locks: every call that has its answers from the network returns.
CallsReturn == \A h \in Hilo : llamada[h] # Nadie ~> llamada[h] = Nadie
=============================================================================
