------------------------------ MODULE IrohChat ------------------------------
(***************************************************************************)
(* The chat between two iroh nodes (rust/src/gt/irohp2p.rs, behind         *)
(* rust/src/api/iroh_p2p.rs): channels over QUIC streams, each with a      *)
(* writer and a reader task at either end, the list of outgoing channels   *)
(* (salidas) and the list of incoming lines (entrantes) of each node.      *)
(*                                                                         *)
(* Every call of the interface holds the mutex of con from start to end,   *)
(* and is one step here.  The tasks run on their own.  A stream delivers   *)
(* bytes in order, in pieces of any size, until its connection is lost.  A *)
(* text is named by its turn: two bytes and a line feed.  The two bytes    *)
(* are two characters, or the halves of one (Wide).                        *)
(***************************************************************************)
EXTENDS Naturals, FiniteSets, SequencesExt, Lists

CONSTANTS
    Node,           \* two nodes
    MaxChannels,    \* bound: connections of the chat
    MaxTexts,       \* bound: texts sent
    MaxWork,        \* bound: connections and texts together
    Wide            \* the texts of one character of two bytes

ASSUME ChatAssumption ==
    /\ IsFiniteSet(Node) /\ Cardinality(Node) = 2
    /\ {MaxChannels, MaxTexts, MaxWork} \subseteq Nat
    /\ Wide \subseteq 1 .. MaxTexts

Channel == 1 .. MaxChannels
End == Node \X Channel
Peer(n) == CHOOSE m \in Node : m # n
FarEnd(e) == <<Peer(e[1]), e[2]>>

VARIABLES
    vivo,           \* whether a node has an endpoint
    opened,         \* channels opened so far
    abierto,        \* those whose connection lives
    escritor, lector,   \* the two tasks of an end: "no", "vive", "fin"
    salidas,        \* of a node: its channels, oldest first
    limpieza,       \* ends whose six hours are not over
    cola,           \* texts the writer of an end has yet to write
    hilo,           \* bytes written at an end and not read at the other
    entrantes,      \* lines not yet read by the user
    leidas,         \* history: lines read by the user
    via             \* history: the end through which each text was sent

tasks == <<escritor, lector, salidas, limpieza>>
vars == <<vivo, opened, abierto, tasks, cola, hilo, entrantes, leidas, via>>

Init ==
    /\ vivo = [n \in Node |-> FALSE]
    /\ opened = 0 /\ abierto = {}
    /\ escritor = [e \in End |-> "no"] /\ lector = [e \in End |-> "no"]
    /\ salidas = [n \in Node |-> <<>>]
    /\ limpieza = {}
    /\ cola = [e \in End |-> <<>>] /\ hilo = [e \in End |-> <<>>]
    /\ entrantes = [n \in Node |-> <<>>] /\ leidas = [n \in Node |-> <<>>]
    /\ via = <<>>

-----------------------------------------------------------------------------
(* The node, and its channels.                                             *)

StartServidor(n) ==
    /\ ~vivo[n]
    /\ vivo' = [vivo EXCEPT ![n] = TRUE]
    /\ UNCHANGED <<opened, abierto, tasks, cola, hilo, entrantes, leidas, via>>

\* The endpoint closes its connections; the channels stay in salidas.
Stop(n) ==
    /\ vivo[n]
    /\ vivo' = [vivo EXCEPT ![n] = FALSE]
    /\ abierto' = {}
    /\ UNCHANGED <<opened, tasks, cola, hilo, entrantes, leidas, via>>

\* ChatNodo::cablear: one more channel, and its tasks.
Cableado(e) ==
    /\ salidas' = [salidas EXCEPT ![e[1]] = Append(@, e[2])]
    /\ escritor' = [escritor EXCEPT ![e] = "vive"]
    /\ lector' = [lector EXCEPT ![e] = "vive"]
    /\ limpieza' = limpieza \cup {e}

ChatConectar(n) ==
    /\ vivo[n] /\ vivo[Peer(n)] /\ opened < MaxChannels
    /\ opened + Len(via) < MaxWork
    /\ opened' = opened + 1
    /\ abierto' = abierto \cup {opened + 1}
    /\ Cableado(<<n, opened + 1>>)
    /\ UNCHANGED <<vivo, cola, hilo, entrantes, leidas, via>>

\* accept: the other node sees the stream when its first bytes arrive.
Accept(e) ==
    /\ escritor[e] = "no" /\ e[2] \in abierto
    /\ hilo[FarEnd(e)] # <<>>
    /\ Cableado(e)
    /\ UNCHANGED <<vivo, opened, abierto, cola, hilo, entrantes, leidas, via>>

\* The connection is lost.
Pierde(c) ==
    /\ c \in abierto
    /\ abierto' = abierto \ {c}
    /\ UNCHANGED <<vivo, opened, tasks, cola, hilo, entrantes, leidas, via>>

LimpiaYCorta(e) ==
    /\ e \in limpieza
    /\ limpieza' = limpieza \ {e}
    /\ salidas' = [salidas EXCEPT ![e[1]] = <<>>]
    /\ lector' = [lector EXCEPT ![e] = "fin"]
    /\ UNCHANGED <<vivo, opened, abierto, escritor, cola, hilo, entrantes, leidas, via>>

\* Six hours after a channel was wired all of the node's are dropped.
Limpia(e) ==
    /\ e \in limpieza
    /\ limpieza' = limpieza \ {e}
    /\ salidas' = [salidas EXCEPT ![e[1]] = <<>>]
    /\ UNCHANGED <<vivo, opened, abierto, escritor, lector, cola, hilo, entrantes,
                   leidas, via>>

-----------------------------------------------------------------------------
(* Sending and receiving.                                                  *)

\* The oldest channel, whatever became of it; without a writer: "el par se fue".
ChatMandar(n) ==
    /\ salidas[n] # <<>>
    /\ LET e == <<n, salidas[n][1]>> IN
       /\ escritor[e] = "vive" /\ Len(via) < MaxTexts /\ opened + Len(via) < MaxWork
       /\ cola' = [cola EXCEPT ![e] = Append(@, Len(via) + 1)]
       /\ via' = Append(via, e)
    /\ UNCHANGED <<vivo, opened, abierto, tasks, hilo, entrantes, leidas>>

LineFeed == <<0, 0>>
Bytes(text) == <<<<text, 1>>, <<text, 2>>, LineFeed>>

\* The writer ends with its connection, or when its sender is dropped and the queue is
\* empty.  A write may still succeed on a connection that is lost.
Escribe(e) ==
    /\ escritor[e] = "vive" /\ cola[e] # <<>>
    /\ \/ /\ e[2] \in abierto
          /\ hilo' = [hilo EXCEPT ![e] = @ \o Bytes(cola[e][1])]
          /\ cola' = [cola EXCEPT ![e] = Tail(@)]
          /\ UNCHANGED escritor
       \/ /\ e[2] \notin abierto
          /\ cola' = [cola EXCEPT ![e] = Tail(@)]
          /\ UNCHANGED <<hilo, escritor>>
       \/ /\ e[2] \notin abierto
          /\ escritor' = [escritor EXCEPT ![e] = "fin"]
          /\ cola' = [cola EXCEPT ![e] = <<>>]
          /\ UNCHANGED hilo
    /\ UNCHANGED <<vivo, opened, abierto, lector, salidas, limpieza, entrantes, leidas, via>>

DroppedAndDrained(e) == e[2] \notin ToSet(salidas[e[1]]) /\ cola[e] = <<>>

TerminaEscritor(e) ==
    /\ escritor[e] = "vive" /\ DroppedAndDrained(e)
    /\ escritor' = [escritor EXCEPT ![e] = "fin"]
    /\ cola' = [cola EXCEPT ![e] = <<>>]
    /\ UNCHANGED <<vivo, opened, abierto, lector, salidas, limpieza, hilo, entrantes,
                   leidas, via>>

Part == (1 .. MaxTexts) \X (1 .. 2)

\* A sign on the screen is the byte it was, or a U+FFFD where that byte was.
Garbled(byte) == <<byte[1], byte[2], "U+FFFD">>
SignsOf(bytes) == bytes \cup {Garbled(byte) : byte \in bytes}
Place(sign) == <<sign[1], sign[2]>>
Line == Seq(SignsOf(Part)) \ {<<>>}

\* String::from_utf8_lossy: half a character, the other half in another piece, is garbled.
OtherHalf(byte) == <<byte[1], 3 - byte[2]>>
CutOff(byte, trozo) == byte[1] \in Wide /\ OtherHalf(byte) \notin ToSet(trozo)
Decoded(trozo) ==
    [i \in DOMAIN trozo |-> IF CutOff(trozo[i], trozo) THEN Garbled(trozo[i]) ELSE trozo[i]]

\* One byte more: a line feed ends the line.
NoLines == [enteras |-> <<>>, resto |-> <<>>]
WithByte(split, byte) ==
    IF byte = LineFeed
    THEN [enteras |-> Append(split.enteras, split.resto), resto |-> <<>>]
    ELSE [enteras |-> split.enteras, resto |-> Append(split.resto, byte)]

\* The lines that end within the first n bytes of a piece, and what follows them.
SplitFirst(trozo) ==
    LET split[n \in 0 .. Len(trozo)] ==
            IF n = 0 THEN NoLines ELSE WithByte(split[n - 1], trozo[n])
    IN  split

Split(trozo) == SplitFirst(trozo)[Len(trozo)]

\* Mutants: the last line waits for its end; a piece is a line.
LineasSoloEnteras(trozo) == Split(Decoded(trozo)).enteras
LineasConSalto(trozo) == <<Decoded(trozo)>>

\* What the reader makes of one piece of the stream: its lines, whole or not.
Lineas(trozo) ==
    LET split == Split(Decoded(trozo))
    IN  Among(Append(split.enteras, split.resto), Line)

Lee(e) ==
    /\ lector[e] = "vive"
    /\ \E size \in 1 .. Len(hilo[FarEnd(e)]) :
         /\ entrantes' = [entrantes EXCEPT ![e[1]] =
               @ \o Lineas(SubSeq(hilo[FarEnd(e)], 1, size))]
         /\ hilo' = [hilo EXCEPT ![FarEnd(e)] = SubSeq(@, size + 1, Len(@))]
    /\ UNCHANGED <<vivo, opened, abierto, tasks, cola, leidas, via>>

\* The reader ends with the stream, or with the connection and what it had not read.
TerminaLector(e) ==
    /\ lector[e] = "vive"
    /\ e[2] \notin abierto \/ (escritor[FarEnd(e)] = "fin" /\ hilo[FarEnd(e)] = <<>>)
    /\ lector' = [lector EXCEPT ![e] = "fin"]
    /\ hilo' = [hilo EXCEPT ![FarEnd(e)] = <<>>]
    /\ UNCHANGED <<vivo, opened, abierto, escritor, salidas, limpieza, cola, entrantes,
                   leidas, via>>

ChatLeerClonando(n) ==
    /\ entrantes[n] # <<>>
    /\ leidas' = [leidas EXCEPT ![n] = @ \o entrantes[n]]
    /\ UNCHANGED <<vivo, opened, abierto, tasks, cola, hilo, entrantes, via>>

ChatLeer(n) ==
    /\ entrantes[n] # <<>>
    /\ leidas' = [leidas EXCEPT ![n] = @ \o entrantes[n]]
    /\ entrantes' = [entrantes EXCEPT ![n] = <<>>]
    /\ UNCHANGED <<vivo, opened, abierto, tasks, cola, hilo, via>>

-----------------------------------------------------------------------------
Next ==
    \/ \E n \in Node : StartServidor(n) \/ Stop(n) \/ ChatConectar(n) \/ ChatMandar(n)
                          \/ ChatLeer(n)
    \/ \E c \in Channel : Pierde(c)
    \/ \E e \in End : Accept(e) \/ Limpia(e) \/ Escribe(e) \/ TerminaEscritor(e)
                         \/ Lee(e) \/ TerminaLector(e)

\* The tasks run, streams deliver, and the screen reads every second.
Fairness ==
    /\ \A e \in End : WF_vars(Accept(e) \/ Escribe(e) \/ Lee(e))
    /\ \A n \in Node : WF_vars(ChatLeer(n))

Spec == Init /\ [][Next]_vars
FairSpec == Spec /\ Fairness

-----------------------------------------------------------------------------
(* Properties.                                                             *)

State == {"no", "vive", "fin"}

TypeOK ==
    /\ vivo \in [Node -> BOOLEAN] /\ opened \in 0 .. MaxChannels
    /\ abierto \subseteq 1 .. opened
    /\ escritor \in [End -> State] /\ lector \in [End -> State]
    /\ \A n \in Node : ToSet(salidas[n]) \subseteq 1 .. opened /\ IsInjective(salidas[n])
    /\ limpieza \subseteq End
    /\ \A e \in End : /\ ToSet(cola[e]) \subseteq DOMAIN via
                      /\ ToSet(hilo[e]) \subseteq Part \cup {LineFeed}
    /\ \A n \in Node : \A line \in ToSet(entrantes[n] \o leidas[n]) : ToSet(line) \subseteq SignsOf(Part)

TextsOf(e) == Among([t \in DOMAIN via |-> t], {t \in DOMAIN via : via[t] = e})
PartsOf(texts) == [i \in 1 .. 2 * Len(texts) |-> <<texts[(i + 1) \div 2], 2 - (i % 2)>>]

Sent(e) == PartsOf(TextsOf(e))
OnTheWay(e) == Among(hilo[e], Part) \o PartsOf(cola[e])

\* What a node has been given to show, the bytes it stands for, and those of them that
\* came through an end.
Display(n) == FlattenSeq(leidas[n] \o entrantes[n])
Places(signs) == [i \in 1 .. Len(signs) |-> Place(signs[i])]
Shows(n) == Places(Display(n))
PartsVia(e) == {part \in Part : part[1] \in DOMAIN via /\ via[part[1]] = e}
Received(e) == Among(Shows(Peer(e[1])), PartsVia(e))

\* A character is shown as it was sent, or all of it is garbled; and none but those of
\* two bytes are.
OnlyCutsGarble(signs) ==
    \A part \in Part :
        /\ part \in signs /\ part[1] \in Wide => OtherHalf(part) \in signs
        /\ Garbled(part) \in signs => part[1] \in Wide

\* cablear, chat_leer: over all channels, restarts and losses, what a node shows of a
\* channel is the beginning of what was sent through it, each byte once and in order, and
\* as it was sent, but for the characters that a piece ended in.
NothingTwiceOrAmiss ==
    /\ \A e \in End : IsPrefix(Received(e), Sent(e))
    /\ \A n \in Node : OnlyCutsGarble(ToSet(Display(n)))

\* cablear: while the connection lives no byte that chat_mandar took is dropped, although
\* the other end is wired late, and although the six hours of any channel drop all: it is
\* on its way, or shown, or a U+FFFD is in its place.
NothingLostWhileOpen ==
    \A e \in End : e[2] \in abierto => Sent(e) = Received(e) \o OnTheWay(e)

\* chat_mandar: a text is shown to its end, the characters that a piece ended in garbled,
\* or its connection is lost.
Shown(t, n) == \E line \in ToSet(leidas[n]) : <<t, 2>> \in ToSet(Places(line))
Settled(t) == t \in DOMAIN via /\ (Shown(t, Peer(via[t][1])) \/ via[t][2] \notin abierto)

SentIsShown == \A t \in 1 .. MaxTexts : t \in DOMAIN via ~> Settled(t)
=============================================================================
