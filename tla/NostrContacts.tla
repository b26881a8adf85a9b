--------------------------- MODULE NostrContacts ---------------------------
(***************************************************************************)
(* The list of follows of an identity (seguir and seguidos of              *)
(* rust/src/gt/nostrn/gestion.rs): an event that replaces the one before,  *)
(* read from the relays, edited and published whole.  seguir takes &self   *)
(* and awaits the relays twice, so that two calls may overlap.             *)
(*                                                                         *)
(* The relays are one here: they keep the newest list by its date, in      *)
(* seconds, and of two lists of one second either.                         *)
(***************************************************************************)
EXTENDS Naturals, SequencesExt, Lists

CONSTANTS
    Llamador,       \* threads that call seguir
    Clave,          \* keys one may follow
    MaxCambios,     \* bound: calls of seguir
    MaxSegundos     \* bound: the clock

ASSUME ContactsAssumption == MaxCambios \in Nat /\ MaxSegundos \in Nat \ {0}

VARIABLES
    lista,          \* the list at the relays
    fecha,          \* its date
    ahora,          \* the clock
    cambio,         \* of a caller: the call [clave, seguir, lista] it runs, or Ninguno
    cambios,        \* calls so far
    querida,        \* history: the set of follows the calls that returned asked for
    turbado         \* history: whether a call overlapped another, read too little,
                    \*   published in the second of the last list, or failed halfway

contacts == <<lista, fecha, ahora, cambio, cambios, querida, turbado>>

Ninguno == <<>>     \* of a sequence of at most one call

ContactsInit ==
    /\ lista = <<>> /\ fecha = 0 /\ ahora = 1
    /\ cambio = [c \in Llamador |-> Ninguno] /\ cambios = 0
    /\ querida = {} /\ turbado = FALSE

Tick ==
    /\ ahora < MaxSegundos
    /\ ahora' = ahora + 1
    /\ UNCHANGED <<lista, fecha, cambio, cambios, querida, turbado>>

\* seguidos: an answer in eight seconds, or what came till then: nothing is an empty list.
Seguidos == {lista, <<>>}

Idle == \A c \in Llamador : cambio[c] = Ninguno

\* seguir, up to the first await.
SeguirLee(c, clave, seguir) ==
    /\ cambio[c] = Ninguno /\ cambios < MaxCambios
    /\ cambios' = cambios + 1
    /\ \E leida \in Seguidos :
         /\ cambio' = [cambio EXCEPT ![c] = <<[clave |-> clave, seguir |-> seguir,
                                               lista |-> leida]>>]
         /\ turbado' = (turbado \/ ~Idle \/ leida # lista)
    /\ UNCHANGED <<lista, fecha, ahora, querida>>

EditedByAppending(call) == IF call.seguir THEN Append(call.lista, call.clave)
                           ELSE Remove(call.lista, call.clave)

\* retain and push: the key goes, wherever it stood, and comes last.
Edited(call) ==
    Among(call.lista, Clave \ {call.clave})
        \o (IF call.seguir THEN <<call.clave>> ELSE <<>>)

\* What a relay keeps when a list is published.
Kept(nueva) ==
    IF ahora > fecha THEN {nueva} ELSE IF ahora = fecha THEN {nueva, lista} ELSE {lista}

Wanted(call) == IF call.seguir THEN querida \cup {call.clave} ELSE querida \ {call.clave}

SeguirPublica(c) ==
    /\ cambio[c] # Ninguno
    /\ LET call == cambio[c][1] IN
       /\ lista' \in Kept(Edited(call))
       /\ querida' = Wanted(call)
    /\ turbado' = (turbado \/ ahora = fecha)
    /\ fecha' = ahora
    /\ cambio' = [cambio EXCEPT ![c] = Ninguno]
    /\ UNCHANGED <<ahora, cambios>>

\* A fetch or a publication that fails is reported; the list may be at the relays all
\* the same, when only their answer is lost.
SeguirFalla(c) ==
    /\ cambio[c] # Ninguno
    /\ \/ UNCHANGED <<lista, fecha, turbado>>
       \/ lista' \in Kept(Edited(cambio[c][1])) /\ fecha' = ahora /\ turbado' = TRUE
    /\ cambio' = [cambio EXCEPT ![c] = Ninguno]
    /\ UNCHANGED <<ahora, cambios, querida>>

ContactsNext ==
    \/ Tick
    \/ \E c \in Llamador :
         \/ \E clave \in Clave, seguir \in BOOLEAN : SeguirLee(c, clave, seguir)
         \/ SeguirPublica(c) \/ SeguirFalla(c)

-----------------------------------------------------------------------------
(* Properties.                                                             *)

ContactsTypeOK ==
    /\ ToSet(lista) \subseteq Clave
    /\ fecha \in 0 .. MaxSegundos /\ ahora \in 1 .. MaxSegundos /\ fecha <= ahora
    /\ \A c \in Llamador : Len(cambio[c]) <= 1
    /\ cambios \in 0 .. MaxCambios /\ querida \subseteq Clave /\ turbado \in BOOLEAN

\* seguir: nobody stands in the list twice, however the calls interleave, the reads fail
\* and the relays choose; and it is what the calls asked for as long as none overlaps
\* another, reads less than the relays hold, shares the second of the last list, or fails
\* halfway.
FollowsAreKept ==
    /\ IsInjective(lista)
    /\ ~turbado => ToSet(lista) = querida
=============================================================================
