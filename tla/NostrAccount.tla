---------------------------- MODULE NostrAccount ----------------------------
(***************************************************************************)
(* The account file (crear_cuenta, guardar_cuenta and cargar_cuenta of     *)
(* rust/src/gt/nostrn/gestion.rs): plain JSON when the PIN is empty, else  *)
(* a magic word, salt, nonce and ciphertext.  The file is truncated and    *)
(* written, a load may come in between, and the process may stop there.    *)
(*                                                                         *)
(* Ciphertext opens whole and with its PIN, or not at all (AES-GCM).       *)
(***************************************************************************)
EXTENDS Naturals

CONSTANTS
    Pin,            \* what may be typed as PIN
    SinPin,         \* the empty one
    Cuenta,         \* identities
    NoHay,          \* no file, no account
    MaxGuardadas    \* bound: accounts saved

Archivo == [pin : Pin, cuenta : Cuenta, escrito : {"nada", "parte", "todo"}]

ASSUME AccountAssumption ==
    SinPin \in Pin /\ NoHay \notin Cuenta \cup Archivo /\ MaxGuardadas \in Nat

VARIABLES
    archivo,        \* the file [pin, cuenta, escrito: "nada", "parte" or "todo"], or NoHay
    escribe,        \* whether guardar_cuenta is in its write
    guardadas,      \* saves so far
    cargada,        \* what the last load returned: an account, or NoHay
    tecleado,       \* history: the PIN of that load
    guardada,       \* history: the last account saved whole [pin, cuenta], or NoHay
    cortada         \* history: whether a save was ever cut short

account == <<archivo, escribe, guardadas, cargada, tecleado, guardada, cortada>>

AccountInit ==
    /\ archivo = NoHay /\ escribe = FALSE /\ guardadas = 0
    /\ cargada = NoHay /\ tecleado = SinPin /\ guardada = NoHay /\ cortada = FALSE

\* guardar_cuenta, and crear_cuenta with a new identity, whether or not there is a file.
GuardarCuenta(pin, cuenta) ==
    /\ ~escribe /\ guardadas < MaxGuardadas
    /\ guardadas' = guardadas + 1
    /\ archivo' = [pin |-> pin, cuenta |-> cuenta, escrito |-> "nada"]
    /\ escribe' = TRUE
    /\ UNCHANGED <<cargada, tecleado, guardada, cortada>>

EscribeParte ==
    /\ escribe /\ archivo.escrito = "nada"
    /\ archivo' = [archivo EXCEPT !.escrito = "parte"]
    /\ UNCHANGED <<escribe, guardadas, cargada, tecleado, guardada, cortada>>

EscribeTodo ==
    /\ escribe
    /\ archivo' = [archivo EXCEPT !.escrito = "todo"]
    /\ guardada' = [pin |-> archivo.pin, cuenta |-> archivo.cuenta]
    /\ escribe' = FALSE
    /\ UNCHANGED <<guardadas, cargada, tecleado, cortada>>

\* The disk is full, or the process stops.
EscribeFalla ==
    /\ escribe
    /\ escribe' = FALSE /\ cortada' = TRUE
    /\ UNCHANGED <<archivo, guardadas, cargada, tecleado, guardada>>

-----------------------------------------------------------------------------
\* An empty file has no first byte: it counts as encrypted, and truncated.
Plano == archivo.escrito # "nada" /\ archivo.pin = SinPin

AbreConPin(pin) ==
    IF pin = SinPin THEN FALSE
    ELSE archivo.escrito = "todo" /\ (Plano \/ archivo.pin = pin)

\* The first byte decides before the PIN is looked at: a plain file opens with any.
Abre(pin) ==
    IF Plano THEN archivo.escrito = "todo"
    ELSE pin # SinPin /\ archivo.escrito = "todo" /\ archivo.pin = pin

CargarCuenta(pin) ==
    /\ cargada' = IF archivo # NoHay /\ Abre(pin) THEN archivo.cuenta ELSE NoHay
    /\ tecleado' = pin
    /\ UNCHANGED <<archivo, escribe, guardadas, guardada, cortada>>

AccountNext ==
    \/ \E pin \in Pin, cuenta \in Cuenta : GuardarCuenta(pin, cuenta)
    \/ EscribeParte \/ EscribeTodo \/ EscribeFalla
    \/ \E pin \in Pin : CargarCuenta(pin)

-----------------------------------------------------------------------------
(* Properties.                                                             *)

AccountTypeOK ==
    /\ archivo \in Archivo \cup {NoHay}
    /\ escribe => archivo # NoHay /\ archivo.escrito # "todo"
    /\ guardadas \in 0 .. MaxGuardadas /\ cargada \in Cuenta \cup {NoHay} /\ tecleado \in Pin

\* guardar_cuenta, cargar_cuenta: unless a save was cut short, what was saved last opens
\* with the PIN it was saved with, and if that is not empty with no other.
SavedIsLoadable ==
    ~cortada /\ ~escribe /\ guardada # NoHay =>
        /\ archivo.cuenta = guardada.cuenta
        /\ \A pin \in Pin : Abre(pin) <=> guardada.pin \in {SinPin, pin}
=============================================================================
