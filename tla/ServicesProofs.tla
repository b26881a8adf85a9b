--------------------------- MODULE ServicesProofs ---------------------------
(***************************************************************************)
(* What holds of the services of the app, for any events, threads,         *)
(* sessions, callers, PINs, loops, tools and keys.                         *)
(***************************************************************************)
EXTENDS AppServices, ListProofs

\* A behaviour of the services is one of Nostr and one of an agent.
THEOREM ServicesAreApart == ServicesSpec => Spec /\ AgentSpec
<1>1. ServicesInit => Init /\ AgentInit
  BY DEF ServicesInit
<1>2. [ServicesNext]_servicesVars => [Next]_vars /\ [AgentNext]_agentVars
  BY DEF ServicesNext, OfNostr, OfAgent, servicesVars
<1> QED BY <1>1, <1>2, PTL DEF ServicesSpec, Spec, AgentSpec

-----------------------------------------------------------------------------
(* The account file.                                                       *)

\* What was saved last stands in the file, whole, unless a save is under way or was cut.
AccountInv ==
    /\ escribe => archivo = [pin |-> archivo.pin, cuenta |-> archivo.cuenta,
                             escrito |-> archivo.escrito]
    /\ ~cortada /\ ~escribe /\ guardada # NoHay =>
         /\ archivo.escrito = "todo"
         /\ archivo.pin = guardada.pin /\ archivo.cuenta = guardada.cuenta

LEMMA AccountKept == AccountInv /\ (AccountNext \/ UNCHANGED account) => AccountInv'
<1> SUFFICES ASSUME AccountInv, AccountNext \/ UNCHANGED account PROVE AccountInv'
  OBVIOUS
<1>1. ASSUME NEW pin \in Pin, NEW cuenta \in Cuenta, GuardarCuenta(pin, cuenta)
      PROVE  AccountInv'
  BY <1>1 DEF GuardarCuenta, AccountInv
<1>2. CASE EscribeParte
  BY <1>2 DEF EscribeParte, AccountInv
<1>3. CASE EscribeTodo
  BY <1>3 DEF EscribeTodo, AccountInv
<1>4. CASE EscribeFalla
  BY <1>4 DEF EscribeFalla, AccountInv
<1>5. ASSUME NEW pin \in Pin, CargarCuenta(pin) PROVE AccountInv'
  BY <1>5 DEF CargarCuenta, AccountInv
<1>6. CASE UNCHANGED account
  BY <1>6 DEF account, AccountInv
<1> QED BY <1>1, <1>2, <1>3, <1>4, <1>5, <1>6 DEF AccountNext

LEMMA StepOfAccount == [Next]_vars => AccountNext \/ UNCHANGED account
BY DEF Next, vars, Inbox, Shared

\* gestion.rs, guardar_cuenta and cargar_cuenta: whatever is saved and loaded, with any
\* PINs, what was saved last opens with its PIN and no other, unless a save was cut short.
THEOREM SavedOpens == Spec => []SavedIsLoadable
<1>1. Init => AccountInv
  BY DEF Init, AccountInit, AccountInv
<1>2. AccountInv /\ [Next]_vars => AccountInv'
  BY AccountKept, StepOfAccount
<1>3. AccountInv => SavedIsLoadable
  BY DEF AccountInv, SavedIsLoadable, Abre, Plano
<1> QED BY <1>1, <1>2, <1>3, PTL DEF Spec

-----------------------------------------------------------------------------
(* The shared chat.                                                        *)

\* The place of a mutex among those a start takes.
Turn(c) ==
    IF c = "client" THEN 1 ELSE IF c = "shared_keys" THEN 2
    ELSE IF c = "sender_keys" THEN 3 ELSE 4

Stores(h, c) == h \in Starting /\ Turn(c) < llamada[h].paso

\* What the last start that finished left under a mutex.
Before(c) == IF iniciada = Nadie THEN Nadie ELSE Guardado(c, iniciada)

CallsInv ==
    /\ llamada \in [Hilo -> Llamada \cup {Nadie}]
    /\ \A h \in Starting : llamada[h].sesion \in Sesion
    /\ iniciada \in Sesion \cup {Nadie}
    /\ campo = [c \in Campo |-> campo[c]]

\* As long as starts do not overlap one runs at most, and the mutexes it has come to
\* hold what it stores, the others what the one before it left.
Alone ==
    /\ \A g, h \in Starting : g = h
    /\ \A c \in Campo :
         /\ \A h \in Hilo : Stores(h, c) => campo[c] = Guardado(c, llamada[h].sesion)
         /\ (\A h \in Hilo : ~Stores(h, c)) => campo[c] = Before(c)
    /\ ~torcido
    /\ \A d \in devuelta : d[2] = d[1].clave

SharedInv == CallsInv /\ (~solapadas => Alone)

LEMMA LocksOfInit ==
    /\ Locks("init") = <<"client", "shared_keys", "sender_keys", "notifications">>
    /\ Len(Locks("init")) = 4
    /\ \A i \in 1 .. 4 : /\ Locks("init")[i] \in Campo
                         /\ \A c \in Campo : Turn(c) = i <=> c = Locks("init")[i]
    /\ \A c \in Campo : Turn(c) \in 1 .. 4
BY DEF Locks, Campo, Turn

LEMMA StartingCalls ==
    ASSUME CallsInv, NEW h \in Starting
    PROVE  /\ h \in Hilo /\ llamada[h] \in Llamada /\ llamada[h].op = "init"
           /\ llamada[h].paso \in 1 .. 5 /\ llamada[h].sesion \in Sesion
BY DEF CallsInv, Starting, Runs, Llamada

\* A call that is put in or taken out.
LEMMA CallReplaced ==
    ASSUME CallsInv, NEW h \in Hilo, NEW call \in Llamada \cup {Nadie},
           llamada' = [g \in Hilo |-> IF g = h THEN call ELSE llamada[g]],
           call = Nadie \/ call.sesion \in Sesion,
           iniciada' \in Sesion \cup {Nadie},
           campo' = [c \in Campo |-> campo'[c]]
    PROVE  CallsInv'
<1>1. llamada' \in [Hilo -> Llamada \cup {Nadie}]
  BY DEF CallsInv
<1>2. ASSUME NEW g \in Starting' PROVE llamada'[g].sesion \in Sesion
  <2>1. g \in Hilo /\ llamada'[g] # Nadie /\ llamada'[g].op = "init"
    BY DEF Starting, Runs
  <2>2. CASE g = h
    BY <2>1, <2>2
  <2>3. CASE g # h
    <3>1. llamada'[g] = llamada[g]
      BY <2>1, <2>3
    <3>2. g \in Starting
      BY <2>1, <3>1 DEF Starting, Runs
    <3> QED BY <3>1, <3>2 DEF CallsInv
  <2> QED BY <2>2, <2>3
<1> QED BY <1>1, <1>2 DEF CallsInv

\* Calls that are no start change nothing a start depends on.
LEMMA OthersKeep ==
    ASSUME SharedInv,
           llamada' \in [Hilo -> Llamada \cup {Nadie}],
           Starting' = Starting, \A g \in Starting : llamada'[g] = llamada[g],
           UNCHANGED <<campo, iniciada, solapadas, devuelta>>,
           ~solapadas => ~torcido'
    PROVE  SharedInv'
<1>1. \A g \in Hilo, c \in Campo : Stores(g, c)' <=> Stores(g, c)
  BY DEF Stores
<1>2. CallsInv'
  BY DEF SharedInv, CallsInv
<1>3. ASSUME ~solapadas PROVE Alone'
  <2>1. Alone
    BY <1>3 DEF SharedInv
  <2>2. ASSUME NEW c \in Campo, NEW h \in Hilo, Stores(h, c)'
        PROVE  campo'[c] = Guardado(c, llamada'[h].sesion)
    <3>1. Stores(h, c) /\ llamada'[h] = llamada[h]
      BY <1>1, <2>2 DEF Stores
    <3> QED BY <2>1, <3>1 DEF Alone
  <2>3. ASSUME NEW c \in Campo, \A h \in Hilo : ~Stores(h, c)'
        PROVE  campo'[c] = Before(c)'
    <3>1. Before(c)' = Before(c)
      BY DEF Before, Guardado
    <3>2. \A h \in Hilo : ~Stores(h, c)
      BY <1>1, <2>3
    <3> QED BY <2>1, <3>1, <3>2 DEF Alone
  <2>4. \A g, h \in Starting : g = h
    BY <2>1 DEF Alone
  <2>5. \A d \in devuelta : d[2] = d[1].clave
    BY <2>1 DEF Alone
  <2> QED BY <1>3, <2>2, <2>3, <2>4, <2>5 DEF Alone, Guardado
<1> QED BY <1>2, <1>3 DEF SharedInv

LEMMA StartInitKeeps ==
    ASSUME SharedInv, NEW h \in Hilo, NEW sesion \in Sesion, StartInit(h, sesion)
    PROVE  SharedInv'
<1> DEFINE call == [op |-> "init", paso |-> 1, sesion |-> sesion]
<1>1. call \in Llamada /\ call # Nadie /\ llamada[h] = Nadie
  BY SharedAssumption DEF Llamada, StartInit, Call
<1>2. llamada' = [g \in Hilo |-> IF g = h THEN call ELSE llamada[g]]
  BY DEF StartInit, Call, SharedInv, CallsInv
<1>3. UNCHANGED <<campo, iniciada, torcido, devuelta>>
  BY DEF StartInit
<1>4. Starting' = Starting \cup {h}
  BY <1>1, <1>2 DEF Starting, Runs
<1>5. CallsInv'
  <2>1. CallsInv /\ iniciada' \in Sesion \cup {Nadie} /\ campo' = [c \in Campo |-> campo'[c]]
    BY <1>3 DEF SharedInv, CallsInv
  <2>2. call.sesion \in Sesion
    OBVIOUS
  <2> HIDE DEF call
  <2> QED BY <1>1, <1>2, <2>1, <2>2, CallReplaced
<1>6. ASSUME ~solapadas' PROVE Alone'
  <2>1. ~solapadas /\ Starting = {}
    BY <1>6 DEF StartInit
  <2>2. Alone /\ \A c \in Campo : campo[c] = Before(c)
    BY <2>1 DEF SharedInv, Alone, Stores
  <2>3. \A c \in Campo, g \in Hilo : ~Stores(g, c)'
    BY <1>1, <1>2, <1>4, <2>1, LocksOfInit DEF Stores
  <2>4. \A c \in Campo : Before(c)' = Before(c)
    BY <1>3 DEF Before, Guardado
  <2> QED BY <1>3, <1>4, <2>1, <2>2, <2>3, <2>4 DEF Alone
<1> QED BY <1>5, <1>6 DEF SharedInv

LEMMA InitStoresKeeps ==
    ASSUME SharedInv, NEW h \in Hilo, InitStores(h)
    PROVE  SharedInv'
<1> DEFINE paso == llamada[h].paso
           sesion == llamada[h].sesion
           call == [op |-> "init", paso |-> paso + 1, sesion |-> sesion]
<1>1. h \in Starting /\ llamada[h] \in Llamada /\ llamada[h].op = "init" /\ sesion \in Sesion
  BY StartingCalls DEF InitStores, Starting, SharedInv
<1>2. paso \in 1 .. 4
  <2>1. Len(Locks(llamada[h].op)) = 4
    BY <1>1, LocksOfInit
  <2>2. paso <= 4
    BY <2>1 DEF InitStores, Pending
  <2>3. paso \in 1 .. 5
    BY <1>1 DEF Llamada
  <2> QED BY <2>2, <2>3
<1>3. call \in Llamada /\ call # Nadie
  BY <1>1, <1>2, SharedAssumption DEF Llamada
<1>4. llamada' = [g \in Hilo |-> IF g = h THEN call ELSE llamada[g]]
  <2>1. llamada' = [llamada EXCEPT ![h].paso = @ + 1]
    BY DEF InitStores
  <2>2. [llamada[h] EXCEPT !.paso = @ + 1] = call
    BY <1>1 DEF Llamada
  <2> QED BY <2>1, <2>2 DEF SharedInv, CallsInv
<1>5. PICK c0 \in Campo : /\ Turn(c0) = paso /\ \A c \in Campo : Turn(c) = paso <=> c = c0
                          /\ campo' = [campo EXCEPT ![c0] = Guardado(c0, sesion)]
  <2>1. NextLock(h) = Locks("init")[paso]
    BY <1>1 DEF NextLock
  <2> QED BY <1>2, <2>1, LocksOfInit DEF InitStores
<1> HIDE DEF paso, sesion
<1>6. \A c \in Campo : campo'[c] = IF c = c0 THEN Guardado(c0, sesion) ELSE campo[c]
  BY <1>5 DEF SharedInv, CallsInv
<1>7. Starting' = Starting /\ UNCHANGED <<iniciada, solapadas, torcido, devuelta>>
  BY <1>1, <1>3, <1>4 DEF Starting, Runs, InitStores
<1>8. CallsInv'
  <2>1. CallsInv /\ iniciada' \in Sesion \cup {Nadie} /\ campo' = [c \in Campo |-> campo'[c]]
    BY <1>5, <1>7 DEF SharedInv, CallsInv
  <2>2. call.sesion \in Sesion
    BY <1>1
  <2> HIDE DEF call
  <2> QED BY <1>3, <1>4, <2>1, <2>2, CallReplaced
<1>9. ASSUME ~solapadas' PROVE Alone'
  <2>1. Alone
    BY <1>7, <1>9 DEF SharedInv
  <2>2. \A g \in Starting : g = h
    BY <1>1, <2>1 DEF Alone
  <2>3. \A c \in Campo, g \in Hilo : Stores(g, c)' <=> g = h /\ (Stores(h, c) \/ c = c0)
    <3> SUFFICES ASSUME NEW c \in Campo
                 PROVE  Stores(h, c)' <=> Stores(h, c) \/ c = c0
      BY <1>7, <2>2 DEF Stores
    <3>1. llamada'[h].paso = paso + 1 /\ llamada[h].paso = paso
      BY <1>4 DEF paso
    <3>2. Turn(c) \in 1 .. 4
      BY LocksOfInit
    <3> QED BY <1>1, <1>2, <1>5, <1>7, <3>1, <3>2 DEF Stores
  <2>4. llamada'[h].sesion = sesion /\ llamada[h].sesion = sesion
    BY <1>4 DEF sesion
  <2>5. \A c \in Campo : Before(c)' = Before(c)
    BY <1>7 DEF Before, Guardado
  <2>6. ASSUME NEW c \in Campo, NEW g \in Hilo, Stores(g, c)'
        PROVE  campo'[c] = Guardado(c, llamada'[g].sesion)
    <3>1. g = h
      BY <2>3, <2>6
    <3>2. CASE c = c0
      BY <1>6, <2>4, <3>1, <3>2
    <3>3. CASE c # c0
      BY <1>6, <2>1, <2>3, <2>4, <2>6, <3>1, <3>3 DEF Alone
    <3> QED BY <3>2, <3>3
  <2>7. ASSUME NEW c \in Campo, \A g \in Hilo : ~Stores(g, c)'
        PROVE  campo'[c] = Before(c)'
    <3>1. c # c0 /\ ~Stores(h, c)
      BY <2>3, <2>7
    <3>2. \A g \in Hilo : ~Stores(g, c)
      BY <2>2, <3>1 DEF Stores
    <3> QED BY <1>6, <2>1, <2>5, <3>1, <3>2 DEF Alone
  <2> QED BY <1>7, <2>1, <2>6, <2>7 DEF Alone, Guardado
<1> QED BY <1>8, <1>9 DEF SharedInv

\* A start that returns has stored everything.
LEMMA InitReturnsKeeps ==
    ASSUME SharedInv, NEW h \in Hilo, InitReturns(h)
    PROVE  SharedInv'
<1> DEFINE sesion == llamada[h].sesion
<1>1. h \in Starting /\ llamada[h] \in Llamada /\ llamada[h].op = "init" /\ sesion \in Sesion
  BY StartingCalls DEF InitReturns, Starting, SharedInv
<1>2. llamada[h].paso = 5
  BY <1>1, LocksOfInit DEF InitReturns, Pending, Llamada, Starting, Runs
<1>3. llamada' = [g \in Hilo |-> IF g = h THEN Nadie ELSE llamada[g]]
  BY DEF InitReturns, SharedInv, CallsInv
<1>4. iniciada' = sesion /\ UNCHANGED <<campo, solapadas, torcido>>
  BY DEF InitReturns
<1>5. Starting' = Starting \ {h}
  BY <1>3 DEF Starting, Runs
<1>6. CallsInv'
  <2>1. CallsInv /\ iniciada' \in Sesion \cup {Nadie} /\ campo' = [c \in Campo |-> campo'[c]]
    BY <1>1, <1>4 DEF SharedInv, CallsInv
  <2> QED BY <1>3, <2>1, CallReplaced
<1>7. ASSUME ~solapadas' PROVE Alone'
  <2>1. Alone /\ Starting' = {}
    BY <1>1, <1>4, <1>5, <1>7 DEF SharedInv, Alone
  <2>2. \A c \in Campo : campo[c] = Guardado(c, sesion)
    <3> SUFFICES ASSUME NEW c \in Campo PROVE Stores(h, c)
      BY <2>1 DEF Alone
    <3>1. Turn(c) \in 1 .. 4
      BY LocksOfInit
    <3> QED BY <1>1, <1>2, <3>1 DEF Stores
  <2>3. \A c \in Campo : Before(c)' = Guardado(c, sesion)
    BY <1>1, <1>4, SharedAssumption DEF Before, Guardado
  <2>4. \A d \in devuelta' : d[2] = d[1].clave
    <3>1. campo["shared_keys"] = sesion.clave
      BY <2>2 DEF Guardado, Campo
    <3>2. \A d \in devuelta' \ devuelta : d = <<sesion, campo.shared_keys>>
      BY DEF InitReturns
    <3> QED BY <2>1, <3>1, <3>2 DEF Alone
  <2> QED BY <1>4, <2>1, <2>2, <2>3, <2>4 DEF Alone, Stores
<1> QED BY <1>6, <1>7 DEF SharedInv

\* A start that fails has stored nothing.
LEMMA InitFailsKeeps ==
    ASSUME SharedInv, NEW h \in Hilo, InitFails(h)
    PROVE  SharedInv'
<1>1. h \in Starting /\ llamada[h].paso = 1
  BY DEF InitFails, Starting
<1>2. llamada' = [g \in Hilo |-> IF g = h THEN Nadie ELSE llamada[g]]
  BY DEF InitFails, SharedInv, CallsInv
<1>3. UNCHANGED <<campo, iniciada, solapadas, torcido, devuelta>>
  BY DEF InitFails
<1>4. Starting' = Starting \ {h}
  BY <1>2 DEF Starting, Runs
<1>5. CallsInv'
  <2>1. CallsInv /\ iniciada' \in Sesion \cup {Nadie} /\ campo' = [c \in Campo |-> campo'[c]]
    BY <1>3 DEF SharedInv, CallsInv
  <2> QED BY <1>2, <2>1, CallReplaced
<1>6. ASSUME ~solapadas' PROVE Alone'
  <2>1. Alone /\ Starting' = {}
    BY <1>1, <1>3, <1>4, <1>6 DEF SharedInv, Alone
  <2>2. \A c \in Campo, g \in Hilo : ~Stores(g, c)
    <3> SUFFICES ASSUME NEW c \in Campo PROVE ~Stores(h, c)
      BY <1>1, <2>1 DEF Alone, Stores
    <3>1. Turn(c) \in 1 .. 4
      BY LocksOfInit
    <3> QED BY <1>1, <3>1 DEF Stores
  <2>3. \A c \in Campo : campo[c] = Before(c)
    BY <2>1, <2>2 DEF Alone
  <2>4. \A c \in Campo : Before(c)' = Before(c)
    BY <1>3 DEF Before, Guardado
  <2> QED BY <1>3, <2>1, <2>3, <2>4 DEF Alone, Stores
<1> QED BY <1>5, <1>6 DEF SharedInv

\* A message that is written outside any start finds the mutexes as the last start left
\* them: an observer's as those of a chat that was never started stop it.
LEMMA WritesStraight ==
    ASSUME SharedInv, ~solapadas, ~MidStart, CanSend
    PROVE  {iniciada, campo.client}
              = {[clave |-> campo.shared_keys, quien |-> campo.sender_keys]}
<1>1. Alone
  BY DEF SharedInv
<1>2. \A c \in Campo : campo[c] = Before(c)
  <2> SUFFICES ASSUME NEW c \in Campo, NEW h \in Starting PROVE ~Stores(h, c)
    BY <1>1 DEF Alone, Stores
  <2>1. llamada[h].paso \in 1 .. 5 /\ ~(llamada[h].paso > 1)
    BY StartingCalls DEF SharedInv, MidStart
  <2>2. Turn(c) \in 1 .. 4
    BY LocksOfInit
  <2> QED BY <2>1, <2>2 DEF Stores
<1>3. iniciada \in Sesion
  <2>1. campo["client"] # Nadie
    BY DEF CanSend
  <2> QED BY <1>2, <2>1 DEF Before, Campo, SharedInv, CallsInv
<1>4. \A c \in Campo : campo[c] = Guardado(c, iniciada)
  BY <1>2, <1>3, SharedAssumption DEF Before
<1>5. /\ campo["client"] = iniciada /\ campo["shared_keys"] = iniciada.clave
      /\ campo["sender_keys"] = iniciada.quien
  BY <1>4 DEF Guardado, Campo
<1> QED BY <1>3, <1>5, SharedAssumption

LEMMA ReturnsKeep ==
    ASSUME CallsInv, NEW h \in Hilo, llamada[h].op # "init", Returns(h)
    PROVE  /\ llamada' \in [Hilo -> Llamada \cup {Nadie}]
           /\ Starting' = Starting /\ \A g \in Starting : llamada'[g] = llamada[g]
<1>1. llamada' = [g \in Hilo |-> IF g = h THEN Nadie ELSE llamada[g]]
  BY DEF Returns, CallsInv
<1>2. h \notin Starting
  BY DEF Starting, Runs
<1> QED BY <1>1, <1>2 DEF CallsInv, Starting, Runs

LEMMA SharedKept == SharedInv /\ (SharedNext \/ UNCHANGED shared) => SharedInv'
<1> SUFFICES ASSUME SharedInv, SharedNext \/ UNCHANGED shared PROVE SharedInv'
  OBVIOUS
<1>0. CallsInv /\ (~solapadas => ~torcido)
  BY DEF SharedInv, Alone
<1>1. ASSUME NEW h \in Hilo, NEW sesion \in Sesion, StartInit(h, sesion) PROVE SharedInv'
  BY <1>1, StartInitKeeps
<1>2. ASSUME NEW h \in Hilo, InitFails(h) PROVE SharedInv'
  BY <1>2, InitFailsKeeps
<1>3. ASSUME NEW h \in Hilo, StartOther(h) PROVE SharedInv'
  <2>1. PICK op \in {"send", "poll", "disconnect"} : Call(h, op, Nadie)
    BY <1>3 DEF StartOther
  <2> DEFINE call == [op |-> op, paso |-> 1, sesion |-> Nadie]
  <2>2. call \in Llamada /\ call.op # "init"
    BY DEF Llamada
  <2>3. llamada[h] = Nadie /\ llamada' = [g \in Hilo |-> IF g = h THEN call ELSE llamada[g]]
    BY <1>0, <2>1 DEF Call, CallsInv
  <2> HIDE DEF call
  <2>4. llamada' \in [Hilo -> Llamada \cup {Nadie}]
    BY <1>0, <2>2, <2>3 DEF CallsInv
  <2>5. Starting' = Starting /\ \A g \in Starting : llamada'[g] = llamada[g]
    BY <2>2, <2>3 DEF Starting, Runs
  <2> QED BY <1>0, <1>3, <2>4, <2>5, OthersKeep DEF StartOther
<1>4. ASSUME NEW h \in Hilo, InitStores(h) PROVE SharedInv'
  BY <1>4, InitStoresKeeps
<1>5. ASSUME NEW h \in Hilo, InitReturns(h) PROVE SharedInv'
  BY <1>5, InitReturnsKeeps
<1>6. ASSUME NEW h \in Hilo, TakeLock(h) PROVE SharedInv'
  <2>1. llamada[h] # Nadie /\ llamada[h].op # "init" /\ llamada[h] \in Llamada
    BY <1>0, <1>6 DEF TakeLock, Pending, Runs, CallsInv
  <2>2. llamada[h].paso \in 1 .. 3
    <3>1. Len(Locks(llamada[h].op)) <= 3
      BY <2>1 DEF Locks, Llamada
    <3> QED BY <1>6, <2>1, <3>1 DEF TakeLock, Pending, Llamada
  <2> DEFINE call == [op |-> llamada[h].op, paso |-> llamada[h].paso + 1,
                      sesion |-> llamada[h].sesion]
  <2>3. call \in Llamada
    BY <2>1, <2>2 DEF Llamada
  <2>4. llamada' = [g \in Hilo |-> IF g = h THEN call ELSE llamada[g]]
    <3>1. llamada' = [llamada EXCEPT ![h].paso = @ + 1]
      BY <1>6 DEF TakeLock
    <3>2. [llamada[h] EXCEPT !.paso = @ + 1] = call
      BY <2>1 DEF Llamada
    <3> QED BY <1>0, <3>1, <3>2 DEF CallsInv
  <2>5. call.op # "init"
    BY <2>1
  <2> HIDE DEF call
  <2>6. llamada' \in [Hilo -> Llamada \cup {Nadie}]
    BY <1>0, <2>3, <2>4 DEF CallsInv
  <2>7. Starting' = Starting /\ \A g \in Starting : llamada'[g] = llamada[g]
    BY <2>1, <2>4, <2>5 DEF Starting, Runs
  <2> QED BY <1>0, <1>6, <2>6, <2>7, OthersKeep DEF TakeLock
<1>7. ASSUME NEW h \in Hilo, Sends(h) PROVE SharedInv'
  <2>1. llamada[h].op # "init" /\ Returns(h)
    BY <1>7 DEF Sends, Runs
  <2>2. ~solapadas => ~torcido'
    BY <1>0, <1>7, WritesStraight DEF Sends
  <2> QED BY <1>0, <1>7, <2>1, <2>2, ReturnsKeep, OthersKeep DEF Sends
<1>8. ASSUME NEW h \in Hilo, Polls(h) PROVE SharedInv'
  <2>1. llamada[h].op # "init" /\ Returns(h)
    BY <1>8 DEF Polls, Runs
  <2> QED BY <1>0, <1>8, <2>1, ReturnsKeep, OthersKeep DEF Polls
<1>9. ASSUME NEW h \in Hilo, Disconnects(h) PROVE SharedInv'
  <2>1. llamada[h].op # "init" /\ Returns(h)
    BY <1>9 DEF Disconnects, Runs
  <2> QED BY <1>0, <1>9, <2>1, ReturnsKeep, OthersKeep DEF Disconnects
<1>10. ASSUME UNCHANGED <<campo, llamada, iniciada, solapadas, torcido, devuelta>>
       PROVE  SharedInv'
  <2>1. Starting' = Starting
    BY <1>10 DEF Starting, Runs
  <2>2. llamada' \in [Hilo -> Llamada \cup {Nadie}]
    BY <1>0, <1>10 DEF CallsInv
  <2> QED BY <1>0, <1>10, <2>1, <2>2, OthersKeep
<1>11. ASSUME NEW m, Arrive(m) PROVE SharedInv'
  BY <1>10, <1>11 DEF Arrive
<1>12. CASE UNCHANGED shared
  BY <1>10, <1>12 DEF shared
<1> QED BY <1>1, <1>2, <1>3, <1>4, <1>5, <1>6, <1>7, <1>8, <1>9, <1>11, <1>12
        DEF SharedNext, SharedStep

LEMMA SharedInvHolds == Spec => []SharedInv
<1>1. Init => SharedInv
  <2> SUFFICES ASSUME Init PROVE SharedInv
    OBVIOUS
  <2>1. /\ campo = [c \in Campo |-> Nadie] /\ llamada = [h \in Hilo |-> Nadie]
        /\ iniciada = Nadie /\ ~torcido /\ devuelta = {}
    BY DEF Init, SharedInit
  <2>2. Starting = {}
    BY <2>1 DEF Starting, Runs
  <2> QED BY <2>1, <2>2 DEF SharedInv, CallsInv, Alone, Stores, Before
<1>2. SharedInv /\ [Next]_vars => SharedInv'
  BY SharedKept DEF Next, vars, Inbox, Shared
<1> QED BY <1>1, <1>2, PTL DEF Spec

\* nostrpeer.rs: however threads start, write, read and leave, lock by lock, as long as
\* no two starts overlap a message goes to the chat of the last start, by its writer.
THEOREM WrittenWhereStarted == Spec => []WritesInItsChat
<1>1. SharedInv => WritesInItsChat
  BY DEF SharedInv, Alone, WritesInItsChat
<1> QED BY <1>1, SharedInvHolds, PTL

\* ... and a participant is given the key of its own chat.
THEOREM OwnKeyReturned == Spec => []KeyIsItsOwn
<1>1. SharedInv => KeyIsItsOwn
  BY DEF SharedInv, Alone, KeyIsItsOwn
<1> QED BY <1>1, SharedInvHolds, PTL

-----------------------------------------------------------------------------
(* What a poll reads.                                                      *)

\* The receiver holds messages of its own session only; nothing it was given is gone but
\* what was overrun or dropped for what it is itself, except between the moments in which a start has replaced the client and the receiver.
Between == \E h \in Starting : llamada[h].paso \in 2 .. 4

ReadInv ==
    /\ \A m \in llegados : campo["notifications"] # Nadie
                          /\ m.clave = campo["notifications"].clave
    /\ entregados \subseteq llegados
    /\ ~solapadas => llegados = leidos \cup entregados \cup descartados \/ Between

\* Outside those moments the key and the receiver are of one session.
LEMMA KeyOfReceiver ==
    ASSUME SharedInv, ~solapadas, ~Between, campo["shared_keys"] # Nadie
    PROVE  campo["notifications"].clave = campo["shared_keys"]
<1>1. Alone
  BY DEF SharedInv
<1>2. "shared_keys" \in Campo /\ "notifications" \in Campo
      /\ Turn("shared_keys") = 2 /\ Turn("notifications") = 4
  BY DEF Campo, Turn
<1>3. CASE \E h \in Starting : llamada[h].paso = 5
  <2>1. PICK h \in Starting : llamada[h].paso = 5
    BY <1>3
  <2>2. Stores(h, "shared_keys") /\ Stores(h, "notifications") /\ h \in Hilo
    BY <1>2, <2>1 DEF Stores, Starting
  <2>3. /\ campo["shared_keys"] = Guardado("shared_keys", llamada[h].sesion)
        /\ campo["notifications"] = Guardado("notifications", llamada[h].sesion)
    BY <1>1, <1>2, <2>2 DEF Alone
  <2> QED BY <2>3 DEF Guardado
<1>4. CASE ~\E h \in Starting : llamada[h].paso = 5
  <2>1. \A h \in Starting : llamada[h].paso = 1
    BY <1>4, StartingCalls DEF SharedInv, Between
  <2>2. \A h \in Hilo : ~Stores(h, "shared_keys") /\ ~Stores(h, "notifications")
    BY <1>2, <2>1 DEF Stores
  <2>3. campo["shared_keys"] = Before("shared_keys")
        /\ campo["notifications"] = Before("notifications")
    BY <1>1, <1>2, <2>2 DEF Alone
  <2> QED BY <2>3 DEF Before, Guardado
<1> QED BY <1>3, <1>4

LEMMA OthersKeepRead ==
    ASSUME SharedInv, ReadInv, Starting' = Starting,
           \A g \in Starting : llamada'[g] = llamada[g],
           UNCHANGED <<campo, recibido, solapadas>>
    PROVE  ReadInv'
<1>1. Between' <=> Between
  BY DEF Between
<1> QED BY <1>1 DEF ReadInv, recibido

LEMMA ReadKept ==
    SharedInv /\ ReadInv /\ (SharedNext \/ UNCHANGED shared) => ReadInv'
<1> SUFFICES ASSUME SharedInv, ReadInv, SharedNext \/ UNCHANGED shared PROVE ReadInv'
  OBVIOUS
<1>0. CallsInv
  BY DEF SharedInv
<1>1. ASSUME NEW h \in Hilo, NEW sesion \in Sesion, StartInit(h, sesion) PROVE ReadInv'
  <2>1. UNCHANGED <<campo, recibido>> /\ llamada[h] = Nadie
    BY <1>1 DEF StartInit, Call
  <2>2. ~solapadas' => ~solapadas /\ Starting = {}
    BY <1>1 DEF StartInit
  <2>3. Starting = {} => ~Between
    BY DEF Between
  <2> QED BY <2>1, <2>2, <2>3 DEF ReadInv, recibido
<1>2. ASSUME NEW h \in Hilo, InitFails(h) PROVE ReadInv'
  <2>1. UNCHANGED <<campo, recibido, solapadas>> /\ llamada[h].paso = 1
    BY <1>2 DEF InitFails
  <2>2. llamada' = [g \in Hilo |-> IF g = h THEN Nadie ELSE llamada[g]]
    BY <1>0, <1>2 DEF InitFails, CallsInv
  <2>3. Between => Between'
    <3> SUFFICES ASSUME NEW g \in Starting, llamada[g].paso \in 2 .. 4 PROVE Between'
      BY DEF Between
    <3>1. g # h /\ g \in Hilo
      BY <2>1 DEF Starting
    <3>2. llamada'[g] = llamada[g]
      BY <2>2, <3>1
    <3> QED BY <3>1, <3>2 DEF Between, Starting, Runs
  <2> QED BY <2>1, <2>3 DEF ReadInv, recibido
<1>3. ASSUME NEW h \in Hilo, InitStores(h) PROVE ReadInv'
  <2>1. h \in Starting /\ llamada[h] \in Llamada /\ llamada[h].op = "init"
    BY <1>0, <1>3, StartingCalls DEF InitStores, Starting
  <2>2. llamada[h].paso \in 1 .. 4 /\ NextLock(h) = Locks("init")[llamada[h].paso]
    <3>1. Len(Locks(llamada[h].op)) = 4
      BY <2>1, LocksOfInit
    <3>2. llamada[h].paso <= 4
      BY <1>3, <3>1 DEF InitStores, Pending
    <3>3. llamada[h].paso \in 1 .. 5
      BY <2>1 DEF Llamada
    <3> QED BY <2>1, <3>2, <3>3 DEF NextLock
  <2>3. CASE llamada[h].paso = 4
    <3>1. NextLock(h) = "notifications"
      BY <2>2, <2>3, LocksOfInit
    <3> QED BY <1>3, <3>1 DEF InitStores, ReadInv
  <2>4. CASE llamada[h].paso # 4
    <3>1. NextLock(h) # "notifications"
      <4>1. Turn("notifications") = 4 /\ "notifications" \in Campo
        BY DEF Turn, Campo
      <4> QED BY <2>2, <2>4, <4>1, LocksOfInit
    <3>2. campo'["notifications"] = campo["notifications"] /\ UNCHANGED <<recibido, solapadas>>
      BY <1>0, <1>3, <3>1 DEF InitStores, CallsInv, Campo
    <3>3. /\ h \in Starting' /\ llamada'[h].paso = llamada[h].paso + 1
      <4>1. llamada' = [llamada EXCEPT ![h].paso = @ + 1]
        BY <1>3 DEF InitStores
      <4>2. [llamada[h] EXCEPT !.paso = @ + 1]
               = [op |-> "init", paso |-> llamada[h].paso + 1, sesion |-> llamada[h].sesion]
        BY <2>1 DEF Llamada
      <4>3. llamada'[h] = [op |-> "init", paso |-> llamada[h].paso + 1,
                           sesion |-> llamada[h].sesion]
        BY <1>0, <1>3, <4>1, <4>2 DEF CallsInv
      <4>4. llamada'[h] \in Llamada
        BY <2>1, <2>2, <4>3 DEF Llamada
      <4> QED BY <1>3, <4>3, <4>4, SharedAssumption DEF Starting, Runs
    <3>4. Between'
      BY <2>2, <2>4, <3>3 DEF Between
    <3> QED BY <3>2, <3>4 DEF ReadInv, recibido
  <2> QED BY <2>3, <2>4
<1>4. ASSUME NEW h \in Hilo, InitReturns(h) PROVE ReadInv'
  <2>1. UNCHANGED <<campo, recibido, solapadas>>
    BY <1>4 DEF InitReturns
  <2>2. h \in Starting /\ llamada[h] \in Llamada /\ llamada[h].op = "init"
    BY <1>0, <1>4, StartingCalls DEF InitReturns, Starting
  <2>3. llamada[h].paso = 5
    <3>1. Len(Locks(llamada[h].op)) = 4
      BY <2>2, LocksOfInit
    <3>2. ~(llamada[h].paso <= 4)
      BY <1>4, <2>2, <3>1 DEF InitReturns, Pending, Starting, Runs
    <3>3. llamada[h].paso \in 1 .. 5
      BY <2>2 DEF Llamada
    <3> QED BY <3>2, <3>3
  <2>4. ~solapadas => ~Between
    BY <2>2, <2>3 DEF SharedInv, Alone, Between
  <2> QED BY <2>1, <2>4 DEF ReadInv, recibido
<1>5. ASSUME NEW h \in Hilo, StartOther(h) PROVE ReadInv'
  <2>1. PICK op \in {"send", "poll", "disconnect"} : Call(h, op, Nadie)
    BY <1>5 DEF StartOther
  <2>2. PICK call : call.op # "init" /\ llamada' = [llamada EXCEPT ![h] = call]
    <3>1. [op |-> op, paso |-> 1, sesion |-> Nadie].op # "init"
      OBVIOUS
    <3> QED BY <2>1, <3>1 DEF Call
  <2>3. llamada[h] = Nadie /\ \A g \in Hilo : llamada'[g] = IF g = h THEN call ELSE llamada[g]
    BY <1>0, <2>1, <2>2 DEF Call, CallsInv
  <2>4. Starting' = Starting /\ \A g \in Starting : llamada'[g] = llamada[g]
    BY <2>2, <2>3 DEF Starting, Runs
  <2> QED BY <1>5, <2>4, OthersKeepRead DEF StartOther
<1>6. ASSUME NEW h \in Hilo, TakeLock(h) PROVE ReadInv'
  <2>1. llamada[h] # Nadie /\ llamada[h].op # "init" /\ llamada[h] \in Llamada
    BY <1>0, <1>6 DEF TakeLock, Pending, Runs, CallsInv
  <2>2. PICK call : call.op # "init" /\ \A g \in Hilo : llamada'[g] = IF g = h THEN call ELSE llamada[g]
    <3>1. llamada' = [llamada EXCEPT ![h].paso = @ + 1]
      BY <1>6 DEF TakeLock
    <3>2. [llamada[h] EXCEPT !.paso = @ + 1].op # "init"
      BY <2>1 DEF Llamada
    <3> QED BY <1>0, <3>1, <3>2 DEF CallsInv
  <2>3. Starting' = Starting /\ \A g \in Starting : llamada'[g] = llamada[g]
    BY <2>1, <2>2 DEF Starting, Runs
  <2> QED BY <1>6, <2>3, OthersKeepRead DEF TakeLock
<1>7. ASSUME NEW h \in Hilo, Sends(h) \/ Disconnects(h) PROVE ReadInv'
  <2>1. llamada[h].op # "init" /\ Returns(h) /\ UNCHANGED <<campo, recibido, solapadas>>
    BY <1>7 DEF Sends, Disconnects, Runs
  <2> QED BY <1>0, <2>1, ReturnsKeep, OthersKeepRead
<1>8. ASSUME NEW h \in Hilo, Polls(h) PROVE ReadInv'
  <2>1. llamada[h].op # "init" /\ Returns(h) /\ UNCHANGED <<campo, solapadas>>
    BY <1>8 DEF Polls, Runs
  <2>2. Between' <=> Between
    BY <1>0, <2>1, ReturnsKeep DEF Between
  <2>3. CASE UNCHANGED recibido
    BY <2>1, <2>2, <2>3 DEF ReadInv, recibido
  <2>4. CASE /\ campo["shared_keys"] # Nadie /\ llegados' = llegados /\ entregados' = {}
             /\ leidos' \cup descartados' = leidos \cup descartados \cup
                                             {m \in entregados : m.clave = campo["shared_keys"]}
    <3>1. ~solapadas /\ ~Between =>
              leidos' \cup descartados' = leidos \cup descartados \cup entregados
      BY <2>4, KeyOfReceiver DEF ReadInv
    <3> QED BY <2>1, <2>2, <2>4, <3>1 DEF ReadInv
  <2> QED BY <1>8, <2>3, <2>4 DEF Polls
<1>9. ASSUME NEW m, Arrive(m) PROVE ReadInv'
  <2>1. UNCHANGED <<campo, llamada, solapadas, leidos>>
    BY <1>9 DEF Arrive
  <2>2. Between' <=> Between
    BY <2>1 DEF Between, Starting, Runs
  <2> QED BY <1>9, <2>1, <2>2 DEF Arrive, ReadInv
<1>10. CASE UNCHANGED shared
  BY <1>10 DEF shared, recibido, ReadInv, Between, Starting, Runs
<1> QED BY <1>1, <1>2, <1>3, <1>4, <1>5, <1>6, <1>7, <1>8, <1>9, <1>10
        DEF SharedNext, SharedStep

\* nostrpeer.rs, init_participant and poll_messages: without overlapping starts no poll
\* drains a message with the key of another chat, whatever moment of a start it falls into,
\* once the start is over: what is neither read nor waiting was overrun in the channel of
\* the receiver, or did not unwrap with its own key, or was too old.
THEOREM NothingDrainedUnread == Spec => []NothingOpenedWrongly
<1>1. Init => ReadInv
  BY DEF Init, SharedInit, ReadInv
<1>2. SharedInv /\ ReadInv /\ [Next]_vars => ReadInv'
  BY ReadKept DEF Next, vars, Inbox, Shared
<1>3. SharedInv /\ ReadInv => NothingOpenedWrongly
  BY StartingCalls DEF ReadInv, NothingOpenedWrongly, MidStart, Between, SharedInv
<1> QED BY <1>1, <1>2, <1>3, SharedInvHolds, PTL DEF Spec

\* nostrpeer.rs: as long as starts do not overlap, nobody sees a half of one.
THEOREM NoHalfStarts == Spec => []StartsAreWhole
<1>1. WritesInItsChat /\ KeyIsItsOwn /\ NothingOpenedWrongly => StartsAreWhole
  BY DEF StartsAreWhole
<1> QED BY <1>1, WrittenWhereStarted, OwnKeyReturned, NothingDrainedUnread, PTL

-----------------------------------------------------------------------------
(* The agent.                                                              *)

Status == {"idle", "running", "waitingPermission", "stopped", "error"}
Await == {"off", "summary", "post", "tool", "asking", "dead"}

\* The awaits of a loop that is at work.
Begun == {"summary", "post", "tool", "asking"}

Fields ==
    [status : Status, stopFlag : BOOLEAN, iterations : Nat,
     pending : Tool \cup {NoTool}, waiter : Loop \cup {NoLoop}, listed : BOOLEAN]

Loops == [Loop -> [pc : Await, calls : Seq(Tool)]]

\* Of the fields a: the waiter is a loop that asks for just the tool that is pending, and
\* the agent is not stopped.
AsksFor(a, w) == loop[w].pc = "asking" /\ loop[w].calls # <<>> /\ a.pending = Head(loop[w].calls)

Asking(a) == a.waiter # NoLoop => ~a.stopFlag /\ AsksFor(a, a.waiter)

AskInv == agent \in Fields /\ loop \in Loops /\ Asking(agent)

LEMMA AskInvInit == AgentInit => AskInv
<1> SUFFICES ASSUME AgentInit PROVE AskInv
  OBVIOUS
<1>1. agent \in Fields /\ agent.waiter = NoLoop
  BY DEF AgentInit, Fields, Status
<1>2. <<>> \in Seq(Tool)
  BY EmptySeq
<1>3. loop \in Loops
  BY <1>2 DEF AgentInit, Loops, Off, At, Await
<1> QED BY <1>1, <1>3 DEF AskInv, Asking

LEMMA CallListsAreSequences == \A calls \in CallLists : calls \in Seq(Tool)
<1> SUFFICES ASSUME NEW calls \in CallLists PROVE calls \in Seq(Tool)
  OBVIOUS
<1>1. PICK n \in 0 .. MaxCalls : calls \in [1 .. n -> Tool]
  BY DEF CallLists
<1>2. n \in Nat
  BY AgentAssumption
<1> QED BY <1>1, <1>2, SeqDef, Zenon

\* One loop moves; the others are where they were.
LEMMA OneMoves ==
    ASSUME NEW l \in Loop, NEW pc \in Await, NEW calls \in Seq(Tool), loop \in Loops,
           loop' = [loop EXCEPT ![l] = At(pc, calls)]
    PROVE  /\ loop' \in Loops
           /\ loop'[l].pc = pc /\ loop'[l].calls = calls
           /\ \A m \in Loop : m # l => loop'[m] = loop[m]
<1>1. At(pc, calls) \in [pc : Await, calls : Seq(Tool)]
  BY DEF At
<1>2. At(pc, calls).pc = pc /\ At(pc, calls).calls = calls
  BY DEF At
<1> HIDE DEF At
<1> QED BY <1>1, <1>2 DEF Loops

\* One field changes.
LEMMA StatusSet ==
    ASSUME NEW a \in Fields, NEW s \in Status, NEW b, b = [a EXCEPT !.status = s]
    PROVE  /\ b \in Fields /\ b.stopFlag = a.stopFlag
           /\ b.waiter = a.waiter /\ b.pending = a.pending /\ b.status = s
           /\ b.iterations = a.iterations
BY DEF Fields

LEMMA Counted ==
    ASSUME NEW a \in Fields, NEW b, b = [a EXCEPT !.iterations = @ + 1]
    PROVE  /\ b \in Fields /\ b.stopFlag = a.stopFlag
           /\ b.waiter = a.waiter /\ b.pending = a.pending
BY DEF Fields

LEMMA PendingSet ==
    ASSUME NEW a \in Fields, NEW t \in Tool \cup {NoTool}, NEW b, b = [a EXCEPT !.pending = t]
    PROVE  /\ b \in Fields /\ b.stopFlag = a.stopFlag /\ b.waiter = a.waiter
           /\ b.pending = t /\ b.status = a.status
           /\ b.iterations = a.iterations
BY DEF Fields

LEMMA WaiterSet ==
    ASSUME NEW a \in Fields, NEW l \in Loop \cup {NoLoop}, NEW b, b = [a EXCEPT !.waiter = l]
    PROVE  /\ b \in Fields /\ b.stopFlag = a.stopFlag /\ b.waiter = l
           /\ b.pending = a.pending /\ b.status = a.status
           /\ b.iterations = a.iterations
BY DEF Fields

LEMMA FlagSet ==
    ASSUME NEW a \in Fields, NEW f \in BOOLEAN, NEW b, b = [a EXCEPT !.stopFlag = f]
    PROVE  /\ b \in Fields /\ b.stopFlag = f /\ b.waiter = a.waiter
           /\ b.pending = a.pending /\ b.status = a.status
           /\ b.iterations = a.iterations
BY DEF Fields

\* The agent keeps asking for what it asked for, when the loop that moves is not the waiter.
LEMMA StillAsking ==
    ASSUME NEW l \in Loop, NEW a \in Fields, Asking(a), a.waiter # l,
           agent' \in Fields, agent'.stopFlag = a.stopFlag,
           agent'.waiter = a.waiter, agent'.pending = a.pending,
           loop' \in Loops, \A m \in Loop : m # l => loop'[m] = loop[m]
    PROVE  AskInv'
<1>1. a.waiter # NoLoop => a.waiter \in Loop
  BY DEF Fields
<1> QED BY <1>1 DEF AskInv, Asking, AsksFor

-----------------------------------------------------------------------------
(* The two things a loop does between awaits.                              *)

\* The head of the while touches no waiter but the loop's own, and sends nothing when the
\* agent is stopped.
LEMMA RoundKeeps ==
    ASSUME NEW l \in Loop, NEW a \in Fields, NEW k, loop \in Loops,
           Asking(a), a.waiter # l, Round(l, a, k)
    PROVE  /\ AskInv'
           /\ agent'.stopFlag = a.stopFlag
           /\ agent'.stopFlag => agent'.iterations = a.iterations
           /\ \A m \in Loop : Starts(m, Begun) => ~a.stopFlag /\ loop'[m].pc \in {"summary", "post"}
<1>0. <<>> \in Seq(Tool)
  BY EmptySeq
<1>1. /\ agent' \in Fields /\ agent'.stopFlag = a.stopFlag
      /\ agent'.waiter = a.waiter /\ agent'.pending = a.pending
      /\ agent'.stopFlag => agent'.iterations = a.iterations
  <2>1. AtLimit(a) \in Status
    BY DEF AtLimit, Fields, Status
  <2> HIDE DEF AtLimit
  <2>2. CASE ~a.stopFlag /\ agent' = [a EXCEPT !.iterations = @ + 1, !.status = "running"]
    <3> DEFINE b == [a EXCEPT !.iterations = @ + 1]
    <3>1. /\ b \in Fields /\ b.stopFlag = a.stopFlag
          /\ b.waiter = a.waiter /\ b.pending = a.pending
      BY Counted, Zenon
    <3>2. agent' = [b EXCEPT !.status = "running"]
      BY <2>2, Zenon
    <3> HIDE DEF b
    <3>3. /\ agent' \in Fields /\ agent'.stopFlag = a.stopFlag
          /\ agent'.waiter = a.waiter /\ agent'.pending = a.pending
      BY <3>1, <3>2, StatusSet DEF Status
    <3> QED BY <2>2, <3>3, Zenon
  <2>3. CASE ~a.stopFlag /\ agent' = [a EXCEPT !.iterations = @ + 1, !.status = "error"]
    <3> DEFINE b == [a EXCEPT !.iterations = @ + 1]
    <3>1. /\ b \in Fields /\ b.stopFlag = a.stopFlag
          /\ b.waiter = a.waiter /\ b.pending = a.pending
      BY Counted, Zenon
    <3>2. agent' = [b EXCEPT !.status = "error"]
      BY <2>3, Zenon
    <3> HIDE DEF b
    <3>3. /\ agent' \in Fields /\ agent'.stopFlag = a.stopFlag
          /\ agent'.waiter = a.waiter /\ agent'.pending = a.pending
      BY <3>1, <3>2, StatusSet DEF Status
    <3> QED BY <2>3, <3>3, Zenon
  <2>4. CASE agent' = [a EXCEPT !.status = AtLimit(a)]
    BY <2>1, <2>4, StatusSet
  <2> QED BY <2>2, <2>3, <2>4, Zenon DEF Round, Continues
<1>2. PICK pc \in {"summary", "post", "off"} :
          loop' = [loop EXCEPT ![l] = At(pc, <<>>)] /\ (pc # "off" => ~a.stopFlag)
  BY Zenon DEF Round, Off, Continues
<1>3. /\ loop' \in Loops /\ loop'[l].pc = pc
      /\ \A m \in Loop : m # l => loop'[m] = loop[m]
  BY <1>0, <1>2, OneMoves DEF Await
<1> QED BY <1>1, <1>2, <1>3, StillAsking DEF Starts, Begun

\* A loop that goes on with its calls runs only what is allowed, and asks in its own name.
LEMMA WorkKeeps ==
    ASSUME NEW l \in Loop, NEW a \in Fields, NEW k, NEW calls \in Seq(Tool), loop \in Loops,
           Asking(a), a.waiter # l, Work(l, a, k, calls)
    PROVE  /\ AskInv'
           /\ agent'.stopFlag = a.stopFlag
           /\ agent'.stopFlag => agent'.iterations = a.iterations
           /\ \A m \in Loop : Starts(m, Begun) =>
                  /\ ~a.stopFlag
                  /\ loop'[m].pc = "tool" => Head(loop'[m].calls) \in Allowed
<1>1. CASE Round(l, a, k)
  BY <1>1, RoundKeeps, Zenon
<1>2. CASE ~a.stopFlag /\ Head(calls) \in Allowed /\ agent' = a /\
           loop' = [loop EXCEPT ![l] = At("tool", calls)]
  <2>1. /\ loop' \in Loops /\ loop'[l].pc = "tool" /\ loop'[l].calls = calls
        /\ \A m \in Loop : m # l => loop'[m] = loop[m]
    BY <1>2, OneMoves DEF Await
  <2> QED BY <1>2, <2>1, StillAsking DEF Starts, Begun
<1>3. CASE calls # <<>> /\ ~a.stopFlag /\ agent' = Asked(a, l, Head(calls)) /\
           loop' = [loop EXCEPT ![l] = At("asking", calls)]
  <2>1. /\ loop' \in Loops /\ loop'[l].pc = "asking" /\ loop'[l].calls = calls
        /\ \A m \in Loop : m # l => loop'[m] = loop[m]
    BY <1>3, OneMoves DEF Await
  <2>2. Head(calls) \in Tool
    BY <1>3, HeadTailProperties
  <2> DEFINE h == Head(calls)
  <2>3. agent' = [a EXCEPT !.pending = h, !.status = "waitingPermission", !.waiter = l]
    BY <1>3, Zenon DEF Asked
  <2> HIDE DEF h
  <2>4. /\ agent' \in Fields /\ agent'.stopFlag = a.stopFlag
        /\ agent'.waiter = l /\ agent'.pending = h
    <3> DEFINE b == [a EXCEPT !.pending = h]
               c == [b EXCEPT !.status = "waitingPermission"]
    <3>0. h \in Tool \cup {NoTool}
      BY <2>2 DEF h
    <3>1. b = [a EXCEPT !.pending = h]
      OBVIOUS
    <3>2. c = [b EXCEPT !.status = "waitingPermission"]
      OBVIOUS
    <3>3. agent' = [c EXCEPT !.waiter = l]
      BY <2>3, Zenon
    <3> HIDE DEF b, c
    <3>4. b \in Fields /\ b.stopFlag = a.stopFlag /\ b.pending = h
      BY <3>0, <3>1, PendingSet
    <3>5. c \in Fields /\ c.stopFlag = b.stopFlag /\ c.pending = b.pending
      BY <3>2, <3>4, StatusSet DEF Status
    <3> QED BY <3>3, <3>4, <3>5, WaiterSet
  <2>5. AskInv'
    BY <1>3, <2>1, <2>4 DEF AskInv, Asking, AsksFor, h
  <2> QED BY <1>3, <2>1, <2>4, <2>5 DEF Starts, Begun
<1> QED BY <1>1, <1>2, <1>3, Zenon DEF Work

-----------------------------------------------------------------------------
(* Every step.  Granted(m): the loop m goes on with what the user granted. *)

Granted(m) ==
    /\ agent.listed /\ agent.status = "waitingPermission" /\ agent.pending = Head(loop'[m].calls)
    /\ ~agent'.stopFlag

StepIsSound ==
    /\ AskInv'
    /\ agent'.stopFlag => agent'.iterations = agent.iterations
    /\ \A m \in Loop : Starts(m, Begun) =>
           /\ ~agent'.stopFlag \/ (loop[m].pc = "summary" /\ loop'[m].pc = "post")
           /\ loop'[m].pc = "tool" /\ Head(loop'[m].calls) \notin Allowed => Granted(m)

LEMMA RoundIsSound ==
    ASSUME NEW l \in Loop, NEW a \in Fields, NEW k, loop \in Loops,
           Asking(a), a.waiter # l, Round(l, a, k),
           a.stopFlag => a.iterations = agent.iterations
    PROVE  StepIsSound
<1>1. /\ AskInv'
      /\ agent'.stopFlag = a.stopFlag
      /\ agent'.stopFlag => agent'.iterations = a.iterations
      /\ \A m \in Loop : Starts(m, Begun) => ~a.stopFlag /\ loop'[m].pc \in {"summary", "post"}
  BY RoundKeeps, Zenon
<1> QED BY <1>1 DEF StepIsSound

LEMMA WorkIsSound ==
    ASSUME NEW l \in Loop, NEW a \in Fields, NEW k, NEW calls \in Seq(Tool), loop \in Loops,
           Asking(a), a.waiter # l, Work(l, a, k, calls),
           a.stopFlag => a.iterations = agent.iterations
    PROVE  StepIsSound
<1>1. /\ AskInv'
      /\ agent'.stopFlag = a.stopFlag
      /\ agent'.stopFlag => agent'.iterations = a.iterations
      /\ \A m \in Loop : Starts(m, Begun) =>
             /\ ~a.stopFlag
             /\ loop'[m].pc = "tool" => Head(loop'[m].calls) \in Allowed
  BY WorkKeeps, Zenon
<1> QED BY <1>1 DEF StepIsSound

\* A loop that only ends, or dies.
LEMMA OnlyEnds ==
    ASSUME NEW l \in Loop, NEW pc \in {"off", "dead", "post"}, AskInv, agent.waiter # l,
           pc = "post" => loop[l].pc = "summary",
           agent' \in Fields, agent'.stopFlag = agent.stopFlag,
           agent'.waiter = agent.waiter, agent'.pending = agent.pending,
           agent'.iterations = agent.iterations,
           loop' = [loop EXCEPT ![l] = At(pc, <<>>)]
    PROVE  StepIsSound
<1>0. agent \in Fields /\ loop \in Loops /\ Asking(agent)
  BY DEF AskInv
<1>1. <<>> \in Seq(Tool)
  BY EmptySeq
<1>2. /\ loop' \in Loops /\ loop'[l].pc = pc
      /\ \A m \in Loop : m # l => loop'[m] = loop[m]
  BY <1>0, <1>1, OneMoves DEF Await
<1>3. AskInv'
  BY <1>0, <1>2, StillAsking
<1> QED BY <1>2, <1>3 DEF StepIsSound, Starts, Begun

\* A loop that is not asking is not the waiter.
LEMMA OthersWait == AskInv => \A l \in Loop : loop[l].pc # "asking" => agent.waiter # l
BY AgentAssumption DEF AskInv, Asking, AsksFor

LEMMA LoopIsSound == ASSUME AskInv, NEW l \in Loop, LoopStep(l) PROVE StepIsSound
<1>0. agent \in Fields /\ loop \in Loops /\ Asking(agent)
  BY DEF AskInv
<1>1. CASE Refused(l)
  <2>1. agent.waiter # l
    BY <1>1, OthersWait DEF Refused
  <2> QED BY <1>0, <1>1, <2>1, RoundIsSound, Zenon DEF Refused
<1>2. CASE \E status \in {"error", "idle"} : loop[l].pc = "post" /\ Ends(l, status)
  <2>1. agent.waiter # l
    BY <1>2, OthersWait
  <2>2. PICK status \in {"error", "idle"} : agent' = [agent EXCEPT !.status = status]
    BY <1>2, Zenon DEF Ends
  <2>3. /\ agent' \in Fields /\ agent'.stopFlag = agent.stopFlag
        /\ agent'.waiter = agent.waiter /\ agent'.pending = agent.pending
        /\ agent'.iterations = agent.iterations
    BY <1>0, <2>2, StatusSet DEF Status
  <2>4. loop' = [loop EXCEPT ![l] = At("off", <<>>)]
    BY <1>2, Zenon DEF Ends, Off
  <2> QED BY <1>0, <2>1, <2>3, <2>4, OnlyEnds
<1>3. CASE ToolCalls(l)
  <2>1. agent.waiter # l
    BY <1>3, OthersWait DEF ToolCalls
  <2>2. PICK calls \in CallLists : Work(l, agent, keys, calls)
    BY <1>3 DEF ToolCalls
  <2>3. calls \in Seq(Tool)
    BY CallListsAreSequences
  <2> QED BY <1>0, <2>1, <2>2, <2>3, WorkIsSound, Zenon
<1>4. CASE BadReply(l)
  <2>1. agent.waiter # l
    BY <1>4, OthersWait DEF BadReply
  <2>2. agent' = agent /\ loop' = [loop EXCEPT ![l] = At("dead", <<>>)]
    BY <1>4, Zenon DEF BadReply
  <2> QED BY <1>0, <2>1, <2>2, OnlyEnds
<1>5. CASE ToolDone(l)
  <2>1. agent.waiter # l
    BY <1>5, OthersWait DEF ToolDone
  <2>2. loop[l].calls \in Seq(Tool)
    BY <1>0 DEF Loops
  <2>3. CASE loop[l].calls # <<>>
    <3>1. Tail(loop[l].calls) \in Seq(Tool)
      BY <2>2, <2>3, HeadTailProperties
    <3> QED BY <1>0, <1>5, <2>1, <3>1, WorkIsSound, Zenon DEF ToolDone
  <2>4. CASE loop[l].calls = <<>>
    <3>1. Tail(loop[l].calls) \in Seq(Tool)
      BY <2>4, EmptySeq
    <3> QED BY <1>0, <1>5, <2>1, <3>1, WorkIsSound, Zenon DEF ToolDone
  <2> QED BY <2>3, <2>4
<1>6. CASE Summed(l)
  <2>1. agent.waiter # l
    BY <1>6, OthersWait DEF Summed
  <2>2. agent' = agent /\ loop' = [loop EXCEPT ![l] = At("post", <<>>)] /\ loop[l].pc = "summary"
    BY <1>6, Zenon DEF Summed
  <2> QED BY <1>0, <2>1, <2>2, OnlyEnds
<1> QED BY <1>1, <1>2, <1>3, <1>4, <1>5, <1>6 DEF LoopStep, PostFails, FinalAnswer

-----------------------------------------------------------------------------
(* The user.                                                               *)

LEMMA ResumedIsFree ==
    ASSUME NEW a \in Fields
    PROVE  /\ Resumed(a) \in Fields /\ Resumed(a).stopFlag = a.stopFlag
           /\ Resumed(a).waiter = NoLoop /\ Resumed(a).iterations = a.iterations
<1> DEFINE b == [a EXCEPT !.pending = NoTool]
<1>1. b = [a EXCEPT !.pending = NoTool]
  OBVIOUS
<1>2. Resumed(a) = [b EXCEPT !.waiter = NoLoop]
  BY Zenon DEF Resumed
<1> HIDE DEF b
<1>3. b \in Fields /\ b.stopFlag = a.stopFlag /\ b.iterations = a.iterations
  BY <1>1, PendingSet
<1> QED BY <1>2, <1>3, WaiterSet

LEMMA TalkIsSound == ASSUME AskInv, NEW l \in Loop, Talk(l) PROVE StepIsSound
<1> DEFINE b == [agent EXCEPT !.stopFlag = FALSE]
           c == [b EXCEPT !.iterations = 0]
<1>0. agent \in Fields /\ loop \in Loops /\ Asking(agent) /\ agent.waiter # l
  BY OthersWait DEF AskInv, Talk
<1>1. b = [agent EXCEPT !.stopFlag = FALSE] /\ c = [b EXCEPT !.iterations = 0]
  OBVIOUS
<1>2. Round(l, c, keys)
  BY Zenon DEF Talk
<1> HIDE DEF b, c
<1>3. b \in Fields /\ b.stopFlag = FALSE /\ b.waiter = agent.waiter /\ b.pending = agent.pending
  BY <1>0, <1>1, FlagSet
<1>4. c \in Fields /\ c.stopFlag = FALSE /\ c.waiter = agent.waiter /\ c.pending = agent.pending
  BY <1>1, <1>3 DEF Fields
<1>5. Asking(c)
  BY <1>0, <1>4 DEF Asking, AsksFor
<1> QED BY <1>0, <1>2, <1>4, <1>5, RoundIsSound

LEMMA ResolveIsSound ==
    ASSUME AskInv, NEW granted \in BOOLEAN, ResolvePermission(granted) PROVE StepIsSound
<1> DEFINE w == agent.waiter
<1>0. /\ agent \in Fields /\ loop \in Loops /\ w \in Loop /\ ~agent.stopFlag
      /\ AsksFor(agent, w) /\ agent.status = "waitingPermission" /\ agent.listed
  BY DEF AskInv, Asking, Fields, ResolvePermission
<1>1. /\ Resumed(agent) \in Fields /\ ~Resumed(agent).stopFlag
      /\ Resumed(agent).waiter = NoLoop /\ Resumed(agent).iterations = agent.iterations
  BY <1>0, ResumedIsFree
<1>2. CASE granted
  <2>1. agent' = Resumed(agent) /\ loop' = [loop EXCEPT ![w].pc = "tool"]
    BY <1>2, Zenon DEF ResolvePermission
  <2>2. /\ loop' \in Loops /\ loop'[w].calls = loop[w].calls
        /\ \A m \in Loop : m # w => loop'[m] = loop[m]
    BY <1>0, <2>1 DEF Loops, Await
  <2>3. AskInv'
    BY <1>1, <2>1, <2>2 DEF AskInv, Asking
  <2>4. ASSUME NEW m \in Loop, Starts(m, Begun) PROVE Granted(m)
    <3>1. m = w
      BY <2>2, <2>4 DEF Starts
    <3> QED BY <1>0, <1>1, <2>1, <2>2, <3>1 DEF Granted, AsksFor
  <2> QED BY <1>1, <2>1, <2>3, <2>4 DEF StepIsSound, Granted
<1>3. CASE ~granted
  <2>1. Work(w, Resumed(agent), keys, Tail(loop[w].calls))
    BY <1>3, Zenon DEF ResolvePermission
  <2>2. Tail(loop[w].calls) \in Seq(Tool)
    <3>1. loop[w].calls \in Seq(Tool) /\ loop[w].calls # <<>>
      BY <1>0 DEF Loops, AsksFor
    <3> QED BY <3>1, HeadTailProperties
  <2>3. Asking(Resumed(agent)) /\ Resumed(agent).waiter # w
    BY <1>0, <1>1, AgentAssumption DEF Asking
  <2> HIDE DEF w
  <2> QED BY <1>0, <1>1, <2>1, <2>2, <2>3, WorkIsSound
<1> QED BY <1>2, <1>3

LEMMA StopIsSound == ASSUME AskInv, Stop PROVE StepIsSound
<1> DEFINE b == [agent EXCEPT !.stopFlag = TRUE]
           c == [b EXCEPT !.status = "stopped"]
<1>0. agent \in Fields /\ loop \in Loops /\ Asking(agent)
  BY DEF AskInv
<1>1. b = [agent EXCEPT !.stopFlag = TRUE] /\ c = [b EXCEPT !.status = "stopped"]
  OBVIOUS
<1>2. \/ agent.waiter = NoLoop /\ agent' = c /\ loop' = loop
      \/ agent.waiter # NoLoop /\ Round(agent.waiter, Resumed(c), keys)
  BY Zenon DEF Stop
<1> HIDE DEF b, c
<1>3. b \in Fields /\ b.waiter = agent.waiter /\ b.iterations = agent.iterations
  BY <1>0, <1>1, FlagSet
<1>4. c \in Fields /\ c.waiter = agent.waiter /\ c.iterations = agent.iterations
  <2>1. "stopped" \in Status /\ c = [b EXCEPT !.status = "stopped"]
    BY <1>1 DEF Status
  <2>2. c \in Fields /\ c.waiter = b.waiter /\ c.iterations = b.iterations
    BY <1>3, <2>1, StatusSet
  <2> QED BY <1>3, <2>2
<1>5. CASE agent.waiter = NoLoop /\ agent' = c /\ loop' = loop
  BY <1>0, <1>4, <1>5 DEF StepIsSound, AskInv, Asking, Starts
<1>6. CASE agent.waiter # NoLoop /\ Round(agent.waiter, Resumed(c), keys)
  <2>1. agent.waiter \in Loop
    BY <1>0, <1>6 DEF Fields
  <2>2. /\ Resumed(c) \in Fields /\ Asking(Resumed(c)) /\ Resumed(c).waiter # agent.waiter
        /\ Resumed(c).iterations = agent.iterations
    BY <1>4, <1>6, ResumedIsFree DEF Asking
  <2> QED BY <1>0, <1>6, <2>1, <2>2, RoundIsSound
<1> QED BY <1>2, <1>5, <1>6

LEMMA ReviveIsSound == ASSUME AskInv, Revive PROVE StepIsSound
<1> DEFINE b == [agent EXCEPT !.stopFlag = FALSE]
<1>0. agent \in Fields /\ loop \in Loops /\ Asking(agent)
  BY DEF AskInv
<1>1. b = [agent EXCEPT !.stopFlag = FALSE]
  OBVIOUS
<1>2. agent' = [b EXCEPT !.status = "idle"] /\ loop' = loop
  BY Zenon DEF Revive
<1> HIDE DEF b
<1>3. b \in Fields /\ b.stopFlag = FALSE /\ b.waiter = agent.waiter /\ b.pending = agent.pending
  BY <1>0, <1>1, FlagSet
<1>4. /\ agent' \in Fields /\ agent'.stopFlag = FALSE
      /\ agent'.waiter = agent.waiter /\ agent'.pending = agent.pending
  BY <1>2, <1>3, StatusSet DEF Status
<1> QED BY <1>0, <1>2, <1>4 DEF StepIsSound, AskInv, Asking, AsksFor, Starts

LEMMA RemoveIsSound == ASSUME AskInv, RemoveAgent PROVE StepIsSound
<1>0. agent \in Fields /\ loop \in Loops /\ Asking(agent)
  BY DEF AskInv
<1>1. agent' = [agent EXCEPT !.listed = FALSE] /\ loop' = loop
  BY Zenon DEF RemoveAgent
<1>2. /\ agent' \in Fields /\ agent'.stopFlag = agent.stopFlag
      /\ agent'.waiter = agent.waiter /\ agent'.pending = agent.pending
      /\ agent'.iterations = agent.iterations
  BY <1>0, <1>1 DEF Fields
<1> QED BY <1>0, <1>1, <1>2 DEF StepIsSound, AskInv, Asking, AsksFor, Starts

LEMMA StepSound == AskInv /\ [AgentNext]_agentVars => StepIsSound
<1> SUFFICES ASSUME AskInv, [AgentNext]_agentVars PROVE StepIsSound
  OBVIOUS
<1>1. CASE UNCHANGED agentVars
  BY <1>1 DEF agentVars, StepIsSound, AskInv, Asking, AsksFor, Starts
<1>2. CASE AgentNext
  BY <1>2, TalkIsSound, LoopIsSound, ResolveIsSound, StopIsSound, ReviveIsSound,
     RemoveIsSound, Zenon
     DEF AgentNext
<1> QED BY <1>1, <1>2

-----------------------------------------------------------------------------

LEMMA AskInvAlways == AgentSpec => []AskInv
<1>1. AskInv /\ [AgentNext]_agentVars => AskInv'
  BY StepSound DEF StepIsSound
<1> QED BY AskInvInit, <1>1, PTL DEF AgentSpec

\* agent_manager.dart, _loop and resolvePermission: a loop runs a tool the agent has no
\* permission for only in the step in which the user grants it, while the screen shows it,
\* whatever loops talk has left behind.
THEOREM OnlyGrantedToolsRun == AgentSpec => UsesAreGranted
<1>1. AskInv /\ [AgentNext]_agentVars =>
          [\A l \in Loop :
               Starts(l, {"tool"}) /\ Head(loop'[l].calls) \notin Allowed =>
                   /\ agent.listed /\ agent.status = "waitingPermission"
                   /\ agent.pending = Head(loop'[l].calls)]_agentVars
  BY StepSound DEF StepIsSound, Starts, Granted, Begun
<1> QED BY AskInvAlways, <1>1, PTL DEF AgentSpec, UsesAreGranted

\* agent_manager.dart, stop: as long as the flag is up no round begins, no tool runs and none
\* is asked for; what is still sent is the request of a round begun before, whose history was
\* being summed up.
THEOREM StopStops == AgentSpec => StoppedStartsNothing
<1>1. AskInv /\ [AgentNext]_agentVars =>
          [agent'.stopFlag =>
             /\ agent'.iterations = agent.iterations
             /\ \A l \in Loop : /\ ~Starts(l, {"summary", "tool", "asking"})
                                /\ Starts(l, {"post"}) => loop[l].pc = "summary"]_agentVars
  BY StepSound DEF StepIsSound, Starts, Begun
<1> QED BY AskInvAlways, <1>1, PTL DEF AgentSpec, StoppedStartsNothing

-----------------------------------------------------------------------------
(* An agent runs down.                                                     *)

\* What is left to a loop of the reply it works on: a request in flight may bring MaxCalls
\* calls, one whose history is being summed up is yet to be sent, and one that waits for a
\* tool or a permission has the rest of its calls.
LeftAt(pc, calls) ==
    CASE pc = "summary"           -> MaxCalls + 2
      [] pc = "post"              -> MaxCalls + 1
      [] pc \in {"tool", "asking"} -> Len(calls)
      [] OTHER                    -> 0

Left(l) == LeftAt(loop[l].pc, loop[l].calls)

\* agent_manager.dart, _loop: unless the user talks to it again, an agent only runs down,
\* however many loops talk has left behind.  The rounds they all count in one field only
\* grow, up to the limit; without a new round no loop gets more to do; and each step of a
\* loop uses up a round or some of what was left.
RunsDown ==
    [][(\A l \in Loop : ~Talk(l)) =>
         /\ agent'.iterations \in agent.iterations .. MaxIterations
         /\ agent'.iterations = agent.iterations =>
              /\ \A l \in Loop : Left(l)' <= Left(l)
              /\ (\E l \in Loop : LoopStep(l)) => \E l \in Loop : Left(l)' < Left(l)]_agentVars

\* ... and what is left is bounded, so that there are only so many steps to it.
LeftIsBounded ==
    agent.iterations \in 0 .. MaxIterations /\ \A l \in Loop : Left(l) \in 0 .. MaxCalls + 2

\* In fact the rounds never pass their limit, and a loop that waits for a tool or for a
\* permission has that call to go, and no more than a reply may bring.
LoopsBounded ==
    \A l \in Loop : /\ Len(loop[l].calls) <= MaxCalls
                    /\ loop[l].pc \in {"tool", "asking"} => loop[l].calls # <<>>

RunInv == AskInv /\ agent.iterations <= MaxIterations /\ LoopsBounded

\* What a loop does between two awaits, when the code before it in the same step has left
\* the fields a and it has at most "left" to do.
CarriesOn(l, a, left) ==
    /\ agent'.iterations \in a.iterations .. MaxIterations
    /\ agent'.iterations = a.iterations => Left(l)' \in 0 .. left
    /\ \A m \in Loop : m # l => loop'[m] = loop[m]
    /\ LoopsBounded'

LEMMA CallsAreCounted ==
    ASSUME NEW calls \in Seq(Tool)
    PROVE  /\ Len(calls) \in Nat /\ (calls = <<>> <=> Len(calls) = 0)
           /\ calls # <<>> => Tail(calls) \in Seq(Tool) /\ Len(Tail(calls)) = Len(calls) - 1
<1>1. Len(calls) \in Nat /\ (calls = <<>> <=> Len(calls) = 0)
  BY EmptySeq, LenProperties
<1>2. calls # <<>> => Tail(calls) \in Seq(Tool) /\ Len(Tail(calls)) = Len(calls) - 1
  BY HeadTailProperties
<1> QED BY <1>1, <1>2

\* One loop goes to another await.
LEMMA GoesTo ==
    ASSUME NEW l \in Loop, NEW pc \in Await, NEW calls \in Seq(Tool), loop \in Loops,
           LoopsBounded, loop' = [loop EXCEPT ![l] = At(pc, calls)], Len(calls) <= MaxCalls,
           pc \in {"tool", "asking"} => calls # <<>>
    PROVE  /\ \A m \in Loop : m # l => loop'[m] = loop[m]
           /\ LoopsBounded'
           /\ Left(l)' = LeftAt(pc, calls)
<1>1. /\ loop'[l].pc = pc /\ loop'[l].calls = calls
      /\ \A m \in Loop : m # l => loop'[m] = loop[m]
  BY OneMoves
<1>2. LoopsBounded'
  BY <1>1 DEF LoopsBounded
<1>3. Left(l)' = LeftAt(pc, calls)
  BY <1>1 DEF Left
<1> QED BY <1>1, <1>2, <1>3

LEMMA RoundCarriesOn ==
    ASSUME NEW l \in Loop, NEW a \in Fields, NEW k, loop \in Loops, LoopsBounded,
           a.iterations <= MaxIterations, Round(l, a, k)
    PROVE  CarriesOn(l, a, 0)
<1>0. /\ <<>> \in Seq(Tool) /\ Len(<<>>) = 0 /\ MaxCalls \in Nat /\ MaxIterations \in Nat
      /\ a.iterations \in Nat
  BY EmptySeq, AgentAssumption DEF Fields
<1>1. \/ /\ agent'.iterations = a.iterations + 1 /\ a.iterations < MaxIterations
         /\ \E pc \in {"summary", "post"} : loop' = [loop EXCEPT ![l] = At(pc, <<>>)]
      \/ /\ agent'.iterations = a.iterations + 1 /\ a.iterations < MaxIterations
         /\ loop' = [loop EXCEPT ![l] = At("off", <<>>)]
      \/ /\ agent'.iterations = a.iterations
         /\ loop' = [loop EXCEPT ![l] = At("off", <<>>)]
  <2>1. CASE Continues(a) /\ agent' = [a EXCEPT !.iterations = @ + 1, !.status = "running"]
             /\ \E pc \in {"summary", "post"} : loop' = [loop EXCEPT ![l] = At(pc, <<>>)]
    <3>1. agent'.iterations = a.iterations + 1
      BY <2>1 DEF Fields
    <3> QED BY <2>1, <3>1, Zenon DEF Continues
  <2>2. CASE Continues(a) /\ agent' = [a EXCEPT !.iterations = @ + 1, !.status = "error"]
             /\ loop' = [loop EXCEPT ![l] = Off]
    <3>1. agent'.iterations = a.iterations + 1
      BY <2>2 DEF Fields
    <3> QED BY <2>2, <3>1, Zenon DEF Continues, Off
  <2>3. CASE agent' = [a EXCEPT !.status = AtLimit(a)] /\ loop' = [loop EXCEPT ![l] = Off]
    <3>1. agent'.iterations = a.iterations
      BY <2>3 DEF Fields
    <3> QED BY <2>3, <3>1, Zenon DEF Off
  <2> QED BY <2>1, <2>2, <2>3, Zenon DEF Round
<1>2. PICK pc \in {"summary", "post", "off"} :
          /\ loop' = [loop EXCEPT ![l] = At(pc, <<>>)]
          /\ agent'.iterations = a.iterations => pc = "off"
  BY <1>0, <1>1
<1>3. /\ \A m \in Loop : m # l => loop'[m] = loop[m]
      /\ LoopsBounded'
      /\ pc = "off" => Left(l)' = 0
  <2>1. pc \in Await /\ pc \notin {"tool", "asking"} /\ Len(<<>>) <= MaxCalls
    BY <1>0 DEF Await
  <2>2. /\ \A m \in Loop : m # l => loop'[m] = loop[m]
        /\ LoopsBounded'
        /\ Left(l)' = LeftAt(pc, <<>>)
    BY <1>0, <1>2, <2>1, GoesTo
  <2>3. pc = "off" => LeftAt(pc, <<>>) = 0
    BY DEF LeftAt
  <2> QED BY <2>2, <2>3
<1>4. agent'.iterations \in a.iterations .. MaxIterations
  BY <1>0, <1>1
<1> QED BY <1>2, <1>3, <1>4 DEF CarriesOn

LEMMA WorkCarriesOn ==
    ASSUME NEW l \in Loop, NEW a \in Fields, NEW k, NEW calls \in Seq(Tool), loop \in Loops,
           LoopsBounded, a.iterations <= MaxIterations, Len(calls) <= MaxCalls,
           Work(l, a, k, calls)
    PROVE  CarriesOn(l, a, Len(calls))
<1>0. Len(calls) \in Nat /\ MaxIterations \in Nat /\ a.iterations \in Nat
  BY AgentAssumption, CallsAreCounted DEF Fields
<1>1. CASE Round(l, a, k)
  <2>1. CarriesOn(l, a, 0)
    BY <1>1, RoundCarriesOn
  <2> QED BY <1>0, <2>1 DEF CarriesOn
<1>2. ASSUME NEW pc \in {"tool", "asking"}, calls # <<>>, agent'.iterations = a.iterations,
             loop' = [loop EXCEPT ![l] = At(pc, calls)]
      PROVE  CarriesOn(l, a, Len(calls))
  <2>1. /\ \A m \in Loop : m # l => loop'[m] = loop[m]
        /\ LoopsBounded' /\ Left(l)' = Len(calls)
    <3>1. pc \in Await
      BY DEF Await
    <3>2. LeftAt(pc, calls) = Len(calls)
      BY DEF LeftAt
    <3> QED BY <1>2, <3>1, <3>2, GoesTo
  <2> QED BY <1>0, <1>2, <2>1 DEF CarriesOn
<1>3. Asked(a, l, Head(calls)).iterations = a.iterations
  BY DEF Asked, Fields
<1> QED BY <1>1, <1>2, <1>3 DEF Work

\* Where a loop that has something to do gets less to do, the agent runs down.
RunningDown ==
    /\ agent'.iterations \in agent.iterations .. MaxIterations
    /\ agent'.iterations = agent.iterations => \A l \in Loop : Left(l)' <= Left(l)

UsesUp == agent'.iterations = agent.iterations => \E l \in Loop : Left(l)' < Left(l)

LEMMA LeftIsCounted ==
    ASSUME RunInv, NEW l \in Loop
    PROVE  Left(l) \in 0 .. MaxCalls + 2
<1>1. loop[l].calls \in Seq(Tool) /\ Len(loop[l].calls) <= MaxCalls
  BY DEF RunInv, AskInv, Loops, LoopsBounded
<1>2. Len(loop[l].calls) \in Nat /\ MaxCalls \in Nat
  BY <1>1, CallsAreCounted, AgentAssumption
<1> QED BY <1>1, <1>2 DEF Left, LeftAt

LEMMA FromRuns ==
    ASSUME RunInv, NEW l \in Loop, NEW a, a.iterations = agent.iterations,
           NEW left \in 0 .. Left(l), CarriesOn(l, a, left)
    PROVE  RunningDown /\ LoopsBounded' /\ (left < Left(l) => UsesUp)
<1>1. Left(l) \in Nat /\ left \in Nat /\ left <= Left(l)
  BY LeftIsCounted, AgentAssumption
<1>2. \A m \in Loop : m # l => Left(m)' = Left(m)
  BY DEF CarriesOn, Left
<1>3. \A m \in Loop : Left(m) \in Nat
  BY LeftIsCounted, AgentAssumption
<1>4. /\ agent'.iterations \in agent.iterations .. MaxIterations /\ LoopsBounded'
      /\ agent'.iterations = agent.iterations => Left(l)' \in 0 .. left
  BY DEF CarriesOn
<1>5. agent'.iterations = agent.iterations => \A m \in Loop : Left(m)' <= Left(m)
  BY <1>1, <1>2, <1>3, <1>4
<1>6. left < Left(l) => UsesUp
  BY <1>1, <1>4 DEF UsesUp
<1> QED BY <1>4, <1>5, <1>6 DEF RunningDown

\* A step of a loop uses up some of what it had to do.
LEMMA LoopCarriesOn ==
    ASSUME RunInv, NEW l \in Loop, LoopStep(l)
    PROVE  RunningDown /\ LoopsBounded' /\ UsesUp
<1>0. /\ agent \in Fields /\ loop \in Loops /\ LoopsBounded
      /\ agent.iterations <= MaxIterations /\ agent.iterations \in Nat
      /\ MaxCalls \in Nat /\ MaxIterations \in Nat
  BY AgentAssumption DEF RunInv, AskInv, Fields
<1>1. <<>> \in Seq(Tool) /\ Len(<<>>) = 0
  BY EmptySeq
<1>2. SUFFICES \E left \in Nat : left < Left(l) /\ CarriesOn(l, agent, left)
  <2>1. Left(l) \in Nat
    BY <1>0, LeftIsCounted
  <2> QED BY <2>1, FromRuns
<1>3. loop[l].pc = "post" => Left(l) = MaxCalls + 1
  BY DEF Left, LeftAt
<1>4. ASSUME NEW pc \in {"off", "dead"}, agent'.iterations = agent.iterations,
             loop' = [loop EXCEPT ![l] = At(pc, <<>>)]
      PROVE  CarriesOn(l, agent, 0)
  <2>1. /\ \A m \in Loop : m # l => loop'[m] = loop[m]
        /\ LoopsBounded' /\ Left(l)' = 0
    <3>1. pc \in Await /\ pc \notin Begun /\ Len(<<>>) <= MaxCalls
      BY <1>0, <1>1 DEF Await, Begun
    <3>2. /\ \A m \in Loop : m # l => loop'[m] = loop[m]
          /\ LoopsBounded'
          /\ Left(l)' = LeftAt(pc, <<>>)
      BY <1>0, <1>1, <1>4, <3>1, GoesTo DEF Begun
    <3>3. LeftAt(pc, <<>>) = 0
      BY DEF LeftAt
    <3> QED BY <3>2, <3>3
  <2> QED BY <1>0, <1>4, <2>1 DEF CarriesOn
<1>5. CASE Refused(l)
  <2>1. loop[l].pc = "post" /\ Round(l, agent, MarkedDead(keys))
    BY <1>5, Zenon DEF Refused
  <2>2. CarriesOn(l, agent, 0)
    BY <1>0, <2>1, RoundCarriesOn
  <2> QED BY <1>0, <1>3, <2>1, <2>2
<1>6. CASE \E status \in {"error", "idle"} : loop[l].pc = "post" /\ Ends(l, status)
  <2>1. agent'.iterations = agent.iterations
    BY <1>0, <1>6 DEF Ends, Fields
  <2>2. loop' = [loop EXCEPT ![l] = At("off", <<>>)]
    BY <1>6, Zenon DEF Ends, Off
  <2>3. CarriesOn(l, agent, 0)
    BY <1>4, <2>1, <2>2
  <2> QED BY <1>0, <1>3, <1>6, <2>3
<1>7. CASE ToolCalls(l)
  <2>1. PICK calls \in CallLists : Work(l, agent, keys, calls)
    BY <1>7 DEF ToolCalls
  <2>2. calls \in Seq(Tool)
    BY CallListsAreSequences
  <2>3. Len(calls) <= MaxCalls /\ Len(calls) \in Nat
    <3>1. PICK n \in 0 .. MaxCalls : calls \in [1 .. n -> Tool]
      BY DEF CallLists
    <3>2. Len(calls) = n
      BY <1>0, <2>2, <3>1, LenProperties
    <3> QED BY <1>0, <3>2
  <2>4. CarriesOn(l, agent, Len(calls))
    BY <1>0, <2>1, <2>2, <2>3, WorkCarriesOn
  <2>5. Len(calls) < Left(l)
    BY <1>0, <1>3, <1>7, <2>3 DEF ToolCalls
  <2> QED BY <2>3, <2>4, <2>5
<1>8. CASE BadReply(l)
  <2>1. agent' = agent /\ loop' = [loop EXCEPT ![l] = At("dead", <<>>)] /\ loop[l].pc = "post"
    BY <1>8, Zenon DEF BadReply
  <2>2. CarriesOn(l, agent, 0)
    BY <1>4, <2>1
  <2> QED BY <1>0, <1>3, <2>1, <2>2
<1>9. CASE ToolDone(l)
  <2>1. loop[l].pc = "tool" /\ Work(l, agent, keys, Tail(loop[l].calls))
    BY <1>9, Zenon DEF ToolDone
  <2>2. PICK calls : calls = loop[l].calls
    OBVIOUS
  <2>3. calls \in Seq(Tool) /\ calls # <<>> /\ Len(calls) <= MaxCalls
    BY <1>0, <2>1, <2>2 DEF Loops, LoopsBounded
  <2>4. Tail(calls) \in Seq(Tool) /\ Len(Tail(calls)) = Len(calls) - 1 /\ Len(calls) \in Nat \ {0}
    BY <2>3, CallsAreCounted
  <2>5. Left(l) = Len(calls)
    BY <2>1, <2>2 DEF Left, LeftAt
  <2>6. Len(Tail(calls)) <= MaxCalls
    BY <1>0, <2>3, <2>4
  <2>7. CarriesOn(l, agent, Len(Tail(calls)))
    BY <1>0, <2>1, <2>2, <2>4, <2>6, WorkCarriesOn
  <2> QED BY <2>4, <2>5, <2>7
<1>10. CASE Summed(l)
  <2>1. agent' = agent /\ loop' = [loop EXCEPT ![l] = At("post", <<>>)] /\ loop[l].pc = "summary"
    BY <1>10, Zenon DEF Summed
  <2>2. /\ \A m \in Loop : m # l => loop'[m] = loop[m]
        /\ LoopsBounded' /\ Left(l)' = MaxCalls + 1
    <3> PICK pc \in Await : pc = "post"
      BY DEF Await
    <3>1. pc \notin {"summary", "tool", "asking"} /\ Len(<<>>) <= MaxCalls
      BY <1>0, <1>1
    <3>2. loop' = [loop EXCEPT ![l] = At(pc, <<>>)]
      BY <2>1
    <3>3. /\ \A m \in Loop : m # l => loop'[m] = loop[m]
          /\ LoopsBounded'
          /\ Left(l)' = LeftAt(pc, <<>>)
      BY <1>0, <1>1, <3>1, <3>2, GoesTo
    <3>4. LeftAt(pc, <<>>) = MaxCalls + 1
      BY DEF LeftAt
    <3> QED BY <3>3, <3>4
  <2>3. CarriesOn(l, agent, MaxCalls + 1)
    BY <1>0, <2>1, <2>2 DEF CarriesOn
  <2>4. Left(l) = MaxCalls + 2
    BY <2>1 DEF Left, LeftAt
  <2> QED BY <1>0, <2>3, <2>4
<1> QED BY <1>5, <1>6, <1>7, <1>8, <1>9, <1>10 DEF LoopStep, PostFails, FinalAnswer

\* The user gives a loop nothing to do but by talking.
LEMMA UserRuns ==
    ASSUME RunInv, Stop \/ Revive \/ RemoveAgent \/ \E granted \in BOOLEAN : ResolvePermission(granted)
    PROVE  RunningDown /\ LoopsBounded'
<1>0. /\ agent \in Fields /\ loop \in Loops /\ LoopsBounded /\ Asking(agent)
      /\ agent.iterations <= MaxIterations /\ agent.iterations \in Nat
      /\ MaxCalls \in Nat /\ MaxIterations \in Nat
  BY AgentAssumption DEF RunInv, AskInv, Fields
<1>1. \A l \in Loop : Left(l) \in Nat
  BY <1>0, LeftIsCounted
<1>2. ASSUME loop' = loop, agent'.iterations = agent.iterations
      PROVE  RunningDown /\ LoopsBounded'
  BY <1>0, <1>1, <1>2 DEF RunningDown, LoopsBounded, Left
<1>3. Resumed(agent) \in Fields /\ Resumed(agent).iterations = agent.iterations
  <2>1. Resumed(agent).iterations = agent.iterations
    BY <1>0 DEF Resumed, Fields
  <2> QED BY <1>0, <2>1, ResumedIsFree
<1>4. CASE Revive
  <2>1. loop' = loop /\ agent'.iterations = agent.iterations
    BY <1>0, <1>4 DEF Revive, Fields
  <2> QED BY <1>2, <2>1
<1>5. CASE Stop
  <2> DEFINE a == [agent EXCEPT !.stopFlag = TRUE, !.status = "stopped"]
  <2>1. a \in Fields /\ a.iterations = agent.iterations
    BY <1>0 DEF Fields, Status
  <2>2. \/ agent.waiter = NoLoop /\ agent' = a /\ loop' = loop
        \/ agent.waiter # NoLoop /\ Round(agent.waiter, Resumed(a), keys)
    BY <1>5, Zenon DEF Stop
  <2> HIDE DEF a
  <2>3. CASE agent' = a /\ loop' = loop
    BY <1>2, <2>1, <2>3
  <2>4. CASE agent.waiter # NoLoop /\ Round(agent.waiter, Resumed(a), keys)
    <3> PICK w : w = agent.waiter
      OBVIOUS
    <3>1. w \in Loop
      BY <1>0, <2>4 DEF Fields
    <3>2. Resumed(a) \in Fields /\ Resumed(a).iterations = agent.iterations
      <4>1. Resumed(a).iterations = a.iterations
        BY <2>1 DEF Resumed, Fields
      <4> QED BY <2>1, <4>1, ResumedIsFree
    <3>3. CarriesOn(w, Resumed(a), 0)
      BY <1>0, <2>4, <3>1, <3>2, RoundCarriesOn
    <3>4. 0 \in 0 .. Left(w)
      BY <1>1, <3>1
    <3> QED BY <3>1, <3>2, <3>3, <3>4, FromRuns
  <2> QED BY <2>2, <2>3, <2>4
<1>6. ASSUME NEW granted \in BOOLEAN, ResolvePermission(granted)
      PROVE  RunningDown /\ LoopsBounded'
  <2> PICK w : w = agent.waiter
    OBVIOUS
  <2>1. w \in Loop /\ loop[w].pc = "asking" /\ loop[w].calls # <<>>
    BY <1>0, <1>6 DEF ResolvePermission, Asking, AsksFor, Fields
  <2>2. CASE granted
    <3>1. agent' = Resumed(agent) /\ loop' = [loop EXCEPT ![w].pc = "tool"]
      BY <1>6, <2>2, Zenon DEF ResolvePermission
    <3>2. /\ loop'[w].calls = loop[w].calls /\ loop'[w].pc = "tool"
          /\ \A m \in Loop : m # w => loop'[m] = loop[m]
      BY <1>0, <2>1, <3>1 DEF Loops
    <3>3. \A m \in Loop : Left(m)' = Left(m)
      BY <2>1, <3>2 DEF Left, LeftAt
    <3>4. LoopsBounded'
      BY <1>0, <2>1, <3>2 DEF LoopsBounded
    <3> QED BY <1>0, <1>1, <1>3, <3>1, <3>3, <3>4 DEF RunningDown
  <2>3. CASE ~granted
    <3>1. Work(w, Resumed(agent), keys, Tail(loop[w].calls))
      BY <1>6, <2>3, Zenon DEF ResolvePermission
    <3> PICK calls : calls = loop[w].calls
      OBVIOUS
    <3>2. calls \in Seq(Tool) /\ calls # <<>> /\ Len(calls) <= MaxCalls /\ Left(w) = Len(calls)
      BY <1>0, <2>1 DEF Loops, LoopsBounded, Left, LeftAt
    <3>3. /\ Tail(calls) \in Seq(Tool) /\ Len(Tail(calls)) = Len(calls) - 1
          /\ Len(calls) \in Nat \ {0}
      BY <3>2, CallsAreCounted
    <3>4. Len(Tail(calls)) <= MaxCalls /\ Len(Tail(calls)) \in 0 .. Left(w)
      <4>1. PICK n \in Nat \ {0} : n = Len(calls)
        BY <3>3
      <4>2. n - 1 <= MaxCalls /\ n - 1 \in 0 .. n
        BY <1>0, <3>2, <4>1
      <4> QED BY <3>2, <3>3, <4>1, <4>2
    <3>5. CarriesOn(w, Resumed(agent), Len(Tail(calls)))
      BY <1>0, <1>3, <2>1, <3>1, <3>3, <3>4, WorkCarriesOn
    <3> QED BY <1>3, <2>1, <3>4, <3>5, FromRuns
  <2> QED BY <2>2, <2>3
<1>7. CASE RemoveAgent
  <2>1. loop' = loop /\ agent'.iterations = agent.iterations
    BY <1>0, <1>7 DEF RemoveAgent, Fields
  <2> QED BY <1>2, <2>1
<1> QED BY <1>4, <1>5, <1>6, <1>7

LEMMA TalkRuns ==
    ASSUME RunInv, NEW l \in Loop, Talk(l)
    PROVE  agent'.iterations <= MaxIterations /\ LoopsBounded'
<1> DEFINE b == [agent EXCEPT !.stopFlag = FALSE, !.iterations = 0]
<1>0. agent \in Fields /\ loop \in Loops /\ LoopsBounded /\ MaxIterations \in Nat
  BY AgentAssumption DEF RunInv, AskInv
<1>1. b \in Fields /\ b.iterations = 0
  BY <1>0 DEF Fields
<1>2. Round(l, b, keys)
  BY Zenon DEF Talk
<1> HIDE DEF b
<1>3. CarriesOn(l, b, 0)
  BY <1>0, <1>1, <1>2, RoundCarriesOn
<1> QED BY <1>0, <1>1, <1>3 DEF CarriesOn

LEMMA StepRuns ==
    RunInv /\ [AgentNext]_agentVars =>
        /\ RunInv'
        /\ (\A l \in Loop : ~Talk(l)) => RunningDown
        /\ (\E l \in Loop : LoopStep(l)) => UsesUp
<1> SUFFICES ASSUME RunInv, [AgentNext]_agentVars
             PROVE  /\ RunInv'
                    /\ (\A l \in Loop : ~Talk(l)) => RunningDown
                    /\ (\E l \in Loop : LoopStep(l)) => UsesUp
  OBVIOUS
<1>0. agent.iterations \in Nat /\ MaxIterations \in Nat /\ agent.iterations <= MaxIterations
  BY AgentAssumption DEF RunInv, AskInv, Fields
<1>1. RunningDown => agent'.iterations <= MaxIterations
  BY <1>0 DEF RunningDown
<1>2. ASSUME UNCHANGED agentVars
      PROVE  RunningDown /\ LoopsBounded'
  <2>1. agent' = agent /\ loop' = loop
    BY <1>2 DEF agentVars
  <2>2. \A l \in Loop : Left(l) \in 0 .. MaxCalls + 2 /\ Left(l)' = Left(l)
    BY <2>1, LeftIsCounted DEF Left
  <2>3. \A l \in Loop : Left(l)' <= Left(l)
    <3>1. MaxCalls \in Nat
      BY AgentAssumption
    <3> QED BY <2>2, <3>1
  <2>4. LoopsBounded'
    BY <2>1 DEF RunInv, LoopsBounded
  <2> QED BY <1>0, <2>1, <2>3, <2>4 DEF RunningDown
<1>3. (\E l \in Loop : LoopStep(l)) => RunningDown /\ LoopsBounded' /\ UsesUp
  BY LoopCarriesOn
<1>4. AskInv'
  BY StepSound DEF RunInv, StepIsSound
<1>5. ASSUME NEW l \in Loop, Talk(l) PROVE agent'.iterations <= MaxIterations /\ LoopsBounded'
  BY <1>5, TalkRuns
<1>6. CASE \A l \in Loop : ~Talk(l)
  <2>1. RunningDown /\ LoopsBounded'
    BY <1>2, <1>3, <1>6, UserRuns, Zenon DEF AgentNext
  <2> QED BY <1>1, <1>3, <1>4, <2>1 DEF RunInv
<1> QED BY <1>3, <1>4, <1>5, <1>6 DEF RunInv

LEMMA RunInvAlways == AgentSpec => []RunInv
<1>1. AgentInit => RunInv
  <2> SUFFICES ASSUME AgentInit PROVE agent.iterations <= MaxIterations /\ LoopsBounded
    BY AskInvInit DEF RunInv
  <2>1. agent.iterations = 0 /\ \A l \in Loop : loop[l] = Off
    BY DEF AgentInit
  <2>2. Off.pc = "off" /\ Len(Off.calls) = 0
    BY EmptySeq DEF Off, At
  <2>3. MaxIterations \in Nat /\ MaxCalls \in Nat
    BY AgentAssumption
  <2> QED BY <2>1, <2>2, <2>3 DEF LoopsBounded
<1>2. RunInv /\ [AgentNext]_agentVars => RunInv'
  BY StepRuns
<1> QED BY <1>1, <1>2, PTL DEF AgentSpec

\* agent_manager.dart, _loop: with what is left bounded and used up by every step, an agent
\* that nobody talks to sends so many requests and runs so many tools, and is then at rest.
THEOREM AgentsRunDown == AgentSpec => RunsDown /\ []LeftIsBounded
<1>1. RunInv => LeftIsBounded
  <2> SUFFICES ASSUME RunInv PROVE LeftIsBounded
    OBVIOUS
  <2>1. agent.iterations \in Nat /\ agent.iterations <= MaxIterations /\ MaxIterations \in Nat
    BY AgentAssumption DEF RunInv, AskInv, Fields
  <2> QED BY <2>1, LeftIsCounted DEF LeftIsBounded
<1>2. RunInv /\ [AgentNext]_agentVars =>
         [(\A l \in Loop : ~Talk(l)) =>
            /\ agent'.iterations \in agent.iterations .. MaxIterations
            /\ agent'.iterations = agent.iterations =>
                 /\ \A l \in Loop : Left(l)' <= Left(l)
                 /\ (\E l \in Loop : LoopStep(l)) => \E l \in Loop : Left(l)' < Left(l)]_agentVars
  BY StepRuns, Zenon DEF RunningDown, UsesUp
<1> QED BY <1>1, <1>2, RunInvAlways, PTL DEF AgentSpec, RunsDown

-----------------------------------------------------------------------------
(* The inbox.                                                              *)

LEMMA StepOfInbox == [Next]_vars => InboxNext \/ UNCHANGED inbox
BY DEF Next, vars, Inbox, Shared

InboxTypes ==
    /\ clase \in {"dm", "bandeja"} /\ relays \in BOOLEAN /\ conectado \in BOOLEAN
    /\ conectado => relays
    /\ fase \in {"listo", "pidiendo", "pedido"} /\ subs \in 0 .. MaxSubs
    /\ fase # "listo" => subs \in 1 .. MaxSubs
    /\ activas \subseteq [filtro : {"to_me", "from_peer"}, n : 1 .. MaxSubs, ventana : BOOLEAN]
    /\ suscripcion \in 0 .. MaxSubs

LEMMA InboxTypesKept == InboxTypes /\ (InboxNext \/ UNCHANGED inbox) => InboxTypes'
<1> SUFFICES ASSUME InboxTypes, InboxNext \/ UNCHANGED inbox PROVE InboxTypes'
  OBVIOUS
<1> USE InboxAssumption DEF InboxTypes
<1>1. CASE AddRelays BY <1>1 DEF AddRelays
<1>2. CASE Subscribe
  <2>1. subs' \in 1 .. MaxSubs /\ subs' = subs + 1
    BY <1>2 DEF Subscribe
  <2>2. activas' \subseteq [filtro : {"to_me", "from_peer"}, n : 1 .. MaxSubs, ventana : BOOLEAN]
    BY <1>2, <2>1 DEF Subscribe, Filtro
  <2>3. /\ clase' = clase /\ relays' = relays /\ conectado' = conectado
        /\ suscripcion' = suscripcion /\ fase' \in {"listo", "pidiendo", "pedido"}
    BY <1>2 DEF Subscribe
  <2>4. subs' \in 0 .. MaxSubs
    BY <2>1
  <2>5. (conectado => relays)' /\ (suscripcion \in 0 .. MaxSubs)'
    BY <2>3
  <2> QED BY <2>1, <2>2, <2>3, <2>4, <2>5
<1>3. CASE SubscribePeer
  <2>1. subs \in 1 .. MaxSubs
    BY <1>3 DEF SubscribePeer
  <2>2. activas' \subseteq [filtro : {"to_me", "from_peer"}, n : 1 .. MaxSubs, ventana : BOOLEAN]
    <3>1. [filtro |-> "from_peer", n |-> subs, ventana |-> TRUE]
             \in [filtro : {"to_me", "from_peer"}, n : 1 .. MaxSubs, ventana : BOOLEAN]
      BY <2>1
    <3>2. \/ activas' = activas
          \/ activas' = activas \cup {[filtro |-> "from_peer", n |-> subs, ventana |-> TRUE]}
      BY <1>3 DEF SubscribePeer
    <3> QED BY <3>1, <3>2
  <2>3. /\ clase' = clase /\ relays' = relays /\ conectado' = conectado /\ subs' = subs
        /\ suscripcion' = suscripcion /\ fase' \in {"listo", "pedido"}
    BY <1>3 DEF SubscribePeer
  <2> QED BY <2>1, <2>2, <2>3
<1>4. CASE TakeReceiver BY <1>4 DEF TakeReceiver
<1>5. CASE PollMessages BY <1>5 DEF PollMessages
<1>6. CASE Disconnect BY <1>6 DEF Disconnect
<1>7. ASSUME NEW e \in Evento, Arrives(e) PROVE InboxTypes'
  BY <1>7 DEF Arrives
<1>8. CASE UNCHANGED inbox BY <1>8 DEF inbox
<1> QED BY <1>1, <1>2, <1>3, <1>4, <1>5, <1>6, <1>7, <1>8 DEF InboxNext

\* What the receiver holds was seen, stands there once and was not shown yet.
Holding(queue) ==
    /\ queue \in Seq(Evento) /\ Len(queue) <= Capacidad
    /\ IsInjective(queue) /\ ToSet(queue) \subseteq vistos
    /\ ToSet(queue) \cap ToSet(mostrados) = {}

Accounted(e) == e \in ToSet(mostrados) \cup Pendientes \cup perdidos

ShowInv ==
    /\ vistos \subseteq Evento /\ perdidos \subseteq vistos
    /\ mostrados \in Seq(Evento) /\ ToSet(mostrados) \subseteq vistos
    /\ IsInjective(mostrados)
    /\ receptor # SinReceptor => Holding(receptor)
    /\ \A e \in vistos : Valido(e) => Accounted(e)

\* A message is pushed: it is new to the receiver, and a full one loses its first.
LEMMA PushedKeeps ==
    ASSUME NEW queue \in Seq(Evento), Len(queue) <= Capacidad, IsInjective(queue),
           NEW e \in Evento, e \notin ToSet(queue)
    PROVE  /\ Pushed(queue, e) \in Seq(Evento) /\ Len(Pushed(queue, e)) <= Capacidad
           /\ IsInjective(Pushed(queue, e)) /\ e \in ToSet(Pushed(queue, e))
           /\ ToSet(Pushed(queue, e)) \subseteq ToSet(queue) \cup {e}
<1> USE InboxAssumption
<1>0. Len(queue) \in Nat
  BY LenProperties
<1>1. CASE Len(queue) < Capacidad
  BY <1>0, <1>1, AppendKeeps DEF Pushed
<1>2. CASE ~(Len(queue) < Capacidad)
  <2>1. queue # <<>>
    BY <1>2, EmptySeq
  <2> PICK rest : rest = Tail(queue)
    OBVIOUS
  <2>2. /\ rest \in Seq(Evento) /\ Len(rest) = Len(queue) - 1
        /\ ToSet(rest) \subseteq ToSet(queue) /\ IsInjective(rest)
    BY <2>1, TailKeeps
  <2>3. Pushed(queue, e) = Append(rest, e) /\ e \notin ToSet(rest)
    BY <1>2, <2>2 DEF Pushed
  <2>4. /\ Append(rest, e) \in Seq(Evento) /\ Len(Append(rest, e)) = Len(rest) + 1
        /\ ToSet(Append(rest, e)) = ToSet(rest) \cup {e}
        /\ IsInjective(Append(rest, e))
    BY <2>2, <2>3, AppendKeeps, ZenonT(60)
  <2> QED BY <1>0, <2>2, <2>3, <2>4
<1> QED BY <1>1, <1>2

LEMMA ArrivesKeeps == ASSUME ShowInv, NEW e \in Evento, Arrives(e) PROVE ShowInv'
<1>1. /\ e \notin vistos /\ vistos' = vistos \cup {e} /\ mostrados' = mostrados
      /\ clase' = clase
  BY DEF Arrives
<1>2. \A d : Valido(d)' <=> Valido(d)
  BY <1>1 DEF Valido
<1>3. /\ vistos' \subseteq Evento
      /\ mostrados' \in Seq(Evento) /\ ToSet(mostrados') \subseteq vistos'
      /\ IsInjective(mostrados') /\ e \notin ToSet(mostrados)
  BY <1>1 DEF ShowInv
<1>4. CASE receptor = SinReceptor
  <2>1. perdidos' = perdidos \cup {e} /\ receptor' = receptor
    BY <1>4 DEF Arrives
  <2>2. ASSUME NEW d \in vistos', Valido(d) PROVE Accounted(d)'
    <3>1. d = e \/ (d \in vistos /\ Accounted(d))
      BY <1>1, <2>2 DEF ShowInv
    <3> QED BY <1>1, <2>1, <3>1 DEF Accounted, Pendientes
  <2>3. perdidos' \subseteq vistos'
    BY <1>1, <2>1 DEF ShowInv
  <2> QED BY <1>2, <1>3, <1>4, <2>1, <2>2, <2>3 DEF ShowInv
<1>5. CASE receptor # SinReceptor
  <2> PICK queue : queue = Pushed(receptor, e)
    OBVIOUS
  <2>1. /\ receptor \in Seq(Evento) /\ Len(receptor) <= Capacidad
        /\ IsInjective(receptor) /\ ToSet(receptor) \subseteq vistos
        /\ ToSet(receptor) \cap ToSet(mostrados) = {}
    BY <1>5 DEF ShowInv, Holding
  <2>2. /\ queue \in Seq(Evento) /\ Len(queue) <= Capacidad
        /\ IsInjective(queue) /\ e \in ToSet(queue)
        /\ ToSet(queue) \subseteq ToSet(receptor) \cup {e}
    BY <1>1, <2>1, PushedKeeps
  <2>3. /\ receptor' = queue /\ Pendientes = ToSet(receptor)
        /\ perdidos' = perdidos \cup (ToSet(receptor) \ ToSet(queue))
    BY <1>5 DEF Arrives, Pendientes
  <2>4. Pendientes' = ToSet(queue)
    BY <2>2, <2>3, InboxAssumption DEF Pendientes
  <2>5. Holding(receptor)'
    BY <1>1, <1>3, <2>1, <2>2, <2>3 DEF Holding
  <2>6. ASSUME NEW d \in vistos', Valido(d) PROVE Accounted(d)'
    <3>1. d = e \/ (d \in vistos /\ Accounted(d))
      BY <1>1, <2>6 DEF ShowInv
    <3>2. d = e \/ d \in ToSet(mostrados) \cup ToSet(receptor) \cup perdidos
      BY <2>3, <3>1 DEF Accounted
    <3>3. d \in ToSet(mostrados') \cup ToSet(queue) \cup perdidos'
      BY <1>1, <2>2, <2>3, <3>2
    <3> QED BY <2>4, <3>3 DEF Accounted
  <2>7. perdidos' \subseteq vistos'
    BY <1>1, <2>1, <2>3 DEF ShowInv
  <2> QED BY <1>2, <1>3, <2>5, <2>6, <2>7 DEF ShowInv
<1> QED BY <1>4, <1>5

LEMMA PollKeeps == ASSUME ShowInv, PollMessages PROVE ShowInv'
<1>1. /\ receptor # SinReceptor /\ mostrados' = mostrados \o Drained /\ receptor' = <<>>
      /\ vistos' = vistos /\ perdidos' = perdidos /\ clase' = clase
  BY DEF PollMessages
<1> PICK drained : drained = Drained
  OBVIOUS
<1>2. /\ receptor \in Seq(Evento) /\ IsInjective(receptor) /\ ToSet(receptor) \subseteq vistos
      /\ ToSet(receptor) \cap ToSet(mostrados) = {} /\ Pendientes = ToSet(receptor)
  BY <1>1 DEF ShowInv, Holding, Pendientes
<1>3. /\ drained \in Seq(Evento) /\ IsInjective(drained)
      /\ ToSet(drained) = {e \in ToSet(receptor) : Valido(e)}
  <2>1. /\ drained \in Seq(Evento) /\ ToSet(drained) = ToSet(receptor) \cap Validos
        /\ IsInjective(receptor) => IsInjective(drained)
    BY <1>2, AmongKeeps DEF Drained
  <2> QED BY <1>2, <2>1 DEF Validos
<1>4. /\ mostrados \in Seq(Evento) /\ IsInjective(mostrados) /\ ToSet(mostrados) \subseteq vistos
  BY DEF ShowInv
<1>5. /\ mostrados' \in Seq(Evento) /\ IsInjective(mostrados')
      /\ ToSet(mostrados') = ToSet(mostrados) \cup ToSet(drained)
  <2>1. ToSet(mostrados) \cap ToSet(drained) = {}
    BY <1>2, <1>3
  <2> QED BY <1>1, <1>3, <1>4, <2>1, ConcatKeeps
<1>6. Holding(receptor)'
  <2>1. /\ <<>> \in Seq(Evento) /\ Len(<<>>) <= Capacidad /\ IsInjective(<<>>)
        /\ ToSet(<<>>) = {}
    BY EmptySeq, InboxAssumption DEF IsInjective, ToSet
  <2> QED BY <1>1, <2>1 DEF Holding
<1>7. ASSUME NEW e \in vistos', Valido(e)' PROVE Accounted(e)'
  <2>1. Valido(e) /\ e \in vistos
    BY <1>1, <1>7 DEF Valido
  <2>2. e \in ToSet(mostrados) \cup ToSet(receptor) \cup perdidos
    BY <1>2, <2>1 DEF ShowInv, Accounted
  <2>3. e \in ToSet(mostrados') \cup perdidos'
    BY <1>1, <1>3, <1>5, <2>1, <2>2
  <2> QED BY <2>3 DEF Accounted
<1>8. /\ ToSet(mostrados') \subseteq vistos' /\ vistos' \subseteq Evento /\ perdidos' \subseteq vistos'
  BY <1>1, <1>2, <1>3, <1>4, <1>5 DEF ShowInv
<1> QED BY <1>5, <1>6, <1>7, <1>8 DEF ShowInv

LEMMA ShowKept == ShowInv /\ (InboxNext \/ UNCHANGED inbox) => ShowInv'
<1> SUFFICES ASSUME ShowInv, InboxNext \/ UNCHANGED inbox PROVE ShowInv'
  OBVIOUS
<1>1. CASE UNCHANGED <<clase, receptor, vistos, mostrados, perdidos>>
  BY <1>1 DEF ShowInv, Holding, Accounted, Pendientes, Valido
<1>2. CASE TakeReceiver
  <2>1. /\ receptor' = <<>> /\ perdidos' = perdidos \cup Pendientes
        /\ vistos' = vistos /\ mostrados' = mostrados /\ clase' = clase
    BY <1>2 DEF TakeReceiver
  <2>2. /\ <<>> \in Seq(Evento) /\ Len(<<>>) <= Capacidad /\ IsInjective(<<>>)
        /\ ToSet(<<>>) = {}
    BY EmptySeq, InboxAssumption DEF IsInjective, ToSet
  <2>3. Holding(receptor)'
    BY <2>1, <2>2 DEF Holding
  <2>4. Pendientes \subseteq vistos
    BY DEF ShowInv, Holding, Pendientes
  <2>5. ASSUME NEW e \in vistos', Valido(e)' PROVE Accounted(e)'
    <3>1. Accounted(e)
      BY <2>1, <2>5 DEF ShowInv, Valido
    <3> QED BY <2>1, <3>1 DEF Accounted
  <2> QED BY <2>1, <2>3, <2>4, <2>5 DEF ShowInv
<1>3. ASSUME NEW e \in Evento, Arrives(e) PROVE ShowInv'
  BY <1>3, ArrivesKeeps
<1>4. CASE PollMessages
  BY <1>4, PollKeeps
<1> QED BY <1>1, <1>2, <1>3, <1>4
        DEF InboxNext, AddRelays, Subscribe, SubscribePeer, Disconnect, inbox

LEMMA InboxInvHolds == Spec => [](InboxTypes /\ ShowInv)
<1>1. Init => InboxTypes /\ ShowInv
  <2> SUFFICES ASSUME InboxInit PROVE InboxTypes /\ ShowInv
    BY DEF Init
  <2>0. 0 \in 0 .. MaxSubs
    BY InboxAssumption
  <2>1. InboxTypes
    BY <2>0 DEF InboxInit, InboxTypes
  <2>2. /\ <<>> \in Seq(Evento) /\ IsInjective(<<>>) /\ ToSet(<<>>) = {}
    BY EmptySeq DEF IsInjective, ToSet
  <2> QED BY <2>1, <2>2 DEF InboxInit, ShowInv
<1> QED BY <1>1, InboxTypesKept, ShowKept, StepOfInbox, PTL DEF Spec

\* client.rs and gestion.rs, subscribe and poll_messages: no message is shown twice, and
\* what was seen and may be shown is shown, waits, or was lost before the receiver.
THEOREM MessagesShownOnce == Spec => []ShownOnce
<1>1. ShowInv => ShownOnce
  BY DEF ShowInv, ShownOnce, Accounted
<1> QED BY <1>1, InboxInvHolds, PTL

-----------------------------------------------------------------------------
(* The list of follows.                                                    *)

Edicion == {call \in [clave : Clave, seguir : BOOLEAN, lista : Seq(Clave)] :
              IsInjective(call.lista)}

\* The list is what was asked for, and the call that runs, the only one, has read it.
Undisturbed ==
    /\ ToSet(lista) = querida
    /\ \A c, d \in Llamador : cambio[c] # Ninguno /\ cambio[d] # Ninguno => c = d
    /\ \A c \in Llamador : cambio[c] # Ninguno => cambio[c][1].lista = lista

ContactsInv ==
    /\ lista \in Seq(Clave) /\ IsInjective(lista)
    /\ fecha \in 0 .. MaxSegundos /\ ahora \in 1 .. MaxSegundos /\ fecha <= ahora
    /\ cambio \in [Llamador -> {Ninguno} \cup {<<call>> : call \in Edicion}]
    /\ cambios \in 0 .. MaxCambios /\ querida \subseteq Clave /\ turbado \in BOOLEAN
    /\ ~turbado => Undisturbed

LEMMA StepOfContacts == [Next]_vars => ContactsNext \/ UNCHANGED contacts
BY DEF Next, vars, Inbox, Shared

LEMMA EmptyList ==
    <<>> \in Seq(Clave) /\ IsInjective(<<>>) /\ ToSet(<<>>) = {}
BY EmptySeq DEF IsInjective, ToSet

\* The key that is edited goes from the list and may come back at its end.
LEMMA EditedIs ==
    ASSUME NEW call \in Edicion
    PROVE  /\ Edited(call) \in Seq(Clave) /\ IsInjective(Edited(call))
           /\ ToSet(Edited(call)) = (ToSet(call.lista) \ {call.clave})
                                      \cup (IF call.seguir THEN {call.clave} ELSE {})
<1>1. call.clave \in Clave /\ call.lista \in Seq(Clave) /\ IsInjective(call.lista)
  BY DEF Edicion
<1> PICK rest : rest = Among(call.lista, Clave \ {call.clave})
  OBVIOUS
<1> PICK last : last = IF call.seguir THEN <<call.clave>> ELSE <<>>
  OBVIOUS
<1>2. /\ rest \in Seq(Clave) /\ IsInjective(rest)
      /\ ToSet(rest) = ToSet(call.lista) \cap (Clave \ {call.clave})
  BY <1>1, AmongKeeps
<1>3. ToSet(call.lista) \subseteq Clave
  BY <1>1, RangeOfSeq DEF ToSet, Range
<1>4. /\ last \in Seq(Clave) /\ IsInjective(last)
      /\ ToSet(last) = IF call.seguir THEN {call.clave} ELSE {}
  <2>1. CASE call.seguir
    <3>1. last = <<call.clave>>
      BY <2>1
    <3> PICK k \in Clave : k = call.clave
      BY <1>1
    <3>2. last \in Seq(Clave) /\ Len(last) = 1 /\ last[1] = call.clave
      <4>1. <<k>> \in Seq(Clave) /\ Len(<<k>>) = 1 /\ <<k>>[1] = k
        OBVIOUS
      <4> QED BY <3>1, <4>1
    <3>3. DOMAIN last = {1}
      BY <3>2, LenProperties
    <3> QED BY <2>1, <3>2, <3>3 DEF IsInjective, ToSet
  <2>2. CASE ~call.seguir
    BY <2>2, EmptyList
  <2> QED BY <2>1, <2>2
<1>5. ToSet(rest) \cap ToSet(last) = {}
  BY <1>2, <1>4
<1>6. Edited(call) = rest \o last
  BY DEF Edited
<1>7. /\ rest \o last \in Seq(Clave) /\ IsInjective(rest \o last)
      /\ ToSet(rest \o last) = ToSet(rest) \cup ToSet(last)
  <2>1. rest \in Seq(Clave) /\ last \in Seq(Clave) /\ IsInjective(rest) /\ IsInjective(last)
    BY <1>2, <1>4
  <2>2. /\ rest \o last \in Seq(Clave) /\ ToSet(rest \o last) = ToSet(rest) \cup ToSet(last)
        /\ IsInjective(rest) /\ IsInjective(last) /\ ToSet(rest) \cap ToSet(last) = {} =>
             IsInjective(rest \o last)
    BY <2>1, ConcatKeeps, ZenonT(60)
  <2> QED BY <1>5, <2>1, <2>2
<1> QED BY <1>2, <1>3, <1>4, <1>6, <1>7

\* A list that a relay keeps is the old or the new one, and the new one in a new second.
LEMMA KeptIsOne ==
    ASSUME ContactsInv, NEW nueva, lista' \in Kept(nueva)
    PROVE  /\ lista' \in {nueva, lista}
           /\ ahora # fecha => lista' = nueva
<1>1. fecha \in Nat /\ ahora \in Nat /\ fecha <= ahora
  BY ContactsAssumption DEF ContactsInv
<1> QED BY <1>1 DEF Kept

\* The call of a caller that runs, and the callers when it has returned.
LEMMA CallOfCaller ==
    ASSUME ContactsInv, NEW c \in Llamador, cambio[c] # Ninguno
    PROVE  cambio[c][1] \in Edicion
<1>1. PICK call \in Edicion : cambio[c] = <<call>>
  BY DEF ContactsInv
<1> QED BY <1>1

LEMMA CallerReturns ==
    ASSUME ContactsInv, NEW c \in Llamador, cambio' = [cambio EXCEPT ![c] = Ninguno]
    PROVE  /\ cambio' \in [Llamador -> {Ninguno} \cup {<<call>> : call \in Edicion}]
           /\ \A d \in Llamador : cambio'[d] # Ninguno => d # c /\ cambio'[d] = cambio[d]
BY DEF ContactsInv

LEMMA SeguirLeeKeeps ==
    ASSUME ContactsInv, NEW c \in Llamador, NEW clave \in Clave, NEW seguir \in BOOLEAN,
           SeguirLee(c, clave, seguir)
    PROVE  ContactsInv'
<1>1. PICK leida \in Seguidos :
         /\ cambio' = [cambio EXCEPT ![c] = <<[clave |-> clave, seguir |-> seguir,
                                               lista |-> leida]>>]
         /\ turbado' = (turbado \/ ~Idle \/ leida # lista)
  BY DEF SeguirLee
<1> PICK call : call = [clave |-> clave, seguir |-> seguir, lista |-> leida]
  OBVIOUS
<1>2. call \in Edicion /\ call.lista = leida
  <2>1. leida \in Seq(Clave) /\ IsInjective(leida)
    BY EmptyList DEF Seguidos, ContactsInv
  <2> QED BY <2>1 DEF Edicion
<1>3. cambio' = [d \in Llamador |-> IF d = c THEN <<call>> ELSE cambio[d]]
  BY <1>1 DEF ContactsInv
<1>4. cambio' \in [Llamador -> {Ninguno} \cup {<<e>> : e \in Edicion}]
  BY <1>2, <1>3 DEF ContactsInv
<1>5. /\ UNCHANGED <<lista, fecha, ahora, querida>> /\ cambios' \in 0 .. MaxCambios
      /\ turbado' \in BOOLEAN
  BY <1>1, ContactsAssumption DEF SeguirLee, ContactsInv
<1>6. ASSUME ~turbado' PROVE Undisturbed'
  <2>1. ~turbado /\ Idle /\ leida = lista
    BY <1>1, <1>6
  <2>2. \A d \in Llamador : cambio'[d] # Ninguno => d = c
    BY <1>3, <2>1 DEF Idle
  <2>3. cambio'[c][1].lista = lista'
    BY <1>2, <1>3, <1>5, <2>1
  <2>4. ToSet(lista') = querida'
    BY <1>5, <2>1 DEF ContactsInv, Undisturbed
  <2> QED BY <2>2, <2>3, <2>4 DEF Undisturbed
<1> QED BY <1>4, <1>5, <1>6 DEF ContactsInv

LEMMA SeguirPublicaKeeps ==
    ASSUME ContactsInv, NEW c \in Llamador, SeguirPublica(c) PROVE ContactsInv'
<1> PICK call : call = cambio[c][1]
  OBVIOUS
<1>1. /\ cambio[c] # Ninguno /\ lista' \in Kept(Edited(call)) /\ querida' = Wanted(call)
      /\ turbado' = (turbado \/ ahora = fecha) /\ fecha' = ahora
      /\ cambio' = [cambio EXCEPT ![c] = Ninguno] /\ ahora' = ahora /\ cambios' = cambios
  BY DEF SeguirPublica
<1>2. call \in Edicion
  BY <1>1, CallOfCaller
<1>3. /\ Edited(call) \in Seq(Clave) /\ IsInjective(Edited(call))
      /\ ToSet(Edited(call)) = (ToSet(call.lista) \ {call.clave})
                                 \cup (IF call.seguir THEN {call.clave} ELSE {})
  BY <1>2, EditedIs
<1>4. lista' \in {Edited(call), lista} /\ (ahora # fecha => lista' = Edited(call))
  BY <1>1, KeptIsOne
<1>5. /\ cambio' \in [Llamador -> {Ninguno} \cup {<<e>> : e \in Edicion}]
      /\ \A d \in Llamador : cambio'[d] # Ninguno => d # c /\ cambio'[d] = cambio[d]
  BY <1>1, CallerReturns
<1>6. lista' \in Seq(Clave) /\ IsInjective(lista')
  BY <1>3, <1>4 DEF ContactsInv
<1>7. querida' \subseteq Clave /\ turbado' \in BOOLEAN
  BY <1>1, <1>2 DEF Wanted, ContactsInv, Edicion
<1>8. ASSUME ~turbado' PROVE Undisturbed'
  <2>1. Undisturbed /\ ahora # fecha
    BY <1>1, <1>8 DEF ContactsInv
  <2>2. ToSet(call.lista) = querida
    BY <1>1, <2>1 DEF Undisturbed
  <2>3. ToSet(lista') = querida'
    BY <1>1, <1>3, <1>4, <2>1, <2>2 DEF Wanted
  <2>4. \A d \in Llamador : cambio'[d] = Ninguno
    BY <1>1, <1>5, <2>1 DEF Undisturbed
  <2> QED BY <2>3, <2>4 DEF Undisturbed
<1>9. fecha' \in 0 .. MaxSegundos /\ ahora' \in 1 .. MaxSegundos /\ fecha' <= ahora'
  BY <1>1, ContactsAssumption DEF ContactsInv
<1>10. cambios' \in 0 .. MaxCambios
  BY <1>1 DEF ContactsInv
<1> QED BY <1>5, <1>6, <1>7, <1>8, <1>9, <1>10 DEF ContactsInv

LEMMA SeguirFallaKeeps ==
    ASSUME ContactsInv, NEW c \in Llamador, SeguirFalla(c) PROVE ContactsInv'
<1> PICK call : call = cambio[c][1]
  OBVIOUS
<1>1. /\ cambio[c] # Ninguno /\ cambio' = [cambio EXCEPT ![c] = Ninguno]
      /\ ahora' = ahora /\ cambios' = cambios /\ querida' = querida
  BY DEF SeguirFalla
<1>2. /\ cambio' \in [Llamador -> {Ninguno} \cup {<<e>> : e \in Edicion}]
      /\ \A d \in Llamador : cambio'[d] # Ninguno => d # c /\ cambio'[d] = cambio[d]
  BY <1>1, CallerReturns
<1>3. CASE UNCHANGED <<lista, fecha, turbado>>
  <2>1. ASSUME ~turbado' PROVE Undisturbed'
    <3>1. Undisturbed /\ lista' = lista
      BY <1>3, <2>1 DEF ContactsInv
    <3>2. ASSUME NEW d \in Llamador, cambio'[d] # Ninguno
          PROVE  cambio'[d] = cambio[d] /\ cambio'[d][1].lista = lista'
      BY <1>2, <3>1, <3>2 DEF Undisturbed
    <3> QED BY <1>1, <1>2, <3>1, <3>2 DEF Undisturbed
  <2> QED BY <1>1, <1>2, <1>3, <2>1 DEF ContactsInv
<1>4. CASE lista' \in Kept(Edited(call)) /\ fecha' = ahora /\ turbado' = TRUE
  <2>1. Edited(call) \in Seq(Clave) /\ IsInjective(Edited(call))
    BY <1>1, CallOfCaller, EditedIs
  <2>2. lista' \in {Edited(call), lista}
    BY <1>4, KeptIsOne
  <2>3. fecha' \in 0 .. MaxSegundos /\ ahora' \in 1 .. MaxSegundos /\ fecha' <= ahora'
    BY <1>1, <1>4, ContactsAssumption DEF ContactsInv
  <2> QED BY <1>1, <1>2, <1>4, <2>1, <2>2, <2>3 DEF ContactsInv
<1> QED BY <1>3, <1>4 DEF SeguirFalla

LEMMA ContactsKept == ContactsInv /\ (ContactsNext \/ UNCHANGED contacts) => ContactsInv'
<1> SUFFICES ASSUME ContactsInv, ContactsNext \/ UNCHANGED contacts PROVE ContactsInv'
  OBVIOUS
<1>1. CASE Tick
  <2>1. ahora' \in 1 .. MaxSegundos /\ fecha' = fecha /\ fecha' <= ahora'
    BY <1>1, ContactsAssumption DEF Tick, ContactsInv
  <2> QED BY <1>1, <2>1 DEF Tick, ContactsInv, Undisturbed
<1>2. CASE UNCHANGED contacts
  BY <1>2 DEF contacts, ContactsInv, Undisturbed
<1> QED BY <1>1, <1>2, SeguirLeeKeeps, SeguirPublicaKeeps, SeguirFallaKeeps DEF ContactsNext

LEMMA ContactsInvHolds == Spec => []ContactsInv
<1>1. Init => ContactsInv
  <2> SUFFICES ASSUME ContactsInit PROVE ContactsInv
    BY DEF Init
  <2>1. fecha \in 0 .. MaxSegundos /\ ahora \in 1 .. MaxSegundos /\ fecha <= ahora
    BY ContactsAssumption DEF ContactsInit
  <2>2. cambios \in 0 .. MaxCambios
    BY ContactsAssumption DEF ContactsInit
  <2> QED BY <2>1, <2>2, EmptyList DEF ContactsInit, ContactsInv, Undisturbed
<1> QED BY <1>1, ContactsKept, StepOfContacts, PTL DEF Spec

\* gestion.rs, seguir: with any number of callers and keys, no key stands in the list twice;
\* and it is what was asked for while no call overlaps another, reads too little, comes in
\* the second of the last list or fails halfway.
THEOREM ListIsKept == Spec => []FollowsAreKept
<1>1. ContactsInv => FollowsAreKept
  BY DEF ContactsInv, FollowsAreKept, Undisturbed
<1> QED BY <1>1, ContactsInvHolds, PTL

-----------------------------------------------------------------------------
(* The types of the account file and of the shared chat.                   *)

LEMMA AccountTyped == AccountTypeOK /\ (AccountNext \/ UNCHANGED account) => AccountTypeOK'
<1> SUFFICES ASSUME AccountTypeOK, AccountNext \/ UNCHANGED account PROVE AccountTypeOK'
  OBVIOUS
<1> USE AccountAssumption DEF AccountTypeOK, Archivo
<1>1. ASSUME NEW pin \in Pin, NEW cuenta \in Cuenta, GuardarCuenta(pin, cuenta)
      PROVE  AccountTypeOK'
  BY <1>1 DEF GuardarCuenta
<1>2. CASE EscribeParte
  BY <1>2 DEF EscribeParte
<1>3. CASE EscribeTodo
  BY <1>3 DEF EscribeTodo
<1>4. CASE EscribeFalla
  BY <1>4 DEF EscribeFalla
<1>5. ASSUME NEW pin \in Pin, CargarCuenta(pin) PROVE AccountTypeOK'
  BY <1>5 DEF CargarCuenta
<1>6. CASE UNCHANGED account
  BY <1>6 DEF account
<1> QED BY <1>1, <1>2, <1>3, <1>4, <1>5, <1>6 DEF AccountNext

\* A mutex is held by a thread whose call has taken it before, and which is no start.
Took(h, c) ==
    /\ llamada[h] # Nadie /\ llamada[h].op # "init"
    /\ \E i \in 1 .. 4 : /\ i < llamada[h].paso /\ i <= Len(Locks(llamada[h].op))
                         /\ Locks(llamada[h].op)[i] = c

HeldInv ==
    /\ dueno \in [Campo -> Hilo \cup {Nadie}]
    /\ \A h \in Hilo, c \in Campo : dueno[c] = h => Took(h, c)

LEMMA LocksDiffer ==
    ASSUME NEW op \in {"init", "send", "poll", "disconnect"}
    PROVE  /\ Len(Locks(op)) \in 1 .. 4
           /\ \A i \in 1 .. Len(Locks(op)) :
                /\ Locks(op)[i] \in Campo
                /\ \A j \in 1 .. Len(Locks(op)) : Locks(op)[i] = Locks(op)[j] => i = j
BY DEF Locks, Campo

\* A call waits for a mutex it does not hold.
LEMMA WaitsForOthers ==
    ASSUME CallsInv, HeldInv, NEW h \in Hilo, Pending(h)
    PROVE  /\ llamada[h] \in Llamada /\ NextLock(h) \in Campo /\ dueno[NextLock(h)] # h
           /\ llamada[h].paso \in 1 .. Len(Locks(llamada[h].op))
           /\ Len(Locks(llamada[h].op)) \in 1 .. 4
<1>1. llamada[h] \in Llamada
  BY DEF Pending, CallsInv
<1> PICK op \in {"init", "send", "poll", "disconnect"} : op = llamada[h].op
  BY <1>1 DEF Llamada
<1> PICK paso \in 1 .. 5 : paso = llamada[h].paso
  BY <1>1 DEF Llamada
<1>2. paso \in 1 .. Len(Locks(op)) /\ Len(Locks(op)) \in 1 .. 4
  BY LocksDiffer DEF Pending
<1>3. NextLock(h) = Locks(op)[paso] /\ Locks(op)[paso] \in Campo
  BY <1>2, LocksDiffer DEF NextLock
<1>4. ASSUME dueno[Locks(op)[paso]] = h PROVE FALSE
  <2>1. Took(h, Locks(op)[paso])
    BY <1>3, <1>4 DEF HeldInv
  <2>2. PICK i \in 1 .. 4 : i < paso /\ i <= Len(Locks(op)) /\ Locks(op)[i] = Locks(op)[paso]
    BY <2>1 DEF Took
  <2>3. i \in 1 .. Len(Locks(op))
    BY <1>2, <2>2
  <2> QED BY <1>2, <2>2, <2>3, LocksDiffer
<1> QED BY <1>1, <1>2, <1>3, <1>4

\* What is held stays held where the thread that moves holds nothing afterwards.
LEMMA HeldByOthers ==
    ASSUME HeldInv, NEW h \in Hilo, dueno' \in [Campo -> Hilo \cup {Nadie}],
           \A c \in Campo : dueno'[c] # h /\ (dueno'[c] = Nadie \/ dueno'[c] = dueno[c]),
           \A g \in Hilo : g # h => llamada'[g] = llamada[g]
    PROVE  HeldInv'
<1>1. ASSUME NEW g \in Hilo, NEW c \in Campo, dueno'[c] = g PROVE Took(g, c)'
  <2>1. g # h /\ dueno[c] = g
    BY <1>1, SharedAssumption
  <2>2. Took(g, c) /\ llamada'[g] = llamada[g]
    BY <2>1 DEF HeldInv
  <2> QED BY <2>2 DEF Took
<1> QED BY <1>1 DEF HeldInv

LEMMA OthersUntouched ==
    ASSUME CallsInv, NEW h \in Hilo, NEW call, llamada' = [llamada EXCEPT ![h] = call]
    PROVE  \A g \in Hilo : g # h => llamada'[g] = llamada[g]
BY DEF CallsInv

LEMMA HeldKept == CallsInv /\ HeldInv /\ (SharedNext \/ UNCHANGED shared) => HeldInv'
<1> SUFFICES ASSUME CallsInv, HeldInv, SharedNext \/ UNCHANGED shared PROVE HeldInv'
  OBVIOUS
<1>1. ASSUME NEW h \in Hilo, dueno' = dueno, llamada[h] = Nadie \/ llamada[h].op = "init",
             NEW call, llamada' = [llamada EXCEPT ![h] = call]
      PROVE  HeldInv'
  <2>1. \A c \in Campo : dueno[c] # h
    BY <1>1 DEF HeldInv, Took
  <2> QED BY <1>1, <2>1, OthersUntouched, HeldByOthers DEF HeldInv
<1>2. ASSUME NEW h \in Hilo, Returns(h) PROVE HeldInv'
  <2>1. dueno' = [c \in Campo |-> IF dueno[c] = h THEN Nadie ELSE dueno[c]]
    BY <1>2 DEF Returns
  <2>2. \A c \in Campo : dueno'[c] # h /\ (dueno'[c] = Nadie \/ dueno'[c] = dueno[c])
    BY <2>1, SharedAssumption
  <2>3. dueno' \in [Campo -> Hilo \cup {Nadie}]
    BY <2>1 DEF HeldInv
  <2> QED BY <1>2, <2>2, <2>3, OthersUntouched, HeldByOthers DEF Returns
<1>3. ASSUME NEW h \in Hilo, NEW sesion \in Sesion, StartInit(h, sesion) PROVE HeldInv'
  BY <1>1, <1>3 DEF StartInit, Call
<1>4. ASSUME NEW h \in Hilo, StartOther(h) PROVE HeldInv'
  BY <1>1, <1>4 DEF StartOther, Call
<1>5. ASSUME NEW h \in Hilo, InitFails(h) \/ InitReturns(h) PROVE HeldInv'
  BY <1>1, <1>5 DEF InitFails, InitReturns, Runs
<1>6. ASSUME NEW h \in Hilo, InitStores(h) PROVE HeldInv'
  <2>1. \E call : llamada' = [llamada EXCEPT ![h] = call]
    BY <1>6 DEF InitStores
  <2> QED BY <1>1, <1>6, <2>1 DEF InitStores, Runs
<1>7. ASSUME NEW h \in Hilo, TakeLock(h) PROVE HeldInv'
  <2> PICK lock : lock = NextLock(h)
    OBVIOUS
  <2>1. /\ Pending(h) /\ llamada[h] # Nadie /\ llamada[h].op # "init" /\ dueno[lock] = Nadie
        /\ dueno' = [dueno EXCEPT ![lock] = h]
        /\ llamada' = [llamada EXCEPT ![h].paso = @ + 1]
    BY <1>7 DEF TakeLock, Runs, Pending
  <2>2. /\ llamada[h] \in Llamada /\ lock \in Campo
        /\ llamada[h].paso \in 1 .. Len(Locks(llamada[h].op))
        /\ Len(Locks(llamada[h].op)) \in 1 .. 4
    BY <2>1, WaitsForOthers
  <2> PICK n \in 1 .. 4 : n = Len(Locks(llamada[h].op))
    BY <2>2
  <2> PICK paso \in 1 .. n : paso = llamada[h].paso
    BY <2>2
  <2>0. paso \in 1 .. 4
    <3>1. \A i \in 1 .. 4 : \A j \in 1 .. i : j \in 1 .. 4
      OBVIOUS
    <3> QED BY <3>1, Zenon
  <2>3. dueno' \in [Campo -> Hilo \cup {Nadie}]
    BY <2>1, <2>2 DEF HeldInv
  <2>4. /\ llamada'[h].op = llamada[h].op /\ llamada'[h].paso = paso + 1
        /\ llamada'[h] # Nadie
        /\ \A g \in Hilo : g # h => llamada'[g] = llamada[g]
    <3>1. /\ llamada'[h] = [llamada[h] EXCEPT !.paso = @ + 1]
          /\ \A g \in Hilo : g # h => llamada'[g] = llamada[g]
      BY <2>1 DEF CallsInv
    <3> PICK call \in Llamada : call = llamada[h]
      BY <2>2
    <3>2. [call EXCEPT !.paso = @ + 1] \in Llamada
      <4>1. call.paso + 1 \in 1 .. 5
        BY <2>0, <2>2
      <4> QED BY <4>1 DEF Llamada
    <3>3. [call EXCEPT !.paso = @ + 1].op = call.op
      BY DEF Llamada
    <3>4. [call EXCEPT !.paso = @ + 1].paso = call.paso + 1
      BY DEF Llamada
    <3> QED BY <3>1, <3>2, <3>3, <3>4, SharedAssumption
  <2>5. ASSUME NEW g \in Hilo, NEW c \in Campo, dueno'[c] = g PROVE Took(g, c)'
    <3>1. CASE c = lock
      <4>1. g = h
        BY <2>1, <2>2, <2>5, <3>1 DEF HeldInv
      <4>2. paso <= Len(Locks(llamada[h].op)) /\ Locks(llamada[h].op)[paso] = c
        BY <2>2, <3>1 DEF NextLock
      <4>3. paso < paso + 1
        BY <2>0
      <4> QED BY <2>0, <2>1, <2>4, <4>1, <4>2, <4>3 DEF Took
    <3>2. CASE c # lock
      <4>1. Took(g, c)
        BY <2>1, <2>5, <3>2 DEF HeldInv
      <4>2. CASE g = h
        <5>1. PICK i \in 1 .. 4 : /\ i < paso /\ i <= Len(Locks(llamada[h].op))
                                  /\ Locks(llamada[h].op)[i] = c
          BY <4>1, <4>2 DEF Took
        <5>2. i < paso + 1
          BY <2>0, <5>1
        <5> QED BY <2>1, <2>4, <4>2, <5>1, <5>2 DEF Took
      <4>3. CASE g # h
        BY <2>4, <4>1, <4>3 DEF Took
      <4> QED BY <4>2, <4>3
    <3> QED BY <3>1, <3>2
  <2> QED BY <2>3, <2>5 DEF HeldInv
<1>8. CASE UNCHANGED <<dueno, llamada>>
  BY <1>8 DEF HeldInv, Took
<1> QED BY <1>2, <1>3, <1>4, <1>5, <1>6, <1>7, <1>8
        DEF SharedNext, SharedStep, Sends, Polls, Disconnects, Arrive, shared

Claves == {s.clave : s \in Sesion}
Quien == {s.quien : s \in Sesion}

FieldsTyped ==
    /\ campo["client"] \in Sesion \cup {Nadie} /\ campo["notifications"] \in Sesion \cup {Nadie}
    /\ campo["shared_keys"] \in Claves \cup {Nadie} /\ campo["sender_keys"] \in Quien \cup {Nadie}

Written(m) == m.clave \in Claves /\ (m.quien = Nadie => m \in Antiguos)

MessagesTyped ==
    /\ \A m \in enviados : Written(m)
    /\ leidos \cup entregados \cup descartados \subseteq llegados /\ llegados \subseteq enviados
    /\ solapadas \in BOOLEAN /\ torcido \in BOOLEAN
    /\ llamadas \in 0 .. MaxLlamadas

LEMMA FieldsStayTyped ==
    CallsInv /\ FieldsTyped /\ (SharedNext \/ UNCHANGED shared) => FieldsTyped'
<1> SUFFICES ASSUME CallsInv, FieldsTyped, SharedNext \/ UNCHANGED shared PROVE FieldsTyped'
  OBVIOUS
<1>1. ASSUME NEW h \in Hilo, InitStores(h) PROVE FieldsTyped'
  <2> PICK s \in Sesion : s = llamada[h].sesion
    BY <1>1 DEF InitStores, CallsInv, Starting
  <2> PICK lock : lock = NextLock(h)
    OBVIOUS
  <2>1. campo' = [c \in Campo |-> IF c = lock THEN Guardado(lock, s) ELSE campo[c]]
    BY <1>1 DEF InitStores, CallsInv
  <2>2. /\ Guardado("client", s) \in Sesion /\ Guardado("notifications", s) \in Sesion
        /\ Guardado("shared_keys", s) \in Claves /\ Guardado("sender_keys", s) \in Quien
    BY DEF Guardado, Claves, Quien
  <2>3. ASSUME NEW c \in Campo PROVE campo'[c] \in {Guardado(c, s), campo[c]}
    BY <2>1
  <2> QED BY <2>2, <2>3 DEF FieldsTyped, Campo
<1>2. CASE UNCHANGED campo
  BY <1>2 DEF FieldsTyped
<1> QED BY <1>1, <1>2
        DEF SharedNext, SharedStep, StartInit, InitFails, InitReturns, StartOther, TakeLock,
            Sends, Polls, Disconnects, Arrive, shared

LEMMA MessagesStayTyped ==
    FieldsTyped /\ MessagesTyped /\ (SharedNext \/ UNCHANGED shared) => MessagesTyped'
<1> SUFFICES ASSUME FieldsTyped, MessagesTyped, SharedNext \/ UNCHANGED shared
             PROVE  MessagesTyped'
  OBVIOUS
<1>0. Antiguos' = Antiguos
  BY DEF Antiguos
<1>1. ASSUME NEW h \in Hilo, NEW op, NEW sesion, Call(h, op, sesion),
             UNCHANGED <<enviados, recibido, torcido>>, solapadas' \in BOOLEAN
      PROVE  MessagesTyped'
  <2>1. llamadas' \in 0 .. MaxLlamadas
    BY <1>1, SharedAssumption DEF Call, MessagesTyped
  <2> QED BY <1>0, <1>1, <2>1 DEF MessagesTyped, recibido, Written
<1>2. ASSUME NEW h \in Hilo, NEW sesion \in Sesion, StartInit(h, sesion) PROVE MessagesTyped'
  BY <1>1, <1>2 DEF StartInit, MessagesTyped
<1>3. ASSUME NEW h \in Hilo, StartOther(h) PROVE MessagesTyped'
  BY <1>1, <1>3 DEF StartOther, MessagesTyped
<1>4. ASSUME NEW h \in Hilo, InitStores(h) PROVE MessagesTyped'
  <2>1. \/ llegados' = {} /\ entregados' = {} /\ leidos' = {}
        \/ UNCHANGED recibido
    BY <1>4 DEF InitStores
  <2> QED BY <1>0, <1>4, <2>1 DEF InitStores, MessagesTyped, recibido, Written
<1>5. ASSUME NEW h \in Hilo, Sends(h) PROVE MessagesTyped'
  <2> PICK m : m = [n |-> Cardinality(enviados), clave |-> campo.shared_keys,
                    quien |-> campo.sender_keys]
    OBVIOUS
  <2>1. CASE CanSend
    <3>1. campo["shared_keys"] \in Claves /\ campo["sender_keys"] # Nadie
      BY <2>1 DEF CanSend, FieldsTyped
    <3>2. Written(m)
      BY <3>1 DEF Written
    <3>3. enviados' = enviados \cup {m} /\ torcido' \in BOOLEAN
      BY <1>5, <2>1 DEF Sends
    <3> QED BY <1>0, <1>5, <3>2, <3>3 DEF Sends, MessagesTyped, recibido, Written
  <2>2. CASE ~CanSend
    BY <1>0, <1>5, <2>2 DEF Sends, MessagesTyped, recibido, Written
  <2> QED BY <2>1, <2>2
<1>6. ASSUME NEW h \in Hilo, Polls(h) PROVE MessagesTyped'
  <2>1. \/ UNCHANGED recibido
        \/ /\ leidos' \subseteq leidos \cup entregados /\ entregados' = {}
           /\ llegados' = llegados
    BY <1>6 DEF Polls
  <2> QED BY <1>0, <1>6, <2>1 DEF Polls, MessagesTyped, recibido, Written
<1>7. ASSUME NEW m \in enviados, Arrive(m) PROVE MessagesTyped'
  BY <1>0, <1>7 DEF Arrive, MessagesTyped, Written
<1>8. CASE UNCHANGED <<enviados, recibido, solapadas, torcido, llamadas>>
  BY <1>0, <1>8 DEF MessagesTyped, recibido, Written
<1> QED BY <1>2, <1>3, <1>4, <1>5, <1>6, <1>7, <1>8
        DEF SharedNext, SharedStep, InitFails, InitReturns, TakeLock, Disconnects, shared

SharedTypes == HeldInv /\ FieldsTyped /\ MessagesTyped

LEMMA SharedTypesHold == Spec => [](CallsInv /\ SharedTypes)
<1>1. Init => SharedTypes
  <2> SUFFICES ASSUME SharedInit PROVE SharedTypes
    BY DEF Init
  <2>1. HeldInv
    BY SharedAssumption DEF SharedInit, HeldInv
  <2>2. FieldsTyped
    BY DEF SharedInit, FieldsTyped, Campo
  <2>3. \A m \in Antiguos : Written(m)
    BY DEF Antiguos, Written, Claves
  <2>4. MessagesTyped
    <3>1. llamadas \in 0 .. MaxLlamadas
      BY SharedAssumption DEF SharedInit
    <3> QED BY <2>3, <3>1 DEF SharedInit, MessagesTyped
  <2> QED BY <2>1, <2>2, <2>4 DEF SharedTypes
<1>2. [Next]_vars => SharedNext \/ UNCHANGED shared
  BY DEF Next, vars, Inbox, Shared
<1>3. CallsInv /\ SharedTypes /\ [Next]_vars => SharedTypes'
  BY <1>2, HeldKept, FieldsStayTyped, MessagesStayTyped DEF SharedTypes
<1>4. SharedInv => CallsInv
  BY DEF SharedInv
<1> QED BY <1>1, <1>3, <1>4, SharedInvHolds, PTL DEF Spec

LEMMA SharedTyped == CallsInv /\ SharedTypes => SharedTypeOK
BY WaitsForOthers
   DEF SharedTypes, HeldInv, FieldsTyped, MessagesTyped, CallsInv, Written, Claves, Quien,
       SharedTypeOK

-----------------------------------------------------------------------------
(* The mutexes never close a circle: whoever keeps one while it waits for  *)
(* another waits for one that comes later on the way client, sender_keys,  *)
(* shared_keys or notifications, shared_keys.                              *)

\* Nothing but the network is between the call of h and its next step.
GoesOn(h) ==
    /\ llamada[h] # Nadie
    /\ IF Pending(h) THEN dueno[NextLock(h)] = Nadie
       ELSE Runs(h, "init") => dueno["shared_keys"] = Nadie

SomeCallGoesOn ==
    (\E h \in Hilo : llamada[h] # Nadie) => \E h \in Hilo : GoesOn(h)

\* What the holder of a mutex waits for, if for anything.
LEMMA WaitsFurther ==
    ASSUME CallsInv, HeldInv, NEW h \in Hilo, NEW c \in Campo, dueno[c] = h
    PROVE  /\ llamada[h] # Nadie /\ ~Runs(h, "init")
           /\ c = "shared_keys" => ~Pending(h)
           /\ c = "sender_keys" /\ Pending(h) => NextLock(h) = "shared_keys"
           /\ c = "client" /\ Pending(h) => NextLock(h) \in {"sender_keys", "shared_keys"}
           /\ c = "notifications" /\ Pending(h) => NextLock(h) = "shared_keys"
<1>1. Took(h, c)
  BY DEF HeldInv
<1> PICK op \in {"init", "send", "poll", "disconnect"} : op = llamada[h].op
  BY <1>1 DEF Took, CallsInv, Llamada
<1> PICK paso \in 1 .. 5 : paso = llamada[h].paso
  BY <1>1 DEF Took, CallsInv, Llamada
<1>2. op # "init" /\ llamada[h] # Nadie
  BY <1>1 DEF Took
<1>3. PICK i \in 1 .. 4 : i < paso /\ i <= Len(Locks(op)) /\ Locks(op)[i] = c
  BY <1>1 DEF Took
<1>4. CASE op = "send"
  <2>1. Locks(op) = <<"client", "sender_keys", "shared_keys">>
    BY <1>4 DEF Locks
  <2>2. Pending(h) => paso \in 2 .. 3 /\ NextLock(h) = Locks(op)[paso]
    BY <1>3, <2>1 DEF Pending, NextLock
  <2> QED BY <1>2, <1>3, <2>1, <2>2 DEF Runs
<1>5. CASE op = "poll"
  <2>1. Locks(op) = <<"notifications", "shared_keys">>
    BY <1>5 DEF Locks
  <2>2. Pending(h) => paso = 2 /\ NextLock(h) = Locks(op)[paso]
    BY <1>3, <2>1 DEF Pending, NextLock
  <2> QED BY <1>2, <1>3, <2>1, <2>2 DEF Runs
<1>6. CASE op = "disconnect"
  <2>1. Locks(op) = <<"client">>
    BY <1>6 DEF Locks
  <2>2. ~Pending(h)
    BY <1>3, <2>1 DEF Pending
  <2> QED BY <1>2, <1>3, <2>1, <2>2 DEF Runs
<1> QED BY <1>2, <1>4, <1>5, <1>6

\* nostrpeer.rs, SharedKeyChat: start, send, poll and disconnect take its mutexes in
\* orders of their own, and still there is never a moment at which all calls wait for each
\* other.  (That each of them returns is CallsReturn, under fairness.)
THEOREM LocksLeadOn == Spec => []SomeCallGoesOn
<1>1. CallsInv /\ HeldInv => SomeCallGoesOn
  <2> SUFFICES ASSUME CallsInv, HeldInv, NEW h \in Hilo, llamada[h] # Nadie
               PROVE  \E g \in Hilo : GoesOn(g)
    BY DEF SomeCallGoesOn
  <2>1. \A c \in Campo : dueno[c] # Nadie => dueno[c] \in Hilo
    BY DEF HeldInv
  <2>2. CASE dueno["shared_keys"] # Nadie
    <3> PICK g \in Hilo : g = dueno["shared_keys"]
      BY <2>1, <2>2 DEF Campo
    <3>1. GoesOn(g)
      BY WaitsFurther DEF GoesOn, Campo
    <3> QED BY <3>1
  <2>3. CASE dueno["shared_keys"] = Nadie /\ dueno["sender_keys"] # Nadie
    <3> PICK g \in Hilo : g = dueno["sender_keys"]
      BY <2>1, <2>3 DEF Campo
    <3>1. GoesOn(g)
      BY <2>3, WaitsFurther DEF GoesOn, Campo
    <3> QED BY <3>1
  <2>4. ASSUME dueno["shared_keys"] = Nadie, dueno["sender_keys"] = Nadie,
               NEW c \in {"client", "notifications"}, dueno[c] # Nadie
        PROVE  \E g \in Hilo : GoesOn(g)
    <3> PICK g \in Hilo : g = dueno[c]
      BY <2>1, <2>4 DEF Campo
    <3>1. GoesOn(g)
      BY <2>4, WaitsFurther DEF GoesOn, Campo
    <3> QED BY <3>1
  <2>5. CASE \A c \in Campo : dueno[c] = Nadie
    <3>1. Pending(h) => NextLock(h) \in Campo
      BY WaitsForOthers
    <3>2. GoesOn(h)
      BY <2>5, <3>1 DEF GoesOn, Campo
    <3> QED BY <3>2
  <2> QED BY <2>2, <2>3, <2>4, <2>5 DEF Campo
<1> QED BY <1>1, SharedTypesHold, PTL DEF SharedTypes

-----------------------------------------------------------------------------
(* The types of Nostr.                                                     *)

LEMMA InboxTyped == InboxTypes /\ ShowInv => InboxTypeOK
BY DEF InboxTypes, ShowInv, Holding, InboxTypeOK

LEMMA ContactsTyped == ContactsInv => ContactsTypeOK
<1> SUFFICES ASSUME ContactsInv PROVE ContactsTypeOK
  OBVIOUS
<1>1. ToSet(lista) \subseteq Clave
  BY RangeOfSeq DEF ToSet, Range, ContactsInv
<1>2. ASSUME NEW c \in Llamador PROVE Len(cambio[c]) <= 1
  <2>1. CASE cambio[c] = <<>>
    BY <2>1
  <2>2. CASE cambio[c] # <<>>
    <3> PICK call : cambio[c] = <<call>>
      BY <2>2 DEF ContactsInv, Ninguno
    <3>1. Len(<<call>>) = 1
      OBVIOUS
    <3> QED BY <3>1
  <2> QED BY <2>1, <2>2
<1> QED BY <1>1, <1>2 DEF ContactsInv, ContactsTypeOK

LEMMA AccountTypesHold == Spec => []AccountTypeOK
<1>1. Init => AccountTypeOK
  BY AccountAssumption DEF Init, AccountInit, AccountTypeOK
<1> QED BY <1>1, AccountTyped, StepOfAccount, PTL DEF Spec

LEMMA NostrTyped == Spec => []TypeOK
<1>1. /\ InboxTypes /\ ShowInv /\ CallsInv /\ SharedTypes /\ ContactsInv /\ AccountTypeOK
      => TypeOK
  BY InboxTyped, SharedTyped, ContactsTyped DEF TypeOK
<1> QED BY <1>1, InboxInvHolds, SharedTypesHold, ContactsInvHolds, AccountTypesHold, PTL

-----------------------------------------------------------------------------
(* The types of the agent: its iterations stay below their limit, and the  *)
(* rotation of the keys stays bounded although a refused key only adds to  *)
(* it, because a loop that was refused posts again only with a good key.   *)

Posting == {l \in Loop : loop[l].pc \in {"summary", "post"}}
MaxRotation == KeyCount - 1 + Cardinality(Loop)
KeyRing == [rotation : Nat, dead : Seq(Nat)]

RunsInv ==
    /\ agent.iterations \in 0 .. MaxIterations
    /\ \A l \in Loop : /\ loop[l].calls \in CallLists
                       /\ loop[l].pc \in {"tool", "asking"} => loop[l].calls # <<>>
    /\ keys \in KeyRing
    /\ keys.rotation + Cardinality(Posting) <= MaxRotation

LEMMA PostingCounted ==
    /\ IsFiniteSet(Posting) /\ Cardinality(Posting) \in Nat
    /\ Cardinality(Posting) <= Cardinality(Loop) /\ Cardinality(Loop) \in Nat
    /\ \A l \in Loop : /\ IsFiniteSet(Posting \ {l}) /\ Cardinality(Posting \ {l}) \in Nat
                       /\ Cardinality(Posting \ {l}) =
                            Cardinality(Posting) - (IF l \in Posting THEN 1 ELSE 0)
<1>1. IsFiniteSet(Loop) /\ Posting \subseteq Loop
  BY AgentAssumption DEF Posting
<1>2. IsFiniteSet(Posting) /\ Cardinality(Posting) <= Cardinality(Loop)
  BY <1>1, FS_Subset
<1>3. Cardinality(Posting) \in Nat /\ Cardinality(Loop) \in Nat
  BY <1>1, <1>2, FS_CardinalityType
<1>4. ASSUME NEW l \in Loop
      PROVE  /\ IsFiniteSet(Posting \ {l}) /\ Cardinality(Posting \ {l}) \in Nat
             /\ Cardinality(Posting \ {l}) =
                  Cardinality(Posting) - (IF l \in Posting THEN 1 ELSE 0)
  <2>1. /\ IsFiniteSet(Posting \ {l})
        /\ Cardinality(Posting \ {l}) =
             IF l \in Posting THEN Cardinality(Posting) - 1 ELSE Cardinality(Posting)
    BY <1>2, FS_RemoveElement
  <2>2. Cardinality(Posting \ {l}) \in Nat
    BY <2>1, FS_CardinalityType
  <2> QED BY <1>3, <2>1, <2>2
<1> QED BY <1>2, <1>3, <1>4

Moves(l, pc, calls) == loop' = [loop EXCEPT ![l] = At(pc, calls)]

LEMMA PostingMoves ==
    ASSUME loop \in Loops, NEW l \in Loop, NEW pc, NEW calls, Moves(l, pc, calls)
    PROVE  /\ Posting' = IF pc \in {"summary", "post"} THEN Posting \cup {l} ELSE Posting \ {l}
           /\ Cardinality(Posting') \in Nat /\ Cardinality(Posting') <= Cardinality(Loop)
           /\ loop'[l].pc = pc /\ loop'[l].calls = calls
           /\ \A m \in Loop : m # l => loop'[m] = loop[m]
<1>1. /\ loop'[l] = [pc |-> pc, calls |-> calls]
      /\ \A m \in Loop : m # l => loop'[m] = loop[m]
  BY DEF Loops, At, Moves
<1>2. Posting' = IF pc \in {"summary", "post"} THEN Posting \cup {l} ELSE Posting \ {l}
  BY <1>1 DEF Posting
<1>3. Posting' \subseteq Loop
  BY DEF Posting
<1>4. IsFiniteSet(Posting') /\ Cardinality(Posting') <= Cardinality(Loop)
  BY <1>3, FS_Subset, AgentAssumption
<1>5. Cardinality(Posting') \in Nat
  BY <1>4, FS_CardinalityType
<1> QED BY <1>1, <1>2, <1>4, <1>5

LEMMA NoCalls == <<>> \in CallLists
<1>1. <<>> \in [1 .. 0 -> Tool] /\ 0 \in 0 .. MaxCalls
  BY AgentAssumption
<1> QED BY <1>1 DEF CallLists

LEMMA TailOfCalls == ASSUME NEW calls \in CallLists, calls # <<>> PROVE Tail(calls) \in CallLists
<1>1. PICK n \in 0 .. MaxCalls : calls \in [1 .. n -> Tool]
  BY DEF CallLists
<1>2. calls \in Seq(Tool) /\ Len(calls) = n /\ n \in Nat
  BY <1>1, CallListsAreSequences, LenProperties, AgentAssumption
<1>3. Tail(calls) \in Seq(Tool) /\ Len(Tail(calls)) = n - 1 /\ n # 0
  BY <1>2, HeadTailProperties, EmptySeq
<1>4. Tail(calls) \in [1 .. n - 1 -> Tool] /\ n - 1 \in 0 .. MaxCalls
  <2> PICK rest \in Seq(Tool) : rest = Tail(calls)
    BY <1>3
  <2>1. rest \in [1 .. Len(rest) -> Tool] /\ Len(rest) = n - 1
    BY <1>3, LenProperties
  <2>2. n - 1 \in 0 .. MaxCalls
    BY <1>2, <1>3, AgentAssumption
  <2> QED BY <2>1, <2>2
<1> QED BY <1>4 DEF CallLists

\* The key that is used next is one of the provider's.
LEMMA NextKeyIsKey ==
    ASSUME NEW k \in KeyRing, AliveTurns(k) # {}
    PROVE  NextKey(k) \in 0 .. KeyCount - 1
<1>1. AliveTurns(k) \subseteq Nat
  BY AgentAssumption DEF AliveTurns
<1>2. \E i \in AliveTurns(k) : \A j \in AliveTurns(k) : i <= j
  BY <1>1, LeastNumber
<1>3. Min(AliveTurns(k)) \in AliveTurns(k)
  BY <1>2 DEF Min
<1>4. PICK turn \in Nat : turn = Min(AliveTurns(k))
  BY <1>1, <1>3
<1>5. PICK rotation \in Nat : rotation = k.rotation
  BY DEF KeyRing
<1>6. (rotation + turn) % KeyCount \in 0 .. KeyCount - 1
  BY AgentAssumption
<1> QED BY <1>4, <1>5, <1>6 DEF NextKey

LEMMA RoundRuns ==
    ASSUME RunsInv, loop \in Loops, NEW l \in Loop, NEW a \in Fields, NEW k \in KeyRing,
           a.iterations \in 0 .. MaxIterations,
           k.rotation + Cardinality(Posting \ {l}) <= MaxRotation, Round(l, a, k)
    PROVE  RunsInv'
<1>0. /\ MaxIterations \in Nat /\ KeyCount \in Nat /\ KeyCount > 0
      /\ k.rotation \in Nat /\ Cardinality(Loop) \in Nat
  BY AgentAssumption, PostingCounted DEF KeyRing
<1>1. PICK pc \in {"summary", "post", "off"} : Moves(l, pc, <<>>)
  BY Zenon DEF Round, Off, Moves
<1>2. /\ Posting' = IF pc \in {"summary", "post"} THEN Posting \cup {l} ELSE Posting \ {l}
      /\ Cardinality(Posting') \in Nat /\ Cardinality(Posting') <= Cardinality(Loop)
      /\ loop'[l].pc = pc /\ loop'[l].calls = <<>>
      /\ \A m \in Loop : m # l => loop'[m] = loop[m]
  BY <1>1, PostingMoves
<1>3. \A m \in Loop : /\ loop'[m].calls \in CallLists
                      /\ loop'[m].pc \in {"tool", "asking"} => loop'[m].calls # <<>>
  BY <1>2, NoCalls DEF RunsInv
<1>4. agent'.iterations \in 0 .. MaxIterations
  <2>1. CASE Continues(a)
    <3>1. a.iterations < MaxIterations
      BY <2>1 DEF Continues
    <3>2. agent'.iterations = a.iterations + 1
      <4>1. \/ agent' = [a EXCEPT !.iterations = @ + 1, !.status = "running"]
            \/ agent' = [a EXCEPT !.iterations = @ + 1, !.status = "error"]
        BY <2>1, Zenon DEF Round
      <4> QED BY <4>1 DEF Fields
    <3> QED BY <1>0, <3>1, <3>2
  <2>2. CASE ~Continues(a)
    <3> PICK s : s = AtLimit(a)
      OBVIOUS
    <3>1. agent' = [a EXCEPT !.status = s]
      BY <2>2 DEF Round
    <3>2. agent'.iterations = a.iterations
      BY <3>1 DEF Fields
    <3> QED BY <3>2
  <2> QED BY <2>1, <2>2
<1>5. keys' \in KeyRing /\ keys'.rotation + Cardinality(Posting') <= MaxRotation
  <2>1. CASE keys' = [k EXCEPT !.rotation = NextKey(k)] /\ AliveTurns(k) # {}
    <3> PICK next \in 0 .. KeyCount - 1 : next = NextKey(k)
      BY <2>1, NextKeyIsKey
    <3>1. keys' = [k EXCEPT !.rotation = next] /\ next \in Nat /\ next <= KeyCount - 1
      BY <1>0, <2>1
    <3>2. keys' \in KeyRing /\ keys'.rotation = next
      BY <3>1 DEF KeyRing
    <3> QED BY <1>0, <1>2, <3>1, <3>2 DEF MaxRotation
  <2>2. CASE keys' = k /\ Moves(l, "off", <<>>)
    <3>1. Posting' = Posting \ {l}
      BY <2>2, PostingMoves
    <3> QED BY <2>2, <3>1
  <2> QED BY <2>1, <2>2, Zenon DEF Round, Off, Moves
<1> QED BY <1>3, <1>4, <1>5 DEF RunsInv

\* A loop that moves on with the keys as they are.
LEMMA RestRuns ==
    ASSUME RunsInv, loop \in Loops, NEW l \in Loop, NEW pc \in Await \ {"summary", "post"},
           NEW calls \in CallLists, pc \in {"tool", "asking"} => calls # <<>>,
           Moves(l, pc, calls), keys' = keys, agent'.iterations = agent.iterations
    PROVE  RunsInv'
<1>1. /\ Posting' = Posting \ {l}
      /\ loop'[l].pc = pc /\ loop'[l].calls = calls
      /\ \A m \in Loop : m # l => loop'[m] = loop[m]
  <2>1. pc \notin {"summary", "post"}
    OBVIOUS
  <2>2. /\ Posting' = IF pc \in {"summary", "post"} THEN Posting \cup {l} ELSE Posting \ {l}
        /\ loop'[l].pc = pc /\ loop'[l].calls = calls
        /\ \A m \in Loop : m # l => loop'[m] = loop[m]
    BY PostingMoves
  <2> QED BY <2>1, <2>2
<1>2. /\ Cardinality(Posting') \in Nat /\ Cardinality(Posting) \in Nat
      /\ Cardinality(Posting') <= Cardinality(Posting)
  <2>1. Cardinality(Posting \ {l}) = Cardinality(Posting) - (IF l \in Posting THEN 1 ELSE 0)
    BY PostingCounted
  <2>2. Cardinality(Posting \ {l}) \in Nat /\ Cardinality(Posting) \in Nat
    BY PostingCounted
  <2> QED BY <1>1, <2>1, <2>2
<1>3. PICK rotation \in Nat : rotation = keys.rotation /\ rotation = keys'.rotation
  BY DEF RunsInv, KeyRing
<1>4. keys'.rotation + Cardinality(Posting') <= MaxRotation
  <2>1. MaxRotation \in Int
    BY AgentAssumption, PostingCounted DEF MaxRotation
  <2> QED BY <1>2, <1>3, <2>1 DEF RunsInv
<1>5. \A m \in Loop : /\ loop'[m].calls \in CallLists
                      /\ loop'[m].pc \in {"tool", "asking"} => loop'[m].calls # <<>>
  BY <1>1 DEF RunsInv
<1> QED BY <1>4, <1>5 DEF RunsInv

LEMMA RoomWithout ==
    ASSUME RunsInv, NEW l \in Loop
    PROVE  keys \in KeyRing /\ keys.rotation + Cardinality(Posting \ {l}) <= MaxRotation
<1>1. PICK rotation \in Nat : rotation = keys.rotation /\ keys \in KeyRing
  BY DEF RunsInv, KeyRing
<1>2. MaxRotation \in Int
  BY AgentAssumption, PostingCounted DEF MaxRotation
<1>3. Cardinality(Posting \ {l}) = Cardinality(Posting) - (IF l \in Posting THEN 1 ELSE 0)
  BY PostingCounted
<1>4. Cardinality(Posting \ {l}) \in Nat /\ Cardinality(Posting) \in Nat
  BY PostingCounted
<1>5. rotation + Cardinality(Posting) <= MaxRotation
  BY <1>1 DEF RunsInv
<1> QED BY <1>1, <1>2, <1>3, <1>4, <1>5

LEMMA WorkRuns ==
    ASSUME RunsInv, loop \in Loops, NEW l \in Loop, NEW a \in Fields,
           a.iterations = agent.iterations, NEW calls \in CallLists, Work(l, a, keys, calls)
    PROVE  RunsInv'
<1>1. CASE Round(l, a, keys)
  BY <1>1, RoundRuns, RoomWithout DEF RunsInv
<1>2. CASE /\ calls # <<>> /\ agent' = a /\ keys' = keys
           /\ Moves(l, "tool", calls)
  BY <1>2, RestRuns DEF Await
<1>3. CASE /\ calls # <<>> /\ agent' = Asked(a, l, Head(calls)) /\ keys' = keys
           /\ Moves(l, "asking", calls)
  <2> PICK h : h = Head(calls)
    OBVIOUS
  <2>1. agent' = [a EXCEPT !.pending = h, !.status = "waitingPermission", !.waiter = l]
    BY <1>3 DEF Asked
  <2>2. agent'.iterations = agent.iterations
    BY <2>1 DEF Fields
  <2> QED BY <1>3, <2>2, RestRuns DEF Await
<1> QED BY <1>1, <1>2, <1>3, Zenon DEF Work, Moves

LEMMA LoopRuns == ASSUME AskInv, RunsInv, NEW l \in Loop, LoopStep(l) PROVE RunsInv'
<1>0. agent \in Fields /\ loop \in Loops
  BY DEF AskInv
<1>1. CASE Refused(l)
  <2> PICK k : k = MarkedDead(keys)
    OBVIOUS
  <2>1. loop[l].pc = "post" /\ Round(l, agent, k)
    BY <1>1 DEF Refused
  <2>2. l \in Posting
    BY <2>1 DEF Posting
  <2>3. PICK rotation \in Nat : rotation = keys.rotation /\ keys.dead \in Seq(Nat)
    BY DEF RunsInv, KeyRing
  <2>4. k \in KeyRing /\ k.rotation = rotation + 1
    <3>1. Append(keys.dead, rotation) \in Seq(Nat)
      BY <2>3, AppendProperties
    <3>2. PICK dead \in Seq(Nat) : k = [rotation |-> rotation + 1, dead |-> dead]
      BY <2>3, <3>1 DEF MarkedDead
    <3> QED BY <3>2 DEF KeyRing
  <2>5. k.rotation + Cardinality(Posting \ {l}) <= MaxRotation
    <3>1. MaxRotation \in Int
      BY AgentAssumption, PostingCounted DEF MaxRotation
    <3>2. /\ Cardinality(Posting \ {l}) = Cardinality(Posting) - 1
          /\ Cardinality(Posting) \in Nat
      BY <2>2, PostingCounted
    <3>3. rotation + Cardinality(Posting) <= MaxRotation
      BY <2>3 DEF RunsInv
    <3> QED BY <2>3, <2>4, <3>1, <3>2, <3>3
  <2>6. agent.iterations \in 0 .. MaxIterations
    BY DEF RunsInv
  <2> QED BY <1>0, <2>1, <2>4, <2>5, <2>6, RoundRuns
<1>2. CASE \E status \in {"error", "idle"} : loop[l].pc = "post" /\ Ends(l, status)
  <2>1. PICK status : agent' = [agent EXCEPT !.status = status]
    BY <1>2, Zenon DEF Ends
  <2>2. agent'.iterations = agent.iterations
    BY <1>0, <2>1 DEF Fields
  <2>3. Moves(l, "off", <<>>) /\ keys' = keys
    BY <1>2, Zenon DEF Ends, Off, Moves
  <2> QED BY <1>0, <2>2, <2>3, NoCalls, RestRuns DEF Await
<1>3. CASE ToolCalls(l)
  BY <1>0, <1>3, WorkRuns DEF ToolCalls
<1>4. CASE BadReply(l)
  <2>1. Moves(l, "dead", <<>>) /\ keys' = keys /\ agent' = agent
    BY <1>4, Zenon DEF BadReply, Moves
  <2> QED BY <1>0, <2>1, NoCalls, RestRuns DEF Await
<1>5. CASE ToolDone(l)
  <2>1. Work(l, agent, keys, Tail(loop[l].calls)) /\ loop[l].calls # <<>>
    BY <1>5 DEF ToolDone, RunsInv
  <2>2. Tail(loop[l].calls) \in CallLists
    BY <2>1, TailOfCalls DEF RunsInv
  <2> QED BY <1>0, <2>1, <2>2, WorkRuns
<1>6. CASE Summed(l)
  <2>1. loop[l].pc = "summary" /\ Moves(l, "post", <<>>) /\ agent' = agent /\ keys' = keys
    BY <1>6 DEF Summed, Moves
  <2>2. /\ Posting' = Posting \cup {l} /\ loop'[l].pc = "post" /\ loop'[l].calls = <<>>
        /\ \A m \in Loop : m # l => loop'[m] = loop[m]
    BY <1>0, <2>1, PostingMoves
  <2>3. Posting' = Posting
    BY <2>1, <2>2 DEF Posting
  <2>4. \A m \in Loop : /\ loop'[m].calls \in CallLists
                        /\ loop'[m].pc \in {"tool", "asking"} => loop'[m].calls # <<>>
    BY <2>2, NoCalls DEF RunsInv
  <2> QED BY <2>1, <2>3, <2>4 DEF RunsInv
<1> QED BY <1>1, <1>2, <1>3, <1>4, <1>5, <1>6 DEF LoopStep, PostFails, FinalAnswer

LEMMA ResumedRuns ==
    ASSUME NEW a \in Fields
    PROVE  Resumed(a) \in Fields /\ Resumed(a).iterations = a.iterations
BY ResumedIsFree DEF Resumed, Fields

LEMMA ScreenRuns ==
    ASSUME AskInv, RunsInv,
           \/ \E l \in Loop : Talk(l)
           \/ \E granted \in BOOLEAN : ResolvePermission(granted)
           \/ Stop \/ Revive \/ RemoveAgent
    PROVE  RunsInv'
<1>0. agent \in Fields /\ loop \in Loops /\ Asking(agent)
  BY DEF AskInv
<1>1. ASSUME NEW l \in Loop, Talk(l) PROVE RunsInv'
  <2> PICK a : a = [agent EXCEPT !.stopFlag = FALSE, !.iterations = 0]
    OBVIOUS
  <2>1. Round(l, a, keys)
    BY <1>1 DEF Talk
  <2>2. a \in Fields /\ a.iterations = 0
    BY <1>0 DEF Fields
  <2>3. a.iterations \in 0 .. MaxIterations
    BY <2>2, AgentAssumption
  <2> QED BY <1>0, <2>1, <2>2, <2>3, RoundRuns, RoomWithout
<1>2. ASSUME NEW granted \in BOOLEAN, ResolvePermission(granted) PROVE RunsInv'
  <2> PICK w : w = agent.waiter
    OBVIOUS
  <2>1. w \in Loop /\ loop[w].pc = "asking" /\ loop[w].calls # <<>>
    BY <1>0, <1>2 DEF ResolvePermission, Asking, AsksFor, Fields
  <2> PICK a : a = Resumed(agent)
    OBVIOUS
  <2>2. a \in Fields /\ a.iterations = agent.iterations
    BY <1>0, ResumedRuns
  <2>3. CASE agent' = a /\ loop' = [loop EXCEPT ![w].pc = "tool"] /\ keys' = keys
    <3>1. loop' = [loop EXCEPT ![w] = At("tool", loop[w].calls)]
      <4>1. [loop[w] EXCEPT !.pc = "tool"] = At("tool", loop[w].calls)
        BY <1>0, <2>1 DEF Loops, At
      <4>2. loop' = [loop EXCEPT ![w] = [loop[w] EXCEPT !.pc = "tool"]]
        BY <2>3
      <4> QED BY <4>1, <4>2
    <3>2. loop[w].calls \in CallLists
      BY <2>1 DEF RunsInv
    <3>3. "tool" \in Await \ {"summary", "post"} /\ agent'.iterations = agent.iterations
      BY <2>2, <2>3 DEF Await
    <3> PICK calls \in CallLists : calls = loop[w].calls
      BY <3>2
    <3>4. calls # <<>> /\ Moves(w, "tool", calls)
      BY <2>1, <3>1 DEF Moves
    <3> QED BY <1>0, <2>1, <2>3, <3>3, <3>4, RestRuns
  <2>4. CASE Work(w, a, keys, Tail(loop[w].calls))
    <3>1. Tail(loop[w].calls) \in CallLists
      BY <2>1, TailOfCalls DEF RunsInv
    <3> QED BY <1>0, <2>1, <2>2, <2>4, <3>1, WorkRuns
  <2> QED BY <1>2, <2>3, <2>4 DEF ResolvePermission
<1>3. CASE Stop
  <2> PICK a : a = [agent EXCEPT !.stopFlag = TRUE, !.status = "stopped"]
    OBVIOUS
  <2>1. a \in Fields /\ a.iterations = agent.iterations
    BY <1>0 DEF Fields, Status
  <2>2. CASE agent' = a /\ UNCHANGED <<loop, keys>>
    BY <2>1, <2>2 DEF RunsInv, Posting
  <2>3. CASE agent.waiter # NoLoop /\ Round(agent.waiter, Resumed(a), keys)
    <3> PICK w : w = agent.waiter
      OBVIOUS
    <3>1. w \in Loop
      BY <1>0, <2>3 DEF Fields
    <3>2. Resumed(a) \in Fields /\ Resumed(a).iterations \in 0 .. MaxIterations
      BY <2>1, ResumedRuns DEF RunsInv
    <3> QED BY <1>0, <2>3, <3>1, <3>2, RoundRuns, RoomWithout
  <2> QED BY <1>3, <2>2, <2>3 DEF Stop
<1>4. CASE Revive
  <2>1. agent'.iterations = agent.iterations
    BY <1>0, <1>4 DEF Revive, Fields
  <2>2. keys' \in KeyRing /\ keys'.rotation = keys.rotation
    <3>1. PICK dead \in Seq(Nat) : dead = keys.dead
      BY DEF RunsInv, KeyRing
    <3>2. dead # <<>> => Tail(dead) \in Seq(Nat)
      BY HeadTailProperties
    <3>3. PICK rest \in Seq(Nat) : keys' = [keys EXCEPT !.dead = rest]
      BY <1>4, <3>1, <3>2 DEF Revive, Revived
    <3> QED BY <3>3 DEF RunsInv, KeyRing
  <2> QED BY <1>4, <2>1, <2>2 DEF Revive, RunsInv, Posting
<1>5. CASE RemoveAgent
  <2>1. agent'.iterations = agent.iterations
    BY <1>0, <1>5 DEF RemoveAgent, Fields
  <2> QED BY <1>5, <2>1 DEF RemoveAgent, RunsInv, Posting
<1> QED BY <1>1, <1>2, <1>3, <1>4, <1>5

LEMMA RunsInvAlways == AgentSpec => []RunsInv
<1>1. AgentInit => RunsInv
  <2> SUFFICES ASSUME AgentInit PROVE RunsInv
    OBVIOUS
  <2>1. \A l \in Loop : loop[l].pc = "off" /\ loop[l].calls = <<>>
    BY DEF AgentInit, Off, At
  <2>2. Posting = {}
    BY <2>1 DEF Posting
  <2>3. keys \in KeyRing /\ keys.rotation = 0
    BY EmptySeq DEF AgentInit, KeyRing
  <2>4. keys.rotation + Cardinality(Posting) <= MaxRotation
    BY <2>2, <2>3, FS_EmptySet, PostingCounted, AgentAssumption DEF MaxRotation
  <2>5. agent.iterations \in 0 .. MaxIterations
    BY AgentAssumption DEF AgentInit
  <2> QED BY <2>1, <2>3, <2>4, <2>5, NoCalls DEF RunsInv
<1>2. AskInv /\ RunsInv /\ [AgentNext]_agentVars => RunsInv'
  <2> SUFFICES ASSUME AskInv, RunsInv, [AgentNext]_agentVars PROVE RunsInv'
    OBVIOUS
  <2>1. CASE UNCHANGED agentVars
    BY <2>1 DEF agentVars, RunsInv, Posting
  <2> QED BY <2>1, LoopRuns, ScreenRuns DEF AgentNext
<1> QED BY <1>1, <1>2, AskInvAlways, PTL DEF AgentSpec

LEMMA AgentTyped == AskInv /\ RunsInv => AgentTypeOK
<1> SUFFICES ASSUME AskInv, RunsInv PROVE AgentTypeOK
  OBVIOUS
<1>1. agent \in [status : {"idle", "running", "waitingPermission", "stopped", "error"},
                 stopFlag : BOOLEAN, iterations : 0 .. MaxIterations,
                 pending : Tool \cup {NoTool}, waiter : Loop \cup {NoLoop},
                 listed : BOOLEAN]
  BY DEF AskInv, RunsInv, Fields, Status
<1>2. \A l \in Loop : loop[l].pc \in {"off", "summary", "post", "tool", "asking", "dead"}
  BY DEF AskInv, Loops, Await
<1>3. keys.rotation \in 0 .. KeyCount + Cardinality(Loop)
  <2> PICK rotation \in Nat : rotation = keys.rotation
    BY DEF RunsInv, KeyRing
  <2>1. rotation + Cardinality(Posting) <= KeyCount - 1 + Cardinality(Loop)
    BY DEF RunsInv, MaxRotation
  <2> QED BY <2>1, PostingCounted, AgentAssumption
<1> QED BY <1>1, <1>2, <1>3 DEF AgentTypeOK, RunsInv

\* Everything of Nostr and of the agents has its type: among it that a full receiver stays
\* within its capacity, that nobody waits for a mutex of his own, that a file that is being
\* written is there and not whole, and that the rotation of the keys stays bounded.
THEOREM ServicesTypeCorrect == ServicesSpec => []ServicesTypeOK
<1>1. AskInv /\ RunsInv /\ TypeOK => ServicesTypeOK
  BY AgentTyped DEF ServicesTypeOK
<1> QED BY <1>1, ServicesAreApart, NostrTyped, AskInvAlways, RunsInvAlways, PTL
=============================================================================
