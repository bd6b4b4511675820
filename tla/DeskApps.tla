------------------------------- MODULE DeskApps -------------------------------
(***************************************************************************)
(* Four desktop applications that show a list and wait for clicks:         *)
(* the notification centre, the clipboard history, the task manager and    *)
(* the file search (apps/notificaciones.lua, portapapeles.lua,             *)
(* gestor-tareas.lua, buscador.lua).  Each is a script whose loop never    *)
(* ends, so a behaviour is one of them, chosen when it starts.             *)
(*                                                                         *)
(* A click is its coordinates.  After the buttons each script walks its    *)
(* rows and acts on the first whose tests pass.  Every walk declares a     *)
(* local y, the row's own, that hides the click's: the tests of the rows   *)
(* below are the code's, and in them y is always the row's.  Titles,       *)
(* colours, times and what is drawn are left out.                          *)
(***************************************************************************)
EXTENDS Integers, Sequences, FiniteSets

CONSTANTS Xs, Ys,            \* coordinates clicked
          MaxNotificaciones, \* 5
          MaxId,             \* bound: how many notifications are ever made
          Textos,            \* what the clipboard's button may add
          TextosIniciales,   \* the clipboard's first entries, newest first
          MaxHistorial,      \* 20
          Procesos,          \* the simulated processes, in the order of the table
          Sistema,           \* the ones of type "sistema"
          Coincide           \* [terms -> the files that match]

Terminos == {"", "app", "documento", "config"}

ASSUME DeskAssumption ==
    /\ Xs \subseteq Nat /\ Ys \subseteq Nat
    /\ MaxNotificaciones \in Nat \ {0} /\ MaxId \in Nat \ {0}
    /\ \A i \in 2 .. Len(TextosIniciales) : TextosIniciales[i] # TextosIniciales[i - 1]
    /\ MaxHistorial \in Nat /\ MaxHistorial >= Len(TextosIniciales)
    /\ Procesos \in Seq(STRING) /\ Len(Procesos) > 0 /\ Procesos[1] \in Sistema
    /\ DOMAIN Coincide = Terminos
    /\ \A t \in Terminos : IsFiniteSet(Coincide[t])
    /\ Coincide[""] = {}

VARIABLES app,                      \* the script that runs
          notificaciones, idCounter,
          atendidaCon,              \* history: id -> idCounter when the notification
                                    \* was read or closed, 0 if it was not
          historial,
          detenidos, modoVista,     \* the processes that were ended
          busqueda, resultados, modoBusqueda,
          seleccionado              \* the script's selected row, 0 for nil

noteVars == <<notificaciones, idCounter, atendidaCon>>
taskVars == <<detenidos, modoVista>>
findVars == <<busqueda, resultados, modoBusqueda>>
deskVars == <<app, noteVars, historial, taskVars, findVars, seleccionado>>

Ids == 1 .. MaxId
Apps == {"notificaciones", "portapapeles", "gestor", "buscador"}

----------------------------------------------------------------------------
In(v, lo, hi) == lo <= v /\ v <= hi
Button(x, y, x0, x1, y0, y1) == In(x, x0, x1) /\ In(y, y0, y1)

(* table.remove(s, i) *)
Without(s, i) == SubSeq(s, 1, i - 1) \o SubSeq(s, i + 1, Len(s))

(* table.insert(s, 1, x), and the last one over the limit goes *)
Pushed(s, x, max) == IF Len(s) < max THEN <<x>> \o s ELSE <<x>> \o SubSeq(s, 1, max - 1)

(* the row at which a walk returns, among those whose tests pass; the      *)
(* mutant goes on to the last of them, as a walk without its return does   *)
Primera_NoReturn(filas) == CHOOSE i \in filas : \A j \in filas : j <= i
Primera(filas) == CHOOSE i \in filas : \A j \in filas : i <= j

----------------------------------------------------------------------------
(* notificaciones.lua *)

Nueva(id) == [id |-> id, leida |-> FALSE]

agregarNotificacion ==
    /\ idCounter < MaxId
    /\ idCounter' = idCounter + 1
    /\ notificaciones' = Pushed(notificaciones, Nueva(idCounter + 1), MaxNotificaciones)
    /\ UNCHANGED atendidaCon

Atendida(id) == /\ atendidaCon' = [atendidaCon EXCEPT ![id] = idCounter]
                /\ UNCHANGED idCounter

(* both look for the first notification of that id *)
ConId(id) == {k \in DOMAIN notificaciones : notificaciones[k].id = id}

eliminarNotificacion(id) ==
    notificaciones' = Without(notificaciones, Primera(ConId(id)))
marcarComoLeida(id) ==
    notificaciones' = [notificaciones EXCEPT ![Primera(ConId(id))].leida = TRUE]

(* the "X" and the "leer" of row i *)
EnX(x, i) == LET y == 160 + (i - 1) * 70
             IN  In(x, 450, 470) /\ y + 5 >= y /\ y + 25 <= y + 25
EnLeer(x, i) == LET y == 160 + (i - 1) * 70
                IN  /\ ~notificaciones[i].leida
                    /\ In(x, 420, 470) /\ y + 35 >= y /\ y + 50 <= y + 50

Mas(x, y) == Button(x, y, 120, 240, 90, 115)
LimpiarTodo(x, y) == Button(x, y, 250, 370, 90, 115)

(* the rows' columns lie to the right of both buttons *)
clickEnNotificacion(x) ==
    LET filas == {i \in DOMAIN notificaciones : EnX(x, i) \/ EnLeer(x, i)}
        i == Primera(filas)
        id == notificaciones[i].id
    IN  /\ filas # {}
        /\ IF EnX(x, i) THEN eliminarNotificacion(id) ELSE marcarComoLeida(id)
        /\ Atendida(id)

clickNotificaciones(x, y) ==
    /\ app = "notificaciones"
    /\ \/ Mas(x, y) /\ agregarNotificacion
       \/ /\ LimpiarTodo(x, y)
          /\ notificaciones' = <<>> /\ UNCHANGED <<idCounter, atendidaCon>>
       \/ clickEnNotificacion(x)
    /\ UNCHANGED <<app, historial, taskVars, findVars, seleccionado>>

----------------------------------------------------------------------------
(* portapapeles.lua *)

(* a text that is the newest already is not added *)
Repetido(t) == historial # <<>> /\ historial[1] = t

MasTexto(x, y) == Button(x, y, 70, 190, 90, 115)
LimpiarHistorial(x, y) == Button(x, y, 200, 320, 90, 115)

(* the "copiar", the "borrar" and the rest of row i *)
Copiar(x, i) == LET y == 160 + (i - 1) * 50
                IN  In(x, 450, 510) /\ y + 10 >= y /\ y + 35 <= y + 35
Borrar(x, i) == LET y == 160 + (i - 1) * 50
                IN  In(x, 450, 510) /\ y + 35 >= y /\ y + 50 <= y + 50
Entrada(x, i) == LET y == 160 + (i - 1) * 50
                 IN  In(x, 70, 530) /\ In(y, y, y + 45)

(* the selection after row i is gone *)
SinFila(sel, i) == IF sel = i THEN 0 ELSE IF sel > i THEN sel - 1 ELSE sel

(* the walk over the history h and the selection the buttons left *)
clickEnHistorial(x, h, sel) ==
    LET filas == {i \in DOMAIN h : Copiar(x, i) \/ Borrar(x, i) \/ Entrada(x, i)}
        i == Primera(filas)
    IN  IF filas = {} \/ Copiar(x, i)
          THEN historial' = h /\ seleccionado' = sel
          ELSE IF Borrar(x, i)
            THEN historial' = Without(h, i) /\ seleccionado' = SinFila(sel, i)
            ELSE historial' = h /\ seleccionado' = i

clickPortapapeles(x, y) ==
    /\ app = "portapapeles"
    /\ \/ /\ MasTexto(x, y)
          /\ \E t \in Textos :
                LET h == IF Repetido(t) THEN historial ELSE Pushed(historial, t, MaxHistorial)
                IN  clickEnHistorial(x, h, seleccionado)
       \/ /\ LimpiarHistorial(x, y)
          /\ clickEnHistorial(x, <<>>, 0)
       \/ /\ ~MasTexto(x, y) /\ ~LimpiarHistorial(x, y)
          /\ clickEnHistorial(x, historial, seleccionado)
    /\ UNCHANGED <<app, noteVars, taskVars, findVars>>

----------------------------------------------------------------------------
(* gestor-tareas.lua: the list is rebuilt from the simulated processes, in *)
(* the same order and with the same objects, so it is Procesos throughout  *)

(* terminarProceso refuses the processes of the system *)
Protegido(p) == p \in Sistema

terminarProceso(p) == detenidos' = IF Protegido(p) THEN detenidos ELSE detenidos \cup {p}

Terminar(x, y) == Button(x, y, 160, 240, 115, 140)
Detalles(x, y) == Button(x, y, 250, 330, 115, 140)

FilaProceso(x, i) == LET y == 150 + 25 + (i - 1) * 30
                     IN  In(x, 70, 530) /\ In(y, y, y + 25)

clickEnProceso(x) ==
    LET filas == {i \in DOMAIN Procesos : FilaProceso(x, i)}
    IN  seleccionado' = IF filas = {} THEN seleccionado ELSE Primera(filas)

clickGestor(x, y) ==
    /\ app = "gestor"
    /\ \/ /\ Terminar(x, y) /\ seleccionado # 0
          /\ terminarProceso(Procesos[seleccionado])
          /\ UNCHANGED modoVista
       \/ /\ Detalles(x, y)
          /\ modoVista' = IF modoVista = "lista" THEN "detalles" ELSE "lista"
          /\ UNCHANGED detenidos
       \/ /\ ~Detalles(x, y)
          /\ ~(Terminar(x, y) /\ seleccionado # 0)
          /\ UNCHANGED taskVars
    /\ clickEnProceso(x)
    /\ UNCHANGED <<app, noteVars, historial, findVars>>

----------------------------------------------------------------------------
(* buscador.lua *)

Caja(x, y) == Button(x, y, 70, 530, 90, 120)
Buscar(x, y) == Button(x, y, 70, 150, 130, 155)
Limpiar(x, y) == Button(x, y, 160, 240, 130, 155)
Filtro(x, y) == IF Button(x, y, 310, 360, 130, 155) THEN "app"
                ELSE IF Button(x, y, 370, 430, 130, 155) THEN "documento"
                ELSE IF Button(x, y, 440, 500, 130, 155) THEN "config" ELSE ""

(* what "limpiar" leaves selected; the mutant forgets to reset it *)
TrasLimpiar_Igual == seleccionado
TrasLimpiar == 0

(* the "abrir", the "ver" and the rest of row i *)
Abrir(x, i) == LET y == 190 + (i - 1) * 60
               IN  In(x, 450, 510) /\ y + 5 >= y /\ y + 25 <= y + 25
Ver(x, i) == LET y == 190 + (i - 1) * 60
             IN  In(x, 450, 510) /\ y + 30 >= y /\ y + 50 <= y + 50
Resultado(x, i) == LET y == 190 + (i - 1) * 60
                   IN  In(x, 70, 530) /\ In(y, y, y + 55)

(* the walk comes last, over the new results: "abrir" and "ver" only show  *)
(* a message; without results the selection stays what the buttons left    *)
clickEnResultados(x, sel) ==
    LET filas == {i \in 1 .. Cardinality(resultados') :
                     Abrir(x, i) \/ Ver(x, i) \/ Resultado(x, i)}
        i == Primera(filas)
    IN  seleccionado' = IF filas = {} \/ Abrir(x, i) \/ Ver(x, i) THEN sel ELSE i

buscarArchivos(t) == busqueda' = t /\ resultados' = Coincide[t]

clickBuscador(x, y) ==
    /\ app = "buscador"
    /\ \/ /\ Caja(x, y)
          /\ modoBusqueda' = ~modoBusqueda
          /\ UNCHANGED <<busqueda, resultados>>
          /\ clickEnResultados(x, seleccionado)
       \/ /\ Buscar(x, y)
          /\ buscarArchivos(busqueda) /\ UNCHANGED modoBusqueda
          /\ clickEnResultados(x, seleccionado)
       \/ /\ Limpiar(x, y)
          /\ buscarArchivos("") /\ modoBusqueda' = FALSE
          /\ clickEnResultados(x, TrasLimpiar)
       \/ /\ Filtro(x, y) # ""
          /\ buscarArchivos(Filtro(x, y)) /\ UNCHANGED modoBusqueda
          /\ clickEnResultados(x, seleccionado)
       \/ /\ ~Caja(x, y) /\ ~Buscar(x, y) /\ ~Limpiar(x, y) /\ Filtro(x, y) = ""
          /\ UNCHANGED findVars
          /\ clickEnResultados(x, seleccionado)
    /\ UNCHANGED <<app, noteVars, historial, taskVars>>

----------------------------------------------------------------------------
DeskInit ==
    /\ app \in Apps
    /\ notificaciones = <<Nueva(1)>> /\ idCounter = 1
    /\ atendidaCon = [id \in Ids |-> 0]
    /\ historial = TextosIniciales
    /\ detenidos = {} /\ modoVista = "lista"
    /\ busqueda = "" /\ resultados = {} /\ modoBusqueda = FALSE
    /\ seleccionado = 0

DeskNext == \E x \in Xs, y \in Ys :
               \/ clickNotificaciones(x, y) \/ clickPortapapeles(x, y)
               \/ clickGestor(x, y) \/ clickBuscador(x, y)

DeskSpec == DeskInit /\ [][DeskNext]_deskVars

----------------------------------------------------------------------------
(* Properties *)

(* What lies below the first row is out of the mouse's reach, whatever is  *)
(* clicked and however long: no notification is read or closed while a     *)
(* newer one is unread (an unread one that is newer came afterwards), and  *)
(* the task manager never ends a process, since the only one it can select *)
(* is the first, kernel.lua, which it refuses to end.                      *)
BelowOutOfReach ==
    /\ \A id \in Ids, k \in DOMAIN notificaciones :
          ~notificaciones[k].leida /\ notificaciones[k].id > id
          => notificaciones[k].id > atendidaCon[id]
    /\ detenidos = {}

(* The search selects a row only under a term that was searched for, and   *)
(* the row exists unless that term matches nothing: such a search keeps    *)
(* the selection of the one before, and "limpiar" drops it.                *)
SelectionBacked ==
    app = "buscador" /\ seleccionado # 0 =>
        /\ busqueda # ""
        /\ Coincide[busqueda] # {} => seleccionado <= Cardinality(resultados)
=============================================================================
