SPECIFICATION DeskSpec
CONSTANTS
    Xs <- MCXs
    Ys <- MCYs
    MaxNotificaciones = 3
    MaxId = 7
    Textos = {"a", "b", "c"}
    TextosIniciales <- MCTextosIniciales
    MaxHistorial = 4
    Procesos <- MCProcesos
    Sistema <- MCSistema
    Coincide <- MCCoincide
INVARIANTS SelectionBacked BelowOutOfReach
