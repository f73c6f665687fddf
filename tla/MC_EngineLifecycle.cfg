\* One engine slot of each kind; three load requests.
CONSTANTS
    sd = sd
    ryzen = ryzen
    Engines <- MC_Engines
    Kind <- MC_Kind
    MaxLoads <- MC_MaxLoads
SPECIFICATION Spec
INVARIANT NoOrphanChild
\* The load budget runs out with both slots empty or ready: the system stops.
CHECK_DEADLOCK FALSE
