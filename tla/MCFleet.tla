-------------------------------- MODULE MCFleet --------------------------------
(* Small instances of DevicePresence and Ota: a behaviour is one of a device's *)
(* session and of what the platform shows of it, or one of the releases and    *)
(* their way to a device of each kind, and the other's variables stay.         *)
EXTENDS DevicePresence, Ota, TLC
VARIABLE side

Symmetric == Permutations(Versions)

MCInit == side \in {"presence", "ota"} /\ Init /\ OtaInit /\ (side = "ota" => kind = "c")
MCNext ==
    \/ side = "presence" /\ Next /\ UNCHANGED <<side, otaVars>>
    \/ side = "ota" /\ OtaNext /\ UNCHANGED <<side, presenceVars>>
MCSpec == MCInit /\ [][MCNext]_<<side, presenceVars, otaVars>>
=============================================================================
