-------------------------------- MODULE MCLink --------------------------------
EXTENDS LinkInvariant, TLC

CONSTANTS k1, k2, u, net, proc, ui, qNet, qDaemon

MCLayerOf == k1 :> Kernel @@ k2 :> Kernel @@ u :> User
MCOwnerOf == net :> k1 @@ proc :> k1 @@ ui :> u @@ qNet :> k2 @@ qDaemon :> u
MCNodeOf == qNet :> net @@ qDaemon :> net
===============================================================================
