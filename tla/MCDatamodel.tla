----------------------------- MODULE MCDatamodel ------------------------------
EXTENDS DatamodelInvariant

(* Names: 1 net, ui;  2 device;  3, 4 sources and events of device;        *)
(* 5 packetType;  6 on, the namespace's own event.                         *)
net == <<1>>
ui == <<7>>
device == <<1, 2>>
rx == <<1, 2, 3>>
tx == <<1, 2, 4>>
packetType == <<1, 5>>
onUi == <<7, 6>>

MCNames == 1 .. 7

Inner(type) == Node(type, FALSE, "-")
RootAlone == [q \in {<<>>} |-> Inner("MODEL")]

Device(id) == device :> Node("OBJECT", FALSE, id)
Net == RootAlone @@ net :> Inner("NAMESPACE")

\* A device with a source.
Rx == Net @@ Device("STRING") @@ rx :> Node("SOURCE", FALSE, "INT")
\* An event of the same device and the complex type it returns.
Tx == Net @@ Device("STRING") @@ tx :> Node("EVENT", FALSE, packetType)
        @@ packetType :> Inner("COMPLEX")
        @@ Append(packetType, 1) :> Node("INT", TRUE, "-")
        @@ Append(packetType, 2) :> Node("BYTE", FALSE, "-")
        @@ Append(packetType, 3) :> Inner("COMPLEX")
        @@ <<1, 5, 3, 1>> :> Node("FLOAT", FALSE, "-")
        @@ <<1, 5, 3, 2>> :> Node("BYTE", TRUE, "-")
        @@ Append(packetType, 4) :> Node("REF", FALSE, device)
        @@ Append(packetType, 5) :> Node("STRING", TRUE, "-")
\* Only a device without members.
Bare == Net @@ Device("STRING")
\* A device of another identifier, with a second node that is fine.
Other == Net @@ Device("INT") @@ tx :> Node("SOURCE", FALSE, "INT")
           @@ <<1, 1>> :> Node("EVENT", FALSE, "INT")
\* A namespace of its own, with an event whose type is somewhere else, and a
\* type with a struct of one member in it.
Ui == RootAlone @@ ui :> Inner("NAMESPACE") @@ onUi :> Node("EVENT", FALSE, packetType)
        @@ <<7, 7>> :> Inner("COMPLEX") @@ <<7, 7, 1>> :> Node("INT", FALSE, "-")
        @@ <<7, 7, 2>> :> Inner("COMPLEX") @@ <<7, 7, 2, 1>> :> Node("STRING", FALSE, "-")
        @@ <<7, 7, 3>> :> Node("STRING", FALSE, "-")

MCModel == [rx |-> Rx, tx |-> Tx, bare |-> Bare, other |-> Other, ui |-> Ui,
            remoteRx |-> Rx, remoteTx |-> Tx]
MCProviders == DOMAIN MCModel
MCLocal == MCProviders \ {"remoteRx", "remoteTx", "other"}
===============================================================================
