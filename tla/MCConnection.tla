---------------------------- MODULE MCConnection ----------------------------
(* Small connections of each pair of classes for TLC. *)
EXTENDS Connection, TLC

Info(upgrade) == [resource |-> RESOURCE, upgrade |-> upgrade,
                  protocols |-> {SupportedProtocol}, versions |-> {13}]

MCMessage == 1 :> [n |-> 2, op |-> Binary, zero |-> FALSE]
          @@ 2 :> [n |-> 1, op |-> Binary, zero |-> FALSE]
          @@ 3 :> [n |-> 1, op |-> PingOp, zero |-> FALSE]
          @@ 4 :> [n |-> 3, op |-> Binary, zero |-> FALSE]
          @@ 5 :> [n |-> 0, op |-> Binary, zero |-> TRUE]
          @@ 6 :> [n |-> 1, op |-> PongOp, zero |-> FALSE]
          @@ 7 :> [n |-> 0, op |-> CloseOp, zero |-> FALSE]
          @@ 8 :> [n |-> 1, op |-> Text, zero |-> FALSE]

Config(c, s, B, info, toServer, toClient) ==
    [cls |-> [client |-> c, server |-> s], B |-> B, ssl |-> FALSE, files |-> FALSE,
     info |-> info, script |-> [client |-> toServer, server |-> toClient], faults |-> {}]

\* Raw messages: three kinds of buffer use, a size of 0, and both ends sending
\* more than the kernel holds.
Raws == {Config("DataSocket", "DataSocket", 12, Info(""), <<1, 2, 1>>, <<2>>),
         Config("DataSocket", "DataSocket", 4, Info(""), <<4, 4>>, <<>>),
         Config("DataSocket", "DataSocket", 12, Info(""), <<2, 5>>, <<>>),
         Config("DataSocketV", "DataSocketV", 3, Info(""), <<1, 2, 1, 2>>, <<>>),
         Config("DataSocketV", "DataSocketV", 3, Info(""), <<4, 4>>, <<>>)}

Both == Config("DataSocket", "DataSocket", 12, Info(""), <<1, 4>>, <<1, 4>>)

\* Upgrades: a masked buffer sent twice, a ping, a message of two frames, a
\* server that sends too, a client that asks for tcp, a request refused.
Upgraded == {Config("HBSocketClient", "HBDataSocket", 20, Info(""), <<2, 2>>, <<>>),
             Config("HBSocketClient", "HBDataSocket", 20, Info(""), <<>>, <<3, 2>>),
             Config("HBSocketClient", "HBDataSocket", 20, Info("websocket"), <<4>>, <<>>),
             Config("HBSocketClient", "HBDataSocket", 20, Info("tcp"), <<2, 1>>, <<1>>),
             Config("HBSocketClient", "HBDataSocket", 20, Info("h2c"), <<2>>, <<>>),
             Config("HBSocketClient", "WebSocket", 20, Info(""), <<2>>, <<2>>),
             Config("HBSocketClient", "WebSocket", 20, Info("tcp"), <<2>>, <<2>>)}

\* The other opcodes sendMsg may be given, over SSL.
Opcodes == [Config("HBSocketClient", "HBDataSocket", 20, Info(""), <<>>, <<6, 8, 7>>)
               EXCEPT !.ssl = TRUE]

MCConfigs ==
    Raws \cup Upgraded \cup {Both, Opcodes}
    \cup {[c EXCEPT !.faults = {"stop", "close", "reset"}] : c \in {d \in Raws : d.B = 3}}
    \cup {[c EXCEPT !.ssl = TRUE] : c \in Raws \cup {Both}}
    \cup {[c EXCEPT !.files = TRUE] : c \in {d \in Raws : d.B = 3}}
=============================================================================
