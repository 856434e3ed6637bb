----------------------------- MODULE Handshake -----------------------------
(***************************************************************************)
(* The upgrade handshake of the heart-beat sockets and the WebSocket server *)
(* (HandshakeRequest, HandshakeResponse, HandshakeSeverResponse).  The text *)
(* of a header is a record of the fields the two ends look at; an absent    *)
(* field is NoField.  "tcp" is this library's own, non-standard upgrade.    *)
(***************************************************************************)
EXTENDS Naturals

RESOURCE           == "/comms"
SupportedProtocol  == "LuBinary"
SupportedVersions  == {13}
NoField            == "none"

\* An InitialRequestInfo: what the application asks for.
InitialRequestInfo == [resource: {RESOURCE, "/other"},
                       upgrade: {"", "tcp", "websocket", "h2c"},
                       protocols: SUBSET {SupportedProtocol, "chat"},
                       versions: SUBSET {8, 13}]

\* generateKey: four random words in base 64; one value stands for them.
generateKey == "key"

\* getAcceptKey: a hash of the key; what matters is that it is a function.
getAcceptKey(key) == <<"accept", key>>

createHandShakeRequest(info, key) ==
    [resource   |-> info.resource,
     upgrade    |-> IF info.upgrade = "" THEN "websocket" ELSE info.upgrade,
     connection |-> "upgrade",
     key        |-> key,
     protocols  |-> info.protocols,      \* {}: no such line in the header
     versions   |-> info.versions]

\* The empty string: the request is refused.
NoResponse == [upgrade |-> NoField, connection |-> NoField, accept |-> <<>>]

listIntersection(list1, list2) == list1 \cap list2

\* The constructor of HandshakeResponse.
HandshakeResponse(request) ==
    IF request.upgrade = "tcp"
    THEN [upgrade |-> "tcp", connection |-> NoField, accept |-> <<>>]
    ELSE IF SupportedProtocol \notin request.protocols
            \/ listIntersection(SupportedVersions, request.versions) = {}
    THEN NoResponse
    ELSE [upgrade |-> "websocket", connection |-> "upgrade",
          accept |-> getAcceptKey(request.key)]

\* The lines are read, then the fields are tested in the code's order.
getResponse(request, resource) ==
    IF request.resource # resource THEN NoResponse
    ELSE IF request.upgrade = "tcp" THEN HandshakeResponse(request)
    ELSE IF \/ request.upgrade # "websocket"
            \/ request.key = NoField
            \/ request.connection # "upgrade"
            \/ request.protocols = {}
    THEN NoResponse
    ELSE HandshakeResponse(request)

readServerResponse(response, key) ==
    \/ response.upgrade = "tcp"
    \/ /\ response.upgrade = "websocket"
       /\ response.connection = "upgrade"
       /\ response.accept = getAcceptKey(key)

\* getUpgrade, and what both ends make of it.
Transport(upgrade) == IF upgrade = "tcp" THEN "TCP" ELSE "WebSocket"
=============================================================================
