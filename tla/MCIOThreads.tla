---------------------------- MODULE MCIOThreads ----------------------------
(* Small applications of each kind for TLC. *)
EXTENDS IOThreads

CONSTANTS c1, c2, c3

App(kind, newThread, timer, n, peers) ==
    [kind |-> kind, newThread |-> newThread, timer |-> timer, ssl |-> FALSE, web |-> FALSE,
     n |-> n, hw |-> MaxThreads + 1, asks |-> 1, hangups |-> FALSE, stops |-> TRUE,
     peers |-> peers]

Both == {c1, c2}

Pools == {[App("pool", TRUE, TRUE, 2, {c1}) EXCEPT !.stops = FALSE],
          [App("pool", FALSE, TRUE, 2, {c1, c2, c3}) EXCEPT !.asks = 0, !.stops = FALSE],
          App("pool", TRUE, FALSE, 2, {}),
          [App("pool", TRUE, FALSE, 1, Both) EXCEPT !.asks = 0],
          [App("pool", TRUE, TRUE, 1, Both) EXCEPT !.asks = 0, !.ssl = TRUE],
          [App("pool", TRUE, TRUE, 2, {c1}) EXCEPT !.hw = 1, !.hangups = TRUE],
          App("pool", TRUE, TRUE, 0, {c1})}

Singles == {App("single", TRUE, FALSE, 0, Both),
            [App("single", TRUE, TRUE, 0, {c1}) EXCEPT !.asks = 4],
            [App("single", TRUE, TRUE, 0, Both) EXCEPT !.ssl = TRUE, !.stops = FALSE],
            App("single", FALSE, FALSE, 0, {c1})}

Connects == {App("connect", TRUE, TRUE, 0, Both),
             App("connect", FALSE, FALSE, 0, {c1}),
             [App("connect", TRUE, TRUE, 0, {c1}) EXCEPT !.hangups = TRUE],
             [App("connect", TRUE, TRUE, 0, {c1}) EXCEPT !.hangups = TRUE, !.web = TRUE]}

MCConfigs == Pools \cup Singles \cup Connects
=============================================================================
