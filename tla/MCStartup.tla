----------------------------- MODULE MCStartup -----------------------------
(* Nodes that share a stream: one with a worker in a queue, one with its    *)
(* contracts, one with the whole queue, a word that begins like its prefix, *)
(* a durable name that is taken and a task without a stream, and one that   *)
(* subscribes by program.                                                   *)
EXTENDS NatsMQStartup

CONSTANTS n1, n2, n3, n4

Opt(stream, durable) == [stream |-> stream, durable |-> durable, filter |-> <<>>]
Orders == [prefix |-> <<"orders">>, options |-> Opt("shop", <<>>)]
Created == define(Orders, <<"created">>, Opt("-", <<"created">>))
Items == define(Orders, <<":", "items">>, NoOptions)

OrderWorker ==
    [queue |-> <<Orders>>,
     subs |-> <<OnSubject(<<"paid">>, NoOptions), OnNatsMessage(Created, NoOptions)>>]
StockWorker ==
    [queue |-> <<>>,
     subs |-> <<OnNatsMessage(Items, NoOptions), OnNatsMessage(Created, NoOptions),
                OnSubject(<<"stock", "low">>, Opt("stock", <<"low">>))>>]
AuditWorker ==
    [queue |-> <<>>,
     subs |-> <<OnNatsMessage(Whole(Orders), Opt("-", <<"audit">>)),
                OnSubject(<<"ordersX", "created">>, Opt("shop", <<"x">>))>>]
LostWorker ==
    [queue |-> <<>>,
     subs |-> <<OnSubject(<<"stock", "high">>, Opt("stock", <<"low">>)),
                OnSubject(<<"mail">>, NoOptions)>>]

Program == [queue |-> <<>>, subs |-> <<subscribe(Created, Opt("-", <<"mine">>))>>]
Mail == [prefix |-> <<"mail">>, options |-> Opt("post", <<"mailer">>)]

MCQueues == [n \in Node |-> IF n = n1 THEN <<Mail>> ELSE <<>>]
MCWorkers == [n \in Node |-> CASE n = n1 -> <<OrderWorker>>
                               [] n = n2 -> <<StockWorker>>
                               [] n = n3 -> <<AuditWorker, LostWorker>>
                               [] n = n4 -> <<Program>>]
MCEntry == [n \in Node |-> CASE n = n2 -> "register" [] n = n4 -> "subscribe"
                             [] OTHER -> "bootstrap"]
MCPrefixOf == {<<"orders", "ordersX">>}
=============================================================================
