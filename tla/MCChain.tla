-------------------------------- MODULE MCChain --------------------------------
(***************************************************************************)
(* Small chains of middlewares: two requests through a few of them, and    *)
(* one through many orders of the layers and many options.                 *)
(***************************************************************************)
EXTENDS Chain, TLC, SequencesExt

CONSTANTS r1, r2

Options(origins, function, credentials) ==
    [AllowedOrigins |-> origins, AllowOriginFunc |-> function, AllowCredentials |-> credentials]

Plain == [id |-> NoID, origin |-> NoOrigin, preflight |-> FALSE, hops |-> <<"client">>, lines |-> <<>>]

Answer(code, how) == [code |-> code, how |-> how]

Setup(layers, sent) ==
    [layers |-> layers, sent |-> sent, codes |-> {201}, flushes |-> FALSE,
     cors |-> Options({}, {}, FALSE), trusted |-> {}, generator |-> TRUE,
     Handler |-> {Answer(500, "out")}, PanicHandler |-> {}, writerPanics |-> FALSE]

One(layers) == Setup(layers, r1 :> Plain)
Two(layers) == Setup(layers, r1 :> Plain @@ r2 :> Plain)

\* The chain of the quick start in the repository's README, BodySizeLimit left out
QuickStart == <<"router", "recovery", "id", "timeout", "access">>

Concurrent ==
    {Two(QuickStart), Two(<<"line", "timeout", "router">>), Two(<<"access", "router", "recovery">>),
     Two(<<"access", "timeout", "router">>)}

Orders(kinds) ==
    {s \in [1 .. Cardinality(kinds) -> kinds] : \A i, j \in DOMAIN s : i # j => s[i] # s[j]}

\* Every order of a log, Recovery, Timeout and the router
AllOrders == UNION {{One(s) : s \in Orders({log, "recovery", "timeout", "router"})} :
                        log \in {"access", "line"}}

\* User code that is called with a panic: as usual, with another status or none,
\* and panicking itself
Rescuers == {{Answer(500, "out")}, {Answer(418, "out"), Answer(0, "out")}, {Answer(0, "up"), Answer(500, "up")}}

Rescued ==
    UNION {{[One(s) EXCEPT !.Handler = h, !.PanicHandler = p, !.flushes = f] :
                s \in Orders({"access", "recovery", "router"}) \cup Orders({"line", "recovery", "router"})} :
            h \in Rescuers, p \in Rescuers \cup {{}}, f \in BOOLEAN}

\* Less usual handlers and log writers
Unusual ==
    LET chains == {<<"access", "router", "recovery">>, <<"access", "timeout", "line">>,
                   <<"line", "router", "access">>}
    IN  {[One(s) EXCEPT !.codes = {103, 201}] : s \in chains}
            \cup {[One(s) EXCEPT !.PanicHandler = {Answer(500, "out")}, !.flushes = TRUE] : s \in chains}
            \cup {[One(s) EXCEPT !.writerPanics = TRUE] : s \in chains}
            \cup {[Two(<<"recovery", "line">>) EXCEPT !.writerPanics = TRUE]}

\* Origins, options and places of CORS
Origins ==
    LET chains  == {<<"access", "cors">>, <<"cors", "timeout", "access">>, <<"timeout", "cors">>}
        options == {Options(origins, function, creds) :
                        origins \in {{}, {"*"}, {"A"}, {"*", "A"}},
                        function \in {{}, {{"B"}}}, creds \in BOOLEAN}
        froms   == {[Plain EXCEPT !.origin = o, !.preflight = p] :
                        o \in {NoOrigin, "A", "B"}, p \in BOOLEAN}
    IN  {[Setup(s, r1 :> f) EXCEPT !.cors = o] : s \in chains, f \in froms, o \in options}

\* The header as it arrives: proxies append to one line, or each adds a line.
Lines(hops, claimed, ownLines) ==
    LET via == SubSeq(hops, 1, Len(hops) - 1)
    IN  IF ownLines THEN claimed \o [i \in DOMAIN via |-> <<via[i]>>]
        ELSE IF via = <<>> THEN claimed
        ELSE <<FlattenSeq(claimed) \o via>>

\* Proxies that are trusted or not, in front of a client that may lie
Proxies ==
    {[Setup(<<"router">>, r1 :> [Plain EXCEPT !.hops = hops, !.lines = Lines(hops, claimed, ownLines)])
        EXCEPT !.trusted = trusted] :
            hops \in {<<"client">>, <<"client", "proxy">>, <<"client", "cdn", "proxy">>},
            claimed \in {<<>>, <<<<"victim">>>>, <<<<"proxy">>>>, <<<<"victim", "proxy">>, <<"proxy">>>>},
            ownLines \in BOOLEAN,
            trusted \in {{}, {"proxy"}, {"cdn", "proxy"}, {"client", "proxy"}}}

\* Ids that are sent or made, once or twice
Identities ==
    {[Setup(s, r1 :> [Plain EXCEPT !.id = id]) EXCEPT !.generator = generator] :
        s \in {<<"line", "timeout", "id">>, <<"id", "line", "id">>, <<"timeout", "id", "line">>},
        id \in {NoID, <<"sent">>}, generator \in BOOLEAN}

MCSetups == Concurrent \cup AllOrders \cup Rescued \cup Unusual \cup Origins \cup Proxies \cup Identities

\* For the run about the quick start
QuickStartSetups == {One(QuickStart)}
=============================================================================
