--------------------------------- MODULE Chain ---------------------------------
(***************************************************************************)
(* Requests on their way through a chain of middlewares and the router:    *)
(* AccessLog and Logger (middleware/access_log.go, logger.go), Recovery,   *)
(* Timeout, CORS, and the part of the router that wraps the writer for a   *)
(* route with parameters (router/router.go).  The writer wrappers and      *)
(* parameter lists come from pools shared by all requests.                 *)
(*                                                                         *)
(* A chain is a sequence of layers, outermost first; the handler is behind *)
(* the last one.  A goroutine is at a layer, going in (about to run what   *)
(* comes before next.ServeHTTP), out (next has returned) or up (a panic    *)
(* arrives from next).  Timeout runs what is behind it in a goroutine of   *)
(* its own, which may outlive the request (http.TimeoutHandler).           *)
(***************************************************************************)
EXTENDS Policies

CONSTANTS
    Requests,   \* the requests, each on a connection of its own
    Objects,    \* names of pooled objects, for each pool
    Setups,     \* the chains and what surrounds them, see setup
    Nobody      \* no goroutine, no object

\* Objects are named by numbers, for Get.
ASSUME ObjectsAssumption == Objects \subseteq Nat /\ Nobody \notin Objects

LayerKinds == {"router", "recovery", "timeout", "cors", "id", "access", "line"}

\* What a setup may be (see the variable of that name below).  There is at most
\* one Timeout in a chain, and one router; no header names the origin "*".
ASSUME SetupsAssumption ==
    \A s \in Setups :
        /\ s.layers \in Seq(LayerKinds)
        /\ \A i, j \in DOMAIN s.layers :
              s.layers[i] = s.layers[j] /\ s.layers[i] \in {"timeout", "router"} => i = j
        /\ DOMAIN s.sent \subseteq Requests
        /\ \A r \in DOMAIN s.sent :
              /\ s.sent[r].origin \in STRING \ {"*"}
              /\ s.sent[r].hops \in Seq(STRING) \ {<<>>} /\ s.sent[r].lines \in Seq(Seq(STRING))
        /\ s.codes \subseteq Nat \ {0}
        /\ s.Handler \cup s.PanicHandler \subseteq [code : Nat, how : {"out", "up"}]
        /\ s.cors.AllowCredentials \in BOOLEAN

VARIABLES
    setup,          \* chosen at first and never changed:
                    \*   layers: the chain, made of "router", "recovery",
                    \*      "timeout", "cors", "id" (RequestID), "access" and
                    \*      "line" (Logger)
                    \*   sent: the requests that come, as [id, origin, preflight,
                    \*      hops (the addresses it comes through, client
                    \*      first), lines (of X-Forwarded-For, each a list)]
                    \*   codes: statuses the handler may write
                    \*   flushes: the handler may call Flush
                    \*   cors, trusted: options of CORS and ClientIP
                    \*   generator: RequestIDGenerator is not nil
                    \*   Handler, PanicHandler: what Recovery's Logger and
                    \*      Handler, and the router's PanicHandler, may do, as
                    \*      [code, how]: they write that status (0 for none)
                    \*      and return ("out") or panic ("up"); {}: there is no
                    \*      PanicHandler
                    \*   writerPanics: the Logger's writer may panic
    requestID,      \* request -> the X-Request-ID of its header, NoID for none
    place,          \* goroutine -> [at, going]
    writer,         \* request -> layer -> the writer it was called with
    entry,          \* goroutine -> what it is about to log, [status, id]
    statusWriters,  \* object -> [under, status]
    paramWriters,   \* object -> [under, params]
    params,         \* object -> requests whose path values it lists
    taken,          \* request -> the Params object its router call took
    freeStatus, freeWriters, freeParams,    \* the pools
    response,       \* request -> what its connection got, see NoResponse
    buffer,         \* request -> TimeoutHandler's buffer, see NoBuffer
    mu,             \* the goroutine that holds the Logger's mutex, or Nobody
    logged          \* history: request -> its entries, [layer, status, id]

context     == <<setup, requestID>>
routerPools == <<paramWriters, params, taken, freeWriters, freeParams>>
pools       == <<routerPools, statusWriters, freeStatus>>
vars        == <<context, place, writer, entry, pools, response, buffer, mu, logged>>

Layers  == setup.layers
Inner   == Len(Layers) + 1      \* where the handler is
Routines == Requests \X {"conn", "timeout"}

-----------------------------------------------------------------------------
(* Writers *)

NoWriter     == <<"none", Nobody>>
Conn(r)      == <<"conn", r>>       \* net/http's own writer
Buffer(r)    == <<"buffer", r>>     \* TimeoutHandler's timeoutWriter
StatusOf(o)  == <<"status", o>>     \* a statusWriter
ParamOf(o)   == <<"param", o>>      \* a paramRW

NoID       == <<>>
NoOrigin   == ""
NoHeader   == [id |-> NoID, allow |-> NoOrigin, creds |-> FALSE, vary |-> {}]
NoResponse == [header |-> NoHeader, status |-> 0, sent |-> NoHeader, flushed |-> FALSE]
NoEntry    == [status |-> 0, id |-> NoID]
NoBuffer   == [header |-> NoHeader, status |-> 0, expired |-> FALSE]

\* Unwrap: the wrapped writer.  A timeoutWriter cannot be unwrapped.
Unwrap(w) ==
    CASE w[1] = "status" -> statusWriters[w[2]].under
      [] w[1] = "param"  -> paramWriters[w[2]].under
      [] OTHER           -> NoWriter

\* The writers a call on w passes through.
Path(w) ==
    LET down[n \in 0 .. Inner] == IF n = 0 THEN w ELSE Unwrap(down[n - 1])
    IN  {down[n] : n \in 0 .. Inner} \ {NoWriter}

\* Param: the first value of the nearest paramRW; Nobody when there is none.
Param(w) ==
    LET lists == {params[paramWriters[o].params] : o \in {p \in Objects :
                    ParamOf(p) \in Path(w) /\ paramWriters[p].params # Nobody}}
    IN  IF lists = {} THEN Nobody ELSE Head(CHOOSE list \in lists : TRUE)

\* A statusWriter keeps the first status it sees.
FirstStatus(old, code) == IF old = 0 THEN code ELSE old

\* net/http sends informational statuses at once and the first other one with
\* the header as it is; timeoutWriter keeps the first status of any kind.
Informational(code) == code < 200

Committed(resp, code) ==
    IF resp.status # 0 \/ Informational(code) THEN resp
    ELSE [resp EXCEPT !.status = code, !.sent = resp.header]

\* w.Header(): that of the connection or the buffer below w.
HeaderOf(w) ==
    LET bottom == CHOOSE v \in Path(w) : v[1] \in {"conn", "buffer"}
    IN  IF bottom[1] = "conn" THEN response[bottom[2]].header ELSE buffer[bottom[2]].header

\* What statusWriters, connections and buffers are like after a call that has
\* passed through some writers: the header is set, and WriteHeader(code) called,
\* unless code is 0.
Noted(path, code) ==
    [o \in Objects |-> IF StatusOf(o) \in path
                       THEN [statusWriters[o] EXCEPT !.status = FirstStatus(@, code)]
                       ELSE statusWriters[o]]

Answered(path, code, header) ==
    [r \in Requests |-> IF Conn(r) \in path
                        THEN Committed([response[r] EXCEPT !.header = header], code)
                        ELSE response[r]]

Buffered(path, code, header) ==
    [r \in Requests |-> IF Buffer(r) \in path /\ ~buffer[r].expired
                        THEN [buffer[r] EXCEPT !.header = header,
                                               !.status = FirstStatus(@, code)]
                        ELSE buffer[r]]

\* The header of w is set, and w.WriteHeader(code) called, unless code is 0.
Write(w, code, header) ==
    /\ statusWriters' = Noted(Path(w), code)
    /\ response' = Answered(Path(w), code, header)
    /\ buffer' = Buffered(Path(w), code, header)

WriteHeader(w, code) == Write(w, code, HeaderOf(w))

-----------------------------------------------------------------------------
(* Goroutines *)

Is(g, layer, going) ==
    /\ place[g].at \in DOMAIN Layers /\ Layers[place[g].at] = layer
    /\ place[g].going = going

W(g)         == writer[g[1]][place[g].at]
Below(g)     == writer[g[1]][place[g].at + 1]
At(k, going) == [at |-> k, going |-> going]

\* next.ServeHTTP(w, r)
Call(g, w) ==
    /\ writer' = [writer EXCEPT ![g[1]][place[g].at + 1] = w]
    /\ place' = [place EXCEPT ![g] = At(@.at + 1, "in")]

\* The layer is left, by a return ("out") or a panic ("up"), and forgets the
\* writer it called next with; behind a Timeout that one may still be in use.
Leave(g, how) ==
    /\ place' = [place EXCEPT ![g] = At(@.at - 1, how)]
    /\ writer' = [writer EXCEPT ![g[1]] = [k \in 1 .. Inner |->
                    IF k = place[g].at + 1 /\ Layers[k - 1] # "timeout" THEN NoWriter ELSE @[k]]]

Init ==
    /\ setup \in Setups
    /\ requestID = [r \in Requests |-> IF r \in DOMAIN setup.sent THEN setup.sent[r].id ELSE NoID]
    /\ place = [g \in Routines |-> At(0, "absent")]
    /\ writer = [r \in Requests |-> [k \in 1 .. Inner |-> NoWriter]]
    /\ entry = [g \in Routines |-> NoEntry]
    /\ statusWriters = [o \in Objects |-> [under |-> NoWriter, status |-> 0]]
    /\ paramWriters = [o \in Objects |-> [under |-> NoWriter, params |-> Nobody]]
    /\ params = [o \in Objects |-> <<>>]
    /\ taken = [r \in Requests |-> Nobody]
    /\ freeStatus = Objects /\ freeWriters = Objects /\ freeParams = Objects
    /\ response = [r \in Requests |-> NoResponse]
    /\ buffer = [r \in Requests |-> NoBuffer]
    /\ mu = Nobody
    /\ logged = [r \in Requests |-> <<>>]

-----------------------------------------------------------------------------
(* net/http *)

Arrive(r) ==
    /\ r \in DOMAIN setup.sent
    /\ place[<<r, "conn">>] = At(0, "absent")
    /\ place' = [place EXCEPT ![<<r, "conn">>] = At(1, "in")]
    /\ writer' = [writer EXCEPT ![r][1] = Conn(r)]
    /\ UNCHANGED <<context, entry, pools, response, buffer, mu, logged>>

\* The chain has returned, and the status is 200 when none was written; or it
\* has panicked, and the connection is aborted.
Finish(r) ==
    LET g == <<r, "conn">>
    IN  /\ place[g].at = 0 /\ place[g].going \in {"out", "up"}
        /\ place' = [place EXCEPT ![g] = At(0, IF @.going = "out" THEN "done" ELSE "aborted")]
        /\ response' = IF place[g].going = "up" THEN response
                       ELSE [response EXCEPT ![r] = Committed(@, 200)]
        /\ UNCHANGED <<context, writer, entry, pools, buffer, mu, logged>>

-----------------------------------------------------------------------------
(* Recovery and the layers that a return or a panic just passes *)

EnterRecovery(g) ==
    /\ Is(g, "recovery", "in")
    /\ Call(g, W(g))
    /\ UNCHANGED <<context, entry, pools, response, buffer, mu, logged>>

\* A deferred recover hands the panic to user code, with the layer's own writer.
Rescue(g, rescues) ==
    \E rescue \in rescues : WriteHeader(W(g), rescue.code) /\ Leave(g, rescue.how)

\* Logger and Handler; those of Recovery itself answer 500.
Recover(g) ==
    /\ Is(g, "recovery", "up")
    /\ Rescue(g, setup.Handler)
    /\ UNCHANGED <<context, entry, routerPools, freeStatus, mu, logged>>

Pass(g) ==
    /\ \/ Is(g, "recovery", "out")
       \/ \E layer \in {"cors", "id"} : Is(g, layer, "out") \/ Is(g, layer, "up")
    /\ Leave(g, place[g].going)
    /\ UNCHANGED <<context, entry, pools, response, buffer, mu, logged>>

-----------------------------------------------------------------------------
(* Timeout (http.TimeoutHandler) *)

Runner(g) == <<g[1], "timeout">>

EnterTimeout(g) ==
    /\ Is(g, "timeout", "in")
    /\ place' = [place EXCEPT ![g].going = "wait", ![Runner(g)] = At(place[g].at + 1, "in")]
    /\ writer' = [writer EXCEPT ![g[1]][place[g].at + 1] = Buffer(g[1])]
    /\ UNCHANGED <<context, entry, pools, response, buffer, mu, logged>>

\* What is behind has returned in time: its header and status are passed on.
PassOn(g) ==
    LET kept   == buffer[g[1]]
        header == HeaderOf(W(g))
        merged == [id    |-> IF kept.header.id = NoID THEN header.id ELSE kept.header.id,
                   allow |-> IF kept.header.allow = NoOrigin THEN header.allow ELSE kept.header.allow,
                   creds |-> kept.header.creds \/ header.creds,
                   vary  |-> IF kept.header.vary = {} THEN header.vary ELSE kept.header.vary]
    IN  /\ Is(g, "timeout", "wait") /\ Is(Runner(g), "timeout", "out")
        /\ Write(W(g), IF kept.status = 0 THEN 200 ELSE kept.status, merged)
        /\ Leave(g, "out")
        /\ UNCHANGED <<context, entry, routerPools, freeStatus, mu, logged>>

\* It has panicked in time: the panic goes on in the goroutine of the request.
Rethrow(g) ==
    /\ Is(g, "timeout", "wait") /\ Is(Runner(g), "timeout", "up")
    /\ Leave(g, "up")
    /\ UNCHANGED <<context, entry, pools, response, buffer, mu, logged>>

\* The time is up: 503, and what is behind goes on with a writer that refuses.
Expire(g) ==
    /\ Is(g, "timeout", "wait")
    /\ statusWriters' = Noted(Path(W(g)), 503)
    /\ response' = Answered(Path(W(g)), 503, HeaderOf(W(g)))
    /\ buffer' = [buffer EXCEPT ![g[1]].expired = TRUE]
    /\ Leave(g, "out")
    /\ UNCHANGED <<context, entry, routerPools, freeStatus, mu, logged>>

-----------------------------------------------------------------------------
(* The router, for a route with parameters *)

\* mutant: the list is not reset when it comes from the pool
MatchedAfter(list, r) == Append(list, r)

\* What a pool hands out: the names are interchangeable, and with the smallest
\* one the next request gets what the last one put back.
Get(free) == Min(free)

\* params.Reset(), then search adds the values of this request's path.
Matched(list, r) == <<r>>

EnterRouter(g) ==
    /\ Is(g, "router", "in")
    /\ freeParams # {} /\ freeWriters # {}     \* bound: Objects
    /\ LET p == Get(freeParams)
           o == Get(freeWriters)
       IN /\ params' = [params EXCEPT ![p] = Matched(@, g[1])]
          /\ paramWriters' = [paramWriters EXCEPT ![o] = [under |-> W(g), params |-> p]]
          /\ taken' = [taken EXCEPT ![g[1]] = p]
          /\ freeParams' = freeParams \ {p} /\ freeWriters' = freeWriters \ {o}
          /\ Call(g, ParamOf(o))
    /\ UNCHANGED <<context, entry, statusWriters, freeStatus, response, buffer, mu, logged>>

\* The handler has returned: prw is reset, both go back to their pools.
LeaveRouter(g) ==
    LET o == Below(g)[2]
    IN  /\ Is(g, "router", "out")
        /\ paramWriters' = [paramWriters EXCEPT ![o] = [under |-> NoWriter, params |-> Nobody]]
        /\ freeWriters' = freeWriters \cup {o}
        /\ freeParams' = freeParams \cup {taken[g[1]]}
        /\ taken' = [taken EXCEPT ![g[1]] = Nobody]
        /\ Leave(g, "out")
        /\ UNCHANGED <<context, entry, statusWriters, params, freeStatus, response, buffer, mu,
                       logged>>

\* A panic passes the router, which keeps the objects out of the pools, or comes
\* to the deferred PanicHandler.
PanicInRouter(g) ==
    /\ Is(g, "router", "up")
    /\ \/ /\ setup.PanicHandler = {}
          /\ Leave(g, "up") /\ UNCHANGED <<statusWriters, response, buffer>>
       \/ Rescue(g, setup.PanicHandler)
    /\ UNCHANGED <<context, entry, routerPools, freeStatus, mu, logged>>

-----------------------------------------------------------------------------
(* AccessLog and Logger *)

IsLog(g, going) == Is(g, "access", going) \/ Is(g, "line", going)

EnterLog(g) ==
    /\ IsLog(g, "in")
    /\ freeStatus # {}                         \* bound: Objects
    /\ LET o == Get(freeStatus)
       IN /\ statusWriters' = [statusWriters EXCEPT ![o] = [under |-> W(g), status |-> 0]]
          /\ freeStatus' = freeStatus \ {o}
          /\ Call(g, StatusOf(o))
    /\ UNCHANGED <<context, entry, routerPools,
                   response, buffer, mu, logged>>

\* mutant: a panic is logged like a return
StatusToLogAnyway(status, panicked) == IF status # 0 THEN status ELSE 200

StatusToLog(status, panicked) ==
    IF status # 0 THEN status ELSE IF panicked THEN 500 ELSE 200

\* The deferred function reads the wrapper, resets it and puts it back.
Settle(g) ==
    LET o == Below(g)[2]
    IN  /\ statusWriters' = [statusWriters EXCEPT ![o] = [under |-> NoWriter, status |-> 0]]
        /\ freeStatus' = freeStatus \cup {o}
        /\ UNCHANGED <<context, routerPools, response, buffer>>

Record(g, e) ==
    logged' = [logged EXCEPT ![g[1]] =
                  Append(@, [layer |-> place[g].at, status |-> e.status, id |-> e.id])]

Status(g) == StatusToLog(statusWriters[Below(g)[2]].status, place[g].going = "up")

\* AccessLog then calls rb.TryWrite, whose result it ignores, and raises the
\* panic again.
LogAccess(g) ==
    /\ Is(g, "access", "out") \/ Is(g, "access", "up")
    /\ Settle(g)
    /\ Record(g, [NoEntry EXCEPT !.status = Status(g)])
    /\ Leave(g, place[g].going)
    /\ UNCHANGED <<entry, mu>>

\* Logger formats its line and then needs the mutex.
FormatLine(g) ==
    /\ Is(g, "line", "out") \/ Is(g, "line", "up")
    /\ Settle(g)
    /\ entry' = [entry EXCEPT ![g] = [status |-> Status(g), id |-> requestID[g[1]]]]
    /\ place' = [place EXCEPT ![g].going = IF @ = "up" THEN "logUp" ELSE "logOut"]
    /\ UNCHANGED <<writer, mu, logged>>

\* The mutex is locked for one write, or for ever: when the writer panics nobody
\* unlocks it, and the new panic replaces any recovered one.
Locked(g) ==
    /\ Is(g, "line", "logOut") \/ Is(g, "line", "logUp")
    /\ mu = Nobody
    /\ entry' = [entry EXCEPT ![g] = NoEntry]
    /\ UNCHANGED <<context, pools, response, buffer>>

\* mutant: the mutex is unlocked only when nothing was recovered
WriteLineKeepingLock(g) ==
    /\ Locked(g)
    /\ Record(g, entry[g])
    /\ Leave(g, IF place[g].going = "logUp" THEN "up" ELSE "out")
    /\ mu' = IF place[g].going = "logUp" THEN g ELSE Nobody

WriteLine(g) ==
    /\ Locked(g)
    /\ Record(g, entry[g])
    /\ Leave(g, IF place[g].going = "logUp" THEN "up" ELSE "out")
    /\ UNCHANGED mu

WriterPanics(g) ==
    /\ setup.writerPanics
    /\ Locked(g)
    /\ mu' = g
    /\ Leave(g, "up")
    /\ UNCHANGED logged

-----------------------------------------------------------------------------
(* RequestID *)

\* An id that the request brings is kept; layer k makes no id twice.
Identified(id, k) == IF id # NoID \/ ~setup.generator THEN id ELSE <<"made", k>>

\* The id is put into the header of the request, which all layers share, and
\* into that of the response.
EnterRequestID(g) ==
    LET id == Identified(requestID[g[1]], place[g].at)
        header == HeaderOf(W(g))
    IN  /\ Is(g, "id", "in")
        /\ requestID' = [requestID EXCEPT ![g[1]] = id]
        /\ Write(W(g), 0, IF id = NoID THEN header ELSE [header EXCEPT !.id = id])
        /\ Call(g, W(g))
        /\ UNCHANGED <<setup, entry, routerPools, freeStatus, mu, logged>>

-----------------------------------------------------------------------------
(* CORS *)

\* A request without an origin, or from one that is not allowed and is no
\* preflight, goes on with the header as it is.
PassCORS(g) ==
    LET sent == setup.sent[g[1]]
    IN  /\ Is(g, "cors", "in")
        /\ sent.origin = NoOrigin \/ (~Allowed(setup.cors, sent.origin) /\ ~sent.preflight)
        /\ Call(g, W(g))
        /\ UNCHANGED <<context, entry, pools, response, buffer, mu, logged>>

ForbidCORS(g) ==
    LET sent == setup.sent[g[1]]
    IN  /\ Is(g, "cors", "in")
        /\ sent.origin # NoOrigin /\ ~Allowed(setup.cors, sent.origin) /\ sent.preflight
        /\ WriteHeader(W(g), 403)
        /\ Leave(g, "out")
        /\ UNCHANGED <<context, entry, routerPools, freeStatus, mu, logged>>

\* An allowed origin: the headers are set, and a preflight ends here.
AllowCORS(g) ==
    LET sent == setup.sent[g[1]]
        allow == WithAllowOrigin(HeaderOf(W(g)), setup.cors, sent.origin)
        preflight == [allow EXCEPT !.vary = @ \cup {"Request"}]
    IN  /\ Is(g, "cors", "in")
        /\ sent.origin # NoOrigin /\ Allowed(setup.cors, sent.origin)
        /\ \/ sent.preflight /\ Write(W(g), 204, preflight) /\ Leave(g, "out")
           \/ ~sent.preflight /\ Write(W(g), 0, allow) /\ Call(g, W(g))
        /\ UNCHANGED <<context, entry, routerPools, freeStatus, mu, logged>>

-----------------------------------------------------------------------------
(* The handler (external) *)

InHandler(g) == place[g] = At(Inner, "in")

\* The peer is the last hop; of X-Forwarded-For, Header.Get returns the first line.
Remote(sent)    == sent.hops[Len(sent.hops)]
Forwarded(sent) == IF sent.lines = <<>> THEN <<>> ELSE sent.lines[1]

\* router.Param(w, key), and ClientIP with the program's trust function
ReadsParam(g)  == Param(W(g))
ReadsClient(g) == LET sent == setup.sent[g[1]]
                  IN  ClientIP(Remote(sent), Forwarded(sent), setup.trusted)

HandlerWrites(g) ==
    /\ InHandler(g)
    /\ \E code \in setup.codes : WriteHeader(W(g), code)
    /\ UNCHANGED <<context, place, writer, entry, routerPools, freeStatus, mu, logged>>

\* Flush is passed on by statusWriters and paramRWs, which note nothing; a
\* timeoutWriter is no Flusher.  The connection sends 200, if nothing was sent.
HandlerFlushes(g) ==
    /\ InHandler(g) /\ setup.flushes
    /\ Conn(g[1]) \in Path(W(g)) /\ response[g[1]].status = 0
    /\ response' = [response EXCEPT ![g[1]] = [Committed(@, 200) EXCEPT !.flushed = TRUE]]
    /\ UNCHANGED <<context, place, writer, entry, pools, buffer, mu, logged>>

HandlerEnds(g) ==
    /\ InHandler(g)
    /\ \E how \in {"out", "up"} : Leave(g, how)
    /\ UNCHANGED <<context, entry, pools, response, buffer, mu, logged>>

-----------------------------------------------------------------------------

Step(g) ==
    \/ EnterRecovery(g) \/ Recover(g) \/ Pass(g)
    \/ EnterTimeout(g) \/ PassOn(g) \/ Rethrow(g) \/ Expire(g)
    \/ EnterRouter(g) \/ LeaveRouter(g) \/ PanicInRouter(g)
    \/ EnterLog(g) \/ LogAccess(g) \/ FormatLine(g) \/ WriteLine(g) \/ WriterPanics(g)
    \/ EnterRequestID(g) \/ PassCORS(g) \/ ForbidCORS(g) \/ AllowCORS(g)

Handler(g) == HandlerWrites(g) \/ HandlerFlushes(g) \/ HandlerEnds(g)

Ended(r) == place[<<r, "conn">>].going \in {"done", "aborted"}

Stopped(g) == place[g].going \in {"absent", "done", "aborted"} \/ Is(g, "timeout", "out")
                                                                \/ Is(g, "timeout", "up")

\* All requests are through, or a goroutine waits for a mutex that stays locked.
Quiet == ((\A g \in Routines : Stopped(g)) \/ mu # Nobody) /\ UNCHANGED vars

Next ==
    \/ \E g \in Routines : Step(g) \/ Handler(g)
    \/ \E r \in Requests : Arrive(r) \/ Finish(r)
    \/ Quiet

\* Goroutines run and timers expire.  Nothing makes a handler end.
Spec ==
    /\ Init /\ [][Next]_vars
    /\ \A g \in Routines : WF_vars(Step(g))
    /\ \A r \in Requests : WF_vars(Finish(r))

-----------------------------------------------------------------------------
(* Properties *)

Before(kind, k) == \E j \in 1 .. k - 1 : Layers[j] = kind

\* The layers of some kinds that the request gets to: CORS answers preflights.
Reached(r, kinds) ==
    {k \in DOMAIN Layers : /\ Layers[k] \in kinds
                           /\ Before("cors", k) => ~(setup.sent[r].preflight /\ setup.sent[r].origin # NoOrigin)}

\* The first line of X-Forwarded-For ends with the hops before the peer: each
\* proxy has appended where it got the request from to the line it found.  (Not
\* so with a proxy that adds a line of its own behind the client's.)
KeepsOneLine(sent) ==
    LET via == SubSeq(sent.hops, 1, Len(sent.hops) - 1)
    IN  \E n \in 0 .. Len(Forwarded(sent)) :
            via = SubSeq(Forwarded(sent), n + 1, Len(Forwarded(sent)))

\* What a handler reads, at any moment of its life, is about its own request,
\* whoever used the pooled objects before or uses them now: its own path values
\* or none.  As its client it takes the last hop that is not a trusted proxy,
\* whatever the client claimed in front of it, if the peer is not trusted, or if
\* the proxies keep to one line of the header.
HandlerSeesItsRequest ==
    \A g \in Routines : InHandler(g) =>
        LET sent      == setup.sent[g[1]]
            untrusted == {i \in DOMAIN sent.hops : sent.hops[i] \notin setup.trusted}
        IN  /\ ReadsParam(g) \in {g[1], Nobody}
            /\ untrusted # {} /\ (Remote(sent) \in setup.trusted => KeepsOneLine(sent)) =>
                    ReadsClient(g) = sent.hops[Max(untrusted)]

\* What user code may make of a panic at layer k of setup s; and that this answers
\* it with 500, or lets it go on as a panic.
Rescues(s, k) == CASE s.layers[k] = "recovery" -> s.Handler
                   [] s.layers[k] = "router"   -> s.PanicHandler
                   [] OTHER                    -> {}

Means500(rescue) == rescue.code = 500 \/ (rescue.code = 0 /\ rescue.how = "up")

\* Outside layer k, user code may make another answer out of a panic.
Overruled(s, k) == \E j \in 1 .. k - 1 : \E rescue \in Rescues(s, j) : ~Means500(rescue)

\* A log layer that no Timeout encloses logs each request it sees exactly once,
\* with the status the client got, or 500 when the connection was aborted without
\* one, and a Logger with the id the client got, be RequestID in front of it or
\* behind.  No layer ever logs a request twice.
\* The status is another one than the client got only in these cases: a panic that
\* passes the log is logged as 500, and a Handler of Recovery or a PanicHandler
\* further out answers it otherwise; the handler sends an informational status
\* first, which is logged in place of the final one; or it calls Flush before it
\* writes a status, and the 200 sent then goes unnoticed.
LoggedAsSent ==
    \A r \in DOMAIN setup.sent :
        LET entries(k) == {i \in DOMAIN logged[r] : logged[r][i].layer = k}
            status     == IF response[r].status = 0 THEN 500 ELSE response[r].status
        IN  /\ \A k \in DOMAIN Layers : Cardinality(entries(k)) <= 1
            /\ Ended(r) /\ ~setup.writerPanics =>
                 \A k \in Reached(r, {"access", "line"}) : ~Before("timeout", k) =>
                    /\ entries(k) # {}
                    /\ \A i \in entries(k) :
                          /\ ~Informational(logged[r][i].status) /\ ~response[r].flushed =>
                                \/ logged[r][i].status = status
                                \/ logged[r][i].status = 500 /\ Overruled(setup, k)
                          /\ Layers[k] = "line" /\ response[r].sent.id # NoID =>
                                logged[r][i].id = response[r].sent.id

\* A response that lets an origin in comes from a CORS layer whose options name
\* that origin, or the wildcard, which never goes with credentials; and a
\* response that depends on the origin says so in Vary.
OriginsAreAllowed ==
    \A r \in DOMAIN setup.sent :
        LET sent == response[r].sent
            named == IF setup.cors.AllowOriginFunc # {} THEN UNION setup.cors.AllowOriginFunc
                     ELSE setup.cors.AllowedOrigins
        IN  sent.allow # NoOrigin =>
                /\ sent.allow = "*" => ~sent.creds /\ "*" \in setup.cors.AllowedOrigins
                /\ sent.allow # "*" => sent.allow = setup.sent[r].origin
                                       /\ sent.allow \in named /\ "Origin" \in sent.vary

\* A Timeout bounds its request: it is answered even if its handler never ends,
\* and whatever other requests do, unless a writer's panic has left the Logger's
\* mutex locked.
TimeoutBounds ==
    \A r \in Requests :
        (~setup.writerPanics /\ place[<<r, "timeout">>].going # "absent") ~> Ended(r)

\* A handler behind the router can read the parameters of its route, as the quick
\* start of the repository's README does behind these middlewares.
ParamReachesHandler == \A g \in Routines : InHandler(g) => ReadsParam(g) = g[1]
=============================================================================
