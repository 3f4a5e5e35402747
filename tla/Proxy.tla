------------------------------- MODULE Proxy -------------------------------
(***************************************************************************)
(* The request path of an edge: pkg/proxy over pkg/selector's filter, the  *)
(* metrics of MetricsFeed and the response cache.  Each client stands for  *)
(* a connection whose requests a goroutine of net/http serves one by one.  *)
(*                                                                         *)
(* Abstractions.  A request is what routing tells apart: how its chain is  *)
(* named, the capability its path needs, its height, and what it asks for. *)
(* The metadata of all Backends is known: one without is as good as one    *)
(* without metrics, for buildCandidates wants both.  Scores and stickiness *)
(* only choose among the candidates, so the choice is free.  Whether the   *)
(* rate limiter lets a request pass is free, too, and the cache (module    *)
(* ResponseCache) keeps an entry for as long as it likes.                  *)
(***************************************************************************)
EXTENDS MetricsFeed, Sequences

CONSTANTS
    Clients,
    Chains,
    ChainOf,        \* the chain of each backend
    CapsOf,         \* the capabilities of each backend
    AllowedChains,  \* Proxy.allowedChains; empty allows all
    Requests,       \* the requests clients make
    HeightDelta     \* selector.Config.HeightDelta

\* No chain: a host without a dot, or an absent X-Mesh-Chain header.
None == "none"

Methods == {"GET", "POST"}

\* One path for each way in which capabilityForRequest and shouldNegativeCache
\* tell paths apart.
Paths == {"/block", "/tx_search", "/cosmos/bank", "/cosmos/tx/", "/grpc"}

Request == [host : Chains \cup {None}, header : Chains \cup {None},
            path : Paths, method : Methods,
            height : Nat, ws : BOOLEAN, upgrade : BOOLEAN]

ASSUME ProxyAssumption ==
    /\ ChainOf \in [Backends -> Chains]
    /\ CapsOf \in [Backends -> SUBSET {"rpc", "grpc", "lcd", "ws"}]
    /\ AllowedChains \subseteq Chains
    /\ Requests \subseteq Request
    /\ HeightDelta \in Nat
    /\ None \notin Chains

VARIABLES
    cache,      \* the keys with a live entry, and what they hold
    call        \* call[c]: how far the handler of c's request is

vars == <<metrics, sincePrune, cache, call>>

-----------------------------------------------------------------------------
(* Requests, candidates and keys                                           *)

ExtractChain(q) == IF q.host # None THEN q.host ELSE q.header

Permitted(q) ==
    /\ ExtractChain(q) # None
    /\ AllowedChains # {} => ExtractChain(q) \in AllowedChains

CapabilityForRequest(q) ==
    CASE q.ws -> "ws"
      [] ~q.ws /\ q.path = "/grpc" -> "grpc"
      [] ~q.ws /\ q.path \in {"/cosmos/bank", "/cosmos/tx/"} -> "lcd"
      [] OTHER -> "rpc"

\* buildCandidates: the pool and the environment.
Pool(q) == {b \in DOMAIN metrics : ChainOf[b] = ExtractChain(q)}
BestHeight(pool) == Max({0} \cup {metrics[b].report.height : b \in pool})

\* filterCandidates.  Pool, environment and request stay the same from one
\* attempt to the next, so it is evaluated once.
FilterCandidates(q, pool) ==
    {b \in pool :
        LET m == metrics[b].report IN
        /\ CapabilityForRequest(q) \in CapsOf[b]
        /\ m.health = "ok"
        /\ ~m.catchingUp
        /\ IF q.height = 0 THEN m.height + HeightDelta >= BestHeight(pool)
                           ELSE m.height >= q.height}

Cacheable(q) == q.method = "GET" /\ q.height # 0
ShouldNegativeCache(q) == q.method = "GET" /\ q.path \in {"/tx_search", "/cosmos/tx/"}

\* Mutant of CacheKey: the key leaves out the host.
CacheKeyNoHost(q, suffix) == [host |-> None, path |-> q.path, height |-> q.height, suffix |-> suffix]

\* cacheKey: method (always GET), host, path and query.
CacheKey(q, suffix) == [host |-> q.host, path |-> q.path, height |-> q.height, suffix |-> suffix]

\* What a client can get: what a backend says of its chain, fresh or from the
\* cache, or an error of the proxy's own.  Refused stands for 400, 403, 429
\* and 503, and 500 for all other statuses of a backend.
Statuses == {200, 404, 500}
Answers == [status : Statuses \cup {502, 503}, chain : Chains \cup {None}, hit : BOOLEAN]
Refused == [status |-> 503, chain |-> None, hit |-> FALSE]
Unavailable == [status |-> 502, chain |-> None, hit |-> FALSE]

Keys == [host : Chains \cup {None}, path : Paths, height : Nat, suffix : {"height", "404"}]
Entries == [status : {200, 404}, chain : Chains]

Call == [pc : {"done", "build", "lookup", "body", "pick", "forward", "store",
               "accept", "dial", "relay"},
         req : Requests,
         candidates : SUBSET Backends,   \* what the filter leaves of the pool
         attempt : 0..2,                 \* picks so far
         tried : SUBSET Backends,
         target : Backends \cup {None},
         hijacked : BOOLEAN,             \* the connection is a websocket now
         contacted : Seq(Backends),      \* history: requests sent, sockets dialled
         answers : Seq(Answers)]         \* history: what was written to the client

NewCall(q, pc, answers) ==
    [pc |-> pc, req |-> q, candidates |-> {}, attempt |-> 0, tried |-> {}, target |-> None,
     hijacked |-> FALSE, contacted |-> <<>>, answers |-> answers]

TypeOK ==
    /\ FeedTypeOK
    /\ DOMAIN cache \subseteq Keys
    /\ cache \in [DOMAIN cache -> Entries]
    /\ call \in [Clients -> Call]

Init ==
    /\ FeedInit
    /\ cache = EmptyMap
    /\ call \in [Clients -> {NewCall(q, "done", <<>>) : q \in Requests}]

-----------------------------------------------------------------------------
(* What the steps of a handler do to its record                            *)

Go(r, pc) == [r EXCEPT !.pc = pc]

\* Leave the handler with an answer.  On a connection that was hijacked
\* http.Error has no effect.
Finished(r, answer) ==
    [r EXCEPT !.pc = "done", !.answers = IF r.hijacked THEN @ ELSE Append(@, answer)]

\* Mutant of Failed: the backend is not remembered.
FailedForgets(r) == [r EXCEPT !.pc = "pick"]

\* An attempt failed: remember the backend and go on with the loop.
Failed(r) == [r EXCEPT !.tried = @ \cup {r.target}, !.pc = "pick"]

\* A request is sent to the target, or a socket dialled.
Contacted(r) == [r EXCEPT !.contacted = Append(@, r.target)]

\* The target answers.
Answered(r, status, pc) ==
    [r EXCEPT !.contacted = Append(@, r.target),
              !.answers = Append(@, [status |-> status, chain |-> ChainOf[r.target], hit |-> FALSE]),
              !.pc = pc]

\* The handler of c goes on with record r, and touches nothing else.
Becomes(c, r) ==
    /\ call' = [call EXCEPT ![c] = r]
    /\ UNCHANGED <<metrics, sincePrune, cache>>

-----------------------------------------------------------------------------
(* Every request                                                           *)

\* ServeHTTP up to the handler: no chain, a chain not permitted, or the rate
\* limit, which may refuse anyone.
ServeHTTP(c, q) ==
    /\ call[c].pc = "done"
    /\ \/ Becomes(c, NewCall(q, "done", <<Refused>>))
       \/ Permitted(q) /\ Becomes(c, NewCall(q, "build", <<>>))

\* buildCandidates, which both handlers begin with.
BuildCandidates(c) ==
    LET q == call[c].req
        next == IF q.ws THEN "pick" ELSE IF Cacheable(q) THEN "lookup" ELSE "body"
    IN
    /\ call[c].pc = "build"
    /\ IF Pool(q) = {}
       THEN Becomes(c, Finished(call[c], Refused))
       ELSE Becomes(c, [call[c] EXCEPT !.candidates = FilterCandidates(q, Pool(q)), !.pc = next])

\* pickCandidate: what is left for the next attempt.
Untried(r) == r.candidates \ r.tried

\* One more attempt.  Scores, softmax weights and stickiness make some
\* candidates likelier than others; Pick may return any of them.
Pick(c) ==
    /\ call[c].pc = "pick"
    /\ call[c].attempt < 2
    /\ \E b \in Untried(call[c]) :
          Becomes(c, [call[c] EXCEPT !.target = b, !.attempt = @ + 1,
                                     !.pc = IF call[c].req.ws THEN "accept" ELSE "forward"])

\* Mutant of GiveUp: one attempt is all.
GiveUpAtOnce(c) ==
    /\ call[c].pc = "pick"
    /\ call[c].attempt >= 1 \/ Untried(call[c]) = {}
    /\ Becomes(c, Finished(call[c], Unavailable))

\* Mutant of GiveUp: the error of pickCandidate does not end the loop.
GiveUpOnlyAfterTwo(c) ==
    /\ call[c].pc = "pick"
    /\ call[c].attempt = 2
    /\ Becomes(c, Finished(call[c], Unavailable))

\* Two attempts were made, or pickCandidate fails: 502.
GiveUp(c) ==
    /\ call[c].pc = "pick"
    /\ call[c].attempt = 2 \/ Untried(call[c]) = {}
    /\ Becomes(c, Finished(call[c], Unavailable))

-----------------------------------------------------------------------------
(* handleHTTP                                                              *)

Hit(e) == [status |-> e.status, chain |-> e.chain, hit |-> TRUE]

\* Mutant of Lookup: no return after a hit.
LookupFallsThrough(c) ==
    LET k == CacheKey(call[c].req, "height") IN
    /\ call[c].pc = "lookup"
    /\ Becomes(c, IF k \in DOMAIN cache THEN Go(Finished(call[c], Hit(cache[k])), "body")
                                        ELSE Go(call[c], "body"))

\* The cache answers, or the request goes on to its body.
Lookup(c) ==
    LET k == CacheKey(call[c].req, "height") IN
    /\ call[c].pc = "lookup"
    /\ Becomes(c, IF k \in DOMAIN cache THEN Finished(call[c], Hit(cache[k]))
                                        ELSE Go(call[c], "body"))

\* readRequestBody: the client may break off.
ReadRequestBody(c) ==
    /\ call[c].pc = "body"
    /\ Becomes(c, Finished(call[c], Refused)) \/ Becomes(c, Go(call[c], "pick"))

\* forwardRequest fails: the backend cannot be reached, breaks off within its
\* answer, or the client leaves and takes the context with it.  A contact is one
\* RoundTrip; net/http may itself send a request that can be replayed again, to
\* the same backend, when a connection it kept open breaks.
ForwardFails(c) ==
    /\ call[c].pc = "forward"
    /\ Becomes(c, Failed(Contacted(call[c])))

\* forwardRequest returns, and writeUpstreamResponse writes to the client.
WriteUpstreamResponse(c, status) ==
    /\ call[c].pc = "forward"
    /\ Becomes(c, Answered(call[c], status, "store"))

\* Mutant of StoredUnder: the status is not looked at.
StoredUnderAnyStatus(q, status) == IF Cacheable(q) THEN {CacheKey(q, "height")} ELSE {}

\* The keys under which writeUpstreamResponse may store an answer.  A 404 goes
\* under a key of its own, which nobody looks up.
StoredUnder(q, status) ==
    IF Cacheable(q) /\ status = 200 THEN {CacheKey(q, "height")}
    ELSE IF status = 404 /\ ShouldNegativeCache(q) THEN {CacheKey(q, "404")}
    ELSE {}

\* The rest of writeUpstreamResponse; a body that is too large is not stored.
StoreResponse(c) ==
    LET a == call[c].answers[Len(call[c].answers)] IN
    /\ call[c].pc = "store"
    /\ call' = [call EXCEPT ![c] = Go(call[c], "done")]
    /\ \E keys \in SUBSET StoredUnder(call[c].req, a.status) :
          cache' = [k \in DOMAIN cache \cup keys |->
                       IF k \in keys THEN [status |-> a.status, chain |-> a.chain] ELSE cache[k]]
    /\ UNCHANGED feedVars

\* An entry expires or is evicted.
Evict(k) ==
    /\ cache' = [x \in DOMAIN cache \ {k} |-> cache[x]]
    /\ UNCHANGED <<metrics, sincePrune, call>>

-----------------------------------------------------------------------------
(* handleWebsocket                                                         *)

\* websocket.Accept.  It answers a request that is no upgrade with an error of
\* its own, and it cannot hijack a connection twice.
Accept(c) ==
    /\ call[c].pc = "accept"
    /\ \/ /\ call[c].req.upgrade /\ ~call[c].hijacked
          /\ Becomes(c, [call[c] EXCEPT !.hijacked = TRUE, !.pc = "dial"])
       \/ /\ ~call[c].req.upgrade
          /\ Becomes(c, Failed(Finished(call[c], Refused)))
       \/ /\ call[c].hijacked
          /\ Becomes(c, Failed(call[c]))

DialFails(c) ==
    /\ call[c].pc = "dial"
    /\ Becomes(c, Failed(Contacted(call[c])))

\* The backend is there: both relays run.
Dial(c) ==
    /\ call[c].pc = "dial"
    /\ Becomes(c, Answered(call[c], 200, "relay"))

\* The first relay to end decides: a normal closure is the end of the request,
\* any other error that of the attempt.
RelayEnds(c) ==
    /\ call[c].pc = "relay"
    /\ Becomes(c, Go(call[c], "done")) \/ Becomes(c, Failed(call[c]))

-----------------------------------------------------------------------------
HandleHTTP(c) ==
    \/ Lookup(c) \/ ReadRequestBody(c) \/ ForwardFails(c) \/ StoreResponse(c)
    \/ \E status \in Statuses : WriteUpstreamResponse(c, status)

HandleWebsocket(c) == Accept(c) \/ DialFails(c) \/ Dial(c)

Handler(c) == BuildCandidates(c) \/ Pick(c) \/ GiveUp(c) \/ HandleHTTP(c) \/ HandleWebsocket(c)

Next ==
    \/ FeedNext /\ UNCHANGED <<cache, call>>
    \/ \E k \in DOMAIN cache : Evict(k)
    \/ \E c \in Clients : Handler(c) \/ RelayEnds(c) \/ \E q \in Requests : ServeHTTP(c, q)

Spec == Init /\ [][Next]_vars

\* The steps of a handler that cannot keep it waiting for ever: the body has the
\* server's ReadTimeout and a dial a deadline of its own.  The answer to a
\* forwarded request has neither, and a websocket may stay open for ever.
Prompt(c) ==
    \/ BuildCandidates(c) \/ Pick(c) \/ GiveUp(c)
    \/ Lookup(c) \/ ReadRequestBody(c) \/ StoreResponse(c)
    \/ HandleWebsocket(c)

FairSpec == Spec /\ \A c \in Clients : WF_vars(Prompt(c))

-----------------------------------------------------------------------------
(* Properties                                                              *)

Contacts(r) == {r.contacted[i] : i \in DOMAIN r.contacted}
Got(r, a) == \E i \in DOMAIN r.answers : r.answers[i] = a

\* However the attempts of a request fail, the handler turns to at most two
\* backends and to none of them twice, so that what a backend may have done
\* before its answer got lost is asked of one other backend at most.
EachBackendOnce ==
    \A c \in Clients :
        /\ Len(call[c].contacted) <= 2
        /\ \A i, j \in DOMAIN call[c].contacted :
              call[c].contacted[i] = call[c].contacted[j] => i = j

\* Either two backends were contacted or all that qualify.
TriedEnough(r) ==
    \/ r.candidates \subseteq Contacts(r)
    \/ Len(r.contacted) = 2

\* A client is told that no upstream is available only after all backends that
\* qualified when its request came, or two of them, failed it.
HttpFailsOver ==
    \A c \in Clients :
        ~call[c].req.ws /\ Got(call[c], Unavailable) => TriedEnough(call[c])

\* The same for websockets: "High availability: ... automatic failover".
WebsocketFailsOver ==
    \A c \in Clients :
        call[c].hijacked /\ call[c].pc = "done" /\ call[c].answers = <<>> => TriedEnough(call[c])

\* What a client gets of a backend, now or from the cache, is from a backend
\* of the chain its host names.
AnswersAreOfTheChain ==
    \A c \in Clients : \A i \in DOMAIN call[c].answers :
        LET a == call[c].answers[i] IN
        a.chain # None /\ call[c].req.host # None => a.chain = call[c].req.host

\* The same for a chain that the X-Mesh-Chain header names.
HeaderNamesTheChain ==
    \A c \in Clients : \A i \in DOMAIN call[c].answers :
        LET a == call[c].answers[i] IN
        a.chain # None => a.chain = ExtractChain(call[c].req)

\* What may be written for a request: one answer, or, for a request to the ws
\* service that is no upgrade, an error for each attempt and one more.
AnswersAllowed(q) == IF q.ws /\ ~q.upgrade THEN 3 ELSE 1

\* Nothing is written to a client that has its answer, across the cache, the
\* attempts and the hijacked connection; only a plain request to the ws service
\* is answered more than once, by Accept on each attempt and by the handler.
AnsweredOnce ==
    \A c \in Clients : Len(call[c].answers) <= AnswersAllowed(call[c].req)

\* A request that gets to its handler is answered, or, if it is for a websocket,
\* relayed or dropped, unless it waits for ever for the answer of a backend: there
\* is no other place where it can be stuck.
RequestsEnd ==
    \A c \in Clients :
        call[c].pc = "build" ~>
            \/ IF call[c].req.ws THEN call[c].pc \in {"relay", "done"}
               ELSE call[c].pc = "done" /\ Len(call[c].answers) = 1
            \/ [](call[c].pc = "forward")
============================================================================
