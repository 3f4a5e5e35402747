---------------------------- MODULE ProxyProofs ----------------------------
(***************************************************************************)
(* The safety of the request path, for any number of clients, backends,    *)
(* chains and requests, and whatever backends report and answer.           *)
(***************************************************************************)
EXTENDS Proxy, SequenceTheorems, TLAPS

(* The metrics table                                                       *)

\* A prune leaves nothing older than the TTL, and entries age with the ticker.
AgesFollowTheTicker ==
    \A b \in DOMAIN metrics : metrics[b].age <= MetricsTTL + sincePrune

FeedInv == FeedTypeOK /\ AgesFollowTheTicker

\* The collector makes a report of whatever its probes find.
LEMMA CollectReports ==
    ASSUME NEW b \in Backends, NEW p \in Probes[b]
    PROVE  Collect(p) \in Reports
BY FeedAssumption DEF Collect, Reports

\* Reports, time and prunes keep the table's types and the bound on ages.
LEMMA FeedStep ==
    ASSUME FeedInv, FeedNext
    PROVE  FeedInv'
<1> USE DEF FeedInv, FeedTypeOK, AgesFollowTheTicker
<1>1. ASSUME NEW b \in Backends, Report(b)
      PROVE  FeedInv'
  <2>1. PICK p \in Probes[b] : ApplyBackendMetrics(b, Collect(p))
    BY <1>1 DEF Report
  <2>2. [report |-> Collect(p), age |-> 0] \in Metrics
    BY CollectReports DEF Metrics
  <2>3. sincePrune' = sincePrune /\ MetricsTTL + sincePrune \in Nat /\ MetricsTTL + sincePrune >= 0
    BY <2>1, FeedAssumption DEF ApplyBackendMetrics
  <2> QED
    BY <2>1, <2>2, <2>3 DEF ApplyBackendMetrics, Metrics
<1>2. CASE Tick
  BY <1>2, FeedAssumption DEF Tick, Metrics
<1>3. CASE Prune
  BY <1>3, FeedAssumption DEF Prune, Expired, Metrics
<1> QED
  BY <1>1, <1>2, <1>3 DEF FeedNext

-----------------------------------------------------------------------------
(* One request                                                             *)

Beginning == {"build", "lookup", "body"}
Attempting == {"forward", "accept", "dial"}

\* Which handler a request is in, and what it has done before its attempts.
PhaseInv(r) ==
    /\ r.pc \in {"lookup", "body", "forward", "store"} => ~r.req.ws
    /\ r.pc \in {"accept", "dial", "relay"} => r.req.ws
    /\ r.pc \in {"dial", "relay"} => r.hijacked
    /\ r.hijacked => r.req.ws
    /\ r.pc \in Beginning =>
          r.attempt = 0 /\ r.tried = {} /\ r.contacted = <<>> /\ ~r.hijacked
    /\ r.pc \in Attempting \cup {"store", "relay"} => r.target \in r.candidates
    /\ r.pc \in Attempting => r.target \notin r.tried

\* Who was contacted: backends that were tried, and the one that answered.
ContactInv(r) ==
    /\ \A i \in DOMAIN r.contacted :
          \/ r.contacted[i] \in r.tried
          \/ r.pc \in {"store", "relay", "done"} /\ r.contacted[i] = r.target
    /\ \A i, j \in DOMAIN r.contacted : r.contacted[i] = r.contacted[j] => i = j
    /\ Len(r.contacted) <= r.attempt
    /\ r.pc \in Attempting => Len(r.contacted) < r.attempt

\* Without websockets an attempt is a contact.
AttemptInv(r) ==
    ~r.req.ws =>
        /\ \A b \in r.tried : \E i \in DOMAIN r.contacted : r.contacted[i] = b
        /\ r.pc = "pick" => Len(r.contacted) = r.attempt
        /\ r.pc = "forward" => Len(r.contacted) + 1 = r.attempt
        /\ Got(r, Unavailable) => TriedEnough(r)

\* A client without an answer, and one with.
SingleAnswer(r) ==
    /\ Len(r.answers) <= 1
    /\ r.pc \notin {"done", "store"} /\ ~r.hijacked => r.answers = <<>>
    /\ r.pc = "dial" => r.answers = <<>>

\* A plain request to the ws service is refused once for each attempt that is
\* over, and once more at the end.
RefusedPerAttempt(r) ==
    /\ ~r.hijacked
    /\ Len(r.answers) <= r.attempt + 1
    /\ r.pc # "done" => Len(r.answers) <= r.attempt
    /\ r.pc = "accept" => Len(r.answers) < r.attempt

AnswerInv(r) ==
    /\ (r.req.ws => r.req.upgrade) => SingleAnswer(r)
    /\ r.req.ws /\ ~r.req.upgrade => RefusedPerAttempt(r)

\* Where answers come from.
Faithful(q, a) ==
    a.chain # None /\ q.host # None => a.chain = q.host

ChainInv(r) ==
    /\ \A b \in r.candidates : ChainOf[b] = ExtractChain(r.req)
    /\ \A i \in DOMAIN r.answers : Faithful(r.req, r.answers[i])
    /\ r.pc = "store" =>
          /\ r.answers # <<>>
          /\ r.answers[Len(r.answers)].chain = ExtractChain(r.req)
          /\ r.answers[Len(r.answers)].chain # None
          /\ r.answers[Len(r.answers)].status \in Statuses

CallInv(r) == PhaseInv(r) /\ ContactInv(r) /\ AttemptInv(r) /\ AnswerInv(r) /\ ChainInv(r)

\* Entries are of the chain their key names.
CacheInv ==
    \A k \in DOMAIN cache : k.host # None => cache[k].chain = k.host

IInv ==
    /\ TypeOK
    /\ AgesFollowTheTicker
    /\ CacheInv
    /\ \A c \in Clients : CallInv(call[c])

-----------------------------------------------------------------------------
(* What the steps do to the record of a request                            *)

\* Appending to a sequence, as the proofs below need it.
LEMMA Appended ==
    ASSUME NEW S, NEW s \in Seq(S), NEW e \in S
    PROVE  /\ Append(s, e) \in Seq(S)
           /\ Len(Append(s, e)) = Len(s) + 1
           /\ Len(s) \in Nat
           /\ DOMAIN Append(s, e) = DOMAIN s \cup {Len(s) + 1}
           /\ Len(s) + 1 \notin DOMAIN s
           /\ \A i \in DOMAIN s : Append(s, e)[i] = s[i]
           /\ Append(s, e)[Len(s) + 1] = e
OBVIOUS

\* The proxy's own errors are answers, and of no chain.
LEMMA Errors ==
    /\ Refused \in Answers /\ Unavailable \in Answers
    /\ Refused.chain = None /\ Unavailable.chain = None
    /\ Refused # Unavailable
BY DEF Refused, Unavailable, Answers

\* A new request starts with a clean record.
LEMMA NewCallInv ==
    ASSUME NEW q \in Requests
    PROVE  /\ NewCall(q, "done", <<>>) \in Call /\ CallInv(NewCall(q, "done", <<>>))
           /\ NewCall(q, "done", <<Refused>>) \in Call /\ CallInv(NewCall(q, "done", <<Refused>>))
           /\ NewCall(q, "build", <<>>) \in Call /\ CallInv(NewCall(q, "build", <<>>))
<1> USE DEF NewCall, Beginning, Attempting
<1>1. /\ <<>> \in Seq(Backends) /\ <<>> \in Seq(Answers) /\ <<Refused>> \in Seq(Answers)
      /\ Len(<<>>) = 0 /\ Len(<<Refused>>) = 1 /\ DOMAIN <<>> = {} /\ DOMAIN <<Refused>> = {1}
      /\ <<Refused>>[1] = Refused
  BY Errors
<1>2. ASSUME NEW pc \in {"done", "build"}, NEW answers \in {<<>>, <<Refused>>},
             pc = "build" => answers = <<>>
      PROVE  NewCall(q, pc, answers) \in Call /\ CallInv(NewCall(q, pc, answers))
  <2> DEFINE r == NewCall(q, pc, answers)
  <2>0. answers \in Seq(Answers)
    BY <1>1
  <2>1. r \in Call
    BY <2>0, <1>1 DEF Call
  <2>2. PhaseInv(r) /\ ContactInv(r)
    BY <1>1, <1>2 DEF PhaseInv, ContactInv
  <2>3. AttemptInv(r)
    BY <1>1, <1>2, Errors DEF AttemptInv, Got, TriedEnough
  <2>4. AnswerInv(r)
    <3>1. r.answers = answers /\ r.attempt = 0 /\ r.pc = pc /\ ~r.hijacked
      OBVIOUS
    <3>2. Len(answers) \in {0, 1} /\ (pc # "done" => answers = <<>>) /\ pc # "accept"
      BY <1>1, <1>2
    <3> QED
      BY <1>1, <3>1, <3>2 DEF AnswerInv, SingleAnswer, RefusedPerAttempt
  <2>5. ChainInv(r)
    BY <1>1, <1>2, Errors DEF ChainInv, Faithful
  <2> QED
    BY <2>1, <2>2, <2>3, <2>4, <2>5 DEF CallInv
<1> QED
  BY <1>2

\* Moving on without doing anything, where a handler does.
LEMMA GoInv ==
    ASSUME NEW r \in Call, CallInv(r), NEW pc,
           \/ r.pc = "lookup" /\ pc = "body"
           \/ r.pc = "body" /\ pc = "pick"
           \/ r.pc \in {"store", "relay"} /\ pc = "done"
    PROVE  Go(r, pc) \in Call /\ CallInv(Go(r, pc))
<1> DEFINE s == Go(r, pc)
<1> USE DEF Go
<1>1. s \in Call
  BY DEF Call
<1>2. PhaseInv(s) /\ ContactInv(s)
  BY DEF Call, CallInv, PhaseInv, ContactInv, Beginning, Attempting
<1>3. AttemptInv(s)
  BY DEF Call, CallInv, PhaseInv, AttemptInv, Got, TriedEnough, Contacts, Beginning
<1>4. AnswerInv(s) /\ ChainInv(s)
  BY DEF Call, CallInv, PhaseInv, AnswerInv, SingleAnswer, RefusedPerAttempt, ChainInv
<1> QED
  BY <1>1, <1>2, <1>3, <1>4 DEF CallInv

\* Leaving the handler with an answer.
LEMMA FinishedInv ==
    ASSUME NEW r \in Call, CallInv(r), r.pc \in Beginning \cup {"pick"},
           NEW a \in Answers, Faithful(r.req, a),
           a = Unavailable /\ ~r.req.ws => TriedEnough(r)
    PROVE  Finished(r, a) \in Call /\ CallInv(Finished(r, a))
<1> DEFINE s == Finished(r, a)
<1>0. /\ r.answers \in Seq(Answers) /\ r.contacted \in Seq(Backends) /\ r.hijacked \in BOOLEAN
      /\ s.answers = IF r.hijacked THEN r.answers ELSE Append(r.answers, a)
      /\ s.pc = "done" /\ s.req = r.req /\ s.candidates = r.candidates /\ s.attempt = r.attempt
      /\ s.tried = r.tried /\ s.target = r.target /\ s.hijacked = r.hijacked
      /\ s.contacted = r.contacted
  BY DEF Call, Finished
<1>1. s \in Call
  <2>1. (IF r.hijacked THEN r.answers ELSE Append(r.answers, a)) \in Seq(Answers)
    BY <1>0, Appended
  <2> QED
    BY <2>1 DEF Call, Finished
<1>2. PhaseInv(s) /\ ContactInv(s)
  BY <1>0 DEF CallInv, PhaseInv, ContactInv, Beginning, Attempting
<1>3. AttemptInv(s)
  <2>1. SUFFICES ASSUME ~r.req.ws, Got(s, Unavailable)
                 PROVE  TriedEnough(s)
    BY <1>0 DEF CallInv, AttemptInv, TriedEnough, Contacts
  <2>2. Got(r, Unavailable) \/ a = Unavailable
    BY <2>1, <1>0, Appended DEF Got
  <2> QED
    BY <2>1, <2>2, <1>0 DEF CallInv, AttemptInv, TriedEnough, Contacts
<1>4. AnswerInv(s)
  <2>1. CASE r.hijacked
    BY <2>1, <1>0 DEF CallInv, AnswerInv, SingleAnswer, RefusedPerAttempt
  <2>2. CASE ~r.hijacked
    <3>1. Len(s.answers) = Len(r.answers) + 1 /\ Len(r.answers) \in Nat /\ r.attempt \in 0..2
      BY <2>2, <1>0, Appended DEF Call
    <3> QED
      BY <2>2, <3>1, <1>0 DEF CallInv, AnswerInv, SingleAnswer, RefusedPerAttempt, Beginning
  <2> QED
    BY <2>1, <2>2
<1>5. ChainInv(s)
  BY <1>0, Appended DEF CallInv, ChainInv
<1> QED
  BY <1>1, <1>2, <1>3, <1>4, <1>5 DEF CallInv

\* An attempt whose target was contacted fails.
LEMMA FailedContactInv ==
    ASSUME NEW r \in Call, CallInv(r), r.pc \in {"forward", "dial"}, r.target \in Backends
    PROVE  Failed(Contacted(r)) \in Call /\ CallInv(Failed(Contacted(r)))
<1> DEFINE s == Failed(Contacted(r))
<1>0. /\ r.contacted \in Seq(Backends) /\ r.tried \subseteq Backends /\ r.attempt \in 0..2
      /\ s.contacted = Append(r.contacted, r.target) /\ s.tried = r.tried \cup {r.target}
      /\ s.pc = "pick" /\ s.req = r.req /\ s.candidates = r.candidates /\ s.attempt = r.attempt
      /\ s.answers = r.answers /\ s.target = r.target /\ s.hijacked = r.hijacked
  BY DEF Call, Failed, Contacted
<1>1. s \in Call
  <2>1. Append(r.contacted, r.target) \in Seq(Backends) /\ r.tried \cup {r.target} \subseteq Backends
    BY <1>0, Appended
  <2> QED
    BY <2>1 DEF Call, Failed, Contacted
<1>2. PhaseInv(s)
  BY <1>0 DEF CallInv, PhaseInv, Beginning, Attempting
<1>3. ContactInv(s)
  BY <1>0, Appended DEF CallInv, PhaseInv, ContactInv, Attempting
<1>4. AttemptInv(s)
  <2>1. r.pc = "forward" => s.req = r.req /\ ~Got(s, Unavailable)
    BY <1>0 DEF CallInv, PhaseInv, AnswerInv, SingleAnswer, RefusedPerAttempt, Got
  <2> QED
    BY <2>1, <1>0, Appended DEF CallInv, PhaseInv, AttemptInv
<1>5. AnswerInv(s) /\ ChainInv(s)
  BY <1>0 DEF CallInv, PhaseInv, AnswerInv, SingleAnswer, RefusedPerAttempt, ChainInv
<1> QED
  BY <1>1, <1>2, <1>3, <1>4, <1>5 DEF CallInv

\* A websocket attempt fails without a new contact: the connection cannot be
\* accepted again, or a relay breaks.
LEMMA FailedInv ==
    ASSUME NEW r \in Call, CallInv(r), r.hijacked, r.pc \in {"accept", "relay"},
           r.target \in Backends
    PROVE  Failed(r) \in Call /\ CallInv(Failed(r))
<1> DEFINE s == Failed(r)
<1>0. /\ r.tried \subseteq Backends /\ r.req.ws
      /\ s.contacted = r.contacted /\ s.tried = r.tried \cup {r.target}
      /\ s.pc = "pick" /\ s.req = r.req /\ s.candidates = r.candidates /\ s.attempt = r.attempt
      /\ s.answers = r.answers /\ s.target = r.target /\ s.hijacked = r.hijacked
  BY DEF Call, Failed, CallInv, PhaseInv
<1>1. s \in Call
  BY <1>0 DEF Call, Failed
<1>2. PhaseInv(s) /\ ContactInv(s)
  BY <1>0 DEF CallInv, PhaseInv, ContactInv, Beginning, Attempting
<1>3. AttemptInv(s) /\ AnswerInv(s) /\ ChainInv(s)
  BY <1>0 DEF CallInv, AttemptInv, AnswerInv, SingleAnswer, RefusedPerAttempt, ChainInv
<1> QED
  BY <1>1, <1>2, <1>3 DEF CallInv

\* Accept refuses a request that is no upgrade, and the loop goes on.
LEMMA NoUpgradeInv ==
    ASSUME NEW r \in Call, CallInv(r), r.pc = "accept", ~r.req.upgrade, r.target \in Backends
    PROVE  /\ Failed(Finished(r, Refused)) \in Call
           /\ CallInv(Failed(Finished(r, Refused)))
<1> DEFINE t == Finished(r, Refused)
           s == Failed(t)
<1>0. /\ r.tried \subseteq Backends /\ r.req.ws /\ r.answers \in Seq(Answers)
      /\ s.contacted = r.contacted /\ s.tried = r.tried \cup {r.target}
      /\ s.pc = "pick" /\ s.req = r.req /\ s.candidates = r.candidates /\ s.attempt = r.attempt
      /\ s.answers = IF r.hijacked THEN r.answers ELSE Append(r.answers, Refused)
      /\ s.target = r.target /\ s.hijacked = r.hijacked
  BY DEF Call, Failed, Finished, CallInv, PhaseInv
<1>1. s \in Call
  <2>1. (IF r.hijacked THEN r.answers ELSE Append(r.answers, Refused)) \in Seq(Answers)
    BY <1>0, Appended, Errors
  <2>2. t \in Call /\ t.tried = r.tried /\ t.target = r.target
    BY <2>1 DEF Call, Finished
  <2>3. t.tried \cup {t.target} \subseteq Backends
    BY <2>2, <1>0
  <2> QED
    BY <2>2, <2>3 DEF Call, Failed
<1>2. PhaseInv(s) /\ ContactInv(s)
  BY <1>0 DEF CallInv, PhaseInv, ContactInv, Beginning, Attempting
<1>3. AttemptInv(s) /\ AnswerInv(s)
  <2>1. ~r.hijacked
    BY <1>0 DEF CallInv, AnswerInv, RefusedPerAttempt
  <2>2. Len(s.answers) = Len(r.answers) + 1 /\ Len(r.answers) \in Nat /\ r.attempt \in 0..2
    BY <2>1, <1>0, Appended, Errors DEF Call
  <2> QED
    BY <2>1, <2>2, <1>0 DEF CallInv, AttemptInv, AnswerInv, RefusedPerAttempt
<1>4. ChainInv(s)
  <2>1. Faithful(r.req, Refused)
    BY Errors DEF Faithful
  <2> QED
    BY <2>1, <1>0, Appended, Errors DEF CallInv, ChainInv
<1> QED
  BY <1>1, <1>2, <1>3, <1>4 DEF CallInv

\* The connection becomes a websocket.
LEMMA AcceptedInv ==
    ASSUME NEW r \in Call, CallInv(r), r.pc = "accept", r.req.upgrade, ~r.hijacked
    PROVE  /\ [r EXCEPT !.hijacked = TRUE, !.pc = "dial"] \in Call
           /\ CallInv([r EXCEPT !.hijacked = TRUE, !.pc = "dial"])
<1> DEFINE s == [r EXCEPT !.hijacked = TRUE, !.pc = "dial"]
<1>1. s \in Call
  BY DEF Call
<1>2. /\ s.hijacked = TRUE /\ s.pc = "dial"
      /\ s.contacted = r.contacted /\ s.tried = r.tried /\ s.req = r.req
      /\ s.candidates = r.candidates /\ s.attempt = r.attempt
      /\ s.answers = r.answers /\ s.target = r.target
  BY DEF Call
<1>3. PhaseInv(s) /\ ContactInv(s)
  BY <1>2 DEF CallInv, PhaseInv, ContactInv, Beginning, Attempting
<1>4. AttemptInv(s)
  BY <1>2 DEF CallInv, PhaseInv, AttemptInv
<1>5. AnswerInv(s) /\ ChainInv(s)
  BY <1>2 DEF CallInv, AnswerInv, SingleAnswer, RefusedPerAttempt, ChainInv
<1> QED
  BY <1>1, <1>3, <1>4, <1>5 DEF CallInv

\* The target answers a request, or a dial.
LEMMA AnsweredInv ==
    ASSUME NEW r \in Call, CallInv(r), r.target \in Backends, NEW status \in Statuses, NEW pc,
           \/ r.pc = "forward" /\ pc = "store"
           \/ r.pc = "dial" /\ pc = "relay"
    PROVE  Answered(r, status, pc) \in Call /\ CallInv(Answered(r, status, pc))
<1> DEFINE s == Answered(r, status, pc)
           a == [status |-> status, chain |-> ChainOf[r.target], hit |-> FALSE]
<1>a. /\ a \in Answers /\ a.status = status /\ a.chain = ChainOf[r.target] /\ ~a.hit
      /\ a.chain \in Chains /\ a.chain # None
  BY ProxyAssumption DEF Answers, Statuses
<1>b. a # Unavailable /\ a.chain = ExtractChain(r.req)
  BY <1>a, Errors DEF CallInv, ChainInv, PhaseInv, Attempting
<1>0. /\ r.contacted \in Seq(Backends) /\ r.answers \in Seq(Answers) /\ r.attempt \in 0..2
      /\ s.contacted = Append(r.contacted, r.target) /\ s.answers = Append(r.answers, a)
      /\ s.pc = pc /\ s.req = r.req /\ s.candidates = r.candidates /\ s.attempt = r.attempt
      /\ s.tried = r.tried /\ s.target = r.target /\ s.hijacked = r.hijacked
  BY DEF Call, Answered
<1>1. s \in Call
  <2>1. Append(r.contacted, r.target) \in Seq(Backends) /\ Append(r.answers, a) \in Seq(Answers)
    BY <1>0, <1>a, Appended
  <2> QED
    BY <2>1 DEF Call, Answered
<1>2. PhaseInv(s)
  BY <1>0 DEF CallInv, PhaseInv, Beginning, Attempting
<1>3. ContactInv(s)
  BY <1>0, Appended DEF CallInv, PhaseInv, ContactInv, Attempting
<1>4. AttemptInv(s)
  <2>1. ~r.req.ws => ~Got(s, Unavailable)
    BY <1>0, <1>b, <1>a, Appended DEF CallInv, PhaseInv, AnswerInv, SingleAnswer, RefusedPerAttempt, Got
  <2> QED
    BY <2>1, <1>0, Appended DEF CallInv, PhaseInv, AttemptInv
<1>5. AnswerInv(s)
  BY <1>0, <1>a, Appended DEF CallInv, PhaseInv, AnswerInv, SingleAnswer, RefusedPerAttempt
<1>6. ChainInv(s)
  <2>1. Faithful(r.req, a)
    BY <1>a, <1>b DEF Faithful, ExtractChain
  <2>2. s.answers[Len(s.answers)] = a /\ s.answers # <<>>
    BY <1>0, <1>a, Appended
  <2> QED
    BY <2>1, <2>2, <1>0, <1>a, <1>b, Appended DEF CallInv, ChainInv
<1> QED
  BY <1>1, <1>2, <1>3, <1>4, <1>5, <1>6 DEF CallInv

\* The candidates are known, and the filter leaves only those of the chain.
LEMMA CandidatesInv ==
    ASSUME FeedTypeOK, NEW r \in Call, CallInv(r), r.pc = "build",
           NEW pc, pc = IF r.req.ws THEN "pick" ELSE IF Cacheable(r.req) THEN "lookup" ELSE "body"
    PROVE  LET s == [r EXCEPT !.candidates = FilterCandidates(r.req, Pool(r.req)), !.pc = pc]
           IN  s \in Call /\ CallInv(s)
<1> DEFINE found == FilterCandidates(r.req, Pool(r.req))
           s == [r EXCEPT !.candidates = found, !.pc = pc]
<1>1. found \subseteq Backends /\ \A b \in found : ChainOf[b] = ExtractChain(r.req)
  BY DEF FilterCandidates, Pool, FeedTypeOK
<1> HIDE DEF found
<1>2. s \in Call
  BY <1>1 DEF Call
<1>3. /\ s.candidates = found /\ s.pc = pc
      /\ s.contacted = r.contacted /\ s.tried = r.tried /\ s.req = r.req
      /\ s.hijacked = r.hijacked /\ s.attempt = r.attempt
      /\ s.answers = r.answers /\ s.target = r.target
  BY DEF Call
<1>4. /\ r.attempt = 0 /\ r.tried = {} /\ r.contacted = <<>> /\ ~r.hijacked
      /\ Len(r.contacted) = 0 /\ DOMAIN r.contacted = {}
  BY DEF CallInv, PhaseInv, Beginning
<1>5. PhaseInv(s) /\ ContactInv(s)
  BY <1>3, <1>4 DEF PhaseInv, ContactInv, Beginning, Attempting
<1>6. AttemptInv(s)
  <2>1. ~r.req.ws => r.answers = <<>>
    BY <1>4 DEF CallInv, AnswerInv, SingleAnswer, RefusedPerAttempt
  <2>2. ~r.req.ws => ~Got(s, Unavailable)
    BY <2>1, <1>3 DEF Got
  <2> QED
    BY <2>2, <1>3, <1>4 DEF AttemptInv
<1>7. AnswerInv(s) /\ ChainInv(s)
  BY <1>1, <1>3, <1>4 DEF CallInv, AnswerInv, SingleAnswer, RefusedPerAttempt, ChainInv
<1> QED
  BY <1>2, <1>5, <1>6, <1>7 DEF CallInv, found

\* The next attempt goes to a candidate that was not tried.
LEMMA PickedInv ==
    ASSUME NEW r \in Call, CallInv(r), r.pc = "pick", r.attempt < 2,
           NEW b \in r.candidates \ r.tried,
           NEW pc, pc = IF r.req.ws THEN "accept" ELSE "forward"
    PROVE  LET s == [r EXCEPT !.target = b, !.attempt = @ + 1, !.pc = pc]
           IN  s \in Call /\ CallInv(s)
<1> DEFINE s == [r EXCEPT !.target = b, !.attempt = @ + 1, !.pc = pc]
<1>1. r.attempt \in 0..2 /\ r.attempt + 1 \in 0..2 /\ r.candidates \subseteq Backends
      /\ r.contacted \in Seq(Backends)
  BY DEF Call
<1>2. s \in Call
  BY <1>1 DEF Call
<1>3. /\ s.candidates = r.candidates /\ s.pc = pc
      /\ s.contacted = r.contacted /\ s.tried = r.tried /\ s.req = r.req
      /\ s.hijacked = r.hijacked /\ s.attempt = r.attempt + 1
      /\ s.answers = r.answers /\ s.target = b
  BY DEF Call
<1>4. PhaseInv(s) /\ ContactInv(s)
  BY <1>1, <1>3 DEF CallInv, PhaseInv, ContactInv, Beginning, Attempting
<1>5. AttemptInv(s)
  <2>1. ~r.req.ws => ~Got(s, Unavailable)
    BY <1>3 DEF CallInv, PhaseInv, AnswerInv, SingleAnswer, RefusedPerAttempt, Got
  <2> QED
    BY <2>1, <1>1, <1>3 DEF CallInv, AttemptInv
<1>6. AnswerInv(s) /\ ChainInv(s)
  <2>1. Len(r.answers) \in Nat
    BY DEF Call
  <2>2. AnswerInv(s)
    BY <2>1, <1>1, <1>3 DEF CallInv, AnswerInv, SingleAnswer, RefusedPerAttempt
  <2> QED
    BY <2>2, <1>3 DEF CallInv, ChainInv
<1> QED
  BY <1>2, <1>4, <1>5, <1>6 DEF CallInv

-----------------------------------------------------------------------------
(* The specification                                                       *)

\* A step that only gives one client a new, sound record keeps the invariant.
LEMMA BecomesInv ==
    ASSUME IInv, NEW c \in Clients, NEW r \in Call, CallInv(r), Becomes(c, r)
    PROVE  IInv'
<1>1. call' \in [Clients -> Call] /\ \A d \in Clients : CallInv(call'[d])
  BY DEF IInv, TypeOK, Becomes
<1>2. UNCHANGED <<metrics, sincePrune, cache>>
  BY DEF Becomes
<1>3. FeedTypeOK' /\ AgesFollowTheTicker' /\ CacheInv'
  BY <1>2 DEF IInv, TypeOK, FeedTypeOK, AgesFollowTheTicker, CacheInv
<1>4. DOMAIN cache' \subseteq Keys /\ cache' \in [DOMAIN cache' -> Entries]
  BY <1>2 DEF IInv, TypeOK
<1> QED
  BY <1>1, <1>3, <1>4 DEF IInv, TypeOK

\* What a handler knows of its record.
LEMMA Records ==
    ASSUME IInv, NEW c \in Clients
    PROVE  /\ call[c] \in Call /\ CallInv(call[c])
           /\ call[c].pc \in Attempting \cup {"store", "relay"} => call[c].target \in Backends
BY DEF IInv, TypeOK, CallInv, PhaseInv, Call

\* The steps both handlers share.
LEMMA SharedSteps ==
    ASSUME IInv, NEW c \in Clients,
           BuildCandidates(c) \/ Pick(c) \/ GiveUp(c) \/ (\E q \in Requests : ServeHTTP(c, q))
    PROVE  IInv'
<1> DEFINE r == call[c]
<1>0. r \in Call /\ CallInv(r)
  BY Records
<1>1. ASSUME NEW q \in Requests, ServeHTTP(c, q)
      PROVE  IInv'
  BY <1>1, NewCallInv, BecomesInv DEF ServeHTTP
<1>2. CASE BuildCandidates(c)
  <2>1. CASE Pool(r.req) = {}
    <3>1. Faithful(r.req, Refused) /\ r.pc \in Beginning
      BY <1>2, Errors DEF Faithful, BuildCandidates, Beginning
    <3>2. Finished(r, Refused) \in Call /\ CallInv(Finished(r, Refused))
      BY <1>0, <3>1, FinishedInv, Errors
    <3> QED
      BY <1>2, <2>1, <3>2, BecomesInv DEF BuildCandidates
  <2>2. CASE Pool(r.req) # {}
    <3> DEFINE pc == IF r.req.ws THEN "pick" ELSE IF Cacheable(r.req) THEN "lookup" ELSE "body"
               s == [r EXCEPT !.candidates = FilterCandidates(r.req, Pool(r.req)), !.pc = pc]
    <3>1. s \in Call /\ CallInv(s)
      BY <1>0, <1>2, CandidatesInv DEF IInv, TypeOK, BuildCandidates
    <3>2. Becomes(c, s)
      BY <1>2, <2>2 DEF BuildCandidates
    <3> QED
      BY <3>1, <3>2, BecomesInv
  <2> QED
    BY <2>1, <2>2
<1>3. CASE Pick(c)
  <2> DEFINE pc == IF r.req.ws THEN "accept" ELSE "forward"
  <2>1. PICK b \in r.candidates \ r.tried :
               Becomes(c, [r EXCEPT !.target = b, !.attempt = @ + 1, !.pc = pc])
    BY <1>3 DEF Pick, Untried
  <2> DEFINE s == [r EXCEPT !.target = b, !.attempt = @ + 1, !.pc = pc]
  <2>2. s \in Call /\ CallInv(s)
    BY <1>0, <1>3, PickedInv DEF Pick
  <2> QED
    BY <2>1, <2>2, BecomesInv
<1>4. CASE GiveUp(c)
  <2>1. Faithful(r.req, Unavailable)
    BY Errors DEF Faithful
  <2>2. ~r.req.ws => TriedEnough(r)
    BY <1>0, <1>4 DEF GiveUp, Untried, CallInv, AttemptInv, TriedEnough, Contacts
  <2>3. Finished(r, Unavailable) \in Call /\ CallInv(Finished(r, Unavailable))
    BY <1>0, <1>4, <2>1, <2>2, FinishedInv, Errors DEF GiveUp
  <2> QED
    BY <1>4, <2>3, BecomesInv DEF GiveUp
<1> QED
  BY <1>1, <1>2, <1>3, <1>4

\* The steps of a plain request.
LEMMA HTTPSteps ==
    ASSUME IInv, NEW c \in Clients, HandleHTTP(c)
    PROVE  IInv'
<1> DEFINE r == call[c]
<1>0. r \in Call /\ CallInv(r) /\ (r.pc = "forward" => r.target \in Backends)
  BY Records DEF Attempting
<1>1. CASE Lookup(c)
  <2> DEFINE k == CacheKey(r.req, "height")
  <2>1. CASE k \in DOMAIN cache
    <3>1. /\ cache[k] \in Entries
          /\ r.req.host # None => cache[k].chain = r.req.host
      BY <2>1 DEF IInv, TypeOK, CacheInv, CacheKey
    <3>2. Hit(cache[k]) \in Answers /\ Faithful(r.req, Hit(cache[k]))
      BY <3>1 DEF Hit, Answers, Entries, Statuses, Faithful
    <3>3. Hit(cache[k]) # Unavailable
      BY <3>1 DEF Hit, Unavailable, Entries
    <3>4. Finished(r, Hit(cache[k])) \in Call /\ CallInv(Finished(r, Hit(cache[k])))
      BY <1>0, <1>1, <3>2, <3>3, FinishedInv DEF Lookup, Beginning
    <3> QED
      BY <1>1, <2>1, <3>4, BecomesInv DEF Lookup
  <2>2. CASE k \notin DOMAIN cache
    <3>1. Go(r, "body") \in Call /\ CallInv(Go(r, "body"))
      BY <1>0, <1>1, GoInv DEF Lookup
    <3> QED
      BY <1>1, <2>2, <3>1, BecomesInv DEF Lookup
  <2> QED
    BY <2>1, <2>2
<1>2. CASE ReadRequestBody(c)
  <2>1. Go(r, "pick") \in Call /\ CallInv(Go(r, "pick"))
    BY <1>0, <1>2, GoInv DEF ReadRequestBody
  <2>2. Faithful(r.req, Refused)
    BY Errors DEF Faithful
  <2>3. Finished(r, Refused) \in Call /\ CallInv(Finished(r, Refused))
    BY <1>0, <1>2, <2>2, FinishedInv, Errors DEF ReadRequestBody, Beginning
  <2> QED
    BY <1>2, <2>1, <2>3, BecomesInv DEF ReadRequestBody
<1>3. CASE ForwardFails(c)
  BY <1>0, <1>3, FailedContactInv, BecomesInv DEF ForwardFails
<1>4. ASSUME NEW status \in Statuses, WriteUpstreamResponse(c, status)
      PROVE  IInv'
  <2>1. Answered(r, status, "store") \in Call /\ CallInv(Answered(r, status, "store"))
    BY <1>0, <1>4, AnsweredInv DEF WriteUpstreamResponse
  <2> QED
    BY <1>4, <2>1, BecomesInv DEF WriteUpstreamResponse
<1>5. CASE StoreResponse(c)
  <2> DEFINE a == r.answers[Len(r.answers)]
             e == [status |-> a.status, chain |-> a.chain]
  <2>1. PICK keys \in SUBSET StoredUnder(r.req, a.status) :
               cache' = [k \in DOMAIN cache \cup keys |-> IF k \in keys THEN e ELSE cache[k]]
    BY <1>5 DEF StoreResponse
  <2>2. /\ a.chain = ExtractChain(r.req) /\ a.chain # None /\ a.chain \in Chains
        /\ a.status \in Statuses
    <3>1. r.answers \in Seq(Answers) /\ r.answers # <<>>
      BY <1>0, <1>5 DEF StoreResponse, CallInv, ChainInv, Call
    <3>2. a \in Answers
      BY <3>1
    <3> QED
      BY <1>0, <1>5, <3>2 DEF StoreResponse, CallInv, ChainInv, Answers
  <2>3. r.req \in Request
    BY <1>0, ProxyAssumption DEF Call
  <2>4. \A k \in keys : /\ k \in Keys
                        /\ k.host = r.req.host
                        /\ a.status \in {200, 404}
    BY <2>1, <2>3 DEF StoredUnder, CacheKey, Keys, Request
  <2>5. \A k \in keys : e \in Entries
    BY <2>2, <2>4 DEF Entries
  <2>6. DOMAIN cache' \subseteq Keys /\ cache' \in [DOMAIN cache' -> Entries] /\ CacheInv'
    BY <2>1, <2>2, <2>4, <2>5 DEF IInv, TypeOK, CacheInv, ExtractChain
  <2>7. call' \in [Clients -> Call] /\ \A d \in Clients : CallInv(call'[d])
    BY <1>0, <1>5, GoInv DEF StoreResponse, IInv, TypeOK
  <2>8. FeedTypeOK' /\ AgesFollowTheTicker'
    BY <1>5 DEF StoreResponse, feedVars, IInv, TypeOK, FeedTypeOK, AgesFollowTheTicker
  <2> QED
    BY <2>6, <2>7, <2>8 DEF IInv, TypeOK
<1> QED
  BY <1>1, <1>2, <1>3, <1>4, <1>5 DEF HandleHTTP

\* The steps of a websocket.
LEMMA WebsocketSteps ==
    ASSUME IInv, NEW c \in Clients, HandleWebsocket(c) \/ RelayEnds(c)
    PROVE  IInv'
<1> DEFINE r == call[c]
<1>0. r \in Call /\ CallInv(r) /\ (r.pc \in {"accept", "dial", "relay"} => r.target \in Backends)
  BY Records DEF Attempting
<1>1. CASE Accept(c)
  <2>1. CASE r.req.upgrade /\ ~r.hijacked /\ Becomes(c, [r EXCEPT !.hijacked = TRUE, !.pc = "dial"])
    BY <1>0, <1>1, <2>1, AcceptedInv, BecomesInv DEF Accept
  <2>2. CASE ~r.req.upgrade /\ Becomes(c, Failed(Finished(r, Refused)))
    BY <1>0, <1>1, <2>2, NoUpgradeInv, BecomesInv DEF Accept
  <2>3. CASE r.hijacked /\ Becomes(c, Failed(r))
    BY <1>0, <1>1, <2>3, FailedInv, BecomesInv DEF Accept
  <2> QED
    BY <1>1, <2>1, <2>2, <2>3 DEF Accept
<1>2. CASE DialFails(c)
  BY <1>0, <1>2, FailedContactInv, BecomesInv DEF DialFails
<1>3. CASE Dial(c)
  <2>1. Answered(r, 200, "relay") \in Call /\ CallInv(Answered(r, 200, "relay"))
    BY <1>0, <1>3, AnsweredInv DEF Dial, Statuses
  <2> QED
    BY <1>3, <2>1, BecomesInv DEF Dial
<1>4. CASE RelayEnds(c)
  <2>1. r.pc = "relay" /\ r.hijacked
    BY <1>0, <1>4 DEF RelayEnds, CallInv, PhaseInv
  <2>2. Go(r, "done") \in Call /\ CallInv(Go(r, "done"))
    BY <1>0, <2>1, GoInv
  <2>3. Failed(r) \in Call /\ CallInv(Failed(r))
    BY <1>0, <2>1, FailedInv
  <2> QED
    BY <1>4, <2>2, <2>3, BecomesInv DEF RelayEnds
<1> QED
  BY <1>1, <1>2, <1>3, <1>4 DEF HandleWebsocket

\* The invariant holds at the start.
LEMMA InitInv == Init => IInv
<1> SUFFICES ASSUME Init
             PROVE  IInv
  OBVIOUS
<1>1. DOMAIN EmptyMap = {}
  BY DEF EmptyMap
<1>2. DOMAIN metrics = {} /\ DOMAIN cache = {} /\ sincePrune = 0
  BY <1>1 DEF Init, FeedInit
<1>3. metrics \in [DOMAIN metrics -> Metrics] /\ cache \in [DOMAIN cache -> Entries]
  BY <1>2 DEF Init, FeedInit, EmptyMap
<1>4. call \in [Clients -> Call] /\ \A c \in Clients : CallInv(call[c])
  BY NewCallInv DEF Init
<1> QED
  BY <1>2, <1>3, <1>4, FeedAssumption
  DEF IInv, TypeOK, FeedTypeOK, AgesFollowTheTicker, CacheInv

\* Every step keeps the invariant.
LEMMA StepInv == IInv /\ [Next]_vars => IInv'
<1> SUFFICES ASSUME IInv, [Next]_vars
             PROVE  IInv'
  OBVIOUS
<1>1. CASE FeedNext /\ UNCHANGED <<cache, call>>
  <2>1. FeedTypeOK' /\ AgesFollowTheTicker'
    BY <1>1, FeedStep DEF IInv, TypeOK, FeedInv
  <2>2. cache' = cache /\ call' = call
    BY <1>1
  <2>3. DOMAIN cache' \subseteq Keys /\ cache' \in [DOMAIN cache' -> Entries] /\ CacheInv'
    BY <2>2 DEF IInv, TypeOK, CacheInv
  <2>4. call' \in [Clients -> Call] /\ \A c \in Clients : CallInv(call'[c])
    BY <2>2 DEF IInv, TypeOK
  <2> QED
    BY <2>1, <2>3, <2>4 DEF IInv, TypeOK
<1>2. ASSUME NEW k \in DOMAIN cache, Evict(k)
      PROVE  IInv'
  <2>1. /\ cache' = [x \in DOMAIN cache \ {k} |-> cache[x]]
        /\ metrics' = metrics /\ sincePrune' = sincePrune /\ call' = call
    BY <1>2 DEF Evict
  <2>2. DOMAIN cache' \subseteq Keys /\ cache' \in [DOMAIN cache' -> Entries] /\ CacheInv'
    BY <2>1 DEF IInv, TypeOK, CacheInv
  <2>3. call' \in [Clients -> Call] /\ \A c \in Clients : CallInv(call'[c])
    BY <2>1 DEF IInv, TypeOK
  <2>4. FeedTypeOK' /\ AgesFollowTheTicker'
    BY <2>1 DEF IInv, TypeOK, FeedTypeOK, AgesFollowTheTicker
  <2> QED
    BY <2>2, <2>3, <2>4 DEF IInv, TypeOK
<1>3. ASSUME NEW c \in Clients,
             Handler(c) \/ RelayEnds(c) \/ \E q \in Requests : ServeHTTP(c, q)
      PROVE  IInv'
  BY <1>3, SharedSteps, HTTPSteps, WebsocketSteps DEF Handler
<1>4. CASE UNCHANGED vars
  <2>1. metrics' = metrics /\ sincePrune' = sincePrune /\ cache' = cache /\ call' = call
    BY <1>4 DEF vars
  <2>2. call' \in [Clients -> Call] /\ \A c \in Clients : CallInv(call'[c])
    BY <2>1 DEF IInv, TypeOK
  <2> QED
    BY <2>1, <2>2 DEF IInv, TypeOK, FeedTypeOK, AgesFollowTheTicker, CacheInv
<1> QED
  BY <1>1, <1>2, <1>3, <1>4 DEF Next

\* The inductive invariant is an invariant.
THEOREM ProxyInv == Spec => []IInv
BY InitInv, StepInv, PTL DEF Spec

\* Every variable keeps its type (ServeHTTP and everything it calls).
THEOREM ProxyTypes == Spec => []TypeOK
<1>1. IInv => TypeOK
  BY DEF IInv
<1> QED
  BY <1>1, ProxyInv, PTL

\* A silent backend leaves the table of metrics in time (Store.Prune).
THEOREM SilentLeave == Spec => []SilentBackendsLeave
<1>1. IInv => SilentBackendsLeave
  BY FeedAssumption DEF IInv, TypeOK, FeedTypeOK, AgesFollowTheTicker, SilentBackendsLeave, Metrics
<1> QED
  BY <1>1, ProxyInv, PTL

\* At most two attempts, never the same backend twice (handleHTTP and
\* handleWebsocket).
THEOREM ContactsAreDistinct == Spec => []EachBackendOnce
<1>1. IInv => EachBackendOnce
  BY DEF IInv, TypeOK, CallInv, ContactInv, EachBackendOnce, Call
<1> QED
  BY <1>1, ProxyInv, PTL

\* A 502 means that two backends failed, or all that qualify (handleHTTP).
THEOREM RequestsFailOver == Spec => []HttpFailsOver
<1>1. IInv => HttpFailsOver
  BY DEF IInv, CallInv, AttemptInv, HttpFailsOver
<1> QED
  BY <1>1, ProxyInv, PTL

\* Answers, cached ones included, are of the chain the host names
\* (filterCandidates, cacheKey and writeUpstreamResponse together).
THEOREM ChainsAreKeptApart == Spec => []AnswersAreOfTheChain
<1>1. IInv => AnswersAreOfTheChain
  BY DEF IInv, CallInv, ChainInv, Faithful, AnswersAreOfTheChain
<1> QED
  BY <1>1, ProxyInv, PTL

\* The early returns of both handlers: a request is answered at most once, except
\* one to the ws service that is no upgrade, which is answered up to three times.
THEOREM NoSecondAnswer == Spec => []AnsweredOnce
<1>1. IInv => AnsweredOnce
  <2>1. SUFFICES ASSUME IInv, NEW c \in Clients
                 PROVE  Len(call[c].answers) <= AnswersAllowed(call[c].req)
    BY DEF AnsweredOnce
  <2>2. /\ AnswerInv(call[c])
        /\ Len(call[c].answers) \in Nat /\ call[c].attempt \in 0..2
    BY <2>1 DEF IInv, TypeOK, CallInv, Call
  <2> QED
    BY <2>2 DEF AnswerInv, SingleAnswer, RefusedPerAttempt, AnswersAllowed
<1> QED
  BY <1>1, ProxyInv, PTL
============================================================================
