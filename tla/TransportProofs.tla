-------------------------- MODULE TransportProofs ---------------------------
(***************************************************************************)
(* The handlers of the server, for any number of requests, any plugin      *)
(* chain, any pool of buffers and any number of chunks.  What the client   *)
(* and the plugins have been told, and what has been recorded, depends on  *)
(* where the handler is (Told, Counted): every return is covered by one    *)
(* lemma per action.  Last, the handlers together with the record          *)
(* implement Usage's own specification, so that its theorems hold of the   *)
(* server.                                                                 *)
(***************************************************************************)
EXTENDS Transport, TLAPS

RecRecords == [pc : RecordPCs, stream : BOOLEAN, model : Models, tokens : Tokens, object : Workers \cup {NoObject}]

\* What this module needs to know of the types of Usage.
Recording == modelUsage \in [Models -> Workers \cup {NoObject}] /\ rec \in [Workers -> RecRecords]

ReqRecords ==
    [pc : PCs, endpoint : Endpoints, presented : Presented, key : BOOLEAN,
     model : Models, hook : 0..Len(Chain), buffer : Buffers \cup {NoBuffer},
     span : {"none", "open", "ended"}, open : BOOLEAN,
     sent : Seq(Statuses), traced : Seq(Statuses),
     tokens : Tokens, chunks : 0..MaxChunks, outcome : Outcomes]

\* What the client and the plugins have been told, by where the handler is.
Told(q) ==
    /\ q.pc \in {"idle", "body", "pre"} => q.sent = <<>> /\ q.traced = <<>> /\ q.outcome = "none"
    /\ q.pc = "stream" => /\ q.sent = <<"200">> /\ q.traced = <<>>
                          /\ q.outcome = "answered" /\ q.endpoint = "stream"
    /\ q.pc = "post" => /\ q.sent = <<>> /\ q.traced = <<>>
                        /\ q.outcome = "answered" /\ q.endpoint # "stream"
    /\ q.pc \in {"relay", "buffer"} => /\ q.traced = q.sent /\ \E s \in Statuses : q.sent = <<s>>
                                       /\ q.outcome = "answered" /\ q.endpoint \in {"messages", "native"}
    /\ q.pc = "buffer" => q.endpoint = "messages"
    /\ q.pc = "done" =>
         /\ \E s \in Statuses : q.sent = <<s>>
         /\ q.outcome # "none" /\ q.endpoint # "embeddings" => q.traced = q.sent

\* A handler at work knows the key that was presented; the native endpoint looks for none.
KeyNoted(q) ==
    q.pc \notin {"idle", "done"} => /\ q.key <=> (q.presented # "none")
                                    /\ q.endpoint = "native" => q.presented = "none"

\* g is in RecordRequest for the request q, if it is to be counted and its handler has ended.
Counted(q, g) ==
    /\ g.pc # "none" <=> /\ q.pc = "done" /\ q.outcome = "answered"
                         /\ q.endpoint \in {"chat", "stream", "messages"} /\ q.presented = "known"
    /\ g.pc # "none" => g.tokens = q.tokens

Settled == \A r \in Requests : Told(req[r]) /\ KeyNoted(req[r]) /\ Counted(req[r], rec[r])

TransportInv == TypeOK /\ Recording /\ BuffersNotShared /\ Settled

(***************************************************************************)
(* What the helpers do to a request                                        *)
(***************************************************************************)

LEMMA ReturnedFacts ==
    ASSUME NEW q \in ReqRecords
    PROVE  /\ Returned(q) \in ReqRecords
           /\ Returned(q).pc = "done" /\ Returned(q).buffer = NoBuffer
           /\ Returned(q).sent = q.sent /\ Returned(q).traced = q.traced
           /\ Returned(q).outcome = q.outcome /\ Returned(q).endpoint = q.endpoint
           /\ Returned(q).presented = q.presented /\ Returned(q).tokens = q.tokens
<1>1. 0 \in 0..Len(Chain) /\ 0 \in 0..MaxChunks
  BY TransportAssumption
<1> QED
  BY <1>1, Zenon DEF Returned, ReqRecords, PCs

LEMMA SentFacts ==
    ASSUME NEW q \in ReqRecords, NEW s \in Statuses
    PROVE  /\ Sent(q, s) \in ReqRecords
           /\ Sent(q, s).sent = Append(q.sent, s) /\ Sent(q, s).traced = q.traced
           /\ Sent(q, s).pc = q.pc /\ Sent(q, s).buffer = q.buffer /\ Sent(q, s).key = q.key
           /\ Sent(q, s).outcome = q.outcome /\ Sent(q, s).endpoint = q.endpoint
           /\ Sent(q, s).presented = q.presented /\ Sent(q, s).tokens = q.tokens
<1>1. q.sent \in Seq(Statuses)
  BY Zenon DEF ReqRecords
<1>2. Append(q.sent, s) \in Seq(Statuses)
  BY <1>1
<1> QED
  BY <1>2, Zenon DEF Sent, ReqRecords

LEMMA TraceFacts ==
    ASSUME NEW q \in ReqRecords, NEW s \in Statuses
    PROVE  /\ emitTrace(q, s) \in ReqRecords
           /\ emitTrace(q, s).traced = Append(q.traced, s) /\ emitTrace(q, s).sent = q.sent
           /\ emitTrace(q, s).pc = q.pc /\ emitTrace(q, s).buffer = q.buffer /\ emitTrace(q, s).key = q.key
           /\ emitTrace(q, s).outcome = q.outcome /\ emitTrace(q, s).endpoint = q.endpoint
           /\ emitTrace(q, s).presented = q.presented /\ emitTrace(q, s).tokens = q.tokens
<1>1. q.traced \in Seq(Statuses)
  BY Zenon DEF ReqRecords
<1>2. Append(q.traced, s) \in Seq(Statuses)
  BY <1>1
<1> QED
  BY <1>2, Zenon DEF emitTrace, ReqRecords

\* RecordRequest is started for a request with a key that the store knows.
LEMMA GoRecordFacts ==
    ASSUME Recording, NEW r \in Requests, req[r] \in ReqRecords, rec[r].pc = "none",
           NEW stream \in BOOLEAN, NEW t \in Tokens, GoRecord(r, stream, t)
    PROVE  /\ Recording' /\ \A o \in Requests \ {r} : rec'[o] = rec[o]
           /\ rec'[r].pc # "none" <=> req[r].key /\ req[r].presented = "known"
           /\ rec'[r].pc # "none" => rec'[r].tokens = t
           /\ [UsageNext]_usageVars
<1>1. rec \in [Workers -> RecRecords] /\ r \in Workers /\ req[r].model \in Models
  BY Zenon DEF Recording, Requests, ReqRecords
<1>2. CASE req[r].key /\ req[r].presented = "known"
  <2> DEFINE n == Recorder(stream, req[r].model, t)
  <2>1. StartRecord(r, stream, req[r].model, t)
    BY <1>2, Zenon DEF GoRecord
  <2>2. [UsageNext]_usageVars
    BY <1>1, <2>1, Zenon DEF UsageNext
  <2>3. n \in RecRecords /\ n.pc = "total" /\ n.tokens = t
    BY <1>1, Zenon DEF Recorder, RecRecords, RecordPCs
  <2>4. rec' = [rec EXCEPT ![r] = n] /\ modelUsage' = modelUsage
    BY <2>1, Zenon DEF StartRecord
  <2> HIDE DEF n
  <2> QED
    BY <1>1, <1>2, <2>2, <2>3, <2>4, Zenon DEF Recording, Requests
<1>3. CASE ~(req[r].key /\ req[r].presented = "known")
  <2>1. UNCHANGED usageVars
    BY <1>3, Zenon DEF GoRecord
  <2> QED
    BY <1>3, <2>1, Zenon DEF Recording, usageVars
<1> QED
  BY <1>2, <1>3, Zenon

(***************************************************************************)
(* One request                                                             *)
(***************************************************************************)

\* A step of one handler keeps the invariant, if what it makes of its request fits and
\* it takes no buffer that another request holds.
LEMMA RequestStep ==
    ASSUME TransportInv, NEW r \in Requests, NEW n \in ReqRecords, req' = [req EXCEPT ![r] = n],
           Told(n), KeyNoted(n), Counted(n, rec'[r]),
           Recording', \A o \in Requests \ {r} : rec'[o] = rec[o], UNCHANGED active,
           pool' \subseteq Buffers,
           n.buffer # NoBuffer => n.buffer \notin pool' /\ \A o \in Requests \ {r} : req[o].buffer # n.buffer,
           \A o \in Requests \ {r} : req[o].buffer # NoBuffer => req[o].buffer \notin pool'
    PROVE  TransportInv'
<1>0. req \in [Requests -> ReqRecords] /\ TypeOK /\ BuffersNotShared /\ Settled
  BY Zenon DEF TransportInv, TypeOK, ReqRecords
<1>1. req' \in [Requests -> ReqRecords] /\ req'[r] = n /\ \A o \in Requests \ {r} : req'[o] = req[o]
  BY <1>0, Zenon
<1>3. TypeOK'
  BY <1>0, <1>1, Zenon DEF TypeOK, ReqRecords
<1>4. BuffersNotShared'
  <2> SUFFICES ASSUME NEW a \in Requests, req'[a].buffer # NoBuffer
               PROVE  /\ req'[a].buffer \notin pool'
                      /\ \A o \in Requests \ {a} : req'[o].buffer # req'[a].buffer
    BY <1>3, Zenon DEF BuffersNotShared
  <2>1. CASE a = r
    BY <1>1, <2>1, Zenon
  <2>2. CASE a # r
    BY <1>0, <1>1, <2>2 DEF BuffersNotShared
  <2> QED
    BY <2>1, <2>2, Zenon
<1>5. Settled'
  <2> SUFFICES ASSUME NEW a \in Requests
               PROVE  Told(req'[a]) /\ KeyNoted(req'[a]) /\ Counted(req'[a], rec'[a])
    BY Zenon DEF Settled, Told, KeyNoted, Counted
  <2>1. CASE a = r
    BY <1>1, <2>1, Zenon
  <2>2. CASE a # r
    BY <1>0, <1>1, <2>2, Zenon DEF Settled
  <2> QED
    BY <2>1, <2>2, Zenon
<1> QED
  BY <1>3, <1>4, <1>5, Zenon DEF TransportInv

\* The same for a step that leaves the pool and RecordRequest alone and keeps its buffer,
\* or drops it.
LEMMA QuietStep ==
    ASSUME TransportInv, NEW r \in Requests, NEW n \in ReqRecords, req' = [req EXCEPT ![r] = n],
           Told(n), KeyNoted(n), Counted(n, rec[r]), n.buffer \in {req[r].buffer, NoBuffer},
           UNCHANGED <<usageVars, active, pool>>
    PROVE  TransportInv'
<1>1. rec' = rec /\ Recording' /\ pool' = pool /\ pool \subseteq Buffers /\ active' = active
  BY Zenon DEF TransportInv, TypeOK, Recording, usageVars
<1>2. /\ n.buffer # NoBuffer => n.buffer \notin pool /\ \A o \in Requests \ {r} : req[o].buffer # n.buffer
      /\ \A o \in Requests \ {r} : req[o].buffer # NoBuffer => req[o].buffer \notin pool
  BY Zenon DEF TransportInv, BuffersNotShared
<1> QED
  BY <1>1, <1>2, RequestStep, Zenon

(***************************************************************************)
(* Before the engine                                                       *)
(***************************************************************************)

LEMMA RequestFacts ==
    ASSUME TransportInv, NEW r \in Requests
    PROVE  /\ req[r] \in ReqRecords /\ rec[r] \in RecRecords
           /\ Told(req[r]) /\ KeyNoted(req[r]) /\ Counted(req[r], rec[r])
BY Zenon DEF TransportInv, TypeOK, Recording, ReqRecords, Settled, Requests

\* A request that is turned away is answered once, not traced and not counted.
LEMMA TurnedAway ==
    ASSUME TransportInv, NEW r \in Requests, req[r].pc \in {"idle", "body", "pre"},
           NEW k \in Presented, NEW s \in Statuses,
           req' = [req EXCEPT ![r] = Returned(Sent([req[r] EXCEPT !.presented = k], s))],
           UNCHANGED <<usageVars, active, pool>>
    PROVE  TransportInv'
<1> DEFINE q == [req[r] EXCEPT !.presented = k]
           n == Returned(Sent(q, s))
<1>0. req[r] \in ReqRecords /\ Told(req[r]) /\ Counted(req[r], rec[r])
  BY RequestFacts, Zenon
<1>1. /\ q \in ReqRecords /\ q.sent = <<>> /\ q.traced = <<>> /\ q.outcome = "none"
  BY <1>0, Zenon DEF ReqRecords, Told
<1>2. /\ n \in ReqRecords /\ n.pc = "done" /\ n.sent = <<s>> /\ n.traced = <<>> /\ n.outcome = "none"
      /\ n.buffer = NoBuffer
  <2> HIDE DEF q
  <2>1. Sent(q, s) \in ReqRecords /\ Sent(q, s).sent = <<s>> /\ Sent(q, s).traced = <<>> /\ Sent(q, s).outcome = "none"
    BY <1>1, SentFacts
  <2> QED
    BY <2>1, ReturnedFacts, Zenon
<1> HIDE DEF n
<1>3. rec[r].pc = "none"
  BY <1>0, Zenon DEF Counted
<1>4. Told(n) /\ KeyNoted(n) /\ Counted(n, rec[r])
  BY <1>2, <1>3, Zenon DEF Told, KeyNoted, Counted
<1>5. req' = [req EXCEPT ![r] = n]
  BY Zenon DEF n
<1> QED
  BY <1>2, <1>4, <1>5, QuietStep, Zenon

LEMMA WriteErrorStep ==
    ASSUME TransportInv, NEW r \in Requests, req[r].pc \in {"body", "pre"}, NEW s \in Statuses, writeError(r, s)
    PROVE  TransportInv'
<1>1. req[r] \in ReqRecords
  BY RequestFacts, Zenon
<1>2. req[r].presented \in Presented /\ [req[r] EXCEPT !.presented = req[r].presented] = req[r]
  BY <1>1, Zenon DEF ReqRecords
<1>3. req' = [req EXCEPT ![r] = Returned(Sent([req[r] EXCEPT !.presented = req[r].presented], s))]
      /\ UNCHANGED <<usageVars, active, pool>>
  BY <1>2, Zenon DEF writeError
<1> QED
  BY <1>2, <1>3, TurnedAway, Zenon

LEMMA ArriveStep ==
    ASSUME TransportInv, NEW r \in Requests, NEW e \in Endpoints, NEW k \in Presented,
           e = "native" => k = "none", Arrive(r, e, k)
    PROVE  TransportInv'
<1>1. PICK m \in Models :
          req' = [req EXCEPT ![r].pc = IF e = "native" THEN "pre" ELSE "body",
                             ![r].endpoint = e, ![r].model = m,
                             ![r].presented = k, ![r].key = (k # "none")]
  BY Zenon DEF Arrive
<1> DEFINE n == [req[r] EXCEPT !.pc = IF e = "native" THEN "pre" ELSE "body",
                               !.endpoint = e, !.model = m, !.presented = k, !.key = (k # "none")]
<1>2. req' = [req EXCEPT ![r] = n]
  BY <1>1, Zenon
<1>3. req[r] \in ReqRecords /\ Told(req[r]) /\ Counted(req[r], rec[r]) /\ req[r].pc = "idle"
      /\ UNCHANGED <<usageVars, active, pool>>
  BY RequestFacts, Zenon DEF Arrive
<1>4. /\ n \in ReqRecords /\ n.pc \in {"body", "pre"} /\ n.sent = <<>> /\ n.traced = <<>> /\ n.outcome = "none"
      /\ n.buffer = req[r].buffer /\ n.key = (k # "none") /\ n.presented = k /\ n.endpoint = e
  BY <1>3, Zenon DEF ReqRecords, PCs, Told
<1> HIDE DEF n
<1>5. Told(n) /\ KeyNoted(n) /\ Counted(n, rec[r])
  BY <1>3, <1>4, Zenon DEF Told, KeyNoted, Counted
<1> QED
  BY <1>2, <1>3, <1>4, <1>5, QuietStep, Zenon

LEMMA RejectStep ==
    ASSUME TransportInv, NEW r \in Requests, NEW k \in Presented, NEW s \in Statuses, Reject(r, k, s)
    PROVE  TransportInv'
BY TurnedAway, Zenon DEF Reject

LEMMA TrackingStep ==
    ASSUME TransportInv, NEW r \in Requests, withAppKeyTracking(r)
    PROVE  TransportInv'
<1>1. {"none", "malformed", "known", "unknown"} = Presented /\ {"400", "401"} \subseteq Statuses
  BY Zenon DEF Presented, Statuses
<1>2. \/ \E k \in Presented, s \in Statuses : Reject(r, k, s)
      \/ \E e \in Endpoints \ {"native"}, k \in Presented : Arrive(r, e, k)
  BY <1>1, Zenon DEF withAppKeyTracking
<1> QED
  BY <1>2, RejectStep, ArriveStep, Zenon

\* A step that changes nothing of a request but its place in the chain, its span and,
\* from the body to the chain, where its handler is.
LEMMA PlaceStep ==
    ASSUME TransportInv, NEW r \in Requests, NEW n \in ReqRecords, req' = [req EXCEPT ![r] = n],
           n.pc = req[r].pc \/ (req[r].pc = "body" /\ n.pc = "pre"),
           n.sent = req[r].sent, n.traced = req[r].traced, n.outcome = req[r].outcome,
           n.endpoint = req[r].endpoint, n.presented = req[r].presented, n.key = req[r].key,
           n.buffer = req[r].buffer,
           n.tokens = req[r].tokens \/ req[r].pc \in {"stream", "relay"},
           UNCHANGED <<usageVars, active, pool>>
    PROVE  TransportInv'
<1>1. req[r] \in ReqRecords /\ Told(req[r]) /\ KeyNoted(req[r]) /\ Counted(req[r], rec[r])
  BY RequestFacts, Zenon
<1>2. Told(n)
  BY <1>1 DEF Told
<1>3. KeyNoted(n) /\ Counted(n, rec[r])
  BY <1>1 DEF KeyNoted, Counted
<1> QED
  BY <1>2, <1>3, QuietStep, Zenon

LEMMA ReadBodyStep ==
    ASSUME TransportInv, NEW r \in Requests, readLimitedBody(r)
    PROVE  TransportInv'
<1>1. CASE \E s \in {"413", "400"} : writeError(r, s)
  <2>1. {"413", "400"} \subseteq Statuses /\ req[r].pc = "body"
    BY Zenon DEF Statuses, readLimitedBody
  <2> QED
    BY <1>1, <2>1, WriteErrorStep, Zenon
<1>2. CASE req' = [req EXCEPT ![r].pc = "pre"] /\ UNCHANGED <<usageVars, active, pool>>
  <2> DEFINE n == [req[r] EXCEPT !.pc = "pre"]
  <2>1. req[r] \in ReqRecords /\ req[r].pc = "body"
    BY RequestFacts, Zenon DEF readLimitedBody
  <2>2. /\ n \in ReqRecords /\ n.pc = "pre" /\ req' = [req EXCEPT ![r] = n]
        /\ n.sent = req[r].sent /\ n.traced = req[r].traced /\ n.outcome = req[r].outcome
        /\ n.endpoint = req[r].endpoint /\ n.presented = req[r].presented /\ n.key = req[r].key
        /\ n.buffer = req[r].buffer /\ n.tokens = req[r].tokens
    BY <1>2, <2>1 DEF ReqRecords, PCs
  <2> HIDE DEF n
  <2> QED
    BY <1>2, <2>1, <2>2, PlaceStep, Zenon
<1> QED
  BY <1>1, <1>2, Zenon DEF readLimitedBody

LEMMA HookBounds ==
    ASSUME NEW h \in 0..Len(Chain)
    PROVE  /\ h < Len(Chain) => h + 1 \in 0..Len(Chain)
           /\ h > 0 => h - 1 \in 0..Len(Chain)
<1>1. Len(Chain) \in Nat
  BY TransportAssumption
<1> QED
  BY <1>1

LEMMA PreHTTPStep ==
    ASSUME TransportInv, NEW r \in Requests, RunPreHTTP(r)
    PROVE  TransportInv'
<1>0. req[r] \in ReqRecords /\ req[r].pc = "pre" /\ req[r].hook + 1 \in 0..Len(Chain)
  <2>1. req[r] \in ReqRecords /\ req[r].hook \in 0..Len(Chain) /\ req[r].hook < Len(Chain) /\ req[r].pc = "pre"
    BY RequestFacts, Zenon DEF RunPreHTTP, ReqRecords
  <2> QED
    BY <2>1, HookBounds, Zenon
<1> DEFINE p == Chain[req[r].hook + 1]
<1>1. \/ Continue(r)
      \/ p \in {"ratelimit", "wasm"} /\ writeError(r, ShortCircuit[p])
      \/ LogPreHTTP(r)
      \/ TracePreHTTP(r)
  BY Zenon DEF RunPreHTTP
<1>2. CASE Continue(r)
  <2> DEFINE n == [req[r] EXCEPT !.hook = req[r].hook + 1]
  <2>1. /\ n \in ReqRecords /\ n.pc = "pre" /\ req' = [req EXCEPT ![r] = n]
        /\ n.sent = req[r].sent /\ n.traced = req[r].traced /\ n.outcome = req[r].outcome
        /\ n.endpoint = req[r].endpoint /\ n.presented = req[r].presented /\ n.key = req[r].key
        /\ n.buffer = req[r].buffer /\ n.tokens = req[r].tokens
    BY <1>0, <1>2 DEF ReqRecords, Continue
  <2>2. UNCHANGED <<usageVars, active, pool>>
    BY <1>2, Zenon DEF Continue
  <2> HIDE DEF n
  <2> QED
    BY <1>0, <2>1, <2>2, PlaceStep, Zenon
<1>3. CASE p \in {"ratelimit", "wasm"} /\ writeError(r, ShortCircuit[p])
  <2>1. ShortCircuit["ratelimit"] \in Statuses /\ ShortCircuit["wasm"] \in Statuses
    BY Zenon DEF ShortCircuit, Statuses
  <2>2. ShortCircuit[p] \in Statuses
    BY <1>3, <2>1, Zenon
  <2> HIDE DEF p
  <2> QED
    BY <1>0, <1>3, <2>2, WriteErrorStep, Zenon
<1>4. CASE LogPreHTTP(r)
  <2>1. PICK b \in Buffers :
            /\ b \in pool \/ \A o \in Requests : req[o].buffer # b
            /\ pool' = pool \ {b}
            /\ req' = [req EXCEPT ![r].hook = @ + 1, ![r].buffer = b]
    BY <1>4, Zenon DEF LogPreHTTP
  <2> DEFINE n == [req[r] EXCEPT !.hook = req[r].hook + 1, !.buffer = b]
  <2>2. /\ n \in ReqRecords /\ n.pc = "pre" /\ req' = [req EXCEPT ![r] = n]
        /\ n.sent = req[r].sent /\ n.traced = req[r].traced /\ n.outcome = req[r].outcome
        /\ n.endpoint = req[r].endpoint /\ n.presented = req[r].presented /\ n.key = req[r].key
        /\ n.buffer = b /\ n.tokens = req[r].tokens
    BY <1>0, <2>1, Zenon DEF ReqRecords
  <2> HIDE DEF n
  <2>3. Told(req[r]) /\ KeyNoted(req[r]) /\ Counted(req[r], rec[r])
    BY RequestFacts, Zenon
  <2>4. Told(n) /\ KeyNoted(n) /\ Counted(n, rec[r])
    BY <1>0, <2>2, <2>3 DEF Told, KeyNoted, Counted
  <2>5. /\ \A o \in Requests : req[o].buffer # NoBuffer =>
             req[o].buffer \notin pool /\ req[o].buffer # b
        /\ b # NoBuffer /\ pool' \subseteq Buffers /\ b \notin pool'
    BY <2>1, TransportAssumption DEF TransportInv, TypeOK, BuffersNotShared
  <2>6. rec' = rec /\ Recording' /\ UNCHANGED active
    BY <1>4, Zenon DEF LogPreHTTP, usageVars, TransportInv, Recording
  <2>7. /\ \A o \in Requests \ {r} : req[o].buffer # n.buffer
        /\ \A o \in Requests \ {r} : req[o].buffer # NoBuffer => req[o].buffer \notin pool'
    BY <2>1, <2>2, <2>5
  <2> QED
    BY <2>2, <2>4, <2>5, <2>6, <2>7, RequestStep, Zenon
<1>5. CASE TracePreHTTP(r)
  <2> DEFINE n == [req[r] EXCEPT !.hook = req[r].hook + 1, !.span = "open"]
  <2>1. /\ n \in ReqRecords /\ n.pc = "pre" /\ req' = [req EXCEPT ![r] = n]
        /\ n.sent = req[r].sent /\ n.traced = req[r].traced /\ n.outcome = req[r].outcome
        /\ n.endpoint = req[r].endpoint /\ n.presented = req[r].presented /\ n.key = req[r].key
        /\ n.buffer = req[r].buffer /\ n.tokens = req[r].tokens
    BY <1>0, <1>5, Zenon DEF ReqRecords, TracePreHTTP
  <2>2. UNCHANGED <<usageVars, active, pool>>
    BY <1>5, Zenon DEF TracePreHTTP
  <2> HIDE DEF n
  <2> QED
    BY <1>0, <2>1, <2>2, PlaceStep, Zenon
<1> QED
  BY <1>1, <1>2, <1>3, <1>4, <1>5, Zenon

(***************************************************************************)
(* From the engine's answer on                                             *)
(***************************************************************************)

LEMMA DispatchFailsStep ==
    ASSUME TransportInv, NEW r \in Requests, DispatchFails(r)
    PROVE  TransportInv'
<1>1. PICK s \in {"502", "429"} :
          req' = [req EXCEPT ![r] = Returned(Sent(Failed(
                    IF req[r].endpoint = "embeddings" THEN req[r] ELSE emitTrace(req[r], s)), s))]
  BY Zenon DEF DispatchFails
<1>2. /\ req[r] \in ReqRecords /\ req[r].pc = "pre" /\ req[r].sent = <<>> /\ req[r].traced = <<>>
      /\ rec[r].pc = "none" /\ s \in Statuses /\ UNCHANGED <<usageVars, active, pool>>
  BY RequestFacts, Zenon DEF DispatchFails, Ready, Told, Counted, Statuses
<1> DEFINE q == IF req[r].endpoint = "embeddings" THEN req[r] ELSE emitTrace(req[r], s)
           f == Failed(q)
           n == Returned(Sent(f, s))
<1>3. /\ q \in ReqRecords /\ q.sent = <<>> /\ q.endpoint = req[r].endpoint
      /\ q.traced = IF q.endpoint = "embeddings" THEN <<>> ELSE <<s>>
  BY <1>2, TraceFacts
<1> HIDE DEF q
<1>4. /\ f \in ReqRecords /\ f.sent = <<>> /\ f.endpoint = q.endpoint /\ f.traced = q.traced /\ f.outcome = "failed"
  BY <1>3, Zenon DEF Failed, ReqRecords, Outcomes
<1> HIDE DEF f
<1>5. /\ Sent(f, s) \in ReqRecords /\ Sent(f, s).sent = <<s>> /\ Sent(f, s).endpoint = q.endpoint
      /\ Sent(f, s).traced = q.traced /\ Sent(f, s).outcome = "failed"
  BY <1>2, <1>4, SentFacts
<1>6. /\ n \in ReqRecords /\ n.pc = "done" /\ n.sent = <<s>> /\ n.endpoint = q.endpoint
      /\ n.traced = q.traced /\ n.outcome = "failed" /\ n.buffer = NoBuffer
  BY <1>5, ReturnedFacts, Zenon
<1>7. req' = [req EXCEPT ![r] = n]
  BY <1>1, Zenon DEF q, f
<1> HIDE DEF n
<1>8. Told(n) /\ KeyNoted(n) /\ Counted(n, rec[r])
  BY <1>2, <1>3, <1>6, Zenon DEF Told, KeyNoted, Counted
<1> QED
  BY <1>2, <1>6, <1>7, <1>8, QuietStep, Zenon

LEMMA DispatchStep ==
    ASSUME TransportInv, NEW r \in Requests, Dispatch(r)
    PROVE  TransportInv'
<1> DEFINE q == [req[r] EXCEPT !.outcome = "answered"]
           n == CASE q.endpoint \in {"chat", "embeddings"} -> [q EXCEPT !.pc = "post"]
                  [] q.endpoint = "stream" -> [Sent(q, "200") EXCEPT !.pc = "stream", !.open = TRUE]
                  [] q.endpoint \in {"messages", "native"} -> [q EXCEPT !.pc = "post", !.open = TRUE]
<1>1. /\ req[r] \in ReqRecords /\ req[r].pc = "pre" /\ req[r].sent = <<>> /\ req[r].traced = <<>>
      /\ rec[r].pc = "none" /\ KeyNoted(req[r]) /\ UNCHANGED <<usageVars, active, pool>>
  BY RequestFacts, Zenon DEF Dispatch, Ready, Told, Counted
<1>2. req' = [req EXCEPT ![r] = n]
  BY Zenon DEF Dispatch
<1>3. /\ q \in ReqRecords /\ q.sent = <<>> /\ q.traced = <<>> /\ q.outcome = "answered"
      /\ q.endpoint = req[r].endpoint /\ q.presented = req[r].presented /\ q.key = req[r].key
      /\ q.buffer = req[r].buffer
  BY <1>1 DEF ReqRecords, Outcomes
<1> HIDE DEF q
<1>4. q.endpoint \in {"chat", "embeddings", "stream", "messages", "native"}
  BY <1>3, TransportAssumption, Zenon DEF ReqRecords
<1>5. /\ n \in ReqRecords /\ n.traced = <<>> /\ n.outcome = "answered"
      /\ n.endpoint = q.endpoint /\ n.presented = q.presented /\ n.key = q.key /\ n.buffer = q.buffer
      /\ IF q.endpoint = "stream" THEN n.pc = "stream" /\ n.sent = <<"200">> ELSE n.pc = "post" /\ n.sent = <<>>
  <2>1. CASE q.endpoint \in {"chat", "embeddings"}
    <3>1. n = [q EXCEPT !.pc = "post"]
      BY <2>1, Zenon
    <3> QED
      BY <1>3, <2>1, <3>1 DEF ReqRecords, PCs
  <2>2. CASE q.endpoint = "stream"
    <3>1. n = [Sent(q, "200") EXCEPT !.pc = "stream", !.open = TRUE]
      BY <2>2, Zenon
    <3> DEFINE t == Sent(q, "200")
    <3>2. "200" \in Statuses /\ q.sent = <<>>
      BY <1>3, Zenon DEF Statuses
    <3>3. /\ t \in ReqRecords /\ t.sent = <<"200">> /\ t.traced = q.traced /\ t.outcome = q.outcome
          /\ t.endpoint = q.endpoint /\ t.presented = q.presented /\ t.key = q.key /\ t.buffer = q.buffer
      BY <1>3, <3>2, SentFacts
    <3> HIDE DEF t
    <3> QED
      BY <1>3, <2>2, <3>1, <3>3, Zenon DEF t, ReqRecords, PCs
  <2>3. CASE q.endpoint \in {"messages", "native"}
    <3>1. n = [q EXCEPT !.pc = "post", !.open = TRUE]
      BY <2>3, Zenon
    <3> QED
      BY <1>3, <2>3, <3>1, Zenon DEF ReqRecords, PCs
  <2> QED
    BY <1>4, <2>1, <2>2, <2>3, Zenon
<1> HIDE DEF n
<1>6. Told(n) /\ KeyNoted(n) /\ Counted(n, rec[r])
  BY <1>1, <1>3, <1>5 DEF Told, KeyNoted, Counted
<1> QED
  BY <1>1, <1>2, <1>3, <1>5, <1>6, QuietStep, Zenon

LEMMA PostHTTPStep ==
    ASSUME TransportInv, NEW r \in Requests, RunPostHTTP(r)
    PROVE  TransportInv'
<1>0. /\ req[r] \in ReqRecords /\ req[r].pc = "post" /\ req[r].hook - 1 \in 0..Len(Chain)
      /\ Told(req[r]) /\ KeyNoted(req[r]) /\ Counted(req[r], rec[r])
  <2>1. req[r] \in ReqRecords /\ req[r].hook \in 0..Len(Chain) /\ req[r].hook > 0
    BY RequestFacts, Zenon DEF RunPostHTTP, ReqRecords
  <2> QED
    BY <2>1, HookBounds, RequestFacts, Zenon DEF RunPostHTTP
<1>1. CASE Chain[req[r].hook] = "requestlog" /\ req[r].buffer # NoBuffer
  <2> DEFINE n == [LogPostHTTP(req[r]) EXCEPT !.hook = req[r].hook - 1]
             b == req[r].buffer
  <2>1. /\ n \in ReqRecords /\ n.pc = "post" /\ n.buffer = NoBuffer
        /\ n.sent = req[r].sent /\ n.traced = req[r].traced /\ n.outcome = req[r].outcome
        /\ n.endpoint = req[r].endpoint /\ n.presented = req[r].presented /\ n.key = req[r].key
        /\ n.tokens = req[r].tokens
    BY <1>0, Zenon DEF ReqRecords, LogPostHTTP
  <2>2. req' = [req EXCEPT ![r] = n] /\ pool' = pool \cup {b}
    BY <1>0, <1>1, Zenon DEF RunPostHTTP, LogPostHTTP, ReqRecords
  <2> HIDE DEF n
  <2>3. Told(n) /\ KeyNoted(n) /\ Counted(n, rec[r])
    BY <1>0, <2>1 DEF Told, KeyNoted, Counted
  <2>4. /\ b \in Buffers /\ pool' \subseteq Buffers
        /\ \A o \in Requests \ {r} : req[o].buffer # NoBuffer => req[o].buffer \notin pool'
    BY <1>0, <1>1, <2>2 DEF TransportInv, TypeOK, BuffersNotShared, ReqRecords
  <2>5. rec' = rec /\ Recording' /\ UNCHANGED active
    BY Zenon DEF RunPostHTTP, usageVars, TransportInv, Recording
  <2> QED
    BY <2>1, <2>2, <2>3, <2>4, <2>5, RequestStep, Zenon
<1>2. CASE ~(Chain[req[r].hook] = "requestlog" /\ req[r].buffer # NoBuffer)
  <2> DEFINE n == [req[r] EXCEPT !.hook = req[r].hook - 1]
  <2>1. /\ n \in ReqRecords /\ n.pc = "post" /\ n.buffer = req[r].buffer
        /\ n.sent = req[r].sent /\ n.traced = req[r].traced /\ n.outcome = req[r].outcome
        /\ n.endpoint = req[r].endpoint /\ n.presented = req[r].presented /\ n.key = req[r].key
        /\ n.tokens = req[r].tokens
    BY <1>0, Zenon DEF ReqRecords
  <2>2. req' = [req EXCEPT ![r] = n] /\ UNCHANGED <<usageVars, active, pool>>
    BY <1>2, Zenon DEF RunPostHTTP
  <2> HIDE DEF n
  <2> QED
    BY <1>0, <2>1, <2>2, PlaceStep, Zenon
<1> QED
  BY <1>1, <1>2, Zenon

\* The end of a handler that may start RecordRequest: q is its request with the last
\* status sent and traced.
LEMMA EndStep ==
    ASSUME TransportInv, NEW r \in Requests, NEW q \in ReqRecords, req' = [req EXCEPT ![r] = Returned(q)],
           req[r].pc \notin {"idle", "done"},
           q.outcome = "answered", q.endpoint = req[r].endpoint, q.presented = req[r].presented,
           q.endpoint # "embeddings",
           q.traced = q.sent, \E s \in Statuses : q.sent = <<s>>,
           NEW stream \in BOOLEAN, GoRecord(r, stream, q.tokens),
           UNCHANGED <<active, pool>>
    PROVE  TransportInv'
<1> DEFINE n == Returned(q)
<1>1. /\ n \in ReqRecords /\ n.pc = "done" /\ n.outcome = "answered" /\ n.endpoint = req[r].endpoint
      /\ n.presented = req[r].presented /\ n.traced = q.sent /\ n.sent = q.sent /\ n.buffer = NoBuffer
      /\ n.tokens = q.tokens /\ n.endpoint # "embeddings"
  BY ReturnedFacts, Zenon
<1>2. req' = [req EXCEPT ![r] = n]
  BY Zenon
<1> HIDE DEF n
<1>3. req[r] \in ReqRecords /\ KeyNoted(req[r]) /\ rec[r].pc = "none" /\ Recording /\ q.tokens \in Tokens
  BY RequestFacts DEF Counted, TransportInv, TypeOK, ReqRecords
<1>4. /\ Recording' /\ \A o \in Requests \ {r} : rec'[o] = rec[o]
      /\ rec'[r].pc # "none" <=> req[r].key /\ req[r].presented = "known"
      /\ rec'[r].pc # "none" => rec'[r].tokens = n.tokens
  BY <1>1, <1>3, GoRecordFacts, Zenon
<1>5. n.endpoint \in {"chat", "stream", "messages", "native"}
  BY <1>1, TransportAssumption, Zenon DEF ReqRecords
<1>6. Told(n) /\ KeyNoted(n) /\ Counted(n, rec'[r])
  BY <1>1, <1>3, <1>4, <1>5 DEF Told, KeyNoted, Counted
<1>7. /\ pool' \subseteq Buffers
      /\ \A o \in Requests \ {r} : req[o].buffer # NoBuffer => req[o].buffer \notin pool'
  BY Zenon DEF TransportInv, TypeOK, BuffersNotShared
<1> QED
  BY <1>1, <1>2, <1>4, <1>6, <1>7, RequestStep, Zenon

LEMMA ChatStep ==
    ASSUME TransportInv, NEW r \in Requests, RespondChat(r)
    PROVE  TransportInv'
<1>1. PICK t \in Answers :
          /\ req' = [req EXCEPT ![r] = Returned(Sent(emitTrace([req[r] EXCEPT !.tokens = t], "200"), "200"))]
          /\ GoRecord(r, FALSE, t)
  BY Zenon DEF RespondChat
<1>2. /\ req[r] \in ReqRecords /\ req[r].pc = "post" /\ req[r].endpoint = "chat" /\ req[r].sent = <<>>
      /\ req[r].traced = <<>> /\ req[r].outcome = "answered" /\ t \in Tokens /\ UNCHANGED <<active, pool>>
      /\ "200" \in Statuses
  BY RequestFacts, TransportAssumption, Zenon DEF RespondChat, Posted, Told, Statuses
<1> DEFINE p == [req[r] EXCEPT !.tokens = t]
           q == Sent(emitTrace(p, "200"), "200")
<1>3. /\ p \in ReqRecords /\ p.pc = "post" /\ p.endpoint = "chat" /\ p.sent = <<>> /\ p.traced = <<>>
      /\ p.outcome = "answered" /\ p.tokens = t /\ p.presented = req[r].presented
  BY <1>2, Zenon DEF ReqRecords
<1> HIDE DEF p
<1>4. /\ emitTrace(p, "200") \in ReqRecords /\ emitTrace(p, "200").sent = <<>> /\ emitTrace(p, "200").traced = <<"200">>
      /\ emitTrace(p, "200").endpoint = "chat" /\ emitTrace(p, "200").outcome = "answered"
      /\ emitTrace(p, "200").tokens = t /\ emitTrace(p, "200").presented = req[r].presented
  BY <1>2, <1>3, TraceFacts
<1>5. /\ q \in ReqRecords /\ q.sent = <<"200">> /\ q.traced = <<"200">> /\ q.endpoint = "chat"
      /\ q.outcome = "answered" /\ q.tokens = t /\ q.presented = req[r].presented
  BY <1>2, <1>4, SentFacts
<1>6. req' = [req EXCEPT ![r] = Returned(q)] /\ GoRecord(r, FALSE, q.tokens)
  BY <1>1, <1>5, Zenon DEF p
<1> HIDE DEF q
<1> QED
  BY <1>2, <1>5, <1>6, EndStep, Zenon

LEMMA EmbeddingsStep ==
    ASSUME TransportInv, NEW r \in Requests, RespondEmbeddings(r)
    PROVE  TransportInv'
<1>1. /\ req[r] \in ReqRecords /\ req[r].pc = "post" /\ req[r].endpoint = "embeddings" /\ req[r].sent = <<>>
      /\ req[r].traced = <<>> /\ rec[r].pc = "none" /\ "200" \in Statuses /\ UNCHANGED <<usageVars, active, pool>>
  BY RequestFacts, Zenon DEF RespondEmbeddings, Posted, Told, Counted, writeError, Statuses
<1> DEFINE n == Returned(Sent(req[r], "200"))
<1>2. /\ Sent(req[r], "200") \in ReqRecords /\ Sent(req[r], "200").sent = <<"200">>
      /\ Sent(req[r], "200").traced = <<>> /\ Sent(req[r], "200").endpoint = "embeddings"
  BY <1>1, SentFacts
<1>3. /\ n \in ReqRecords /\ n.pc = "done" /\ n.sent = <<"200">> /\ n.traced = <<>> /\ n.endpoint = "embeddings"
      /\ n.buffer = NoBuffer
  BY <1>2, ReturnedFacts, Zenon
<1>4. req' = [req EXCEPT ![r] = n]
  BY Zenon DEF RespondEmbeddings, writeError
<1> HIDE DEF n
<1>5. Told(n) /\ KeyNoted(n) /\ Counted(n, rec[r])
  BY <1>1, <1>3, Zenon DEF Told, KeyNoted, Counted
<1> QED
  BY <1>1, <1>3, <1>4, <1>5, QuietStep, Zenon

LEMMA HeaderStep ==
    ASSUME TransportInv, NEW r \in Requests, RespondHeader(r)
    PROVE  TransportInv'
<1>1. PICK s \in {"200", "429"}, next \in IF req[r].endpoint = "native" THEN {"relay"} ELSE {"relay", "buffer"} :
          req' = [req EXCEPT ![r] = [Sent(emitTrace(req[r], s), s) EXCEPT !.pc = next]]
  BY Zenon DEF RespondHeader
<1>2. /\ req[r] \in ReqRecords /\ req[r].pc = "post" /\ req[r].endpoint \in {"messages", "native"}
      /\ req[r].sent = <<>> /\ req[r].traced = <<>> /\ req[r].outcome = "answered" /\ KeyNoted(req[r])
      /\ rec[r].pc = "none" /\ s \in Statuses /\ UNCHANGED <<usageVars, active, pool>>
  BY RequestFacts, Zenon DEF RespondHeader, Posted, Told, Counted, Statuses
<1> DEFINE p == emitTrace(req[r], s)
           q == Sent(p, s)
           n == [q EXCEPT !.pc = next]
<1>3. /\ p \in ReqRecords /\ p.sent = <<>> /\ p.traced = <<s>> /\ p.endpoint = req[r].endpoint
      /\ p.outcome = "answered" /\ p.key = req[r].key /\ p.presented = req[r].presented /\ p.buffer = req[r].buffer
  BY <1>2, TraceFacts
<1> HIDE DEF p
<1>4. /\ q \in ReqRecords /\ q.sent = <<s>> /\ q.traced = <<s>> /\ q.endpoint = req[r].endpoint
      /\ q.outcome = "answered" /\ q.key = req[r].key /\ q.presented = req[r].presented /\ q.buffer = req[r].buffer
  BY <1>2, <1>3, SentFacts
<1> HIDE DEF q
<1>5. /\ n \in ReqRecords /\ n.sent = <<s>> /\ n.traced = <<s>> /\ n.endpoint = req[r].endpoint /\ n.pc = next
      /\ n.outcome = "answered" /\ n.key = req[r].key /\ n.presented = req[r].presented /\ n.buffer = req[r].buffer
      /\ next \in {"relay", "buffer"} /\ (next = "buffer" => req[r].endpoint # "native")
  BY <1>1, <1>4 DEF ReqRecords, PCs
<1>6. req' = [req EXCEPT ![r] = n]
  BY <1>1, Zenon DEF p, q
<1> HIDE DEF n
<1>7. Told(n) /\ KeyNoted(n) /\ Counted(n, rec[r])
  BY <1>2, <1>5 DEF Told, KeyNoted, Counted
<1> QED
  BY <1>2, <1>5, <1>6, <1>7, QuietStep, Zenon

LEMMA ChunkStep ==
    ASSUME TransportInv, NEW r \in Requests, Chunk(r)
    PROVE  TransportInv'
<1>1. PICK t \in Answers :
          req' = [req EXCEPT ![r].chunks = @ + 1, ![r].tokens = FeedChunk(req[r].tokens, t)]
  BY Zenon DEF Chunk
<1>2. /\ req[r] \in ReqRecords /\ req[r].pc \in {"stream", "relay"} /\ req[r].chunks + 1 \in 0..MaxChunks
      /\ UNCHANGED <<usageVars, active, pool>>
  BY RequestFacts, TransportAssumption DEF Chunk, ReqRecords
<1>3. FeedChunk(req[r].tokens, t) \in Tokens
  <2>1. t \in Tokens /\ req[r].tokens \in Tokens
    BY <1>2, TransportAssumption, Zenon DEF ReqRecords
  <2> QED
    BY <2>1, Zenon DEF FeedChunk, Tokens
<1> DEFINE n == [req[r] EXCEPT !.chunks = req[r].chunks + 1, !.tokens = FeedChunk(req[r].tokens, t)]
<1>4. /\ n \in ReqRecords /\ n.pc = req[r].pc /\ req' = [req EXCEPT ![r] = n]
      /\ n.sent = req[r].sent /\ n.traced = req[r].traced /\ n.outcome = req[r].outcome
      /\ n.endpoint = req[r].endpoint /\ n.presented = req[r].presented /\ n.key = req[r].key
      /\ n.buffer = req[r].buffer
  BY <1>1, <1>2, <1>3, Zenon DEF ReqRecords
<1> HIDE DEF n
<1> QED
  BY <1>2, <1>4, PlaceStep, Zenon

LEMMA StreamEndsStep ==
    ASSUME TransportInv, NEW r \in Requests, StreamEnds(r)
    PROVE  TransportInv'
<1>1. /\ req[r] \in ReqRecords /\ req[r].pc = "stream" /\ req[r].endpoint = "stream" /\ req[r].sent = <<"200">>
      /\ req[r].traced = <<>> /\ req[r].outcome = "answered" /\ "200" \in Statuses /\ UNCHANGED <<active, pool>>
  BY RequestFacts, Zenon DEF StreamEnds, Told, Statuses
<1> DEFINE q == emitTrace(req[r], "200")
<1>2. /\ q \in ReqRecords /\ q.sent = <<"200">> /\ q.traced = <<"200">> /\ q.endpoint = "stream"
      /\ q.outcome = "answered" /\ q.tokens = req[r].tokens /\ q.presented = req[r].presented
  BY <1>1, TraceFacts
<1>3. req' = [req EXCEPT ![r] = Returned(q)] /\ GoRecord(r, TRUE, q.tokens)
  BY <1>2, Zenon DEF StreamEnds
<1> HIDE DEF q
<1> QED
  BY <1>1, <1>2, <1>3, EndStep, Zenon

LEMMA RelayEndsStep ==
    ASSUME TransportInv, NEW r \in Requests, RelayEnds(r)
    PROVE  TransportInv'
<1>1. /\ req[r] \in ReqRecords /\ req[r].pc = "relay" /\ req[r].endpoint \in {"messages", "native"}
      /\ req[r].traced = req[r].sent /\ (\E s \in Statuses : req[r].sent = <<s>>) /\ req[r].outcome = "answered"
      /\ UNCHANGED <<active, pool>>
  BY RequestFacts, Zenon DEF RelayEnds, Told
<1>2. req' = [req EXCEPT ![r] = Returned(req[r])] /\ GoRecord(r, TRUE, req[r].tokens)
  BY Zenon DEF RelayEnds
<1> QED
  BY <1>1, <1>2, EndStep, Zenon

LEMMA BufferBodyStep ==
    ASSUME TransportInv, NEW r \in Requests, BufferBody(r)
    PROVE  TransportInv'
<1>1. /\ req[r] \in ReqRecords /\ req[r].pc = "buffer" /\ req[r].endpoint = "messages"
      /\ req[r].traced = req[r].sent /\ (\E s \in Statuses : req[r].sent = <<s>>) /\ req[r].outcome = "answered"
      /\ rec[r].pc = "none" /\ UNCHANGED <<active, pool>>
  BY RequestFacts, Zenon DEF BufferBody, Told, Counted
<1>2. CASE \E t \in Answers : /\ req' = [req EXCEPT ![r] = Returned([req[r] EXCEPT !.tokens = t])]
                              /\ GoRecord(r, FALSE, t)
  <2>1. PICK t \in Answers : /\ req' = [req EXCEPT ![r] = Returned([req[r] EXCEPT !.tokens = t])]
                             /\ GoRecord(r, FALSE, t)
    BY <1>2, Zenon
  <2> DEFINE q == [req[r] EXCEPT !.tokens = t]
  <2>2. /\ q \in ReqRecords /\ q.sent = req[r].sent /\ q.traced = q.sent /\ q.endpoint = "messages"
        /\ q.outcome = "answered" /\ q.tokens = t /\ q.presented = req[r].presented
    BY <1>1, TransportAssumption, Zenon DEF ReqRecords
  <2>3. req' = [req EXCEPT ![r] = Returned(q)] /\ GoRecord(r, FALSE, q.tokens)
    BY <2>1, <2>2, Zenon
  <2> HIDE DEF q
  <2> QED
    BY <1>1, <2>2, <2>3, EndStep, Zenon
<1>3. CASE /\ req' = [req EXCEPT ![r] = Returned([req[r] EXCEPT !.outcome = "broken"])]
           /\ UNCHANGED usageVars
  <2> DEFINE q == [req[r] EXCEPT !.outcome = "broken"]
             n == Returned(q)
  <2>1. /\ q \in ReqRecords /\ q.sent = req[r].sent /\ q.traced = q.sent /\ q.endpoint = "messages"
        /\ q.outcome = "broken"
    BY <1>1, Zenon DEF ReqRecords, Outcomes
  <2> HIDE DEF q
  <2>2. /\ n \in ReqRecords /\ n.pc = "done" /\ n.sent = req[r].sent /\ n.traced = n.sent
        /\ n.endpoint = "messages" /\ n.outcome = "broken" /\ n.buffer = NoBuffer
    BY <2>1, ReturnedFacts, Zenon
  <2>3. req' = [req EXCEPT ![r] = n]
    BY <1>3, Zenon DEF q
  <2> HIDE DEF n
  <2>4. Told(n) /\ KeyNoted(n) /\ Counted(n, rec[r])
    BY <1>1, <2>2, Zenon DEF Told, KeyNoted, Counted
  <2> QED
    BY <1>1, <1>3, <2>2, <2>3, <2>4, QuietStep, Zenon
<1> QED
  BY <1>2, <1>3, Zenon DEF BufferBody

LEMMA OnTraceStep ==
    ASSUME TransportInv, NEW r \in Requests, OnTrace(r)
    PROVE  TransportInv'
<1> DEFINE n == [req[r] EXCEPT !.span = "ended"]
<1>1. req[r] \in ReqRecords /\ UNCHANGED <<usageVars, active, pool>>
  BY RequestFacts, Zenon DEF OnTrace
<1>2. /\ n \in ReqRecords /\ n.pc = req[r].pc /\ req' = [req EXCEPT ![r] = n]
      /\ n.sent = req[r].sent /\ n.traced = req[r].traced /\ n.outcome = req[r].outcome
      /\ n.endpoint = req[r].endpoint /\ n.presented = req[r].presented /\ n.key = req[r].key
      /\ n.buffer = req[r].buffer /\ n.tokens = req[r].tokens
  BY <1>1, Zenon DEF ReqRecords, OnTrace
<1> HIDE DEF n
<1> QED
  BY <1>1, <1>2, PlaceStep, Zenon

LEMMA HandlerStep ==
    ASSUME TransportInv, NEW r \in Requests, Handler(r)
    PROVE  TransportInv'
<1>1. CASE "native" \in Endpoints /\ Arrive(r, "native", "none")
  <2>1. "none" \in Presented
    BY Zenon DEF Presented
  <2> QED
    BY <1>1, <2>1, ArriveStep, Zenon
<1> QED
  BY <1>1, TrackingStep, ReadBodyStep, PreHTTPStep, DispatchStep, DispatchFailsStep, PostHTTPStep,
     ChatStep, EmbeddingsStep, HeaderStep, ChunkStep, StreamEndsStep, RelayEndsStep, BufferBodyStep DEF Handler

(***************************************************************************)
(* RecordRequest and Snapshot                                              *)
(***************************************************************************)

\* What a step of RecordRequest does to its goroutine.
LEMMA RecordFacts ==
    ASSUME Recording, NEW w \in Workers, RecordRequest(w)
    PROVE  /\ rec' \in [Workers -> RecRecords] /\ \A o \in Workers \ {w} : rec'[o] = rec[o]
           /\ rec[w].pc # "none" /\ rec'[w].pc # "none"
           /\ rec'[w].tokens = rec[w].tokens /\ rec'[w].model = rec[w].model
           /\ snap' = snap
<1>0. rec \in [Workers -> RecRecords] /\ modelUsage \in [Models -> Workers \cup {NoObject}]
  BY Zenon DEF Recording
<1>1. \A to \in RecordPCs, from \in RecordPCs \ {"none"} : Goto(w, from, to) /\ to # "none" =>
          /\ rec' \in [Workers -> RecRecords] /\ \A o \in Workers \ {w} : rec'[o] = rec[o]
          /\ rec[w].pc # "none" /\ rec'[w].pc # "none"
          /\ rec'[w].tokens = rec[w].tokens /\ rec'[w].model = rec[w].model
  BY <1>0 DEF Goto, RecRecords
<1>2. {"total", "kind", "find", "make", "requests", "tokens", "end"} = RecordPCs \ {"none"}
  BY Zenon DEF RecordPCs
<1>3. CASE AddTotal(w) \/ AddKind(w) \/ AddRequest(w) \/ AddTokens(w)
  BY <1>1, <1>2, <1>3, Zenon DEF AddTotal, AddKind, AddRequest, AddTokens
<1>4. CASE FindModel(w) \/ MakeModel(w)
  <2>1. PICK p \in {"make", "requests"}, o \in Workers \cup {NoObject} :
            rec' = [rec EXCEPT ![w].pc = p, ![w].object = o] /\ rec[w].pc # "none" /\ snap' = snap
    <3>1. modelUsage[rec[w].model] \in Workers \cup {NoObject}
      BY <1>0, Zenon DEF RecRecords
    <3> QED
      BY <1>4, <3>1, Zenon DEF FindModel, MakeModel
  <2> DEFINE n == [rec[w] EXCEPT !.pc = p, !.object = o]
  <2>2. n \in RecRecords /\ n.pc = p /\ n.tokens = rec[w].tokens /\ n.model = rec[w].model
    BY <1>0, <1>2, Zenon DEF RecRecords
  <2>3. rec' = [rec EXCEPT ![w] = n]
    BY <2>1, Zenon
  <2> HIDE DEF n
  <2> QED
    BY <1>0, <2>1, <2>2, <2>3, Zenon
<1> QED
  BY <1>3, <1>4, Zenon DEF RecordRequest

\* RecordRequest goes on: it has been started and stays so, with the tokens it was given.
LEMMA RecordStep ==
    ASSUME TransportInv, NEW w \in Workers, RecordRequest(w), UNCHANGED <<req, active, pool>>
    PROVE  TransportInv'
<1>1. Recording
  BY Zenon DEF TransportInv
<1>2. /\ Recording' /\ \A o \in Workers \ {w} : rec'[o] = rec[o]
      /\ rec[w].pc # "none" /\ rec'[w].pc # "none" /\ rec'[w].tokens = rec[w].tokens
  <2>1. modelUsage' \in [Models -> Workers \cup {NoObject}]
    BY <1>1 DEF Recording, RecordRequest, AddTotal, AddKind, FindModel, MakeModel, AddRequest, AddTokens
  <2> QED
    BY <1>1, <2>1, RecordFacts, Zenon DEF Recording
<1>3. TypeOK' /\ BuffersNotShared'
  BY Zenon DEF TransportInv, TypeOK, BuffersNotShared
<1>4. Settled'
  <2> SUFFICES ASSUME NEW r \in Requests
               PROVE  Told(req[r]) /\ KeyNoted(req[r]) /\ Counted(req[r], rec'[r])
    BY Zenon DEF Settled
  <2>1. Told(req[r]) /\ KeyNoted(req[r]) /\ Counted(req[r], rec[r])
    BY RequestFacts, Zenon
  <2> QED
    BY <1>2, <2>1, Zenon DEF Counted, Requests
<1> QED
  BY <1>2, <1>3, <1>4, Zenon DEF TransportInv

\* A step that no request and no goroutine of RecordRequest has a part in.
LEMMA AsideStep ==
    ASSUME TransportInv, UNCHANGED <<req, rec, modelUsage, pool>>, active' \in BOOLEAN
    PROVE  TransportInv'
<1>1. TypeOK' /\ BuffersNotShared'
  BY Zenon DEF TransportInv, TypeOK, BuffersNotShared
<1>2. Recording' /\ Settled'
  BY Zenon DEF TransportInv, Recording, Settled
<1> QED
  BY <1>1, <1>2, Zenon DEF TransportInv

(***************************************************************************)
(* Theorems                                                                *)
(***************************************************************************)

LEMMA TransportInitially == Init => TransportInv
<1> SUFFICES ASSUME Init
             PROVE  TransportInv
  BY Zenon
<1>1. (CHOOSE e \in Endpoints : TRUE) \in Endpoints /\ (CHOOSE m \in Models : TRUE) \in Models
  BY TransportAssumption, UsageAssumption, Zenon
<1>2. 0 \in 0..Len(Chain) /\ 0 \in 0..MaxChunks /\ NoTokens \in Tokens
  BY TransportAssumption DEF NoTokens, Tokens
<1>3. TypeOK
  BY <1>1, <1>2 DEF Init, TypeOK, PCs, Presented, Outcomes
<1>4. Recording
  BY <1>1, <1>2, Zenon DEF Init, UsageInit, Recording, RecRecords, RecordPCs
<1>5. BuffersNotShared
  BY <1>3, Zenon DEF Init, BuffersNotShared
<1>6. Settled
  <2>1. \A r \in Requests : rec[r].pc = "none"
    BY Zenon DEF Init, UsageInit, Requests
  <2> QED
    BY <2>1 DEF Init, Settled, Told, KeyNoted, Counted
<1> QED
  BY <1>3, <1>4, <1>5, <1>6, Zenon DEF TransportInv

LEMMA TransportStep == TransportInv /\ [Next]_vars => TransportInv'
<1> SUFFICES ASSUME TransportInv, [Next]_vars
             PROVE  TransportInv'
  BY Zenon
<1>1. CASE UNCHANGED vars \/ Deactivate \/ (Snapshot /\ UNCHANGED <<req, active, pool>>)
  <2>1. active' \in BOOLEAN /\ UNCHANGED <<req, rec, modelUsage, pool>>
    BY <1>1, Zenon
       DEF TransportInv, TypeOK, vars, usageVars, Deactivate, Snapshot, SnapBegin, SnapModel,
           SnapTotals
  <2> QED
    BY <2>1, AsideStep, Zenon
<1>2. CASE \E r \in Requests : Handler(r) \/ OnTrace(r)
  BY <1>2, HandlerStep, OnTraceStep, Zenon
<1>3. CASE \E r \in Requests : RecordRequest(r) /\ UNCHANGED <<req, active, pool>>
  BY <1>3, RecordStep, Zenon DEF Requests
<1> QED
  BY <1>1, <1>2, <1>3, Zenon DEF Next, Finished

LEMMA TransportAlways == Spec => []TransportInv
BY TransportInitially, TransportStep, PTL DEF Spec

\* However many requests are under way, and in whatever order their handlers take buffers
\* from the request log's pool and give them back, no two hold the same buffer.
THEOREM BuffersStayApart == Spec => []BuffersNotShared
<1>1. TransportInv => BuffersNotShared
  BY Zenon DEF TransportInv
<1> QED
  BY <1>1, TransportAlways, PTL

\* Every handler answers exactly once on every path, and once the engine has run a handler
\* that emits traces tells the plugins that status and no other, once.
THEOREM TracesTell == Spec => []TracesTellTheAnswer
<1>1. TransportInv => TracesTellTheAnswer
  BY RequestFacts, Zenon DEF TracesTellTheAnswer, Told
<1> QED
  BY <1>1, TransportAlways, PTL

\* RecordRequest is started for a request just when a chat, stream or messages handler
\* relayed an answer to a key that the store knows, with the tokens of that answer.
THEOREM AnswersCounted == Spec => []AnswersAreCounted
<1>1. TransportInv => AnswersAreCounted
  <2> SUFFICES ASSUME TransportInv, NEW r \in Requests
               PROVE  /\ r \in Started <=>
                           /\ req[r].pc = "done" /\ req[r].outcome = "answered"
                           /\ req[r].endpoint \in {"chat", "stream", "messages"} /\ req[r].presented = "known"
                      /\ r \in Started => rec[r].tokens = req[r].tokens
    BY Zenon DEF AnswersAreCounted
  <2>1. Counted(req[r], rec[r])
    BY RequestFacts, Zenon
  <2> QED
    BY <2>1, Zenon DEF Counted, Started, Requests
<1> QED
  BY <1>1, TransportAlways, PTL

\* A step of a handler starts at most its own RecordRequest, and only once.
LEMMA HandlerRecords ==
    ASSUME TransportInv, NEW r \in Requests, Handler(r)
    PROVE  [UsageNext]_usageVars
<1>1. CASE UNCHANGED usageVars
  BY <1>1, Zenon
<1>2. CASE \E stream \in BOOLEAN, t \in Tokens : GoRecord(r, stream, t) /\ req[r].pc # "done"
  <2>1. Recording /\ req[r] \in ReqRecords /\ rec[r].pc = "none"
    BY <1>2, RequestFacts, Zenon DEF TransportInv, Counted
  <2> QED
    BY <1>2, <2>1, GoRecordFacts, Zenon
<1>3. CASE RespondChat(r) \/ StreamEnds(r) \/ RelayEnds(r) \/ BufferBody(r)
  <2>1. req[r].tokens \in Tokens
    BY RequestFacts, Zenon DEF ReqRecords
  <2> QED
    BY <1>1, <1>2, <1>3, <2>1, TransportAssumption, Zenon
       DEF RespondChat, Posted, StreamEnds, RelayEnds, BufferBody
<1>4. CASE withAppKeyTracking(r) \/ Arrive(r, "native", "none") \/ readLimitedBody(r) \/ RunPreHTTP(r)
  BY <1>1, <1>4, Zenon DEF withAppKeyTracking, Arrive, Reject, readLimitedBody, writeError,
     RunPreHTTP, Continue, LogPreHTTP, TracePreHTTP
<1>5. CASE Dispatch(r) \/ DispatchFails(r) \/ RunPostHTTP(r) \/ RespondEmbeddings(r) \/ RespondHeader(r) \/ Chunk(r)
  BY <1>1, <1>5, Zenon
     DEF Dispatch, DispatchFails, RunPostHTTP, RespondEmbeddings, writeError, RespondHeader,
         Chunk
<1> QED
  BY <1>3, <1>4, <1>5, Zenon DEF Handler

\* The handlers are surroundings that the usage counters are made for: what UsageSpec
\* promises holds of the server.
THEOREM ServerRecordsUsage == Spec => UsageSpec
<1>1. Init => UsageInit
  BY Zenon DEF Init
<1>2. TransportInv /\ [Next]_vars => [UsageNext]_usageVars
  <2> SUFFICES ASSUME TransportInv, Next
               PROVE  [UsageNext]_usageVars
    BY Zenon DEF vars, usageVars
  <2>1. CASE \E r \in Requests : Handler(r)
    BY <2>1, HandlerRecords, Zenon
  <2>2. CASE Deactivate \/ Finished \/ \E r \in Requests : OnTrace(r)
    BY <2>2, Zenon DEF Deactivate, Finished, OnTrace, vars
  <2>3. CASE Snapshot \/ \E r \in Requests : RecordRequest(r)
    BY <2>3, Zenon DEF UsageNext, Requests
  <2> QED
    BY <2>1, <2>2, <2>3, Zenon DEF Next
<1> QED
  BY <1>1, <1>2, TransportAlways, PTL DEF Spec, UsageSpec
=============================================================================
