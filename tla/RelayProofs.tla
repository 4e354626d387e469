---------------------------- MODULE RelayProofs -----------------------------
(***************************************************************************)
(* One relayed answer, for every script of the upstream, every mode and    *)
(* every timeout.  RelayInv says what is held where: the timer, the body,  *)
(* the context and the pipe, by the place of the handler and of Bedrock's  *)
(* goroutine, and which of the clock's counters runs.  FaithInv says what  *)
(* has been relayed: what was written is what was sent, and what was taken *)
(* has been written, but for the event in hand.                            *)
(***************************************************************************)
EXTENDS Relay, TLAPS

\* Where the handler has the body of the upstream's answer in its hands.
WithBody == {"errbody", "readall", "flush", "next", "write", "done", "close"}

RelayTypes ==
    /\ TypeOK
    /\ up \in [status : {"none", "ok", "error"}, sent : Nat, end : {"open", "eof", "cut"}]

\* What the handler holds, by where it is.
Holds ==
    /\ pc \in {"upload", "send"} \/ Bedrock => timer = Stopped
    /\ pc \in {"upload", "send", "header"} => body = "none"
    /\ pc \in WithBody => body = "open"
    /\ pc \in {"reply", "ended"} => /\ timer = Stopped /\ body # "open"
                                    /\ ctx = "live" => body = "none" \/ Bedrock

Pumping ==
    /\ pump # "none" => Bedrock
    /\ pump = "ended" => /\ pipe # "open"
                         /\ sdk => pipe = "hung" \/ call.script[got].type = "bad"

\* The upstream has given a sign of life that the handler has yet to see: it does not wait.
Pending == up.end # "open" \/ got < up.sent \/ (pc = "header" /\ up # Arrived)

\* The timer has run no longer than the upstream has been silent, unless a write held
\* the handler up.
Timed == timer # Stopped /\ ~held => Timeout <= quiet + timer \/ Pending

\* A write after deadline.extend() has the whole window before it until time passes.
Extended == pc \in {"write", "done"} /\ ~slow => window = Timeout

RelayInv == RelayTypes /\ Holds /\ Pumping /\ Timed /\ Extended

\* The groups of variables are visible in every proof below.
USE DEF idleVars, handlerVars, clientVars, bedrockVars, history, Stopped, Bedrock

(***************************************************************************)
(* What is relayed                                                         *)
(***************************************************************************)

Items == {call.script[i] : i \in 1..Len(call.script)}

\* io.Copy's side of RelayFaithful: what was written is what was sent, ...
Whole ==
    call.mode \in {"copy", "bedrock"} =>
        out \in Seq(Items) /\ \A i \in 1..Len(out) : out[i] = call.script[i]

\* ... and until the stream is closed, every event that was used and is not in hand has
\* been written, whether or not the client is still there.
Kept ==
    call.mode \in {"copy", "bedrock"} =>
        /\ Len(out) <= Served /\ (~gone => Len(out) = Served)
        /\ pc \in {"upload", "send", "header", "next", "write"} => Len(out) = Served
        /\ pc \notin {"readall", "flush", "done"}
        /\ pc \in {"upload", "send", "header"} => pump = "none"
        /\ Bedrock /\ pump # "ended" => got = IF pump = "write" THEN taken + 1 ELSE taken

\* The message or the body has ended, and the handler has seen it.
MessageEnded ==
    /\ result = "ok"
    /\ \/ AtEnd /\ up.end = "eof"
       \/ taken > 0 /\ streamNext(call.fmt, call.script[taken]).kind = "eof"

\* [DONE] is being written, or was.
Concluded ==
    /\ done => pc \in {"close", "ended"}
    /\ done \/ pc = "done" => MessageEnded

FaithInv == Whole /\ Kept /\ Concluded

LEMMA RelayNumbers ==
    ASSUME RelayInv
    PROVE  /\ taken \in Nat /\ got \in Nat /\ up.sent \in Nat /\ Len(call.script) \in Nat
           /\ taken <= got /\ got <= up.sent /\ up.sent <= Len(call.script)
BY CallsAssumption DEF RelayInv, RelayTypes, TypeOK

\* A write appends the event in hand.
LEMMA WriteAppends ==
    ASSUME RelayInv, Whole, Kept, WriteOk, pc = "write", call.mode \in {"copy", "bedrock"}
    PROVE  /\ pc' = "next" /\ UNCHANGED <<call, gone, taken, got, pump>>
           /\ out' \in Seq(Items) /\ Len(out') = Len(out) + 1 /\ Len(out) = taken - 1
           /\ \A i \in 1..Len(out') : out'[i] = call.script[i]
<1>1. /\ out' = Append(out, call.script[taken]) /\ pc' = "next"
      /\ UNCHANGED <<call, gone, taken, got, pump>>
  BY Zenon DEF WriteOk, AfterWrite
<1>2. Len(out) = taken - 1 /\ taken \in Nat
  BY RelayNumbers DEF Kept, Served
<1>3. out \in Seq(Items) /\ \A i \in 1..Len(out) : out[i] = call.script[i]
  BY Zenon DEF Whole
<1>4. call.script[taken] \in Items
  BY <1>2, <1>3, RelayNumbers DEF Items
<1>5. /\ out' \in Seq(Items) /\ Len(out') = Len(out) + 1
      /\ \A i \in 1..Len(out') : out'[i] = call.script[i]
  BY <1>1, <1>2, <1>3, <1>4
<1> QED
  BY <1>1, <1>2, <1>5, Zenon

\* No step loses, repeats or reorders what is copied.
LEMMA CopiedStep == RelayInv /\ Whole /\ Kept /\ [Next]_vars => Whole' /\ Kept'
<1> SUFFICES ASSUME RelayInv, Whole, Kept
             PROVE  [Next]_vars => Whole' /\ Kept'
  BY Zenon
<1>0. /\ taken \in Nat /\ got \in Nat /\ up.sent \in Nat /\ Len(call.script) \in Nat
      /\ taken <= got /\ got <= up.sent /\ up.sent <= Len(call.script)
  BY RelayNumbers, Zenon
<1>1. UNCHANGED <<call, out>> => Whole'
  BY Zenon DEF Whole, Items
<1>2. ASSUME ReadRequest \/ Send \/ NoHeader \/ ErrorBody \/ ReadAllEnds
      PROVE  Whole' /\ Kept'
  <2>1. ReadAllEnds => call' = call /\ call.mode \notin {"copy", "bedrock"}
    BY Zenon DEF ReadAllEnds, Kept
  <2> QED
    BY <1>1, <1>2, <2>1, Zenon DEF ReadRequest, Send, NoHeader, ErrorBody, Whole, Kept, Served
<1>3. ASSUME GotHeader
      PROVE  Whole' /\ Kept'
  <2>1. call.mode \in {"copy", "bedrock"} => pc' \in {"next", "errbody", "reply"}
    BY <1>3 DEF GotHeader, Reading
  <2> QED
    BY <1>0, <1>1, <1>3, <2>1 DEF GotHeader, Kept, Served
<1>4. ASSUME Fetch \/ EndOfBody \/ BreakOff
      PROVE  Whole' /\ Kept'
  BY <1>1, <1>4, Zenon DEF Fetch, EndOfBody, Extend, BreakOff, Kept, Served
<1>5. ASSUME TakeEvent
      PROVE  Whole' /\ Kept'
  BY <1>0, <1>1, <1>5 DEF TakeEvent, Extend, Step, Kept, Served
<1>6. ASSUME ReadPipe
      PROVE  Whole' /\ Kept'
  BY <1>0, <1>1, <1>6 DEF ReadPipe, Extend, Kept, Served
<1>7. ASSUME Pump
      PROVE  Whole' /\ Kept'
  BY <1>0, <1>1, <1>7 DEF Pump, PumpCancelled, PumpEvent, PumpEnds, PumpHungUp, Kept, Served
<1>8. ASSUME WriteOk
      PROVE  Whole' /\ Kept'
  <2>1. CASE pc = "write" /\ call.mode \in {"copy", "bedrock"}
    <3>1. Whole'
      BY <1>8, <2>1, WriteAppends, Zenon DEF Whole, Items
    <3>2. Kept'
      BY <1>0, <1>8, <2>1, WriteAppends DEF Kept, Served
    <3> QED
      BY <3>1, <3>2
  <2>2. CASE pc # "write" /\ call.mode \in {"copy", "bedrock"}
    BY <1>1, <1>8, <2>2 DEF WriteOk, Writing, AfterWrite, Kept, Served
  <2>3. CASE call.mode \notin {"copy", "bedrock"}
    BY <1>8, <2>3, Zenon DEF WriteOk, Whole, Kept
  <2> QED
    BY <2>1, <2>2, <2>3, Zenon
<1>9. ASSUME WriteFails
      PROVE  Whole' /\ Kept'
  BY <1>0, <1>1, <1>9 DEF WriteFails, Writing, AfterWrite, Kept, Served
<1>10. ASSUME CloseStream \/ ClientLeaves
       PROVE  Whole' /\ Kept'
  BY <1>1, <1>10, Zenon DEF CloseStream, ClientLeaves, Kept, Served
<1>11. ASSUME Upstream \/ ContextEnds \/ Timer \/ Tick \/ UNCHANGED vars
       PROVE  Whole' /\ Kept'
  BY <1>1, <1>11, Zenon DEF Upstream, ContextEnds, Timer, Tick, vars, Kept, Served
<1> QED
  BY <1>2, <1>3, <1>4, <1>5, <1>6, <1>7, <1>8, <1>9, <1>10, <1>11, Zenon DEF Next, Handler, Finished

\* No step writes [DONE] before its time, and the end of a message stays one.
LEMMA ConcludedStep == RelayInv /\ Concluded /\ [Next]_vars => Concluded'
<1> SUFFICES ASSUME RelayInv, Concluded
             PROVE  [Next]_vars => Concluded'
  BY Zenon
<1>0. /\ taken \in Nat /\ got \in Nat /\ up.sent \in Nat /\ Len(call.script) \in Nat
      /\ taken <= got /\ got <= up.sent /\ up.sent <= Len(call.script)
  BY RelayNumbers, Zenon
<1>1. ASSUME ReadRequest \/ Send \/ NoHeader \/ ErrorBody \/ ReadAllEnds
      PROVE  Concluded'
  <2>1. pc' # "done" /\ UNCHANGED done /\ pc \notin {"done", "close", "ended"}
    BY <1>1, Zenon DEF ReadRequest, Send, NoHeader, ErrorBody, ReadAllEnds
  <2> QED
    BY <2>1, Zenon DEF Concluded
<1>10. ASSUME GotHeader
       PROVE  Concluded'
  <2>1. call \in Calls
    BY Zenon DEF RelayInv, RelayTypes, TypeOK
  <2>2. Reading[call.mode] # "done"
    BY <2>1, CallsAssumption DEF Reading
  <2>3. pc' # "done" /\ UNCHANGED done /\ pc = "header"
    BY <1>10, <2>2, Zenon DEF GotHeader
  <2> QED
    BY <2>3, Zenon DEF Concluded
<1>2. ASSUME Fetch \/ BreakOff \/ ReadPipe
      PROVE  Concluded'
  <2>1. pc' # "done" /\ UNCHANGED done /\ pc \notin {"done", "close", "ended"}
    BY <1>2, Zenon DEF Fetch, BreakOff, ReadPipe
  <2> QED
    BY <2>1, Zenon DEF Concluded
<1>3. ASSUME TakeEvent
      PROVE  Concluded'
  BY <1>0, <1>3 DEF TakeEvent, Extend, Step, Concluded, MessageEnded
<1>4. ASSUME EndOfBody
      PROVE  Concluded'
  BY <1>4, Zenon DEF EndOfBody, Extend, Concluded, MessageEnded, AtEnd
<1>5. ASSUME WriteOk
      PROVE  Concluded'
  <2>1. pc' # "done" /\ (pc = "done" => pc' = "close") /\ pc \notin {"close", "ended"}
    BY <1>5 DEF WriteOk, Writing, AfterWrite
  <2> QED
    BY <1>5, <2>1, Zenon DEF WriteOk, Concluded, MessageEnded, AtEnd
<1>6. ASSUME WriteFails
      PROVE  Concluded'
  BY <1>6 DEF WriteFails, Writing, AfterWrite, Concluded, MessageEnded, AtEnd
<1>7. ASSUME Pump
      PROVE  Concluded'
  BY <1>0, <1>7 DEF Pump, PumpCancelled, PumpEvent, PumpEnds, PumpHungUp, Concluded, MessageEnded, AtEnd
<1>8. ASSUME Upstream
      PROVE  Concluded'
  BY <1>0, <1>8, Zenon DEF Upstream, UpAnswer, UpSend, UpEnd, Arrived, Concluded, MessageEnded, AtEnd
<1>9. ASSUME CloseStream \/ ClientLeaves \/ ContextEnds \/ Timer \/ Tick \/ UNCHANGED vars
      PROVE  Concluded'
  BY <1>9 DEF CloseStream, ClientLeaves, ContextEnds, Timer, Tick, vars, Concluded, MessageEnded, AtEnd
<1> QED
  BY <1>1, <1>2, <1>3, <1>4, <1>5, <1>6, <1>7, <1>8, <1>9, <1>10, Zenon DEF Next, Handler, Finished

LEMMA RelayInitially == Init => RelayInv
<1> SUFFICES ASSUME Init
             PROVE  RelayInv
  BY Zenon
<1>1. Len(call.script) \in Nat
  BY CallsAssumption, Zenon DEF Init
<1>b. expired \in BOOLEAN /\ gone \in BOOLEAN
  BY Zenon DEF Init, IdleInit
<1>2. RelayTypes
  BY <1>1, <1>b, TimeoutAssumption DEF Init, IdleInit, Arrived, RelayTypes, TypeOK, IdleTypeOK, PCs
<1>3. Holds /\ Pumping /\ Timed /\ Extended
  BY Zenon DEF Init, IdleInit, Holds, Pumping, Timed, Extended, WithBody
<1> QED
  BY <1>2, <1>3, Zenon DEF RelayInv

LEMMA UpstreamStep ==
    ASSUME RelayInv, Upstream
    PROVE  RelayInv'
<1>1. /\ up' \in [status : {"none", "ok", "error"}, sent : Nat, end : {"open", "eof", "cut"}]
      /\ up'.sent \in 0..Len(call.script) /\ up.sent <= up'.sent
      /\ up'.end # "open" \/ got < up'.sent \/ (pc = "header" /\ up' # Arrived)
  BY CallsAssumption DEF RelayInv, RelayTypes, TypeOK, Upstream, UpAnswer, UpSend, UpEnd, Arrived
<1>2. UNCHANGED <<idleVars, handlerVars, clientVars, bedrockVars, held, slow>> /\ quiet' = 0
  BY Zenon DEF Upstream
<1> QED
  BY <1>1, <1>2, TimeoutAssumption DEF
     RelayInv, RelayTypes, TypeOK, IdleTypeOK, Holds, Pumping, Timed, Pending, Extended

LEMMA ReadRequestStep ==
    ASSUME RelayInv, ReadRequest
    PROVE  RelayInv'
BY TimeoutAssumption DEF ReadRequest, RelayInv, RelayTypes, TypeOK, IdleTypeOK, PCs,
     Holds, WithBody, Pumping, Timed, Pending, Extended

LEMMA SendStep ==
    ASSUME RelayInv, Send
    PROVE  RelayInv'
<1>0. RelayTypes /\ Holds /\ Pumping /\ Timed /\ Extended
  BY Zenon DEF RelayInv
<1>1. RelayTypes'
  BY <1>0, TimeoutAssumption DEF Send, RoundTripBegin, RelayTypes, TypeOK, IdleTypeOK, PCs
<1>2. Holds'
  BY <1>0, TimeoutAssumption, Zenon DEF Send, RoundTripBegin, RelayTypes, TypeOK, IdleTypeOK, Holds, WithBody
<1>3. Pumping'
  BY <1>0, Zenon DEF Send, RoundTripBegin, RelayTypes, TypeOK, Pumping
<1>4. Timed' /\ Extended'
  BY <1>0, TimeoutAssumption
     DEF Send, RoundTripBegin, RelayTypes, TypeOK, IdleTypeOK, Holds, Timed, Pending, Extended
<1> QED
  BY <1>1, <1>2, <1>3, <1>4, Zenon DEF RelayInv

LEMMA GotHeaderStep ==
    ASSUME RelayInv, GotHeader
    PROVE  RelayInv'
<1>0. RelayTypes /\ Holds /\ Pumping /\ Timed /\ Extended
  BY Zenon DEF RelayInv
<1>1. RelayTypes'
  BY <1>0, TimeoutAssumption, CallsAssumption
     DEF GotHeader, RoundTripOk, Reading, TimerSet, RelayTypes, TypeOK, IdleTypeOK, PCs
<1>2. Holds'
  BY <1>0, TimeoutAssumption, CallsAssumption
     DEF GotHeader, RoundTripOk, Reading, TimerSet, RelayTypes, TypeOK, IdleTypeOK, Holds,
         WithBody
<1>3. Pumping'
  BY <1>0, Zenon DEF GotHeader, RoundTripOk, Reading, TimerSet, RelayTypes, TypeOK, Pumping
<1>4. Timed' /\ Extended'
  BY <1>0, TimeoutAssumption, CallsAssumption
     DEF GotHeader, RoundTripOk, Reading, TimerSet, RelayTypes, TypeOK, IdleTypeOK, Holds,
         Timed, Pending, Extended
<1> QED
  BY <1>1, <1>2, <1>3, <1>4, Zenon DEF RelayInv

LEMMA NoHeaderStep ==
    ASSUME RelayInv, NoHeader
    PROVE  RelayInv'
BY TimeoutAssumption DEF NoHeader, RoundTripFails, Cancel, RelayInv, RelayTypes, TypeOK, IdleTypeOK, PCs,
     Holds, WithBody, Pumping, Timed, Pending, Extended

LEMMA ErrorBodyStep ==
    ASSUME RelayInv, ErrorBody
    PROVE  RelayInv'
BY TimeoutAssumption DEF ErrorBody, Close, Cancel, RelayInv, RelayTypes, TypeOK, IdleTypeOK, PCs,
     Holds, WithBody, Pumping, Timed, Pending, Extended

LEMMA FetchStep ==
    ASSUME RelayInv, Fetch
    PROVE  RelayInv'
<1>0. RelayTypes /\ Holds /\ Pumping /\ Timed /\ Extended
  BY Zenon DEF RelayInv
<1>1. RelayTypes'
  BY <1>0, TimeoutAssumption DEF Fetch, ReadSome, TimerSet, RelayTypes, TypeOK, IdleTypeOK, PCs
<1>2. Holds'
  BY <1>0, TimeoutAssumption, Zenon
     DEF Fetch, ReadSome, TimerSet, RelayTypes, TypeOK, IdleTypeOK, Holds, WithBody
<1>3. Pumping'
  BY <1>0, Zenon DEF Fetch, ReadSome, TimerSet, RelayTypes, TypeOK, Pumping
<1>4. Timed' /\ Extended'
  BY <1>0, TimeoutAssumption
     DEF Fetch, ReadSome, TimerSet, RelayTypes, TypeOK, IdleTypeOK, Holds, Timed, Pending,
         Extended
<1> QED
  BY <1>1, <1>2, <1>3, <1>4, Zenon DEF RelayInv

LEMMA ReadAllEndsStep ==
    ASSUME RelayInv, ReadAllEnds
    PROVE  RelayInv'
BY TimeoutAssumption DEF ReadAllEnds, Close, Cancel, RelayInv, RelayTypes, TypeOK, IdleTypeOK, PCs,
     Holds, WithBody, Pumping, Timed, Pending, Extended

LEMMA TakeEventStep ==
    ASSUME RelayInv, TakeEvent
    PROVE  RelayInv'
BY TimeoutAssumption DEF TakeEvent, Extend, RelayInv, RelayTypes, TypeOK, IdleTypeOK, PCs,
     Holds, WithBody, Pumping, Timed, Pending, Extended

LEMMA EndOfBodyStep ==
    ASSUME RelayInv, EndOfBody
    PROVE  RelayInv'
BY TimeoutAssumption DEF EndOfBody, Extend, ReadFails, RelayInv, RelayTypes, TypeOK, IdleTypeOK, PCs,
     Holds, WithBody, Pumping, Timed, Pending, Extended

LEMMA BreakOffStep ==
    ASSUME RelayInv, BreakOff
    PROVE  RelayInv'
BY TimeoutAssumption DEF BreakOff, ReadFails, RelayInv, RelayTypes, TypeOK, IdleTypeOK, PCs,
     Holds, WithBody, Pumping, Timed, Pending, Extended

LEMMA ReadPipeStep ==
    ASSUME RelayInv, ReadPipe
    PROVE  RelayInv'
BY TimeoutAssumption DEF ReadPipe, Extend, RelayInv, RelayTypes, TypeOK, IdleTypeOK, PCs,
     Holds, WithBody, Pumping, Timed, Pending, Extended

LEMMA WriteOkStep ==
    ASSUME RelayInv, WriteOk
    PROVE  RelayInv'
<1>0. RelayTypes /\ Holds /\ Pumping /\ Timed /\ Extended
  BY Zenon DEF RelayInv
<1>1. RelayTypes'
  BY <1>0, TimeoutAssumption DEF WriteOk, Writing, AfterWrite, RelayTypes, TypeOK, IdleTypeOK, PCs
<1>2. Holds'
  BY <1>0, TimeoutAssumption DEF WriteOk, Writing, AfterWrite, RelayTypes, TypeOK, IdleTypeOK, Holds, WithBody
<1>3. Pumping'
  BY <1>0, Zenon DEF WriteOk, Writing, AfterWrite, RelayTypes, TypeOK, Pumping
<1>4. Timed' /\ Extended'
  BY <1>0, TimeoutAssumption
     DEF WriteOk, Writing, AfterWrite, RelayTypes, TypeOK, IdleTypeOK, Holds, Timed, Pending,
         Extended
<1> QED
  BY <1>1, <1>2, <1>3, <1>4, Zenon DEF RelayInv

LEMMA WriteFailsStep ==
    ASSUME RelayInv, WriteFails
    PROVE  RelayInv'
<1>0. RelayTypes /\ Holds /\ Pumping /\ Timed /\ Extended
  BY Zenon DEF RelayInv
<1>b. gone' \in BOOLEAN
  BY <1>0, Zenon DEF WriteFails
<1>1. RelayTypes'
  BY <1>0, <1>b, TimeoutAssumption
     DEF WriteFails, Writing, AfterWrite, Cancel, RelayTypes, TypeOK, IdleTypeOK, PCs
<1>2. Holds'
  BY <1>0, TimeoutAssumption
     DEF WriteFails, Writing, AfterWrite, Cancel, RelayTypes, TypeOK, IdleTypeOK, Holds,
         WithBody
<1>3. Pumping'
  BY <1>0, Zenon DEF WriteFails, Writing, AfterWrite, Cancel, RelayTypes, TypeOK, Pumping
<1>4. Timed' /\ Extended'
  BY <1>0, TimeoutAssumption
     DEF WriteFails, Writing, AfterWrite, Cancel, RelayTypes, TypeOK, IdleTypeOK, Holds, Timed,
         Pending, Extended
<1> QED
  BY <1>1, <1>2, <1>3, <1>4, Zenon DEF RelayInv

LEMMA CloseStreamStep ==
    ASSUME RelayInv, CloseStream
    PROVE  RelayInv'
BY TimeoutAssumption DEF CloseStream, Close, Cancel, RelayInv, RelayTypes, TypeOK, IdleTypeOK, PCs,
     Holds, WithBody, Pumping, Timed, Pending, Extended

LEMMA ContextEndsStep ==
    ASSUME RelayInv, ContextEnds
    PROVE  RelayInv'
BY TimeoutAssumption DEF ContextEnds, Cancel, RelayInv, RelayTypes, TypeOK, IdleTypeOK, PCs,
     Holds, WithBody, Pumping, Timed, Pending, Extended

LEMMA ClientLeavesStep ==
    ASSUME RelayInv, ClientLeaves
    PROVE  RelayInv'
BY TimeoutAssumption DEF ClientLeaves, Cancel, RelayInv, RelayTypes, TypeOK, IdleTypeOK, PCs,
     Holds, WithBody, Pumping, Timed, Pending, Extended

LEMMA TimerStep ==
    ASSUME RelayInv, Timer
    PROVE  RelayInv'
<1>0. RelayTypes /\ Holds /\ Pumping /\ Timed /\ Extended
  BY Zenon DEF RelayInv
<1>b. expired' \in BOOLEAN
  BY <1>0, Zenon DEF Timer, Alarm, Expire, CallbackStore, CallbackCancel, RelayTypes, TypeOK, IdleTypeOK
<1>1. RelayTypes'
  BY <1>0, <1>b, TimeoutAssumption
     DEF Timer, Alarm, Expire, CallbackStore, CallbackCancel, Cancel, RelayTypes, TypeOK,
         IdleTypeOK, PCs
<1>2. Holds'
  BY <1>0, TimeoutAssumption, Zenon
     DEF Timer, Alarm, Expire, CallbackStore, CallbackCancel, Cancel, RelayTypes, TypeOK,
         IdleTypeOK, Holds, WithBody
<1>3. Pumping'
  BY <1>0, Zenon DEF Timer, Alarm, Expire, CallbackStore, CallbackCancel, Cancel, RelayTypes, TypeOK, Pumping
<1>4. Timed' /\ Extended'
  BY <1>0, TimeoutAssumption, Zenon
     DEF Timer, Alarm, Expire, CallbackStore, CallbackCancel, Cancel, RelayTypes, TypeOK,
         IdleTypeOK, Holds, Timed, Pending, Extended
<1> QED
  BY <1>1, <1>2, <1>3, <1>4, Zenon DEF RelayInv

LEMMA PumpStep ==
    ASSUME RelayInv, Pump
    PROVE  RelayInv'
BY TimeoutAssumption
   DEF Pump, PumpCancelled, PumpEvent, PumpEnds, PumpHungUp, RelayInv, RelayTypes, TypeOK,
       IdleTypeOK, PCs,
     Holds, WithBody, Pumping, Timed, Pending, Extended

LEMMA TickStep ==
    ASSUME RelayInv, Tick
    PROVE  RelayInv'
<1>0. RelayTypes /\ Holds /\ Pumping /\ Timed /\ Extended
  BY Zenon DEF RelayInv
<1>1. RelayTypes'
  BY <1>0, TimeoutAssumption DEF Tick, Elapse, Waiting, Writing, Arrived, RelayTypes, TypeOK, IdleTypeOK, PCs
<1>2. Holds'
  BY <1>0, TimeoutAssumption
     DEF Tick, Elapse, Waiting, Writing, Arrived, RelayTypes, TypeOK, IdleTypeOK, Holds,
         WithBody
<1>3. Pumping'
  BY <1>0, Zenon DEF Tick, Elapse, Waiting, Writing, Arrived, RelayTypes, TypeOK, Pumping
<1>4. Extended'
  BY Zenon DEF Tick, Writing, Extended
<1>5. ~held' => ~held /\ ~Writing
  BY Zenon DEF Tick
<1>6. Timed'
  <2>1. CASE Writing
    BY <1>5, <2>1, Zenon DEF Timed
  <2>2. CASE ~Writing
    <3>1. pc = "upload" \/ ~Pending
      BY <1>0, <2>2 DEF Tick, Waiting, Pending, Arrived, RelayTypes, TypeOK
    <3>2. Pending' <=> Pending
      BY Zenon DEF Tick, Pending, Arrived
    <3> QED
      BY <1>0, <1>5, <3>1, <3>2, TimeoutAssumption
      DEF Tick, Elapse, RelayTypes, TypeOK, IdleTypeOK, Holds, Timed
  <2> QED
    BY <2>1, <2>2, Zenon
<1> QED
  BY <1>1, <1>2, <1>3, <1>4, <1>6, Zenon DEF RelayInv

\* Every step keeps the inductive invariant.
LEMMA RelayStep == RelayInv /\ [Next]_vars => RelayInv'
<1> SUFFICES ASSUME RelayInv, [Next]_vars
             PROVE  RelayInv'
  BY Zenon
<1>1. CASE Handler
  BY <1>1, ReadRequestStep, SendStep, GotHeaderStep, NoHeaderStep, ErrorBodyStep, FetchStep, ReadAllEndsStep,
     TakeEventStep, EndOfBodyStep, BreakOffStep, ReadPipeStep, WriteFailsStep, CloseStreamStep, ContextEndsStep, Zenon DEF Handler
<1>2. CASE UNCHANGED vars
  BY <1>2 DEF vars, RelayInv, RelayTypes, TypeOK, IdleTypeOK, Holds, Pumping, Timed, Pending, Extended
<1> QED
  BY <1>1, <1>2, UpstreamStep, WriteOkStep, ClientLeavesStep, TimerStep, PumpStep, TickStep, Zenon
     DEF Next, Finished

\* A step that runs the idle timer out, or fails a write on the deadline, is earned.
LEMMA EarnedStep ==
    ASSUME RelayInv, [Next]_vars
    PROVE  /\ timer # 0 /\ timer' = 0 => quiet' = Timeout \/ held'
           /\ ~gone /\ gone' /\ Writing /\ window = 0 => slow \/ pc \in {"flush", "reply"}
<1>1. timer # 0 /\ timer' = 0 => quiet' = Timeout \/ held'
  <2>0. SUFFICES ASSUME timer # 0, timer' = 0, ~held'
                 PROVE  quiet' = Timeout
    BY Zenon
  <2>1. Tick
    <3>1. timer' \notin {timer, Timeout, Stopped}
      BY <2>0, TimeoutAssumption
    <3>2. CASE ReadRequest \/ Send \/ GotHeader \/ NoHeader \/ ErrorBody
      BY <3>1, <3>2, Zenon
      DEF ReadRequest, Send, RoundTripBegin, GotHeader, RoundTripOk, NoHeader, RoundTripFails, ErrorBody, Close
    <3>3. CASE Fetch \/ ReadAllEnds \/ TakeEvent \/ EndOfBody \/ BreakOff \/ ReadPipe
      BY <3>1, <3>3, Zenon
      DEF Fetch, ReadSome, ReadAllEnds, Close, TakeEvent, EndOfBody, ReadFails, BreakOff, ReadPipe
    <3>4. CASE WriteFails \/ CloseStream \/ ContextEnds
      BY <3>1, <3>4, Zenon DEF WriteFails, CloseStream, Close, ContextEnds
    <3>5. CASE WriteOk \/ ClientLeaves \/ Timer \/ Pump \/ Upstream \/ UNCHANGED vars
      BY <3>1, <3>5, Zenon
      DEF WriteOk, ClientLeaves, Timer, Alarm, Expire, CallbackStore, CallbackCancel, Pump, Upstream, vars
    <3> QED
      BY <3>2, <3>3, <3>4, <3>5, Zenon DEF Next, Handler, Finished
  <2>2. RelayInv' /\ ~Pending'
    <3>1. ~Writing /\ Waiting
      BY <2>0, <2>1, Zenon DEF Tick
    <3>2. pc # "upload"
      BY <2>0, <2>1, TimeoutAssumption DEF Tick, Elapse, RelayInv, Holds
    <3> QED
      BY <2>1, <3>1, <3>2, TickStep DEF Tick, Waiting, Pending, Arrived, RelayInv, RelayTypes, TypeOK
  <2>3. timer' # Stopped
    BY <2>0, TimeoutAssumption
  <2>4. Timeout <= quiet' + 0
    BY <2>0, <2>2, <2>3, Zenon DEF RelayInv, Timed
  <2>5. quiet' \in 0..Timeout
    BY <2>2, Zenon DEF RelayInv, RelayTypes, TypeOK
  <2>6. \A q \in 0..Timeout : Timeout <= q + 0 => q = Timeout
    BY TimeoutAssumption
  <2> QED
    BY <2>4, <2>5, <2>6, Zenon
<1>2. ~gone /\ gone' /\ Writing /\ window = 0 => slow \/ pc \in {"flush", "reply"}
  BY TimeoutAssumption, Zenon DEF RelayInv, Extended, Writing
<1> QED
  BY <1>1, <1>2, Zenon

\* The inductive invariant holds in every state of a relay.
LEMMA RelayAlways == Spec => []RelayInv
<1>1. Init => RelayInv
  BY RelayInitially, Zenon
<1>2. RelayInv /\ [Next]_vars => RelayInv'
  BY RelayStep, Zenon
<1> QED
  BY <1>1, <1>2, PTL DEF Spec

\* A handler that has returned holds nothing any more, whichever of its many returns it
\* took and however the timer's callback, the upstream and the client interleaved with it;
\* neither does a Bedrock stream's goroutine that has ended (httpclient.go, bedrock.go).
THEOREM RelaysRelease == Spec => []Released
<1>1. RelayInv => Released
  BY Zenon DEF RelayInv, RelayTypes, Holds, Pumping, Released
<1> QED
  BY <1>1, RelayAlways, PTL

\* The idle timer of an HTTP provider runs out, and a write misses its deadline, only when
\* the upstream was silent, or the client kept from taking what was written, for as long as
\* the timeout says (idleTimeoutBody in httpclient.go, streamDeadline in server.go).
THEOREM TimeoutsEarned == Spec => TimeoutsAreEarned
<1>1. RelayInv /\ [Next]_vars =>
         [/\ timer # 0 /\ timer' = 0 => quiet' = Timeout \/ held'
          /\ ~gone /\ gone' /\ Writing /\ window = 0 => slow \/ pc \in {"flush", "reply"}]_vars
  BY EarnedStep, Zenon
<1> QED
  BY <1>1, RelayAlways, PTL DEF Spec, TimeoutsAreEarned

\* What io.Copy relays is what the upstream sent, and [DONE] stands for an answer that the
\* upstream has finished (handleNative, handleMessages and handleStream in server.go).
THEOREM RelaysAreFaithful == Spec => []RelayFaithful
<1>1. Init => FaithInv
  BY DEF Init, IdleInit, FaithInv, Whole, Kept, Concluded, Served, Items
<1>2. RelayInv /\ FaithInv /\ [Next]_vars => FaithInv'
  BY CopiedStep, ConcludedStep, Zenon DEF FaithInv
<1>3. FaithInv => RelayFaithful
  BY Zenon DEF FaithInv, Whole, Kept, Concluded, MessageEnded, RelayFaithful
<1> QED
  BY <1>1, <1>2, <1>3, RelayAlways, PTL DEF Spec
=============================================================================
