------------------------------- MODULE Usage --------------------------------
(***************************************************************************)
(* The usage counters of one application key (internal/appkey/store.go):   *)
(* RecordRequest, run by a goroutine per request, and Snapshot, run by     *)
(* GET /v1/app-keys/{key}/usage and GET /v1/usage.  Every counter is an    *)
(* atomic of its own, so each Add and each Load is a step; only the map    *)
(* from models to their counters is under a lock, UsageRecord.mu.          *)
(*                                                                         *)
(* Records of different keys share nothing, so one record is modelled.     *)
(***************************************************************************)
EXTENDS Integers, FiniteSets, Folds

CONSTANTS
    Workers,  \* the goroutines that record a request
    Models,   \* model names
    NoObject  \* no ModelUsage

ASSUME UsageAssumption == NoObject \notin Workers /\ Models # {}

VARIABLES
    totals,      \* TotalRequests, StreamRequests and NonStreamRequests
    modelUsage,  \* the map: model to the ModelUsage it points to, or NoObject
    objects,     \* the ModelUsage objects, named after the goroutine that made them
    rec,         \* the goroutines in RecordRequest
    snap         \* the goroutine in Snapshot

usageVars == <<totals, modelUsage, objects, rec, snap>>

RecordPCs == {"none", "total", "kind", "find", "make", "requests", "tokens", "end"}
SnapPCs == {"none", "models", "total", "stream", "nonStream", "end"}
Tokens == [prompt : Nat, completion : Nat]

UsageTypeOK ==
    /\ totals \in [all : Nat, stream : Nat, nonStream : Nat]
    /\ modelUsage \in [Models -> Workers \cup {NoObject}]
    /\ objects \in [Workers -> [requests : Nat, prompt : Nat, completion : Nat]]
    /\ rec \in [Workers -> [pc : RecordPCs, stream : BOOLEAN, model : Models,
                            tokens : Tokens, object : Workers \cup {NoObject}]]
    /\ snap \in [pc : SnapPCs, todo : SUBSET Models, requests : Nat,
                 all : Nat, stream : Nat, nonStream : Nat]

NoTokens == [prompt |-> 0, completion |-> 0]
ModelUsage == [requests |-> 0, prompt |-> 0, completion |-> 0]

UsageInit ==
    /\ totals = [all |-> 0, stream |-> 0, nonStream |-> 0]
    /\ modelUsage = [m \in Models |-> NoObject]
    /\ objects = [w \in Workers |-> ModelUsage]
    /\ rec = [w \in Workers |-> [pc |-> "none", stream |-> FALSE, model |-> CHOOSE m \in Models : TRUE,
                                 tokens |-> NoTokens, object |-> NoObject]]
    /\ snap = [pc |-> "none", todo |-> {}, requests |-> 0, all |-> 0, stream |-> 0, nonStream |-> 0]

(***************************************************************************)
(* RecordRequest                                                           *)
(***************************************************************************)

\* The state of a goroutine started with these arguments.
Recorder(stream, model, tokens) ==
    [pc |-> "total", stream |-> stream, model |-> model, tokens |-> tokens, object |-> NoObject]

\* go RecordRequest(...), in goroutine w.
StartRecord(w, stream, model, tokens) ==
    /\ rec' = [rec EXCEPT ![w] = Recorder(stream, model, tokens)]
    /\ UNCHANGED <<totals, modelUsage, objects, snap>>

\* Goroutine w goes from one step to another.
Goto(w, from, to) ==
    /\ rec[w].pc = from
    /\ rec' = [rec EXCEPT ![w].pc = to]

AddTotal(w) ==
    /\ Goto(w, "total", "kind")
    /\ totals' = [totals EXCEPT !.all = @ + 1]
    /\ UNCHANGED <<modelUsage, objects, snap>>

AddKind(w) ==
    /\ Goto(w, "kind", "find")
    /\ totals' = IF rec[w].stream THEN [totals EXCEPT !.stream = @ + 1]
                                  ELSE [totals EXCEPT !.nonStream = @ + 1]
    /\ UNCHANGED <<modelUsage, objects, snap>>

\* getOrCreateModel: the look under the read lock, and the one under the write
\* lock, which a Snapshot in its loop over the map holds up.
FindModel(w) ==
    LET m == rec[w].model IN
    /\ rec[w].pc = "find"
    /\ rec' = [rec EXCEPT ![w].pc = IF modelUsage[m] = NoObject THEN "make" ELSE "requests",
                          ![w].object = modelUsage[m]]
    /\ UNCHANGED <<totals, modelUsage, objects, snap>>

\* Variant: the map is not looked at again under the write lock.
MakeModelBlind(w) ==
    /\ snap.pc # "models"
    /\ rec[w].pc = "make"
    /\ modelUsage' = [modelUsage EXCEPT ![rec[w].model] = w]
    /\ rec' = [rec EXCEPT ![w].pc = "requests", ![w].object = w]
    /\ UNCHANGED <<totals, objects, snap>>

MakeModel(w) ==
    LET m == rec[w].model
        o == IF modelUsage[m] = NoObject THEN w ELSE modelUsage[m]
    IN  /\ snap.pc # "models"
        /\ rec[w].pc = "make"
        /\ modelUsage' = [modelUsage EXCEPT ![m] = o]
        /\ rec' = [rec EXCEPT ![w].pc = "requests", ![w].object = o]
        /\ UNCHANGED <<totals, objects, snap>>

AddRequest(w) ==
    /\ Goto(w, "requests", "tokens")
    /\ objects' = [objects EXCEPT ![rec[w].object].requests = @ + 1]
    /\ UNCHANGED <<totals, modelUsage, snap>>

\* Variant: the tokens are stored and not added.
AddTokensStored(w) ==
    /\ Goto(w, "tokens", "end")
    /\ objects' = [objects EXCEPT ![rec[w].object].prompt = rec[w].tokens.prompt,
                                  ![rec[w].object].completion = rec[w].tokens.completion]
    /\ UNCHANGED <<totals, modelUsage, snap>>

\* The prompt and the completion tokens, two Adds that no step here reads between.
AddTokens(w) ==
    /\ Goto(w, "tokens", "end")
    /\ objects' = [objects EXCEPT ![rec[w].object].prompt = @ + rec[w].tokens.prompt,
                                  ![rec[w].object].completion = @ + rec[w].tokens.completion]
    /\ UNCHANGED <<totals, modelUsage, snap>>

\* Variant: the model's counters are raised first, the totals last.
RecordRequestSwapped(w) ==
    \/ Goto(w, "total", "find") /\ UNCHANGED <<totals, modelUsage, objects, snap>>
    \/ FindModel(w) \/ MakeModel(w) \/ AddRequest(w)
    \/ /\ Goto(w, "tokens", "kind")
       /\ objects' = [objects EXCEPT ![rec[w].object].prompt = @ + rec[w].tokens.prompt,
                                     ![rec[w].object].completion = @ + rec[w].tokens.completion]
       /\ UNCHANGED <<totals, modelUsage, snap>>
    \/ /\ Goto(w, "kind", "end")
       /\ totals' = IF rec[w].stream THEN [totals EXCEPT !.all = @ + 1, !.stream = @ + 1]
                                     ELSE [totals EXCEPT !.all = @ + 1, !.nonStream = @ + 1]
       /\ UNCHANGED <<modelUsage, objects, snap>>

RecordRequest(w) ==
    \/ AddTotal(w) \/ AddKind(w) \/ FindModel(w) \/ MakeModel(w)
    \/ AddRequest(w) \/ AddTokens(w)

(***************************************************************************)
(* Snapshot                                                                *)
(***************************************************************************)

\* The goroutines that RecordRequest was started in.
Started == {w \in Workers : rec[w].pc # "none"}

Used == {m \in Models : modelUsage[m] # NoObject}

\* A snapshot is taken, once; one that begins before anything was recorded finds
\* no model, and is left out.
SnapBegin ==
    /\ snap.pc = "none"
    /\ Started # {}
    /\ snap' = [snap EXCEPT !.pc = "models", !.todo = Used]
    /\ UNCHANGED <<totals, modelUsage, objects, rec>>

\* One turn of the loop over the map, or its end, which gives up the read lock.
SnapModel ==
    /\ snap.pc = "models"
    /\ \/ \E m \in snap.todo :
             snap' = [snap EXCEPT !.todo = @ \ {m},
                                  !.requests = @ + objects[modelUsage[m]].requests]
       \/ snap.todo = {} /\ snap' = [snap EXCEPT !.pc = "total"]
    /\ UNCHANGED <<totals, modelUsage, objects, rec>>

SnapTotals ==
    /\ \/ snap.pc = "total" /\ snap' = [snap EXCEPT !.pc = "stream", !.all = totals.all]
       \/ snap.pc = "stream" /\ snap' = [snap EXCEPT !.pc = "nonStream", !.stream = totals.stream]
       \/ snap.pc = "nonStream" /\ snap' = [snap EXCEPT !.pc = "end", !.nonStream = totals.nonStream]
    /\ UNCHANGED <<totals, modelUsage, objects, rec>>

Snapshot == SnapBegin \/ SnapModel \/ SnapTotals

\* The record in any surroundings that start each goroutine once.
UsageNext ==
    \/ \E w \in Workers, stream \in BOOLEAN, m \in Models, t \in Tokens :
           rec[w].pc = "none" /\ StartRecord(w, stream, m, t)
    \/ \E w \in Workers : RecordRequest(w)
    \/ Snapshot

UsageSpec == UsageInit /\ [][UsageNext]_usageVars

(***************************************************************************)
(* Properties                                                              *)
(***************************************************************************)

SumOver(S, f(_)) == MapThenFoldSet(LAMBDA x, n : x + n, 0, f, LAMBDA T : CHOOSE x \in T : TRUE, S)

\* The requests for a model.
Mine(m) == {w \in Started : rec[w].model = m}

\* When no goroutine is in RecordRequest every counter tells the same story: no
\* request is lost, not even by two first requests for one model.
RequestsAddUp ==
    /\ UsageTypeOK
    /\ (\A w \in Started : rec[w].pc = "end") =>
         /\ totals.all = Cardinality(Started)
         /\ totals.all = totals.stream + totals.nonStream
         /\ \A m \in Models :
                /\ m \in Used <=> Mine(m) # {}
                /\ m \in Used => objects[modelUsage[m]].requests = Cardinality(Mine(m))

\* Nor is a token lost: a model's counters hold the sums of what its requests reported.
TokensAddUp ==
    (\A w \in Started : rec[w].pc = "end") =>
        \A m \in Used :
            /\ objects[modelUsage[m]].prompt = SumOver(Mine(m), LAMBDA w : rec[w].tokens.prompt)
            /\ objects[modelUsage[m]].completion = SumOver(Mine(m), LAMBDA w : rec[w].tokens.completion)

\* A snapshot taken while requests are being recorded never shows a model with
\* requests that its totals lack: RecordRequest raises the totals first and
\* Snapshot reads them last.
SnapshotCovers ==
    snap.pc = "end" =>
        /\ snap.requests <= snap.all
        /\ snap.requests <= snap.stream + snap.nonStream
=============================================================================
