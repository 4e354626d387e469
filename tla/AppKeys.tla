------------------------------ MODULE AppKeys ------------------------------
(***************************************************************************)
(* The lifecycle of application keys: the in-memory Store                  *)
(* (internal/appkey/store.go), the bbolt Persister beside it               *)
(* (internal/appkey/persist.go), the management handlers that drive them   *)
(* (internal/transport/handler_appkey.go), and start-up and shutdown       *)
(* (cmd/butter/main.go).                                                   *)
(*                                                                         *)
(* A thread is the goroutine of one management request.  Every atomic load *)
(* and store of a record, every critical section of Store.mu and every     *)
(* bbolt transaction is one step; the flush goroutine and crashes run in   *)
(* between.  Labels, creation times and counters are left out (counters    *)
(* are in module Usage).                                                   *)
(***************************************************************************)
EXTENDS Integers

CONSTANTS
    Keys,          \* every key string that Generate() or the config can produce
    NoKey,         \* not a key
    NoEntry,       \* absence of a key in the bbolt bucket
    Threads,       \* management request goroutines
    Provisioned,   \* keys listed under app_keys.keys in the config
    ConfigScope,   \* ConfigScope[k]: scope the config gives provisioned key k
    Restrictions,  \* values of allowed_models and allowed_providers
    NewScopes,     \* scopes a new key may be given
    TTLs,          \* lifetimes a new key may be given, 0 means none
    Expiries,      \* absolute expiries a PATCH may set, 0 clears
    Bodies,        \* scope fields of the PATCH bodies that clients send
    Kinds,         \* management operations that clients issue
    MaxTime,       \* bound on the clock
    Faults         \* what the environment may do, see FaultKinds

All == "all"       \* an empty allow list: unrestricted
Unset == "unset"   \* a field that a PATCH body does not carry

FaultKinds == {"overlap",   \* two operations on one key may overlap
               "disk",      \* a bbolt transaction may fail
               "undrained"} \* server.Shutdown may give up on running handlers

KindNames == {"vend", "revoke", "patch", "rotate", "purge"}

Scopes == [m : Restrictions \cup {All}, p : Restrictions \cup {All}]
NoScope == [m |-> All, p |-> All]

\* The scope fields of a PATCH body.
Wants == [m : Restrictions \cup {All, Unset}, p : Restrictions \cup {All, Unset}]
NoWant == [m |-> Unset, p |-> Unset]

\* A UsageRecord's (and a UsageSnapshot's) lifecycle fields; 0 is "unset".
Records == [exp : Nat, rev : Nat, scope : Scopes]
Blank == [exp |-> 0, rev |-> 0, scope |-> NoScope]
NewRecord(e, s) == [exp |-> e, rev |-> 0, scope |-> s]

ASSUME ConstantsAssumption ==
    /\ NoKey \notin Keys
    /\ NoEntry \notin Records
    /\ Provisioned \subseteq Keys
    /\ ConfigScope \in [Provisioned -> Scopes]
    /\ All \notin Restrictions /\ Unset \notin Restrictions
    /\ NewScopes \subseteq Scopes /\ Bodies \subseteq Wants
    /\ Expiries \subseteq Nat /\ TTLs \subseteq Nat
    /\ MaxTime \in Nat \ {0}
    /\ Kinds \subseteq KindNames
    /\ Faults \subseteq FaultKinds

VARIABLES
    mode,     \* "up", "closing" (Persister.Close running), "closed", "down"
    now,      \* the clock
    records,  \* the keys of Store.records
    rec,      \* rec[k]: contents of the UsageRecord of k, also once unlinked
    db,       \* db[k]: the entry of k in the bbolt bucket
    writeMu,  \* TRUE while the flush goroutine (or Close) holds Persister.writeMu
    op,       \* op[t]: what thread t is doing
    fl,       \* the flush in progress
    issued,   \* history: keys that have ever existed
    purged,   \* history: keys whose Delete has returned
    overtaken \* history: threads whose PATCH has read scopes that another PATCH
              \* of the key has replaced since

vars == <<mode, now, records, rec, db, writeMu, op, fl, issued, purged, overtaken>>

(***************************************************************************)
(* State                                                                   *)
(***************************************************************************)

PCs == {"idle", "cas", "setExpiry", "scopes", "updLookup", "setScopes",
        "rotExp", "rotScopes", "rotVend", "exp", "rev", "scope", "persist", "delKey"}

Idle == [kind |-> "none", pc |-> "idle", key |-> NoKey, new |-> NoKey, cur |-> NoKey,
         exp |-> 0, want |-> NoWant, scope |-> NoScope, snap |-> Blank]

Ops == [kind : KindNames \cup {"none"}, pc : PCs,
        key : Keys \cup {NoKey},   \* the key in the request path
        new : Keys \cup {NoKey},   \* the key that Rotate vends
        cur : Keys \cup {NoKey},   \* the record being snapshotted and persisted
        exp : Nat,                 \* expiry (patch) or ttl (rotate) to apply
        want : Wants,              \* scope fields still to apply
        scope : Scopes,            \* scope to store
        snap : Records]            \* the snapshot being built

NoFlush == [pc |-> "idle", final |-> FALSE, todo |-> {}, cur |-> NoKey,
            snaps |-> [k \in Keys |-> NoEntry]]

Flushes == [pc : {"idle", "next", "rev", "scope", "stopped"}, final : BOOLEAN,
            todo : SUBSET Keys, cur : Keys \cup {NoKey},
            snaps : [Keys -> Records \cup {NoEntry}]]

TypeOK ==
    /\ mode \in {"up", "closing", "closed", "down"}
    /\ now \in Nat
    /\ records \subseteq Keys
    /\ rec \in [Keys -> Records]
    /\ db \in [Keys -> Records \cup {NoEntry}]
    /\ writeMu \in BOOLEAN
    /\ op \in [Threads -> Ops]
    /\ fl \in Flushes
    /\ issued \subseteq Keys
    /\ purged \subseteq Keys
    /\ overtaken \subseteq Threads

(***************************************************************************)
(* Start-up                                                                *)
(***************************************************************************)

\* Provision and SetScopes: the record a config entry creates at start-up.
Provision(k) == NewRecord(0, ConfigScope[k])

\* A restart now would find k: in the config or in the bucket.
Loadable(k) == k \in Provisioned \/ db[k] # NoEntry

\* The record of k after Provision, then Restore: nil fields of the snapshot do
\* not override what the config has set.
Restored(k) ==
    LET base == IF k \in Provisioned THEN Provision(k) ELSE Blank
    IN  IF db[k] = NoEntry THEN base
        ELSE [exp   |-> db[k].exp,
              rev   |-> db[k].rev,
              scope |-> IF db[k].scope # NoScope THEN db[k].scope ELSE base.scope]

Init ==
    /\ mode = "up"
    /\ now = 1
    /\ records = Provisioned
    /\ rec = [k \in Keys |-> IF k \in Provisioned THEN Provision(k) ELSE Blank]
    /\ db = [k \in Keys |-> NoEntry]
    /\ writeMu = FALSE
    /\ op = [t \in Threads |-> Idle]
    /\ fl = NoFlush
    /\ issued = Provisioned
    /\ purged = {}
    /\ overtaken = {}

(***************************************************************************)
(* Management operations                                                   *)
(***************************************************************************)

Busy(t) == {op[t].key, op[t].new}

\* Thread t accepts a request for key k.
CanBegin(t, kind, k) ==
    /\ kind \in Kinds
    /\ op[t].pc = "idle"
    /\ mode = "up" \/ ("undrained" \in Faults /\ mode \in {"closing", "closed"})
    /\ "overlap" \in Faults \/ \A u \in Threads : k \notin Busy(u)

Goto(t, label) == op' = [op EXCEPT ![t] = [@ EXCEPT !.pc = label]]
Return(t) == op' = [op EXCEPT ![t] = Idle]

\* Take the snapshot of k next and hand it to onUpdate.
Snapshot(t, k) == [op[t] EXCEPT !.pc = "exp", !.cur = k, !.snap = Blank]

\* Store.Vend up to the unlock: a fresh key and its record.
Insert(k, e, s) ==
    /\ k \in Keys \ issued
    /\ records' = records \cup {k}
    /\ rec' = [rec EXCEPT ![k] = NewRecord(e, s)]
    /\ issued' = issued \cup {k}

Lifetime(ttl) == IF ttl > 0 THEN now + ttl ELSE 0

Vend(t, k, ttl, s) ==
    /\ CanBegin(t, "vend", k)
    /\ Insert(k, Lifetime(ttl), s)
    /\ op' = [op EXCEPT ![t] = [Idle EXCEPT !.kind = "vend", !.pc = "exp",
                                            !.key = k, !.cur = k]]
    /\ UNCHANGED <<mode, now, db, writeMu, fl, purged, overtaken>>

\* Lookup of k at the start of Revoke, SetExpiry and Rotate; an unknown key is
\* answered 404 and changes nothing.
Lookup(t, kind, k, label, e, want) ==
    /\ CanBegin(t, kind, k)
    /\ k \in records
    /\ op' = [op EXCEPT ![t] = [Idle EXCEPT !.kind = kind, !.pc = label, !.key = k,
                                            !.exp = e, !.want = want]]
    /\ UNCHANGED <<mode, now, records, rec, db, writeMu, fl, issued, purged, overtaken>>

BeginRevoke(t, k) == Lookup(t, "revoke", k, "cas", 0, NoWant)
BeginRotate(t, k) == Lookup(t, "rotate", k, "rotExp", 0, NoWant)
BeginPatchExpiry(t, k, e, want) == Lookup(t, "patch", k, "setExpiry", e, want)

\* A PATCH body without an expiry goes straight to its scope fields.  Nobody can
\* name a key before Generate() has drawn it.
BeginPatchScopes(t, k, want) ==
    /\ want # NoWant
    /\ k \in issued
    /\ CanBegin(t, "patch", k)
    /\ op' = [op EXCEPT ![t] = [Idle EXCEPT !.kind = "patch", !.pc = "scopes", !.key = k,
                                            !.want = want]]
    /\ UNCHANGED <<mode, now, records, rec, db, writeMu, fl, issued, purged, overtaken>>

\* CompareAndSwap(0, now) on RevokedAt; onUpdate only if the swap happened.
CasRevoked(t) ==
    LET k == op[t].key IN
    /\ op[t].pc = "cas"
    /\ \/ /\ rec[k].rev = 0
          /\ rec' = [rec EXCEPT ![k].rev = now]
          /\ op' = [op EXCEPT ![t] = Snapshot(t, k)]
       \/ /\ rec[k].rev # 0
          /\ Return(t)
          /\ UNCHANGED rec
    /\ UNCHANGED <<mode, now, records, db, writeMu, fl, issued, purged, overtaken>>

\* Variant: SetExpiry without onUpdate.
SetExpiryUnpersisted(t) ==
    /\ op[t].pc = "setExpiry"
    /\ rec' = [rec EXCEPT ![op[t].key].exp = op[t].exp]
    /\ Return(t)
    /\ UNCHANGED <<mode, now, records, db, writeMu, fl, issued, purged, overtaken>>

\* ExpiresAt.Store.
SetExpiry(t) ==
    LET k == op[t].key IN
    /\ op[t].pc = "setExpiry"
    /\ rec' = [rec EXCEPT ![k].exp = op[t].exp]
    /\ op' = [op EXCEPT ![t] = Snapshot(t, k)]
    /\ UNCHANGED <<mode, now, records, db, writeMu, fl, issued, purged, overtaken>>

\* Variant: a field that was not sent is taken for a cleared one.
PickClearing(wanted, current) == IF wanted = Unset THEN All ELSE wanted

Pick(wanted, current) == IF wanted = Unset THEN current ELSE wanted

\* The handler looks the key up, reads its scopes and fills in the fields that
\* the body carries; 404 if the key is gone.
ReadScopes(t) ==
    LET k == op[t].key IN
    /\ op[t].pc = "scopes"
    /\ \/ /\ k \in records
          /\ op' = [op EXCEPT ![t] =
                [@ EXCEPT !.pc = "updLookup",
                          !.scope = [m |-> Pick(op[t].want.m, rec[k].scope.m),
                                     p |-> Pick(op[t].want.p, rec[k].scope.p)]]]
       \/ k \notin records /\ Return(t)
    /\ overtaken' = overtaken \ {t}
    /\ UNCHANGED <<mode, now, records, rec, db, writeMu, fl, issued, purged>>

\* UpdateScopes looks the key up once more before it stores.
UpdateScopesLookup(t) ==
    /\ op[t].pc = "updLookup"
    /\ \/ op[t].key \in records /\ Goto(t, "setScopes")
       \/ op[t].key \notin records /\ Return(t)
    /\ UNCHANGED <<mode, now, records, rec, db, writeMu, fl, issued, purged, overtaken>>

\* PATCH u of key k has read the scopes and has yet to store them.
Merging(u, k) == op[u].key = k /\ op[u].pc \in {"updLookup", "setScopes"}

UpdateScopes(t) ==
    LET k == op[t].key IN
    /\ op[t].pc = "setScopes"
    /\ rec' = [rec EXCEPT ![k].scope = op[t].scope]
    /\ op' = [op EXCEPT ![t] = [Snapshot(t, k) EXCEPT !.want = NoWant]]
    /\ overtaken' = {u \in Threads \ {t} : u \in overtaken \/ Merging(u, k)}
    /\ UNCHANGED <<mode, now, records, db, writeMu, fl, issued, purged>>

\* Variant: the remaining lifetime of an expired key, or of one without expiry,
\* is not clamped.
RotateReadExpiryRaw(t) ==
    /\ op[t].pc = "rotExp"
    /\ op' = [op EXCEPT ![t] = [@ EXCEPT !.pc = "rotScopes", !.exp = rec[op[t].key].exp - now]]
    /\ UNCHANGED <<mode, now, records, rec, db, writeMu, fl, issued, purged, overtaken>>

\* Rotate: remaining lifetime, then scopes, then Vend.
RotateReadExpiry(t) ==
    LET left == rec[op[t].key].exp - now IN
    /\ op[t].pc = "rotExp"
    /\ op' = [op EXCEPT ![t] = [@ EXCEPT !.pc = "rotScopes",
                                         !.exp = IF left > 0 THEN left ELSE 0]]
    /\ UNCHANGED <<mode, now, records, rec, db, writeMu, fl, issued, purged, overtaken>>

RotateReadScopes(t) ==
    /\ op[t].pc = "rotScopes"
    /\ op' = [op EXCEPT ![t] = [@ EXCEPT !.pc = "rotVend", !.scope = rec[op[t].key].scope]]
    /\ UNCHANGED <<mode, now, records, rec, db, writeMu, fl, issued, purged, overtaken>>

\* Variant: Rotate revokes the old key before the new one is persisted.
RotateVendUnpersisted(t, k) ==
    /\ op[t].pc = "rotVend"
    /\ Insert(k, Lifetime(op[t].exp), op[t].scope)
    /\ op' = [op EXCEPT ![t] = [@ EXCEPT !.pc = "cas", !.new = k]]
    /\ UNCHANGED <<mode, now, db, writeMu, fl, purged, overtaken>>

RotateVend(t, k) ==
    /\ op[t].pc = "rotVend"
    /\ Insert(k, Lifetime(op[t].exp), op[t].scope)
    /\ op' = [op EXCEPT ![t] = [@ EXCEPT !.pc = "exp", !.new = k, !.cur = k]]
    /\ UNCHANGED <<mode, now, db, writeMu, fl, purged, overtaken>>

\* Delete up to the unlock.
Delete(t, k) ==
    /\ CanBegin(t, "purge", k)
    /\ k \in records
    /\ records' = records \ {k}
    /\ op' = [op EXCEPT ![t] = [Idle EXCEPT !.kind = "purge", !.pc = "delKey", !.key = k]]
    /\ UNCHANGED <<mode, now, rec, db, writeMu, fl, issued, purged, overtaken>>

(***************************************************************************)
(* Snapshots and their persistence                                         *)
(***************************************************************************)

\* UsageRecord.Snapshot loads ExpiresAt, RevokedAt and scopes one after the other.
Load(snap, r, field) ==
    [exp   |-> IF field = "exp" THEN r.exp ELSE snap.exp,
     rev   |-> IF field = "rev" THEN r.rev ELSE snap.rev,
     scope |-> IF field = "scope" THEN r.scope ELSE snap.scope]

AfterLoad(field) ==
    IF field = "exp" THEN "rev" ELSE IF field = "rev" THEN "scope" ELSE "persist"

SnapshotLoad(t) ==
    LET o == op[t] IN
    /\ o.pc \in {"exp", "rev", "scope"}
    /\ op' = [op EXCEPT ![t] = [o EXCEPT !.snap = Load(o.snap, rec[o.cur], o.pc),
                                         !.pc = AfterLoad(o.pc)]]
    /\ UNCHANGED <<mode, now, records, rec, db, writeMu, fl, issued, purged, overtaken>>

\* One bbolt transaction that would take the bucket to d.  It fails once the
\* database is closed, and may fail on a disk error; the callers only log that.
Transaction(d) ==
    \/ mode # "closed" /\ db' = d
    \/ (mode = "closed" \/ "disk" \in Faults) /\ UNCHANGED db

\* What follows onUpdate: Rotate goes on to revoke the old key, PATCH to its
\* scope fields.
AfterPersist(o) ==
    IF o.kind = "rotate" /\ o.cur = o.new THEN [o EXCEPT !.pc = "cas", !.cur = NoKey, !.snap = Blank]
    ELSE IF o.kind = "patch" /\ o.want # NoWant
         THEN [o EXCEPT !.pc = "scopes", !.cur = NoKey, !.snap = Blank]
    ELSE Idle

\* Variant: PersistKey without writeMu.
PersistKeyUnlocked(t) ==
    /\ op[t].pc = "persist"
    /\ Transaction([db EXCEPT ![op[t].cur] = op[t].snap])
    /\ op' = [op EXCEPT ![t] = AfterPersist(@)]
    /\ UNCHANGED <<mode, now, records, rec, writeMu, fl, issued, purged, overtaken>>

PersistKey(t) ==
    /\ op[t].pc = "persist"
    /\ ~writeMu
    /\ Transaction([db EXCEPT ![op[t].cur] = op[t].snap])
    /\ op' = [op EXCEPT ![t] = AfterPersist(@)]
    /\ UNCHANGED <<mode, now, records, rec, writeMu, fl, issued, purged, overtaken>>

\* Variant: DeleteKey without writeMu.
DeleteKeyUnlocked(t) ==
    /\ op[t].pc = "delKey"
    /\ Transaction([db EXCEPT ![op[t].key] = NoEntry])
    /\ Return(t)
    /\ purged' = purged \cup {op[t].key}
    /\ UNCHANGED <<mode, now, records, rec, writeMu, fl, issued, overtaken>>

DeleteKey(t) ==
    /\ op[t].pc = "delKey"
    /\ ~writeMu
    /\ Transaction([db EXCEPT ![op[t].key] = NoEntry])
    /\ Return(t)
    /\ purged' = purged \cup {op[t].key}
    /\ UNCHANGED <<mode, now, records, rec, writeMu, fl, issued, overtaken>>

(***************************************************************************)
(* The flush goroutine and Close                                           *)
(***************************************************************************)

\* Variant: flush without writeMu.
FlushBeginUnlocked ==
    /\ mode \in {"up", "closing"}
    /\ fl.pc \in {"idle", "stopped"}
    /\ fl' = [NoFlush EXCEPT !.pc = "next", !.final = (fl.pc = "stopped"), !.todo = records]
    /\ UNCHANGED <<mode, now, records, rec, db, writeMu, op, issued, purged, overtaken>>

\* Variant: flush of the active records only.
FlushBeginActive ==
    /\ mode \in {"up", "closing"}
    /\ fl.pc \in {"idle", "stopped"}
    /\ ~writeMu
    /\ writeMu' = TRUE
    /\ fl' = [NoFlush EXCEPT !.pc = "next", !.final = (fl.pc = "stopped"),
                             !.todo = {k \in records : rec[k].rev = 0}]
    /\ UNCHANGED <<mode, now, records, rec, db, op, issued, purged, overtaken>>

\* flush takes writeMu and List copies the record pointers under Store.mu.  The
\* goroutine flushes on a tick, also when stop is already closed (select picks
\* either); Close flushes once more after the goroutine has stopped.
FlushBegin ==
    /\ mode \in {"up", "closing"}
    /\ fl.pc \in {"idle", "stopped"}
    /\ ~writeMu
    /\ writeMu' = TRUE
    /\ fl' = [NoFlush EXCEPT !.pc = "next", !.final = (fl.pc = "stopped"), !.todo = records]
    /\ UNCHANGED <<mode, now, records, rec, db, op, issued, purged, overtaken>>

\* List snapshots the copied records one by one.
FlushPick(k) ==
    /\ fl.pc = "next"
    /\ k \in fl.todo
    /\ fl' = [fl EXCEPT !.pc = "rev", !.cur = k, !.todo = @ \ {k},
                        !.snaps[k] = Load(Blank, rec[k], "exp")]
    /\ UNCHANGED <<mode, now, records, rec, db, writeMu, op, issued, purged, overtaken>>

FlushLoad ==
    /\ fl.pc \in {"rev", "scope"}
    /\ fl' = [fl EXCEPT !.pc = IF fl.pc = "rev" THEN "scope" ELSE "next",
                        !.snaps[fl.cur] = Load(fl.snaps[fl.cur], rec[fl.cur], fl.pc)]
    /\ UNCHANGED <<mode, now, records, rec, db, writeMu, op, issued, purged, overtaken>>

\* Variant: flush returns without releasing writeMu.
FlushCommitLocked ==
    /\ fl.pc = "next"
    /\ fl.todo = {}
    /\ Transaction([k \in Keys |-> IF fl.snaps[k] # NoEntry THEN fl.snaps[k] ELSE db[k]])
    /\ fl' = NoFlush
    /\ mode' = IF fl.final THEN "closed" ELSE mode
    /\ UNCHANGED <<now, records, rec, writeMu, op, issued, purged, overtaken>>

\* All snapshots are put in one transaction; entries of other keys stay.
FlushCommit ==
    /\ fl.pc = "next"
    /\ fl.todo = {}
    /\ Transaction([k \in Keys |-> IF fl.snaps[k] # NoEntry THEN fl.snaps[k] ELSE db[k]])
    /\ writeMu' = FALSE
    /\ fl' = NoFlush
    /\ mode' = IF fl.final THEN "closed" ELSE mode
    /\ UNCHANGED <<now, records, rec, op, issued, purged, overtaken>>

\* main: server.Shutdown waits for the handlers (for ten seconds), then Close.
Shutdown ==
    /\ mode = "up"
    /\ "undrained" \in Faults \/ \A t \in Threads : op[t].pc = "idle"
    /\ mode' = "closing"
    /\ UNCHANGED <<now, records, rec, db, writeMu, op, fl, issued, purged, overtaken>>

FlusherStop ==
    /\ mode = "closing"
    /\ fl.pc = "idle"
    /\ fl' = [fl EXCEPT !.pc = "stopped"]
    /\ UNCHANGED <<mode, now, records, rec, db, writeMu, op, issued, purged, overtaken>>

\* The process ends, at any moment; memory is gone.
Crash ==
    /\ mode # "down"
    /\ mode' = "down"
    /\ records' = {}
    /\ rec' = [k \in Keys |-> Blank]
    /\ writeMu' = FALSE
    /\ op' = [t \in Threads |-> Idle]
    /\ fl' = NoFlush
    /\ UNCHANGED <<now, db, issued, purged, overtaken>>

\* main: Provision every configured key, then NewPersister loads the bucket.
Restart ==
    /\ mode = "down"
    /\ mode' = "up"
    /\ records' = {k \in Keys : Loadable(k)}
    /\ rec' = [k \in Keys |-> Restored(k)]
    /\ purged' = purged \ Provisioned
    /\ UNCHANGED <<now, db, writeMu, op, fl, issued, overtaken>>

Tick ==
    /\ now < MaxTime
    /\ now' = now + 1
    /\ UNCHANGED <<mode, records, rec, db, writeMu, op, fl, issued, purged, overtaken>>

(***************************************************************************)
(* Specification                                                           *)
(***************************************************************************)

Begin(t) ==
    \E k \in Keys :
        \/ \E ttl \in TTLs, s \in NewScopes : Vend(t, k, ttl, s)
        \/ BeginRevoke(t, k)
        \/ BeginRotate(t, k)
        \/ \E e \in Expiries, want \in Bodies : BeginPatchExpiry(t, k, e, want)
        \/ \E want \in Bodies : BeginPatchScopes(t, k, want)
        \/ Delete(t, k)

Continue(t) ==
    \/ CasRevoked(t) \/ SetExpiry(t)
    \/ ReadScopes(t) \/ UpdateScopesLookup(t) \/ UpdateScopes(t)
    \/ RotateReadExpiry(t) \/ RotateReadScopes(t) \/ \E k \in Keys : RotateVend(t, k)
    \/ SnapshotLoad(t) \/ PersistKey(t) \/ DeleteKey(t)

Flusher == FlushBegin \/ (\E k \in Keys : FlushPick(k)) \/ FlushLoad \/ FlushCommit \/ FlusherStop

Next ==
    \/ \E t \in Threads : Begin(t) \/ Continue(t)
    \/ Flusher
    \/ Shutdown \/ Crash \/ Restart \/ Tick

Spec == Init /\ [][Next]_vars

\* A flush whose transaction commits.
FlushSucceeds ==
    /\ FlushCommit
    /\ \A k \in Keys : fl.snaps[k] # NoEntry => db'[k] = fl.snaps[k]

\* The ticker keeps the flush goroutine going and a running handler is
\* scheduled; sync.Mutex is starvation free, so a handler that keeps finding
\* writeMu free from time to time gets it. A disk that fails now and then does
\* not fail every flush.
FairSpec ==
    /\ Spec
    /\ WF_vars(Flusher) /\ SF_vars(FlushSucceeds)
    /\ \A t \in Threads : SF_vars(Continue(t))

(***************************************************************************)
(* The inductive invariants of the AppKeys proofs                          *)
(***************************************************************************)

SnapshotPCs == {"exp", "rev", "scope", "persist"}

\* Whoever works on a record has one.
Addressed ==
    /\ \A t \in Threads : /\ op[t].pc # "idle" => op[t].key \in Keys
                          /\ op[t].pc \in SnapshotPCs => op[t].cur \in Keys
    /\ fl.pc \in {"rev", "scope"} => fl.cur \in Keys /\ fl.snaps[fl.cur] # NoEntry

\* The record of k is ahead of the bucket; k has left memory but not the bucket.
Dirty(k) == \E t \in Threads : op[t].pc \in SnapshotPCs /\ op[t].cur = k
Deleting(k) == \E t \in Threads : op[t].pc = "delKey" /\ op[t].key = k

Stored(k) == IF db[k] = NoEntry THEN Blank ELSE db[k]

\* One operation per key, on keys that exist.
OneOpPerKey ==
    /\ \A t, u \in Threads : t # u => Busy(t) \cap Busy(u) \subseteq {NoKey}
    /\ \A t \in Threads : Busy(t) \subseteq issued \cup {NoKey}
    /\ records \subseteq issued /\ purged \subseteq issued /\ Provisioned \subseteq issued
    /\ \A k \in Keys \ issued : db[k] = NoEntry

\* Where each operation finds its keys.
OpShape ==
    \A t \in Threads :
        LET o == op[t] IN
        /\ o.pc = "idle" => o.key = NoKey /\ o.new = NoKey
        /\ o.pc \in SnapshotPCs => o.cur \in {o.key, o.new} /\ o.cur \in records
        /\ o.pc \notin {"idle", "scopes", "delKey"} => o.key \in records
        /\ o.pc = "delKey" => o.key \notin records
        /\ o.new # NoKey => /\ o.new \in records
                            /\ o.pc \in SnapshotPCs \cup {"cas"}
                            /\ o.kind = "rotate"
        /\ o.pc \in {"rotExp", "rotScopes", "rotVend"} => o.kind = "rotate"

\* The fields of a snapshot that are loaded are those of the record.
SnapshotFresh ==
    \A t \in Threads :
        LET o == op[t] IN
        /\ o.pc \in {"rev", "scope", "persist"} => o.snap.exp = rec[o.cur].exp
        /\ o.pc \in {"scope", "persist"} => o.snap.rev = rec[o.cur].rev
        /\ o.pc = "persist" => o.snap.scope = rec[o.cur].scope

\* Memory and bucket agree on what nobody is writing.
BucketInStep ==
    mode # "down" =>
        \A k \in Keys :
            /\ k \in records /\ ~Dirty(k) => Loadable(k) /\ rec[k] = Stored(k)
            /\ k \notin records /\ ~Deleting(k) => db[k] = NoEntry

\* A flush holds only keys that are in memory or about to leave the bucket, and
\* what it has loaded is stale only for records whose own PersistKey is to come.
FlushInStep ==
    /\ writeMu <=> fl.pc \in {"next", "rev", "scope"}
    /\ ~writeMu => \A k \in Keys : fl.snaps[k] = NoEntry
    /\ \A k \in Keys : (k \in fl.todo /\ writeMu) \/ fl.snaps[k] # NoEntry => k \in records \/ Deleting(k)
    /\ \A k \in records : fl.snaps[k] # NoEntry /\ ~Dirty(k) =>
          /\ fl.snaps[k].exp = rec[k].exp
          /\ ~(fl.pc = "rev" /\ fl.cur = k) => fl.snaps[k].rev = rec[k].rev
          /\ ~(fl.pc \in {"rev", "scope"} /\ fl.cur = k) => fl.snaps[k].scope = rec[k].scope

\* Operations run only while the process is up, the final flush only in Close.
ModeInStep ==
    /\ mode # "up" => \A t \in Threads : op[t].pc = "idle"
    /\ fl.final \/ fl.pc = "stopped" => mode = "closing"
    /\ mode \in {"closed", "down"} => ~writeMu
    /\ mode = "down" => records = {}

PurgedGone == \A k \in purged : k \notin records /\ ~Deleting(k) /\ db[k] = NoEntry

\* The write-through discipline of PersistKey, DeleteKey and flush: with
\* non-overlapping operations, a working disk and a drained shutdown, bucket and
\* memory differ only on the record an operation is about to write, and what a
\* flush has loaded is stale only for such a record.
WriteThrough ==
    /\ OneOpPerKey /\ OpShape /\ SnapshotFresh /\ BucketInStep
    /\ FlushInStep /\ ModeInStep /\ PurgedGone

(***************************************************************************)
(* Properties                                                              *)
(***************************************************************************)

\* A crash between operations loses nothing and brings nothing back: for every
\* key that no operation is working on, the records that Provision and Restore
\* would rebuild from the config and the bucket are the records in memory, and
\* a purged key of the API is in neither (PersistKey and DeleteKey write
\* through before the handler answers).
CrashLosesNothing ==
    mode # "down" =>
        \A k \in Keys :
            (\A t \in Threads : k \notin Busy(t)) =>
                /\ k \in records => Loadable(k) /\ Restored(k) = rec[k]
                /\ k \notin records => k \in Provisioned \/ ~Loadable(k)

\* A key whose purge has returned is neither in memory nor on disk, and no
\* later flush or restart brings it back (DeleteKey under writeMu); only the
\* config can provision it again.
PurgeIsFinal == \A k \in purged : k \notin records /\ db[k] = NoEntry

\* Rotate hands over in the right order: by the time the old key is revoked the
\* new one is on disk, carries the old key's scopes, and expires if the old key
\* was still going to expire, so a crash inside Rotate never leaves the client
\* without a usable key.
RotationHandsOver ==
    \A t \in Threads :
        LET o == op[t] IN
        (o.kind = "rotate" /\ o.new # NoKey /\ o.cur # o.new) =>
            /\ o.new \in records /\ Loadable(o.new) /\ Restored(o.new) = rec[o.new]
            /\ rec[o.new].scope = rec[o.key].scope
            /\ rec[o.key].exp > now => rec[o.new].exp >= rec[o.key].exp
            /\ rec[o.key].exp = 0 => rec[o.new].exp = 0

\* A revocation that has reached the bucket is never overwritten by an older
\* snapshot; only a purge removes it.
RevocationStaysDurable ==
    [][\A k \in Keys : (db[k] # NoEntry /\ db'[k] # NoEntry)
                           => (db[k].rev # 0 => db'[k].rev = db[k].rev)]_vars

\* A PATCH changes only the fields its body carries: at the moment the new scopes
\* are stored, a field that was not sent still has the value it is stored with,
\* whatever overlaps the PATCH, unless another PATCH of the key has stored its
\* scopes between the read and the store of this one (handleAppKeyUpdate merges
\* outside any lock).
PatchKeepsUnsentFields ==
    [][\A t \in Threads \ overtaken : UpdateScopes(t) =>
          LET old == rec[op[t].key].scope
              new == rec'[op[t].key].scope
          IN  /\ op[t].want.m = Unset => new.m = old.m
              /\ op[t].want.p = Unset => new.p = old.p]_vars

\* What writeMu is for: whatever else is going on, a flush neither writes a
\* purged key back nor replaces a durable revocation by an older snapshot.
FlushNeverClobbers ==
    [][FlushCommit => \A k \in Keys :
            /\ db[k] = NoEntry /\ k \in purged => db'[k] = NoEntry
            /\ db[k] # NoEntry /\ db[k].rev # 0 => db'[k].rev = db[k].rev]_vars

\* Whatever the operations left in the bucket, however they overlapped, once
\* they have ended the periodic flush brings every entry up to its record.
FlushConverges ==
    <>[](mode = "up" /\ \A t \in Threads : op[t].pc = "idle")
        => <>[](\A k \in records : db[k] = rec[k])

\* Every management request gets its answer: no handler waits for ever for
\* writeMu, although the flush goroutine takes it again and again.
HandlersReturn == \A t \in Threads : op[t].pc # "idle" ~> op[t].pc = "idle"
=============================================================================
