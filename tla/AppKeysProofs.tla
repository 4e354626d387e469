--------------------------- MODULE AppKeysProofs ---------------------------
(***************************************************************************)
(* Theorems about AppKeys, for every set of keys and threads: what holds   *)
(* under every fault, and what holds if none occurs.  With no fault the    *)
(* bucket is as current as memory, and what follows from it: a crash       *)
(* between operations loses nothing, and a purge is final.                 *)
(***************************************************************************)
EXTENDS AppKeys, TLAPS

LEMMA BlankType == Blank \in Records /\ NoScope \in Scopes /\ NoWant \in Wants
BY Zenon DEF Blank, Records, NoScope, Scopes, NoWant, Wants

LEMMA IdleType == Idle \in Ops
BY BlankType, Zenon DEF Idle, Ops, PCs

LEMMA NoFlushType == NoFlush \in Flushes
BY Zenon DEF NoFlush, Flushes

LEMMA ProvisionType == ASSUME NEW k \in Provisioned PROVE Provision(k) \in Records
BY ConstantsAssumption, Zenon DEF Provision, NewRecord, Records

LEMMA RestoredType ==
    ASSUME TypeOK, NEW k \in Keys
    PROVE  Restored(k) \in Records
BY ProvisionType, BlankType, Zenon DEF TypeOK, Restored, Records

LEMMA LoadType ==
    ASSUME NEW s \in Records, NEW r \in Records, NEW f
    PROVE  Load(s, r, f) \in Records
BY Zenon DEF Load, Records


TypeInv == TypeOK /\ Addressed

LEMMA TypeInit == Init => TypeInv
<1> SUFFICES ASSUME Init PROVE TypeInv
  BY Zenon
<1>1. \A k \in Provisioned : Provision(k) \in Records
  BY ProvisionType, Zenon
<1> QED
  BY <1>1, ConstantsAssumption, BlankType, IdleType, NoFlushType, Zenon
  DEF Init, TypeInv, TypeOK, Addressed, Idle, NoFlush, SnapshotPCs

\* What a step of thread t has to establish: the state n it moves to is well
\* formed and the shared variables keep their types.
LEMMA OpUpdate ==
    ASSUME TypeInv, NEW t \in Threads, NEW n \in Ops,
           op' = [op EXCEPT ![t] = n],
           n.pc # "idle" => n.key \in Keys,
           n.pc \in SnapshotPCs => n.cur \in Keys,
           UNCHANGED <<mode, now, writeMu, fl>>,
           rec' \in [Keys -> Records],
           records' \subseteq Keys,
           db' \in [Keys -> Records \cup {NoEntry}],
           issued' \subseteq Keys, purged' \subseteq Keys, overtaken' \subseteq Threads
    PROVE  TypeInv'
BY Zenon DEF TypeInv, TypeOK, Addressed

LEMMA IdleStates == Idle.pc = "idle" /\ Idle.pc \notin SnapshotPCs
BY Zenon DEF Idle, SnapshotPCs

\* A step of a management handler keeps the types.
LEMMA TypeContinue ==
    ASSUME TypeInv, NEW t \in Threads, Continue(t)
    PROVE  TypeInv'
<1> DEFINE o == op[t]
<1>0. /\ o \in Ops /\ o.snap \in Records /\ o.want \in Wants /\ o.scope \in Scopes
      /\ o.exp \in Nat /\ now \in Nat
      /\ \A k \in Keys : rec[k] \in Records /\ rec[k].scope \in Scopes /\ rec[k].exp \in Nat
  BY Zenon DEF TypeInv, TypeOK, Ops, Records
<1>a. o.pc # "idle" => o.key \in Keys
  BY Zenon DEF TypeInv, Addressed
<1>b. ASSUME NEW k \in Keys
      PROVE  /\ Snapshot(t, k) \in Ops /\ Snapshot(t, k).key = o.key
             /\ Snapshot(t, k).cur = k
  BY <1>0, BlankType, Zenon DEF Snapshot, Ops, PCs
<1>c. /\ rec \in [Keys -> Records] /\ records \subseteq Keys
      /\ db \in [Keys -> Records \cup {NoEntry}] /\ issued \subseteq Keys /\ purged \subseteq Keys
      /\ overtaken \subseteq Threads
  BY Zenon DEF TypeInv, TypeOK
<1>1. CASE CasRevoked(t)
  <2>1. CASE rec[o.key].rev = 0
    <3> rec' \in [Keys -> Records]
      BY <1>1, <1>0, <1>a, <1>c DEF CasRevoked, Return, Records
    <3> QED
      BY <1>1, <2>1, <1>0, <1>a, <1>b, <1>c, OpUpdate, Zenon DEF CasRevoked
  <2>2. CASE rec[o.key].rev # 0
    BY <1>1, <2>2, <1>0, <1>a, <1>b, <1>c, OpUpdate, IdleType, IdleStates DEF CasRevoked, Return
  <2> QED
    BY <2>1, <2>2, Zenon
<1>2. CASE SetExpiry(t)
  <2>1. rec' \in [Keys -> Records]
    BY <1>2, <1>0, <1>c, Zenon DEF SetExpiry, Records
  <2> QED
    BY <1>2, <2>1, <1>0, <1>a, <1>b, <1>c, OpUpdate, Zenon DEF SetExpiry
<1>3. CASE ReadScopes(t)
  <2>0. overtaken' \subseteq Threads
    BY <1>3, <1>c, Zenon DEF ReadScopes
  <2> DEFINE n == [o EXCEPT !.pc = "updLookup",
                            !.scope = [m |-> Pick(o.want.m, rec[o.key].scope.m),
                                       p |-> Pick(o.want.p, rec[o.key].scope.p)]]
  <2>1. CASE o.key \in records
    <3>1. [m |-> Pick(o.want.m, rec[o.key].scope.m),
           p |-> Pick(o.want.p, rec[o.key].scope.p)] \in Scopes
      BY <1>3, <2>1, <1>0, <1>c, Zenon DEF Wants, Scopes, Pick
    <3>2. n \in Ops /\ n.pc = "updLookup" /\ n.key = o.key
      BY <3>1, <1>0, Zenon DEF Ops, PCs
    <3> HIDE DEF n
    <3>3. op' = [op EXCEPT ![t] = n]
      BY <1>3, <2>1, Zenon DEF ReadScopes, n
    <3> QED
      BY <1>3, <3>2, <3>3, <1>a, <1>c, <2>0, <2>1, OpUpdate, Zenon DEF ReadScopes, SnapshotPCs
  <2>2. CASE o.key \notin records
    BY <1>3, <2>0, <2>2, <1>c, OpUpdate, IdleType, IdleStates, Zenon DEF ReadScopes, Return
  <2> QED
    BY <2>1, <2>2, Zenon
<1>4. CASE UpdateScopesLookup(t)
  <2>1. CASE o.key \in records
    <3>1. [o EXCEPT !.pc = "setScopes"] \in Ops
      BY <1>0, Zenon DEF Ops, PCs
    <3> QED
      BY <1>4, <2>1, <3>1, <1>0, <1>c, OpUpdate, Zenon DEF UpdateScopesLookup, Goto, SnapshotPCs, Ops
  <2>2. CASE o.key \notin records
    BY <1>4, <2>2, <1>c, OpUpdate, IdleType, IdleStates, Zenon DEF UpdateScopesLookup, Return
  <2> QED
    BY <2>1, <2>2, Zenon
<1>5. CASE UpdateScopes(t)
  <2>0. overtaken' \subseteq Threads
    BY <1>5, Zenon DEF UpdateScopes
  <2> DEFINE n == [Snapshot(t, o.key) EXCEPT !.want = NoWant]
  <2>1. rec' \in [Keys -> Records]
    BY <1>5, <1>0, <1>c, Zenon DEF UpdateScopes, Records
  <2>2. o.key \in Keys
    BY <1>5, <1>a, Zenon DEF UpdateScopes
  <2>3. n \in Ops /\ n.key \in Keys /\ n.cur \in Keys
    BY <2>2, <1>0, <1>b, BlankType DEF Ops
  <2> HIDE DEF n
  <2>4. op' = [op EXCEPT ![t] = n]
    BY <1>5, Zenon DEF UpdateScopes, n
  <2> QED
    BY <1>5, <2>0, <2>1, <2>3, <2>4, <1>c, OpUpdate, Zenon DEF UpdateScopes
<1>6. CASE RotateReadExpiry(t)
  <2> DEFINE left == rec[o.key].exp - now
             n == [o EXCEPT !.pc = "rotScopes", !.exp = IF left > 0 THEN left ELSE 0]
  <2>1. o.key \in Keys
    BY <1>6, <1>a, Zenon DEF RotateReadExpiry
  <2>2. (IF left > 0 THEN left ELSE 0) \in Nat
    BY <2>1, <1>0
  <2>3. n \in Ops /\ n.key = o.key /\ n.pc = "rotScopes"
    BY <2>2, <1>0, Zenon DEF Ops, PCs
  <2>4. op' = [op EXCEPT ![t] = n]
    BY <1>6, Zenon DEF RotateReadExpiry
  <2> HIDE DEF n
  <2> QED
    BY <1>6, <2>1, <2>3, <2>4, <1>c, OpUpdate, Zenon DEF RotateReadExpiry, SnapshotPCs
<1>7. CASE RotateReadScopes(t)
  <2> DEFINE n == [o EXCEPT !.pc = "rotVend", !.scope = rec[o.key].scope]
  <2>1. o.key \in Keys
    BY <1>7, <1>a, Zenon DEF RotateReadScopes
  <2>2. n \in Ops /\ n.key = o.key /\ n.pc = "rotVend"
    BY <2>1, <1>0, Zenon DEF Ops, PCs
  <2>3. op' = [op EXCEPT ![t] = n]
    BY <1>7, Zenon DEF RotateReadScopes
  <2> HIDE DEF n
  <2> QED
    BY <1>7, <2>1, <2>2, <2>3, <1>c, OpUpdate, Zenon DEF RotateReadScopes, SnapshotPCs
<1>8. ASSUME NEW k \in Keys, RotateVend(t, k) PROVE TypeInv'
  <2> DEFINE n == [o EXCEPT !.pc = "exp", !.new = k, !.cur = k]
  <2>1. n \in Ops /\ n.key = o.key /\ n.cur = k
    BY <1>0, Zenon DEF Ops, PCs
  <2>2. NewRecord(Lifetime(o.exp), o.scope) \in Records
    BY <1>0 DEF NewRecord, Lifetime, Records
  <2>3. op' = [op EXCEPT ![t] = n] /\ o.key \in Keys
    BY <1>8, <1>a, Zenon DEF RotateVend
  <2>4. rec' \in [Keys -> Records] /\ records' \subseteq Keys /\ issued' \subseteq Keys
    BY <1>8, <2>2, <1>c, Zenon DEF RotateVend, Insert
  <2> HIDE DEF n
  <2> QED
    BY <1>8, <2>1, <2>3, <2>4, <1>c, OpUpdate, Zenon DEF RotateVend
<1>9. CASE SnapshotLoad(t)
  <2> DEFINE n == [o EXCEPT !.snap = Load(o.snap, rec[o.cur], o.pc), !.pc = AfterLoad(o.pc)]
  <2>1. o.key \in Keys /\ o.cur \in Keys
    BY <1>9, <1>a, Zenon DEF SnapshotLoad, TypeInv, Addressed, SnapshotPCs
  <2>2. Load(o.snap, rec[o.cur], o.pc) \in Records
    BY <2>1, <1>0, LoadType, Zenon
  <2>3. AfterLoad(o.pc) \in PCs
    BY Zenon DEF AfterLoad, PCs
  <2>4. n \in Ops /\ n.key = o.key /\ n.cur = o.cur
    BY <2>2, <2>3, <1>0, Zenon DEF Ops
  <2>5. op' = [op EXCEPT ![t] = n]
    BY <1>9, Zenon DEF SnapshotLoad
  <2> HIDE DEF n
  <2> QED
    BY <1>9, <2>1, <2>4, <2>5, <1>c, OpUpdate, Zenon DEF SnapshotLoad
<1>10. CASE PersistKey(t)
  <2>0. \A l \in PCs : [o EXCEPT !.pc = l, !.cur = NoKey, !.snap = Blank] \in Ops
    BY <1>0, BlankType, Zenon DEF Ops
  <2>1. AfterPersist(o) \in Ops
    BY <2>0, IdleType, Zenon DEF AfterPersist, PCs
  <2>2. AfterPersist(o).pc \notin SnapshotPCs /\ (AfterPersist(o).pc # "idle" => AfterPersist(o).key = o.key)
    BY <1>0, IdleStates, Zenon DEF AfterPersist, Ops, SnapshotPCs
  <2>3. db' \in [Keys -> Records \cup {NoEntry}]
    BY <1>10, <1>0, <1>c, Zenon DEF PersistKey, Transaction
  <2> QED
    BY <1>10, <2>1, <2>2, <2>3, <1>a, <1>c, OpUpdate, Zenon DEF PersistKey
<1>11. CASE DeleteKey(t)
  <2>1. db' \in [Keys -> Records \cup {NoEntry}] /\ purged' \subseteq Keys
    BY <1>11, <1>a, <1>c, Zenon DEF DeleteKey, Transaction
  <2> QED
    BY <1>11, <2>1, <1>c, OpUpdate, IdleType, IdleStates, Zenon DEF DeleteKey, Return
<1> QED
  BY <1>1, <1>2, <1>3, <1>4, <1>5, <1>6, <1>7, <1>8, <1>9, <1>10, <1>11, Zenon DEF Continue

\* The start of a management request keeps the types.
LEMMA TypeBegin ==
    ASSUME TypeInv, NEW t \in Threads, Begin(t)
    PROVE  TypeInv'
<1> USE ConstantsAssumption
<1>c. /\ rec \in [Keys -> Records] /\ records \subseteq Keys /\ now \in Nat
      /\ db \in [Keys -> Records \cup {NoEntry}] /\ issued \subseteq Keys /\ purged \subseteq Keys
      /\ overtaken \subseteq Threads
  BY Zenon DEF TypeInv, TypeOK
<1>1. ASSUME NEW k \in Keys, NEW ttl \in TTLs, NEW s \in NewScopes, Vend(t, k, ttl, s)
      PROVE  TypeInv'
  <2> DEFINE n == [Idle EXCEPT !.kind = "vend", !.pc = "exp", !.key = k, !.cur = k]
  <2>1. n \in Ops /\ n.key = k /\ n.cur = k
    BY IdleType, Zenon DEF Idle, Ops, PCs, KindNames
  <2>2. NewRecord(Lifetime(ttl), s) \in Records
    BY <1>c DEF NewRecord, Lifetime, Records
  <2>3. rec' \in [Keys -> Records] /\ records' \subseteq Keys /\ issued' \subseteq Keys
    BY <1>1, <2>2, <1>c, Zenon DEF Vend, Insert
  <2>4. op' = [op EXCEPT ![t] = n]
    BY <1>1, Zenon DEF Vend
  <2> HIDE DEF n
  <2> QED
    BY <1>1, <2>1, <2>3, <2>4, <1>c, OpUpdate, Zenon DEF Vend
<1>2. ASSUME NEW k \in Keys, NEW kind \in KindNames, NEW label \in PCs \ SnapshotPCs,
             NEW e \in Nat, NEW want \in Wants, Lookup(t, kind, k, label, e, want)
      PROVE  TypeInv'
  <2> DEFINE n == [Idle EXCEPT !.kind = kind, !.pc = label, !.key = k, !.exp = e, !.want = want]
  <2>1. n \in Ops /\ n.key = k /\ n.pc = label
    BY IdleType, Zenon DEF Idle, Ops
  <2>2. op' = [op EXCEPT ![t] = n]
    BY <1>2, Zenon DEF Lookup
  <2> HIDE DEF n
  <2> QED
    BY <1>2, <2>1, <2>2, <1>c, OpUpdate, Zenon DEF Lookup
<1>3. ASSUME NEW k \in Keys, NEW want \in Bodies, BeginPatchScopes(t, k, want)
      PROVE  TypeInv'
  <2> DEFINE n == [Idle EXCEPT !.kind = "patch", !.pc = "scopes", !.key = k, !.want = want]
  <2>1. n \in Ops /\ n.key = k /\ n.pc \notin SnapshotPCs
    BY IdleType, Zenon DEF Idle, Ops, PCs, KindNames, SnapshotPCs
  <2>2. op' = [op EXCEPT ![t] = n]
    BY <1>3, Zenon DEF BeginPatchScopes
  <2> HIDE DEF n
  <2> QED
    BY <1>3, <2>1, <2>2, <1>c, OpUpdate, Zenon DEF BeginPatchScopes
<1>4. ASSUME NEW k \in Keys, Delete(t, k) PROVE TypeInv'
  <2> DEFINE n == [Idle EXCEPT !.kind = "purge", !.pc = "delKey", !.key = k]
  <2>1. n \in Ops /\ n.key = k /\ n.pc \notin SnapshotPCs
    BY IdleType, Zenon DEF Idle, Ops, PCs, KindNames, SnapshotPCs
  <2>2. op' = [op EXCEPT ![t] = n]
    BY <1>4, Zenon DEF Delete
  <2> HIDE DEF n
  <2> QED
    BY <1>4, <2>1, <2>2, <1>c, OpUpdate, Zenon DEF Delete
<1>5. /\ {"revoke", "rotate", "patch"} \subseteq KindNames
      /\ {"cas", "rotExp", "setExpiry"} \subseteq PCs \ SnapshotPCs
      /\ NoWant \in Wants
  BY BlankType, Zenon DEF KindNames, PCs, SnapshotPCs
<1> QED
  BY <1>1, <1>2, <1>3, <1>4, <1>5, Zenon DEF Begin, BeginRevoke, BeginRotate, BeginPatchExpiry

\* The flush goroutine keeps the types.
LEMMA TypeFlusher ==
    ASSUME TypeInv, Flusher
    PROVE  TypeInv'
<1>0. /\ fl \in Flushes /\ fl.snaps \in [Keys -> Records \cup {NoEntry}] /\ fl.todo \subseteq Keys
      /\ \A k \in Keys : rec[k] \in Records
      /\ records \subseteq Keys /\ db \in [Keys -> Records \cup {NoEntry}]
  BY Zenon DEF TypeInv, TypeOK, Flushes
<1> USE ConstantsAssumption, NoFlushType
<1>1. CASE FlushBegin
  <2>1. [NoFlush EXCEPT !.pc = "next", !.final = (fl.pc = "stopped"), !.todo = records] \in Flushes
    BY <1>0, Zenon DEF NoFlush, Flushes
  <2>2. fl' \in Flushes /\ fl'.pc = "next"
    BY <1>1, <2>1, Zenon DEF FlushBegin, NoFlush
  <2> QED
    BY <1>1, <2>2, Zenon DEF FlushBegin, TypeInv, TypeOK, Addressed
<1>2. ASSUME NEW k \in Keys, FlushPick(k) PROVE TypeInv'
  <2>1. Load(Blank, rec[k], "exp") \in Records
    BY <1>0, BlankType, LoadType, Zenon
  <2>2. [fl.snaps EXCEPT ![k] = Load(Blank, rec[k], "exp")] \in [Keys -> Records \cup {NoEntry}]
    BY <1>0, <2>1, Zenon
  <2>3. fl' \in Flushes /\ fl'.cur = k /\ fl'.snaps[k] # NoEntry
    BY <1>2, <2>1, <2>2, <1>0, Zenon DEF FlushPick, Flushes
  <2> QED
    BY <1>2, <2>3, Zenon DEF FlushPick, TypeInv, TypeOK, Addressed
<1>3. CASE FlushLoad
  <2> DEFINE c == fl.cur
  <2>1. c \in Keys /\ fl.snaps[c] \in Records
    BY <1>3, <1>0, Zenon DEF FlushLoad, TypeInv, Addressed
  <2>2. Load(fl.snaps[c], rec[c], fl.pc) \in Records
    BY <2>1, <1>0, LoadType, Zenon
  <2>3. [fl.snaps EXCEPT ![c] = Load(fl.snaps[c], rec[c], fl.pc)] \in [Keys -> Records \cup {NoEntry}]
    BY <1>0, <2>2, Zenon
  <2>4. fl' \in Flushes /\ fl'.cur = c /\ fl'.snaps[c] # NoEntry
    BY <1>3, <2>1, <2>2, <2>3, <1>0, Zenon DEF FlushLoad, Flushes
  <2> QED
    BY <1>3, <2>1, <2>4, Zenon DEF FlushLoad, TypeInv, TypeOK, Addressed
<1>4. CASE FlushCommit
  <2>1. db' \in [Keys -> Records \cup {NoEntry}]
    BY <1>4, <1>0, Zenon DEF FlushCommit, Transaction
  <2> QED
    BY <1>4, <2>1, Zenon DEF FlushCommit, TypeInv, TypeOK, Addressed, NoFlush
<1>5. CASE FlusherStop
  BY <1>5, <1>0, Zenon DEF FlusherStop, TypeInv, TypeOK, Addressed, Flushes
<1> QED
  BY <1>1, <1>2, <1>3, <1>4, <1>5, Zenon DEF Flusher

LEMMA TypeStep == TypeInv /\ [Next]_vars => TypeInv'
<1> SUFFICES ASSUME TypeInv, [Next]_vars PROVE TypeInv'
  BY Zenon
<1>1. CASE Shutdown \/ Tick
  BY <1>1 DEF Shutdown, Tick, TypeInv, TypeOK, Addressed
<1>2. CASE Crash
  BY <1>2, BlankType, IdleType, IdleStates, NoFlushType, Zenon
  DEF Crash, TypeInv, TypeOK, Addressed, NoFlush, SnapshotPCs
<1>3. CASE Restart
  BY <1>3, RestoredType, Zenon DEF Restart, TypeInv, TypeOK, Addressed
<1>4. CASE UNCHANGED vars
  BY <1>4, Zenon DEF vars, TypeInv, TypeOK, Addressed
<1> QED
  BY <1>1, <1>2, <1>3, <1>4, TypeBegin, TypeContinue, TypeFlusher, Zenon DEF Next

\* Type correctness of the store, the bucket, the handlers and the flush
\* goroutine, whatever the environment does.
THEOREM TypeCorrect == Spec => []TypeOK
<1>1. TypeInv => TypeOK
  BY Zenon DEF TypeInv
<1> QED
  BY <1>1, TypeInit, TypeStep, PTL DEF Spec

(***************************************************************************)
(* The steps of the key store that work in memory: with no fault each of   *)
(* them keeps memory and bucket in step (WriteThrough).  The steps towards *)
(* the bucket and those of the flush follow further down.                  *)
(***************************************************************************)

\* The environment of the theorem: no fault, and no allow lists in the config.
NoFaults == Faults = {} /\ \A k \in Provisioned : ConfigScope[k] = NoScope

\* Without configured allow lists a restart rebuilds exactly what is stored.
LEMMA RestoredIsStored ==
    ASSUME NoFaults, TypeOK, NEW k \in Keys
    PROVE  Restored(k) = Stored(k)
<1>1. k \in Provisioned => Provision(k) = Blank
  BY Zenon DEF NoFaults, Provision, NewRecord, Blank
<1>2. db[k] # NoEntry => db[k] \in Records
  BY Zenon DEF TypeOK
<1>3. db[k] # NoEntry =>
        db[k] = [exp |-> db[k].exp, rev |-> db[k].rev,
                 scope |-> IF db[k].scope # NoScope THEN db[k].scope ELSE Blank.scope]
  BY <1>2, Zenon DEF Records, Blank
<1> QED
  BY <1>1, <1>3, Zenon DEF Restored, Stored

LEMMA WriteThroughInit == ASSUME NoFaults, Init PROVE WriteThrough
<1> USE ConstantsAssumption
<1>1. OneOpPerKey
  BY Zenon DEF Init, OneOpPerKey, Busy, Idle
<1>2. OpShape /\ SnapshotFresh
  BY Zenon DEF Init, OpShape, SnapshotFresh, Idle, SnapshotPCs
<1>3. BucketInStep
  BY Zenon DEF Init, BucketInStep, Loadable, Stored, NoFaults, Provision, NewRecord, Blank
<1>4. FlushInStep /\ ModeInStep /\ PurgedGone
  BY Zenon DEF Init, FlushInStep, ModeInStep, PurgedGone, NoFlush, Idle
<1> QED
  BY <1>1, <1>2, <1>3, <1>4, Zenon DEF WriteThrough

\* A step that leaves the records, the bucket and the operations alone, and does
\* not restart, leaves alone all that is said about them.
LEMMA FrameRecords ==
    ASSUME WriteThrough, UNCHANGED <<records, rec, db, op, issued, purged>>,
           mode # "down" \/ mode' = "down"
    PROVE  OneOpPerKey' /\ OpShape' /\ SnapshotFresh' /\ BucketInStep' /\ PurgedGone'
<1>0. records' = records /\ rec' = rec /\ db' = db /\ op' = op /\ issued' = issued /\ purged' = purged
  BY Zenon
<1>1. OneOpPerKey'
  BY <1>0 DEF WriteThrough, OneOpPerKey, Busy
<1>2. OpShape'
  BY <1>0 DEF WriteThrough, OpShape
<1>3. SnapshotFresh'
  BY <1>0, Zenon DEF WriteThrough, SnapshotFresh
<1>4. \A k \in Keys : Dirty(k)' = Dirty(k) /\ Deleting(k)' = Deleting(k)
  BY <1>0, Zenon DEF Dirty, Deleting
<1>5. \A k \in Keys : Loadable(k)' = Loadable(k) /\ Stored(k)' = Stored(k)
  BY <1>0, Zenon DEF Loadable, Stored
<1>6. BucketInStep'
  BY <1>0, <1>4, <1>5, Zenon DEF WriteThrough, BucketInStep
<1>7. PurgedGone'
  BY <1>0, Zenon DEF WriteThrough, PurgedGone, Deleting
<1> QED
  BY <1>1, <1>2, <1>3, <1>6, <1>7, Zenon

\* The start of an operation that only looks its key up.
LEMMA StepLookup ==
    ASSUME NoFaults, TypeInv, WriteThrough, NEW t \in Threads, NEW k \in issued,
           NEW n \in Ops, op' = [op EXCEPT ![t] = n],
           op[t].pc = "idle", mode = "up", \A u \in Threads : k \notin Busy(u),
           n.key = k, n.new = NoKey, n.pc \notin SnapshotPCs \cup {"idle", "delKey"},
           n.pc = "scopes" \/ k \in records,
           n.pc \in {"rotExp", "rotScopes", "rotVend"} => n.kind = "rotate",
           UNCHANGED <<mode, now, records, rec, db, writeMu, fl, issued, purged>>
    PROVE  WriteThrough'
<1> USE ConstantsAssumption DEF WriteThrough
<1>0. /\ op \in [Threads -> Ops] /\ issued \subseteq Keys /\ records \subseteq Keys /\ purged \subseteq Keys
      /\ op'[t] = n /\ \A u \in Threads \ {t} : op'[u] = op[u]
  BY Zenon DEF TypeInv, TypeOK
<1>1. OneOpPerKey'
  BY <1>0 DEF OneOpPerKey, Busy, OpShape
<1>2. OpShape' /\ SnapshotFresh'
  <2>1. OpShape'
    BY <1>0 DEF OpShape, SnapshotPCs
  <2>2. SnapshotFresh'
    BY <1>0 DEF SnapshotFresh, SnapshotPCs
  <2> QED
    BY <2>1, <2>2, Zenon
<1>3. \A x \in Keys : (Dirty(x)' <=> Dirty(x)) /\ (Deleting(x)' <=> Deleting(x))
  BY <1>0 DEF Dirty, Deleting, SnapshotPCs
<1>4. BucketInStep' /\ FlushInStep' /\ ModeInStep' /\ PurgedGone'
  <2>1. BucketInStep'
    BY <1>0, <1>3, Zenon DEF BucketInStep, Loadable, Stored
  <2>2. FlushInStep'
    BY <1>0, <1>3 DEF FlushInStep
  <2>3. ModeInStep'
    BY <1>0, <1>3, Zenon DEF ModeInStep
  <2>4. PurgedGone'
    BY <1>0, <1>3, Zenon DEF PurgedGone
  <2> QED
    BY <2>1, <2>2, <2>3, <2>4, Zenon
<1> QED
  BY <1>1, <1>2, <1>4, Zenon

\* A step inside an operation that touches nothing but the thread's own state.
LEMMA StepLocal ==
    ASSUME NoFaults, TypeInv, WriteThrough, NEW t \in Threads,
           NEW n \in Ops, op' = [op EXCEPT ![t] = n],
           op[t].pc \notin SnapshotPCs \cup {"idle", "delKey"},
           n.pc \notin SnapshotPCs \cup {"delKey"},
           \/ n.pc = "idle" /\ n.key = NoKey /\ n.new = NoKey
           \/ /\ n.pc \notin {"idle", "cas"} /\ n.key = op[t].key /\ n.new = op[t].new
              /\ op[t].new = NoKey /\ n.key \in records
              /\ n.pc \in {"rotExp", "rotScopes", "rotVend"} => n.kind = "rotate",
           UNCHANGED <<mode, now, records, rec, db, writeMu, fl, issued, purged>>
    PROVE  WriteThrough'
<1> USE ConstantsAssumption DEF WriteThrough
<1>0. /\ op \in [Threads -> Ops] /\ issued \subseteq Keys /\ records \subseteq Keys /\ purged \subseteq Keys
      /\ op'[t] = n /\ \A u \in Threads \ {t} : op'[u] = op[u]
  BY Zenon DEF TypeInv, TypeOK
<1>1. OneOpPerKey'
  BY <1>0 DEF OneOpPerKey, Busy
<1>2. OpShape' /\ SnapshotFresh'
  <2>1. OpShape'
    BY <1>0 DEF OpShape, SnapshotPCs
  <2>2. SnapshotFresh'
    BY <1>0 DEF SnapshotFresh, SnapshotPCs
  <2> QED
    BY <2>1, <2>2, Zenon
<1>3. \A x \in Keys : (Dirty(x)' <=> Dirty(x)) /\ (Deleting(x)' <=> Deleting(x))
  BY <1>0 DEF Dirty, Deleting, SnapshotPCs
<1>4. BucketInStep' /\ FlushInStep' /\ ModeInStep' /\ PurgedGone'
  <2>1. BucketInStep'
    BY <1>0, <1>3, Zenon DEF BucketInStep, Loadable, Stored
  <2>2. FlushInStep'
    BY <1>0, <1>3 DEF FlushInStep
  <2>3. ModeInStep'
    BY <1>0, <1>3, Zenon DEF ModeInStep
  <2>4. PurgedGone'
    BY <1>0, <1>3, Zenon DEF PurgedGone
  <2> QED
    BY <2>1, <2>2, <2>3, <2>4, Zenon
<1> QED
  BY <1>1, <1>2, <1>4, Zenon

\* A store to the record of the thread's key, followed by its snapshot.
LEMMA StepMutate ==
    ASSUME NoFaults, TypeInv, WriteThrough, NEW t \in Threads,
           NEW k, k = op[t].key, NEW r \in Records, rec' = [rec EXCEPT ![k] = r],
           NEW n \in Ops, op' = [op EXCEPT ![t] = n],
           op[t].pc \notin SnapshotPCs \cup {"idle", "scopes", "delKey"},
           n.pc = "exp", n.kind = op[t].kind, n.key = k, n.new = op[t].new, n.cur = k,
           UNCHANGED <<mode, now, records, db, writeMu, fl, issued, purged>>
    PROVE  WriteThrough'
<1> USE ConstantsAssumption DEF WriteThrough
<1>0. /\ op \in [Threads -> Ops] /\ rec \in [Keys -> Records] /\ k \in records
      /\ records \subseteq Keys /\ purged \subseteq Keys
      /\ op'[t] = n /\ \A u \in Threads \ {t} : op'[u] = op[u]
      /\ \A x \in Keys \ {k} : rec'[x] = rec[x]
  BY DEF TypeInv, TypeOK, OpShape
<1>a. \A u \in Threads \ {t} : op[u].key # k /\ op[u].new # k
  <2>1. k \in Busy(t) /\ k # NoKey
    BY <1>0 DEF Busy
  <2>2. \A u \in Threads \ {t} : k \notin Busy(u)
    BY <2>1, Zenon DEF OneOpPerKey
  <2> QED
    BY <2>2, Zenon DEF Busy
<1>1. OneOpPerKey'
  BY <1>0 DEF OneOpPerKey, Busy
<1>2. OpShape'
  BY <1>0 DEF OpShape, SnapshotPCs
<1>3. SnapshotFresh'
  BY <1>0, <1>a DEF SnapshotFresh, OpShape, SnapshotPCs
<1>4. /\ Dirty(k)'
      /\ \A x \in Keys : x # k => (Dirty(x)' <=> Dirty(x))
  BY <1>0 DEF Dirty, SnapshotPCs
<1>5. \A x \in Keys : Deleting(x)' <=> Deleting(x)
  BY <1>0 DEF Deleting, SnapshotPCs
<1>6. BucketInStep' /\ PurgedGone'
  BY <1>0, <1>4, <1>5 DEF BucketInStep, PurgedGone, Loadable, Stored
<1>7. FlushInStep' /\ ModeInStep'
  BY <1>0, <1>4, <1>5 DEF FlushInStep, ModeInStep
<1> QED
  BY <1>1, <1>2, <1>3, <1>6, <1>7, Zenon

\* Vend, alone or inside Rotate: a fresh key that is snapshotted next.
LEMMA StepInsert ==
    ASSUME NoFaults, TypeInv, WriteThrough, NEW t \in Threads,
           NEW k \in Keys \ issued, NEW r \in Records,
           records' = records \cup {k}, rec' = [rec EXCEPT ![k] = r], issued' = issued \cup {k},
           NEW n \in Ops, op' = [op EXCEPT ![t] = n], mode = "up",
           n.pc = "exp", n.cur = k,
           \/ op[t].pc = "idle" /\ n.key = k /\ n.new = NoKey
           \/ /\ op[t].pc \notin SnapshotPCs \cup {"idle", "scopes", "delKey"}
              /\ n.kind = "rotate" /\ n.key = op[t].key /\ n.new = k,
           UNCHANGED <<mode, now, db, writeMu, fl, purged>>
    PROVE  WriteThrough'
<1> USE ConstantsAssumption DEF WriteThrough
<1>0. /\ op \in [Threads -> Ops] /\ rec \in [Keys -> Records] /\ records \subseteq Keys /\ purged \subseteq Keys
      /\ op'[t] = n /\ \A u \in Threads \ {t} : op'[u] = op[u]
      /\ \A x \in Keys \ {k} : rec'[x] = rec[x]
      /\ k \notin records /\ k # NoKey
  BY DEF TypeInv, TypeOK, OneOpPerKey
<1>a. \A u \in Threads : op[u].key # k /\ op[u].new # k
  BY <1>0, Zenon DEF OneOpPerKey, Busy
<1>1. OneOpPerKey'
  BY <1>0, <1>a DEF OneOpPerKey, Busy
<1>2. OpShape'
  BY <1>0, <1>a DEF OpShape, SnapshotPCs
<1>3. SnapshotFresh'
  BY <1>0, <1>a DEF SnapshotFresh, OpShape, SnapshotPCs
<1>4. /\ Dirty(k)'
      /\ \A x \in Keys : x # k => (Dirty(x)' <=> Dirty(x))
      /\ \A x \in Keys : Deleting(x)' <=> Deleting(x)
  BY <1>0 DEF Dirty, Deleting, SnapshotPCs
<1>5. ~Deleting(k) /\ k \notin purged
  BY <1>a, Zenon DEF Deleting, OneOpPerKey
<1>6. BucketInStep' /\ FlushInStep' /\ ModeInStep' /\ PurgedGone'
  <2>1. BucketInStep'
    BY <1>0, <1>4, <1>5 DEF BucketInStep, Loadable, Stored
  <2>2. FlushInStep'
    BY <1>0, <1>4, <1>5 DEF FlushInStep
  <2>3. ModeInStep'
    BY <1>0, <1>4, <1>5, Zenon DEF ModeInStep
  <2>4. PurgedGone'
    BY <1>0, <1>4, <1>5 DEF PurgedGone
  <2> QED
    BY <2>1, <2>2, <2>3, <2>4, Zenon
<1> QED
  BY <1>1, <1>2, <1>3, <1>6, Zenon

(***************************************************************************)
(* How one record reaches or leaves the bucket: Snapshot and PersistKey,   *)
(* Delete and DeleteKey.  With no fault each of them keeps WriteThrough.   *)
(***************************************************************************)

LEMMA StepSnapshotLoad ==
    ASSUME NoFaults, TypeInv, WriteThrough, NEW t \in Threads, SnapshotLoad(t)
    PROVE  WriteThrough'
<1> USE DEF WriteThrough
<1> DEFINE o == op[t]
           n == [o EXCEPT !.snap = Load(o.snap, rec[o.cur], o.pc), !.pc = AfterLoad(o.pc)]
<1>0. /\ op \in [Threads -> Ops] /\ o \in Ops /\ rec \in [Keys -> Records]
      /\ records \subseteq Keys /\ purged \subseteq Keys
      /\ UNCHANGED <<mode, now, records, rec, db, writeMu, fl, issued, purged>>
      /\ op'[t] = n /\ \A u \in Threads \ {t} : op'[u] = op[u]
      /\ o.pc \in {"exp", "rev", "scope"}
  BY Zenon DEF TypeInv, TypeOK, SnapshotLoad
<1>a. /\ n.key = o.key /\ n.new = o.new /\ n.cur = o.cur /\ n.kind = o.kind
      /\ n.pc = AfterLoad(o.pc)
      /\ n.snap = Load(o.snap, rec[o.cur], o.pc)
      /\ n.pc \in SnapshotPCs /\ o.pc \in SnapshotPCs /\ n.pc # "exp"
  BY <1>0, Zenon DEF Ops, AfterLoad, SnapshotPCs
<1> HIDE DEF n
<1>1. OneOpPerKey'
  BY <1>0, <1>a DEF OneOpPerKey, Busy
<1>2. OpShape'
  BY <1>0, <1>a DEF OpShape, SnapshotPCs
<1>3. SnapshotFresh'
  <2>1. /\ n.pc \in {"rev", "scope", "persist"} => n.snap.exp = rec[n.cur].exp
        /\ n.pc \in {"scope", "persist"} => n.snap.rev = rec[n.cur].rev
        /\ n.pc = "persist" => n.snap.scope = rec[n.cur].scope
    BY <1>0, <1>a DEF SnapshotFresh, Load, AfterLoad
  <2> QED
    BY <1>0, <2>1 DEF SnapshotFresh
<1>4. \A x \in Keys : Dirty(x)' <=> Dirty(x)
  BY <1>0, <1>a DEF Dirty
<1>5. \A x \in Keys : Deleting(x)' <=> Deleting(x)
  BY <1>0, <1>a DEF Deleting, SnapshotPCs
<1>6. BucketInStep' /\ FlushInStep' /\ ModeInStep' /\ PurgedGone'
  <2>1. BucketInStep'
    BY <1>0, <1>a, <1>4, <1>5, Zenon DEF BucketInStep, Loadable, Stored
  <2>2. FlushInStep'
    BY <1>0, <1>a, <1>4, <1>5 DEF FlushInStep
  <2>3. ModeInStep'
    BY <1>0, <1>a, <1>4, <1>5, Zenon DEF ModeInStep
  <2>4. PurgedGone'
    BY <1>0, <1>a, <1>4, <1>5, Zenon DEF PurgedGone
  <2> QED
    BY <2>1, <2>2, <2>3, <2>4, Zenon
<1> QED
  BY <1>1, <1>2, <1>3, <1>6, Zenon

\* PersistKey brings the bucket up to the record and the key is in step again.
LEMMA StepPersistKey ==
    ASSUME NoFaults, TypeInv, WriteThrough, NEW t \in Threads, PersistKey(t)
    PROVE  WriteThrough'
<1> USE DEF WriteThrough
<1> DEFINE o == op[t]
           c == o.cur
           n == AfterPersist(o)
<1>0. /\ op \in [Threads -> Ops] /\ o \in Ops /\ rec \in [Keys -> Records]
      /\ db \in [Keys -> Records \cup {NoEntry}] /\ records \subseteq Keys /\ purged \subseteq Keys
      /\ UNCHANGED <<mode, now, records, rec, writeMu, fl, issued, purged>>
      /\ op'[t] = n /\ \A u \in Threads \ {t} : op'[u] = op[u]
      /\ o.pc = "persist" /\ ~writeMu
  BY Zenon DEF TypeInv, TypeOK, PersistKey
<1>a. mode = "up" /\ db' = [db EXCEPT ![c] = o.snap]
  BY <1>0, Zenon DEF ModeInStep, PersistKey, Transaction, NoFaults
<1>b. c \in Keys /\ c \in records /\ o.snap \in Records /\ rec[c] \in Records
  BY <1>0, Zenon DEF OpShape, SnapshotPCs, Ops
<1>c. o.snap = rec[c]
  <2>1. o.snap.exp = rec[c].exp /\ o.snap.rev = rec[c].rev /\ o.snap.scope = rec[c].scope
    BY <1>0, Zenon DEF SnapshotFresh
  <2> QED
    BY <2>1, <1>b DEF Records
<1>d. /\ n.pc \notin SnapshotPCs \cup {"delKey"}
      /\ \/ n.pc = "idle" /\ n.key = NoKey /\ n.new = NoKey
         \/ /\ n.pc \in {"cas", "scopes"} /\ n.kind = o.kind /\ n.key = o.key /\ n.new = o.new
            /\ o.kind = "rotate" => n.pc = "cas"
  BY <1>0, Zenon DEF AfterPersist, Idle, SnapshotPCs, Ops
<1> HIDE DEF n
<1>1. OneOpPerKey'
  BY <1>0, <1>a, <1>b, <1>d DEF OneOpPerKey, Busy
<1>2. OpShape' /\ SnapshotFresh'
  <2>1. OpShape'
    BY <1>0, <1>b, <1>d DEF OpShape, SnapshotPCs
  <2>2. SnapshotFresh'
    BY <1>0, <1>b, <1>d DEF SnapshotFresh, SnapshotPCs
  <2> QED
    BY <2>1, <2>2, Zenon
<1>e. \A u \in Threads \ {t} : op[u].key # c /\ op[u].new # c
  <2>1. c \in Busy(t) /\ c # NoKey
    BY <1>0, <1>b, ConstantsAssumption, Zenon DEF Busy, OpShape, SnapshotPCs
  <2>2. \A u \in Threads \ {t} : c \notin Busy(u)
    BY <2>1, Zenon DEF OneOpPerKey
  <2> QED
    BY <2>2, Zenon DEF Busy
<1>3. /\ \A x \in Keys : x # c => (Dirty(x)' <=> Dirty(x))
      /\ \A x \in Keys : Deleting(x)' <=> Deleting(x)
  BY <1>0, <1>d DEF Dirty, Deleting, SnapshotPCs
<1>4. BucketInStep'
  <2> SUFFICES ASSUME NEW x \in Keys
               PROVE  /\ x \in records /\ ~Dirty(x)' => Loadable(x)' /\ rec[x] = Stored(x)'
                      /\ x \notin records /\ ~Deleting(x)' => db'[x] = NoEntry
    BY <1>0, Zenon DEF BucketInStep
  <2>1. CASE x = c
    BY <2>1, <1>0, <1>a, <1>b, <1>c, ConstantsAssumption, Zenon DEF Loadable, Stored
  <2>2. CASE x # c
    BY <2>2, <1>0, <1>a, <1>3, Zenon DEF BucketInStep, Loadable, Stored
  <2> QED
    BY <2>1, <2>2, Zenon
<1>5. FlushInStep'
  BY <1>0, <1>3, Zenon DEF FlushInStep
<1>6. ModeInStep' /\ PurgedGone'
  BY <1>0, <1>a, <1>b, <1>3, Zenon DEF ModeInStep, PurgedGone
<1> QED
  BY <1>1, <1>2, <1>4, <1>5, <1>6, Zenon

\* Delete takes the key out of memory; the bucket follows with DeleteKey.
LEMMA StepDelete ==
    ASSUME NoFaults, TypeInv, WriteThrough, NEW t \in Threads, NEW k \in Keys, Delete(t, k)
    PROVE  WriteThrough'
<1> USE DEF WriteThrough
<1> DEFINE n == [Idle EXCEPT !.kind = "purge", !.pc = "delKey", !.key = k]
<1>0. /\ op \in [Threads -> Ops] /\ rec \in [Keys -> Records] /\ records \subseteq Keys /\ purged \subseteq Keys
      /\ UNCHANGED <<mode, now, rec, db, writeMu, fl, issued, purged>>
      /\ op'[t] = n /\ \A u \in Threads \ {t} : op'[u] = op[u]
      /\ op[t].pc = "idle" /\ mode = "up" /\ k \in records /\ records' = records \ {k}
      /\ \A u \in Threads : k \notin Busy(u)
  BY Zenon DEF TypeInv, TypeOK, Delete, CanBegin, NoFaults
<1>a. n.pc = "delKey" /\ n.key = k /\ n.new = NoKey /\ n.pc \notin SnapshotPCs
  BY Zenon DEF Idle, SnapshotPCs
<1> HIDE DEF n
<1>b. \A u \in Threads : op[u].key # k /\ op[u].new # k
  BY <1>0, Zenon DEF Busy
<1>1. OneOpPerKey'
  BY <1>0, <1>a DEF OneOpPerKey, Busy
<1>c. OpShape'
  BY <1>0, <1>a, <1>b DEF OpShape
<1>2. SnapshotFresh'
  BY <1>0, <1>a DEF SnapshotFresh, SnapshotPCs
<1>3. \A x \in Keys : Dirty(x)' <=> Dirty(x)
  BY <1>0, <1>a, Zenon DEF Dirty, SnapshotPCs
<1>4. /\ Deleting(k)'
      /\ \A x \in Keys : x # k => (Deleting(x)' <=> Deleting(x))
  BY <1>0, <1>a, Zenon DEF Deleting
<1>5. BucketInStep' /\ PurgedGone'
  BY <1>0, <1>3, <1>4, Zenon DEF BucketInStep, PurgedGone, Loadable, Stored
<1>6. FlushInStep' /\ ModeInStep'
  <2>1. FlushInStep'
    BY <1>0, <1>3, <1>4 DEF FlushInStep
  <2>2. ModeInStep'
    BY <1>0, Zenon DEF ModeInStep
  <2> QED
    BY <2>1, <2>2, Zenon
<1> QED
  BY <1>1, <1>c, <1>2, <1>5, <1>6, Zenon

LEMMA StepDeleteKey ==
    ASSUME NoFaults, TypeInv, WriteThrough, NEW t \in Threads, DeleteKey(t)
    PROVE  WriteThrough'
<1> USE DEF WriteThrough
<1>k. PICK k \in Keys : k = op[t].key
  BY Zenon DEF DeleteKey, TypeInv, Addressed
<1>0. /\ op \in [Threads -> Ops] /\ rec \in [Keys -> Records] /\ records \subseteq Keys /\ purged \subseteq Keys
      /\ db \in [Keys -> Records \cup {NoEntry}]
      /\ UNCHANGED <<mode, now, records, rec, writeMu, fl, issued>>
      /\ op'[t] = Idle /\ \A u \in Threads \ {t} : op'[u] = op[u]
      /\ op[t].pc = "delKey" /\ ~writeMu /\ purged' = purged \cup {k}
  BY <1>k, Zenon DEF TypeInv, TypeOK, DeleteKey, Return
<1>a. mode = "up" /\ db' = [db EXCEPT ![k] = NoEntry]
  BY <1>0, <1>k, Zenon DEF ModeInStep, DeleteKey, Transaction, NoFaults
<1>b. /\ k \in Keys /\ k \notin records /\ k \in issued
      /\ Idle.pc = "idle" /\ Idle.key = NoKey /\ Idle.new = NoKey /\ Idle.pc \notin SnapshotPCs
  BY <1>0, <1>k, ConstantsAssumption DEF TypeInv, Addressed, OpShape, OneOpPerKey, Busy, Idle, SnapshotPCs
<1>c. \A u \in Threads \ {t} : op[u].key # k
  <2>1. k \in Busy(t) /\ k # NoKey
    BY <1>b, <1>k, ConstantsAssumption, Zenon DEF Busy
  <2>2. \A u \in Threads \ {t} : k \notin Busy(u)
    BY <2>1 DEF OneOpPerKey
  <2> QED
    BY <2>2, Zenon DEF Busy
<1>1. OneOpPerKey'
  BY <1>0, <1>a, <1>b DEF OneOpPerKey, Busy
<1>2. OpShape' /\ SnapshotFresh'
  <2>1. OpShape'
    BY <1>0, <1>b DEF OpShape, SnapshotPCs
  <2>2. SnapshotFresh'
    BY <1>0, <1>b DEF SnapshotFresh, SnapshotPCs
  <2> QED
    BY <2>1, <2>2, Zenon
<1>3. \A x \in Keys : Dirty(x)' <=> Dirty(x)
  <2>1. op[t].pc \notin SnapshotPCs /\ op'[t].pc \notin SnapshotPCs
    BY <1>0, <1>b, Zenon DEF SnapshotPCs
  <2> QED
    BY <1>0, <2>1, Zenon DEF Dirty
<1>4. ~Deleting(k)' /\ \A x \in Keys : x # k => (Deleting(x)' <=> Deleting(x))
  <2>1. op'[t].pc # "delKey"
    BY <1>0, <1>b, Zenon
  <2>3. ~\E u \in Threads : op'[u].pc = "delKey" /\ op'[u].key = k
    BY <1>0, <2>1, <1>c, Zenon
  <2>4. \A x \in Keys : x # k => (Deleting(x)' <=> Deleting(x))
    BY <1>0, <1>k, <2>1, Zenon DEF Deleting
  <2> QED
    BY <2>3, <2>4, Zenon DEF Deleting
<1>5. BucketInStep' /\ PurgedGone'
  <2>1. BucketInStep'
    BY <1>0, <1>a, <1>b, <1>3, <1>4, Zenon DEF BucketInStep, Loadable, Stored
  <2>2. PurgedGone'
    BY <1>0, <1>a, <1>b, <1>4, Zenon DEF PurgedGone
  <2> QED
    BY <2>1, <2>2, Zenon
<1>6. FlushInStep' /\ ModeInStep'
  <2>1. FlushInStep'
    BY <1>0, <1>3, <1>4, Zenon DEF FlushInStep
  <2>2. ModeInStep'
    BY <1>0, <1>a, Zenon DEF ModeInStep
  <2> QED
    BY <2>1, <2>2, Zenon
<1> QED
  BY <1>1, <1>2, <1>5, <1>6, Zenon

(***************************************************************************)
(* The steps of a flush: with no fault each of them keeps WriteThrough     *)
(***************************************************************************)

LEMMA StepFlushBegin ==
    ASSUME NoFaults, TypeInv, WriteThrough, FlushBegin
    PROVE  WriteThrough'
<1> USE DEF WriteThrough
<1>0. /\ UNCHANGED <<mode, now, records, rec, db, op, issued, purged>>
      /\ fl'.pc = "next" /\ fl'.todo = records /\ \A k \in Keys : fl'.snaps[k] = NoEntry
      /\ writeMu' = TRUE /\ mode \in {"up", "closing"} /\ records \subseteq Keys
      /\ fl'.final => mode = "closing"
  BY Zenon DEF FlushBegin, NoFlush, ModeInStep, TypeInv, TypeOK
<1>1. OneOpPerKey' /\ OpShape' /\ SnapshotFresh' /\ BucketInStep' /\ PurgedGone'
  BY <1>0, FrameRecords, Zenon
<1>2. FlushInStep' /\ ModeInStep'
  BY <1>0, Zenon DEF FlushInStep, ModeInStep
<1> QED
  BY <1>1, <1>2, Zenon

\* List loads the fields of a record in the order the flush model does.
LEMMA StepFlushPick ==
    ASSUME NoFaults, TypeInv, WriteThrough, NEW k \in Keys, FlushPick(k)
    PROVE  WriteThrough'
<1> USE DEF WriteThrough
<1>0. /\ UNCHANGED <<mode, now, records, rec, db, writeMu, op, issued, purged>>
      /\ fl \in Flushes /\ fl.pc = "next" /\ k \in fl.todo /\ rec \in [Keys -> Records]
      /\ fl'.pc = "rev" /\ fl'.cur = k /\ fl'.todo = fl.todo \ {k} /\ fl'.final = fl.final
      /\ fl'.snaps = [fl.snaps EXCEPT ![k] = Load(Blank, rec[k], "exp")]
      /\ records \subseteq Keys
  BY Zenon DEF FlushPick, TypeInv, TypeOK, Flushes
<1>a. fl'.snaps[k].exp = rec[k].exp /\ \A x \in Keys : x # k => fl'.snaps[x] = fl.snaps[x]
  BY <1>0 DEF Load, Blank, Records, Flushes
<1>1. OneOpPerKey' /\ OpShape' /\ SnapshotFresh' /\ BucketInStep' /\ PurgedGone'
  BY <1>0, FrameRecords, Zenon
<1>2. FlushInStep'
  BY <1>0, <1>a DEF FlushInStep, Dirty, Deleting
<1>3. ModeInStep'
  BY <1>0, Zenon DEF ModeInStep
<1> QED
  BY <1>1, <1>2, <1>3, Zenon

LEMMA StepFlushLoad ==
    ASSUME NoFaults, TypeInv, WriteThrough, FlushLoad
    PROVE  WriteThrough'
<1> USE DEF WriteThrough
<1>k. PICK k \in Keys : k = fl.cur
  BY Zenon DEF FlushLoad, TypeInv, Addressed
<1>0. /\ UNCHANGED <<mode, now, records, rec, db, writeMu, op, issued, purged>>
      /\ fl \in Flushes /\ fl.pc \in {"rev", "scope"} /\ rec \in [Keys -> Records]
      /\ fl.cur = k /\ fl.snaps[k] # NoEntry /\ fl.snaps[k] \in Records
      /\ fl'.pc = IF fl.pc = "rev" THEN "scope" ELSE "next"
      /\ fl'.cur = fl.cur /\ fl'.todo = fl.todo /\ fl'.final = fl.final
      /\ fl'.snaps = [fl.snaps EXCEPT ![k] = Load(fl.snaps[k], rec[k], fl.pc)]
      /\ records \subseteq Keys
  BY <1>k, Zenon DEF FlushLoad, TypeInv, TypeOK, Addressed, Flushes
<1>a. /\ \A x \in Keys : x # k => fl'.snaps[x] = fl.snaps[x]
      /\ fl'.snaps[k].exp = fl.snaps[k].exp
      /\ fl.pc = "rev" => fl'.snaps[k].rev = rec[k].rev
      /\ fl.pc = "scope" => fl'.snaps[k].rev = fl.snaps[k].rev /\ fl'.snaps[k].scope = rec[k].scope
  BY <1>0 DEF Load, Records, Flushes
<1>1. OneOpPerKey' /\ OpShape' /\ SnapshotFresh' /\ BucketInStep' /\ PurgedGone'
  BY <1>0, FrameRecords, Zenon
<1>b. \A x \in Keys : Dirty(x)' = Dirty(x) /\ Deleting(x)' = Deleting(x)
  BY <1>0, Zenon DEF Dirty, Deleting
<1>c. \A x \in Keys : fl'.snaps[x] # NoEntry => fl.snaps[x] # NoEntry
  BY <1>0, <1>a, Zenon
<1>d. /\ writeMu' <=> fl'.pc \in {"next", "rev", "scope"}
      /\ writeMu
  BY <1>0, Zenon DEF FlushInStep
<1>e. \A x \in Keys : (x \in fl'.todo /\ writeMu') \/ fl'.snaps[x] # NoEntry => x \in records' \/ Deleting(x)'
  BY <1>0, <1>b, <1>c, Zenon DEF FlushInStep
<1>f. ASSUME NEW x \in records, fl'.snaps[x] # NoEntry, ~Dirty(x)
      PROVE  /\ fl'.snaps[x].exp = rec[x].exp
             /\ ~(fl'.pc = "rev" /\ fl'.cur = x) => fl'.snaps[x].rev = rec[x].rev
             /\ ~(fl'.pc \in {"rev", "scope"} /\ fl'.cur = x) => fl'.snaps[x].scope = rec[x].scope
  <2>0. /\ x \in Keys
        /\ fl.snaps[x].exp = rec[x].exp
        /\ ~(fl.pc = "rev" /\ fl.cur = x) => fl.snaps[x].rev = rec[x].rev
        /\ ~(fl.pc \in {"rev", "scope"} /\ fl.cur = x) => fl.snaps[x].scope = rec[x].scope
    BY <1>0, <1>c, <1>f DEF FlushInStep
  <2>1. CASE x = k
    BY <1>0, <1>a, <2>0, <2>1, Zenon
  <2>2. CASE x # k
    BY <1>0, <1>a, <2>0, <2>2, Zenon
  <2> QED
    BY <2>1, <2>2, Zenon
<1>2. FlushInStep'
  <2>1. ~writeMu' => \A x \in Keys : fl'.snaps[x] = NoEntry
    BY <1>0, <1>d, Zenon
  <2>2. \A x \in records' : fl'.snaps[x] # NoEntry /\ ~Dirty(x)' =>
          /\ fl'.snaps[x].exp = rec'[x].exp
          /\ ~(fl'.pc = "rev" /\ fl'.cur = x) => fl'.snaps[x].rev = rec'[x].rev
          /\ ~(fl'.pc \in {"rev", "scope"} /\ fl'.cur = x) => fl'.snaps[x].scope = rec'[x].scope
    BY <1>0, <1>b, <1>f, Zenon
  <2> QED
    BY <1>d, <1>e, <2>1, <2>2, Zenon DEF FlushInStep
<1>3. ModeInStep'
  BY <1>0, Zenon DEF ModeInStep
<1> QED
  BY <1>1, <1>2, <1>3, Zenon

LEMMA StepFlushCommit ==
    ASSUME NoFaults, TypeInv, WriteThrough, FlushCommit
    PROVE  WriteThrough'
<1> USE DEF WriteThrough
<1>0. /\ UNCHANGED <<now, records, rec, op, issued, purged>>
      /\ fl \in Flushes /\ fl.pc = "next" /\ writeMu' = FALSE
      /\ fl' = NoFlush /\ mode' = IF fl.final THEN "closed" ELSE mode
      /\ rec \in [Keys -> Records] /\ records \subseteq Keys
      /\ db \in [Keys -> Records \cup {NoEntry}]
  BY Zenon DEF FlushCommit, TypeInv, TypeOK
<1>a. writeMu /\ mode \in {"up", "closing"}
  BY <1>0, Zenon DEF FlushInStep, ModeInStep, TypeInv, TypeOK
<1>b. db' = [k \in Keys |-> IF fl.snaps[k] # NoEntry THEN fl.snaps[k] ELSE db[k]]
  BY <1>a, Zenon DEF FlushCommit, Transaction, NoFaults
<1>c. fl'.pc = "idle" /\ fl'.final = FALSE /\ \A k \in Keys : fl'.snaps[k] = NoEntry
  BY <1>0, Zenon DEF NoFlush
<1>d. \A k \in records : fl.snaps[k] # NoEntry /\ ~Dirty(k) => fl.snaps[k] = rec[k]
  <2> SUFFICES ASSUME NEW k \in records, fl.snaps[k] # NoEntry, ~Dirty(k)
               PROVE  fl.snaps[k] = rec[k]
    BY Zenon
  <2>1. fl.snaps[k] \in Records /\ rec[k] \in Records
    BY <1>0, Zenon DEF Flushes
  <2>2. fl.snaps[k].exp = rec[k].exp /\ fl.snaps[k].rev = rec[k].rev /\ fl.snaps[k].scope = rec[k].scope
    BY <1>0, Zenon DEF FlushInStep
  <2> QED
    BY <2>1, <2>2 DEF Records
<1>e. \A k \in Keys : k \notin records /\ ~Deleting(k) => fl.snaps[k] = NoEntry
  BY Zenon DEF FlushInStep
<1>f. \A k \in Keys : (Dirty(k)' <=> Dirty(k)) /\ (Deleting(k)' <=> Deleting(k))
  BY <1>0, Zenon DEF Dirty, Deleting
<1>1. OneOpPerKey'
  <2>1. \A k \in Keys \ issued : k \notin records /\ ~Deleting(k)
    BY ConstantsAssumption DEF OneOpPerKey, Deleting, Busy
  <2> QED
    BY <1>0, <1>b, <1>e, <2>1, Zenon DEF OneOpPerKey, Busy
<1>2. OpShape' /\ SnapshotFresh'
  BY <1>0 DEF OpShape, SnapshotFresh
<1>3. BucketInStep'
  <2>1. \A k \in records : ~Dirty(k) => db'[k] = db[k] \/ db'[k] = rec[k]
    BY <1>0, <1>b, <1>d, Zenon
  <2>2. \A k \in Keys \ records : ~Deleting(k) => db'[k] = db[k]
    BY <1>0, <1>b, <1>e, Zenon
  <2> QED
    BY <1>0, <1>a, <1>f, <2>1, <2>2, Zenon DEF BucketInStep, Loadable, Stored
<1>4. FlushInStep' /\ ModeInStep'
  BY <1>0, <1>a, <1>c, Zenon DEF FlushInStep, ModeInStep
<1>5. PurgedGone'
  BY <1>0, <1>b, <1>e, <1>f, Zenon DEF PurgedGone, TypeInv, TypeOK
<1> QED
  BY <1>1, <1>2, <1>3, <1>4, <1>5, Zenon

(***************************************************************************)
(* Every step, and the theorems                                            *)
(***************************************************************************)

\* Every request that a handler starts.
LEMMA StepBegin ==
    ASSUME NoFaults, TypeInv, WriteThrough, NEW t \in Threads, Begin(t)
    PROVE  WriteThrough'
<1>0. records \subseteq issued /\ now \in Nat
  BY Zenon DEF WriteThrough, OneOpPerKey, TypeInv, TypeOK
<1>1. ASSUME NEW k \in Keys, NEW ttl \in TTLs, NEW s \in NewScopes, Vend(t, k, ttl, s)
      PROVE  WriteThrough'
  <2> DEFINE n == [Idle EXCEPT !.kind = "vend", !.pc = "exp", !.key = k, !.cur = k]
             r == NewRecord(Lifetime(ttl), s)
  <2>1. n \in Ops /\ n.key = k /\ n.cur = k /\ n.pc = "exp" /\ n.new = NoKey
    BY IdleType, Zenon DEF Idle, Ops, PCs, KindNames
  <2>2. r \in Records
    BY <1>0, ConstantsAssumption DEF NewRecord, Lifetime, Records
  <2>3. /\ op' = [op EXCEPT ![t] = n] /\ rec' = [rec EXCEPT ![k] = r]
        /\ k \in Keys \ issued /\ records' = records \cup {k} /\ issued' = issued \cup {k}
        /\ op[t].pc = "idle" /\ mode = "up"
        /\ UNCHANGED <<mode, now, db, writeMu, fl, purged>>
    BY <1>1, Zenon DEF Vend, Insert, CanBegin, NoFaults
  <2> HIDE DEF n, r
  <2> QED
    BY <2>1, <2>2, <2>3, StepInsert, Zenon
<1>2. ASSUME NEW k \in Keys, NEW kind \in KindNames, NEW label \in PCs \ (SnapshotPCs \cup {"idle", "delKey"}),
             NEW e \in Nat, NEW want \in Wants, Lookup(t, kind, k, label, e, want),
             label \in {"rotExp", "rotScopes", "rotVend"} => kind = "rotate"
      PROVE  WriteThrough'
  <2> DEFINE n == [Idle EXCEPT !.kind = kind, !.pc = label, !.key = k, !.exp = e, !.want = want]
  <2>1. n \in Ops /\ n.key = k /\ n.pc = label /\ n.new = NoKey /\ n.kind = kind
    BY IdleType, Zenon DEF Idle, Ops
  <2>2. /\ op' = [op EXCEPT ![t] = n] /\ k \in records /\ k \in issued
        /\ op[t].pc = "idle" /\ mode = "up" /\ \A u \in Threads : k \notin Busy(u)
        /\ UNCHANGED <<mode, now, records, rec, db, writeMu, fl, issued, purged>>
    BY <1>2, <1>0, Zenon DEF Lookup, CanBegin, NoFaults
  <2> HIDE DEF n
  <2> QED
    BY <1>2, <2>1, <2>2, StepLookup, Zenon
<1>3. ASSUME NEW k \in Keys, NEW want \in Bodies, BeginPatchScopes(t, k, want)
      PROVE  WriteThrough'
  <2> DEFINE n == [Idle EXCEPT !.kind = "patch", !.pc = "scopes", !.key = k, !.want = want]
  <2>1. n \in Ops /\ n.key = k /\ n.pc = "scopes" /\ n.new = NoKey
    BY IdleType, Zenon, ConstantsAssumption DEF Idle, Ops, PCs, KindNames
  <2>2. /\ op' = [op EXCEPT ![t] = n] /\ k \in issued
        /\ op[t].pc = "idle" /\ mode = "up" /\ \A u \in Threads : k \notin Busy(u)
        /\ UNCHANGED <<mode, now, records, rec, db, writeMu, fl, issued, purged>>
    BY <1>3, <1>0, Zenon DEF BeginPatchScopes, CanBegin, NoFaults
  <2> HIDE DEF n
  <2> QED
    BY <2>1, <2>2, StepLookup, Zenon DEF SnapshotPCs
<1>4. ASSUME NEW k \in Keys, Delete(t, k) PROVE WriteThrough'
  BY <1>4, StepDelete, Zenon
<1>5. /\ {"revoke", "rotate", "patch"} \subseteq KindNames
      /\ {"cas", "rotExp", "setExpiry"} \subseteq PCs \ (SnapshotPCs \cup {"idle", "delKey"})
      /\ NoWant \in Wants
  BY BlankType, Zenon DEF KindNames, PCs, SnapshotPCs
<1> QED
  BY <1>1, <1>2, <1>3, <1>4, <1>5, ConstantsAssumption, Zenon
     DEF Begin, BeginRevoke, BeginRotate, BeginPatchExpiry

\* Every further step of a running handler.
LEMMA StepContinue ==
    ASSUME NoFaults, TypeInv, WriteThrough, NEW t \in Threads, Continue(t)
    PROVE  WriteThrough'
<1> DEFINE o == op[t]
           k == o.key
<1>0. /\ o \in Ops /\ o.want \in Wants /\ o.scope \in Scopes
      /\ o.exp \in Nat /\ now \in Nat /\ rec \in [Keys -> Records]
      /\ \A x \in Keys : rec[x] \in Records /\ rec[x].scope \in Scopes /\ rec[x].exp \in Nat
  BY Zenon DEF TypeInv, TypeOK, Ops, Records
<1>a. o.pc # "idle" => k \in Keys
  BY Zenon DEF TypeInv, Addressed
<1>b. k \in Keys => LET n == Snapshot(t, k)
                    IN  /\ n \in Ops /\ n.key = k /\ n.new = o.new /\ n.cur = k
                        /\ n.pc = "exp" /\ n.kind = o.kind
  BY <1>0, BlankType, Zenon DEF Snapshot, Ops, PCs
<1>c. Idle \in Ops /\ Idle.pc = "idle" /\ Idle.key = NoKey /\ Idle.new = NoKey
      /\ Idle.pc \notin SnapshotPCs \cup {"delKey"}
  BY IdleType, Zenon DEF Idle, SnapshotPCs
<1>d. /\ o.pc \in {"scopes", "updLookup", "rotExp", "rotScopes"} => o.new = NoKey
      /\ o.pc \notin {"idle", "scopes", "delKey"} => k \in records
      /\ o.pc \in {"rotExp", "rotScopes", "rotVend"} => o.kind = "rotate"
  BY Zenon DEF WriteThrough, OpShape, SnapshotPCs
<1>e. ASSUME o.pc \in {"cas", "scopes", "updLookup"}, Return(t),
             UNCHANGED <<mode, now, records, rec, db, writeMu, fl, issued, purged>>
      PROVE  WriteThrough'
  <2>1. op' = [op EXCEPT ![t] = Idle]
    BY <1>e, Zenon DEF Return
  <2>2. op[t].pc \notin SnapshotPCs \cup {"idle", "delKey"}
    BY <1>e, Zenon DEF SnapshotPCs
  <2> QED
    BY <2>1, <2>2, <1>c, <1>e, StepLocal, Zenon
<1>1. CASE CasRevoked(t)
  <2>1. CASE rec[k].rev = 0
    <3> DEFINE r == [rec[k] EXCEPT !.rev = now]
               n == Snapshot(t, k)
    <3>1. r \in Records /\ k \in Keys
      BY <1>1, <1>0, <1>a, Zenon DEF CasRevoked, Records
    <3>2. rec' = [rec EXCEPT ![k] = r] /\ op' = [op EXCEPT ![t] = n]
      BY <1>1, <2>1, Zenon DEF CasRevoked, Return
    <3>3. /\ o.pc \notin SnapshotPCs \cup {"idle", "scopes", "delKey"}
          /\ UNCHANGED <<mode, now, records, db, writeMu, fl, issued, purged>>
      BY <1>1, Zenon DEF CasRevoked, SnapshotPCs
    <3>4. n \in Ops /\ n.key = k /\ n.new = o.new /\ n.cur = k /\ n.pc = "exp" /\ n.kind = o.kind
      BY <3>1, <1>b, Zenon
    <3> HIDE DEF n, r
    <3> QED
      BY <3>1, <3>2, <3>3, <3>4, StepMutate, Zenon
  <2>2. CASE rec[k].rev # 0
    BY <1>1, <2>2, <1>e, Zenon DEF CasRevoked
  <2> QED
    BY <2>1, <2>2, Zenon
<1>2. CASE SetExpiry(t)
  <2> DEFINE r == [rec[k] EXCEPT !.exp = o.exp]
             n == Snapshot(t, k)
  <2>1. r \in Records /\ k \in Keys
    BY <1>2, <1>0, <1>a, Zenon DEF SetExpiry, Records
  <2>2. /\ rec' = [rec EXCEPT ![k] = r] /\ op' = [op EXCEPT ![t] = n]
        /\ o.pc \notin SnapshotPCs \cup {"idle", "scopes", "delKey"}
        /\ UNCHANGED <<mode, now, records, db, writeMu, fl, issued, purged>>
    BY <1>2, Zenon DEF SetExpiry, SnapshotPCs
  <2>3. n \in Ops /\ n.key = k /\ n.new = o.new /\ n.cur = k /\ n.pc = "exp" /\ n.kind = o.kind
    BY <2>1, <1>b, Zenon
  <2> HIDE DEF n, r
  <2> QED
    BY <2>1, <2>2, <2>3, StepMutate, Zenon
<1>3. CASE ReadScopes(t)
  <2>1. CASE k \in records
    <3> DEFINE sc == [m |-> Pick(o.want.m, rec[k].scope.m), p |-> Pick(o.want.p, rec[k].scope.p)]
               n == [o EXCEPT !.pc = "updLookup", !.scope = sc]
    <3>1. sc \in Scopes
      BY <1>3, <2>1, <1>0, <1>a, Zenon DEF ReadScopes, Wants, Scopes, Pick
    <3>2. n \in Ops /\ n.pc = "updLookup" /\ n.key = k /\ n.new = o.new
      BY <3>1, <1>0, Zenon DEF Ops, PCs
    <3>3. /\ op' = [op EXCEPT ![t] = n] /\ o.pc = "scopes"
          /\ UNCHANGED <<mode, now, records, rec, db, writeMu, fl, issued, purged>>
      BY <1>3, <2>1, Zenon DEF ReadScopes
    <3> HIDE DEF n
    <3> QED
      BY <2>1, <3>2, <3>3, <1>d, StepLocal, Zenon DEF SnapshotPCs
  <2>2. CASE k \notin records
    BY <1>3, <2>2, <1>e, Zenon DEF ReadScopes
  <2> QED
    BY <2>1, <2>2, Zenon
<1>4. CASE UpdateScopesLookup(t)
  <2>1. CASE k \in records
    <3> DEFINE n == [o EXCEPT !.pc = "setScopes"]
    <3>1. n \in Ops /\ n.pc = "setScopes" /\ n.key = k /\ n.new = o.new
      BY <1>0 DEF Ops, PCs
    <3>2. /\ op' = [op EXCEPT ![t] = n] /\ o.pc = "updLookup"
          /\ UNCHANGED <<mode, now, records, rec, db, writeMu, fl, issued, purged>>
      BY <1>4, <2>1, Zenon DEF UpdateScopesLookup, Goto
    <3> HIDE DEF n
    <3> QED
      BY <2>1, <3>1, <3>2, <1>d, StepLocal, Zenon DEF SnapshotPCs
  <2>2. CASE k \notin records
    BY <1>4, <2>2, <1>e, Zenon DEF UpdateScopesLookup
  <2> QED
    BY <2>1, <2>2, Zenon
<1>5. CASE UpdateScopes(t)
  <2> DEFINE r == [rec[k] EXCEPT !.scope = o.scope]
             n == [Snapshot(t, k) EXCEPT !.want = NoWant]
  <2>1. r \in Records /\ k \in Keys
    BY <1>5, <1>0, <1>a, Zenon DEF UpdateScopes, Records
  <2>2. /\ rec' = [rec EXCEPT ![k] = r] /\ op' = [op EXCEPT ![t] = n]
        /\ o.pc \notin SnapshotPCs \cup {"idle", "scopes", "delKey"}
        /\ UNCHANGED <<mode, now, records, db, writeMu, fl, issued, purged>>
    BY <1>5, Zenon DEF UpdateScopes, SnapshotPCs
  <2>3. n \in Ops /\ n.key = k /\ n.new = o.new /\ n.cur = k /\ n.pc = "exp" /\ n.kind = o.kind
    BY <2>1, <1>b, BlankType, Zenon DEF Ops
  <2> HIDE DEF n, r
  <2> QED
    BY <2>1, <2>2, <2>3, StepMutate, Zenon
<1>6. CASE RotateReadExpiry(t)
  <2> DEFINE left == rec[k].exp - now
             ttl == IF left > 0 THEN left ELSE 0
             n == [o EXCEPT !.pc = "rotScopes", !.exp = ttl]
  <2>1. ttl \in Nat
    BY <1>6, <1>a, <1>0 DEF RotateReadExpiry
  <2>3. /\ op' = [op EXCEPT ![t] = n] /\ o.pc = "rotExp"
        /\ UNCHANGED <<mode, now, records, rec, db, writeMu, fl, issued, purged>>
    BY <1>6, Zenon DEF RotateReadExpiry
  <2> HIDE DEF ttl
  <2>2. n \in Ops /\ n.pc = "rotScopes" /\ n.key = k /\ n.new = o.new /\ n.kind = o.kind
    BY <2>1, <1>0, Zenon DEF Ops, PCs
  <2> HIDE DEF n
  <2> QED
    BY <2>2, <2>3, <1>d, StepLocal, Zenon DEF SnapshotPCs
<1>7. CASE RotateReadScopes(t)
  <2> DEFINE n == [o EXCEPT !.pc = "rotVend", !.scope = rec[k].scope]
  <2>1. k \in Keys
    BY <1>7, <1>a, Zenon DEF RotateReadScopes
  <2>2. n \in Ops /\ n.pc = "rotVend" /\ n.key = k /\ n.new = o.new /\ n.kind = o.kind
    BY <2>1, <1>0, Zenon DEF Ops, PCs
  <2>3. /\ op' = [op EXCEPT ![t] = n] /\ o.pc = "rotScopes"
        /\ UNCHANGED <<mode, now, records, rec, db, writeMu, fl, issued, purged>>
    BY <1>7, Zenon DEF RotateReadScopes
  <2> HIDE DEF n
  <2> QED
    BY <2>2, <2>3, <1>d, StepLocal, Zenon DEF SnapshotPCs
<1>8. ASSUME NEW x \in Keys, RotateVend(t, x) PROVE WriteThrough'
  <2> DEFINE n == [o EXCEPT !.pc = "exp", !.new = x, !.cur = x]
             r == NewRecord(Lifetime(o.exp), o.scope)
  <2>1. n \in Ops /\ n.key = k /\ n.cur = x /\ n.new = x /\ n.pc = "exp" /\ n.kind = o.kind
    BY <1>0, Zenon DEF Ops, PCs
  <2>2. r \in Records
    BY <1>0 DEF NewRecord, Lifetime, Records
  <2>3. /\ op' = [op EXCEPT ![t] = n] /\ rec' = [rec EXCEPT ![x] = r] /\ o.pc = "rotVend"
        /\ x \in Keys \ issued /\ records' = records \cup {x} /\ issued' = issued \cup {x}
        /\ UNCHANGED <<mode, now, db, writeMu, fl, purged>>
    BY <1>8, Zenon DEF RotateVend, Insert
  <2>4. mode = "up"
    BY <2>3, Zenon DEF WriteThrough, ModeInStep
  <2> HIDE DEF n, r
  <2> QED
    BY <2>1, <2>2, <2>3, <2>4, <1>d, StepInsert, Zenon DEF SnapshotPCs
<1> QED
  BY <1>1, <1>2, <1>3, <1>4, <1>5, <1>6, <1>7, <1>8, StepSnapshotLoad, StepPersistKey, StepDeleteKey, Zenon
  DEF Continue

\* The process stops and starts again; what Restore finds is what was stored.
LEMMA StepProcess ==
    ASSUME NoFaults, TypeInv, WriteThrough, FlusherStop \/ Shutdown \/ Crash \/ Restart \/ Tick
    PROVE  WriteThrough'
<1> USE DEF WriteThrough
<1>1. CASE FlusherStop
  <2>0. /\ UNCHANGED <<mode, now, records, rec, db, writeMu, op, issued, purged>>
        /\ mode = "closing" /\ fl.pc = "idle" /\ fl'.pc = "stopped" /\ fl'.snaps = fl.snaps
        /\ fl'.cur = fl.cur /\ fl'.todo = fl.todo
    BY <1>1, Zenon DEF FlusherStop, TypeInv, TypeOK, Flushes
  <2>1. OneOpPerKey' /\ OpShape' /\ SnapshotFresh' /\ BucketInStep' /\ PurgedGone'
    BY <2>0, FrameRecords, Zenon
  <2> QED
    BY <2>0, <2>1 DEF FlushInStep, ModeInStep, Dirty, Deleting, TypeInv, TypeOK
<1>2. CASE Shutdown
  <2>0. /\ UNCHANGED <<now, records, rec, db, writeMu, op, fl, issued, purged>>
        /\ mode = "up" /\ mode' = "closing" /\ \A t \in Threads : op[t].pc = "idle"
    BY <1>2, Zenon DEF Shutdown, NoFaults
  <2>1. OneOpPerKey' /\ OpShape' /\ SnapshotFresh' /\ BucketInStep' /\ PurgedGone'
    BY <2>0, FrameRecords, Zenon
  <2> QED
    BY <2>0, <2>1, Zenon DEF FlushInStep, ModeInStep, Dirty, Deleting
<1>3. CASE Tick
  <2>0. UNCHANGED <<mode, records, rec, db, writeMu, op, fl, issued, purged>>
    BY <1>3, Zenon DEF Tick
  <2>1. OneOpPerKey' /\ OpShape' /\ SnapshotFresh' /\ BucketInStep' /\ PurgedGone'
    BY <2>0, FrameRecords, Zenon
  <2>2. FlushInStep'
    BY <2>0 DEF FlushInStep, Dirty, Deleting
  <2>3. ModeInStep'
    BY <2>0, Zenon DEF ModeInStep
  <2> QED
    BY <2>1, <2>2, <2>3, Zenon
<1>4. CASE Crash
  <2>0. /\ UNCHANGED <<now, db, issued, purged>> /\ mode' = "down" /\ records' = {}
        /\ writeMu' = FALSE /\ \A t \in Threads : op'[t] = Idle
        /\ fl'.pc = "idle" /\ fl'.final = FALSE /\ \A k \in Keys : fl'.snaps[k] = NoEntry
    BY <1>4, Zenon DEF Crash, NoFlush
  <2>1. Idle.pc = "idle" /\ Idle.key = NoKey /\ Idle.new = NoKey
    BY Zenon DEF Idle
  <2>2. OneOpPerKey' /\ OpShape' /\ SnapshotFresh' /\ BucketInStep'
    <3>1. OneOpPerKey'
      BY <2>0, <2>1, Zenon DEF OneOpPerKey, Busy
    <3>2. OpShape'
      BY <2>0, <2>1, Zenon DEF OpShape, SnapshotPCs
    <3>3. SnapshotFresh'
      BY <2>0, <2>1, Zenon DEF SnapshotFresh, SnapshotPCs
    <3>4. BucketInStep'
      BY <2>0, <2>1, Zenon DEF BucketInStep
    <3> QED
      BY <3>1, <3>2, <3>3, <3>4, Zenon
  <2>3. FlushInStep' /\ ModeInStep' /\ PurgedGone'
    <3>1. FlushInStep'
      BY <2>0, <2>1, Zenon DEF FlushInStep, Deleting
    <3>2. ModeInStep'
      BY <2>0, <2>1, Zenon DEF ModeInStep
    <3>3. PurgedGone'
      BY <2>0, <2>1, Zenon DEF PurgedGone, Deleting
    <3> QED
      BY <3>1, <3>2, <3>3, Zenon
  <2> QED
    BY <2>2, <2>3, Zenon
<1>5. CASE Restart
  <2>0. /\ UNCHANGED <<now, db, writeMu, op, fl, issued>> /\ mode = "down" /\ mode' = "up"
        /\ records' = {k \in Keys : Loadable(k)} /\ rec' = [k \in Keys |-> Restored(k)]
        /\ purged' = purged \ Provisioned /\ purged \subseteq Keys
    BY <1>5, Zenon DEF Restart, TypeInv, TypeOK
  <2>1. /\ \A t \in Threads : op[t].pc = "idle" /\ op[t].key = NoKey /\ op[t].new = NoKey
        /\ ~writeMu /\ \A k \in Keys : fl.snaps[k] = NoEntry
    BY <2>0, Zenon DEF ModeInStep, FlushInStep, OpShape
  <2>2. \A k \in Keys : rec'[k] = Stored(k)
    BY <2>0, RestoredIsStored, Zenon DEF TypeInv
  <2>3. OneOpPerKey' /\ OpShape' /\ SnapshotFresh'
    <3>1. OneOpPerKey'
      BY <2>0, <2>1, Zenon DEF OneOpPerKey, Busy, Loadable
    <3>2. OpShape'
      BY <2>0, <2>1, Zenon DEF OpShape, SnapshotPCs
    <3>3. SnapshotFresh'
      BY <2>0, <2>1, Zenon DEF SnapshotFresh, SnapshotPCs
    <3> QED
      BY <3>1, <3>2, <3>3, Zenon
  <2>4. BucketInStep'
    BY <2>0, <2>2, Zenon DEF BucketInStep, Loadable, Stored
  <2>5. FlushInStep' /\ ModeInStep'
    BY <2>0, <2>1, Zenon DEF FlushInStep, ModeInStep
  <2>6. PurgedGone'
    BY <2>0, <2>1, Zenon DEF PurgedGone, Loadable, Deleting
  <2> QED
    BY <2>3, <2>4, <2>5, <2>6, Zenon
<1> QED
  BY <1>1, <1>2, <1>3, <1>4, <1>5, Zenon

LEMMA WriteThroughStep ==
    ASSUME NoFaults, TypeInv, WriteThrough, [Next]_vars
    PROVE  WriteThrough'
<1>1. CASE UNCHANGED vars
  <2>1. OneOpPerKey' /\ OpShape' /\ SnapshotFresh' /\ BucketInStep' /\ PurgedGone'
    <3>1. UNCHANGED <<records, rec, db, op, issued, purged>> /\ mode' = mode
      BY <1>1, Zenon DEF vars
    <3> QED
      BY <3>1, FrameRecords, Zenon
  <2>2. FlushInStep' /\ ModeInStep'
    BY <1>1 DEF vars, WriteThrough, Dirty, Deleting, FlushInStep, ModeInStep
  <2> QED
    BY <2>1, <2>2, Zenon DEF WriteThrough
<1>2. CASE Flusher
  BY <1>2, StepFlushBegin, StepFlushPick, StepFlushLoad, StepFlushCommit, StepProcess, Zenon DEF Flusher
<1> QED
  BY <1>1, <1>2, StepBegin, StepContinue, StepProcess, Zenon DEF Next

\* Write-through, for any number of keys and handlers: operations on one key
\* that follow one another, each persisting its snapshot before it answers,
\* keep the bucket in step with memory whatever the flush goroutine and
\* crashes do in between.
THEOREM WriteThroughHolds ==
    ASSUME NoFaults
    PROVE  Spec => [](TypeInv /\ WriteThrough)
<1>1. Init => TypeInv /\ WriteThrough
  BY TypeInit, WriteThroughInit, Zenon
<1>2. TypeInv /\ WriteThrough /\ [Next]_vars => (TypeInv /\ WriteThrough)'
  BY TypeStep, WriteThroughStep, Zenon
<1> QED
  BY <1>1, <1>2, PTL DEF Spec

LEMMA WriteThroughSuffices ==
    ASSUME NoFaults, TypeInv, WriteThrough
    PROVE  CrashLosesNothing /\ PurgeIsFinal
<1>1. ASSUME NEW k \in Keys, \A t \in Threads : k \notin Busy(t)
      PROVE  ~Dirty(k) /\ ~Deleting(k)
  BY <1>1, Zenon DEF WriteThrough, OpShape, Busy, Dirty, Deleting
<1>2. CrashLosesNothing
  BY <1>1, RestoredIsStored, Zenon DEF CrashLosesNothing, WriteThrough, BucketInStep, Loadable, TypeInv
<1> QED
  BY <1>2, Zenon DEF PurgeIsFinal, WriteThrough, PurgedGone

\* A crash between operations loses nothing and brings nothing back.
THEOREM CrashIsHarmless ==
    ASSUME NoFaults
    PROVE  Spec => []CrashLosesNothing
<1>1. TypeInv /\ WriteThrough => CrashLosesNothing
  BY WriteThroughSuffices, Zenon
<1> QED
  BY <1>1, WriteThroughHolds, PTL

\* A purged key stays purged, in memory and in the bucket, until the config
\* provisions it again.
THEOREM PurgeHolds ==
    ASSUME NoFaults
    PROVE  Spec => []PurgeIsFinal
<1>1. TypeInv /\ WriteThrough => PurgeIsFinal
  BY WriteThroughSuffices, Zenon
<1> QED
  BY <1>1, WriteThroughHolds, PTL
=============================================================================
