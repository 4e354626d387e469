---------------------------- MODULE AppKeysOrder ----------------------------
(***************************************************************************)
(* What one step may do to the bucket and to a record.  writeMu keeps the  *)
(* flush from undoing a purge or a revocation, and a PATCH loses a field   *)
(* that it was not sent only to another PATCH, both under every fault.  If *)
(* no fault occurs, a durable revocation stays until the key is purged.    *)
(*                                                                         *)
(* What Rotate reads of a record it uses several steps later.  If no fault *)
(* occurs nobody else changes the record meanwhile, so that Rotate hands   *)
(* over in order: the new key is in force, with all that the old one had,  *)
(* before the old one is revoked.                                          *)
(***************************************************************************)
EXTENDS AppKeysProofs

(***************************************************************************)
(* The flush under every fault                                             *)
(***************************************************************************)

\* Every key that is in use anywhere has been drawn.
Known ==
    /\ records \subseteq issued /\ purged \subseteq issued /\ Provisioned \subseteq issued
    /\ fl.todo \subseteq issued
    /\ \A k \in Keys : db[k] # NoEntry \/ fl.snaps[k] # NoEntry => k \in issued
    /\ \A t \in Threads : /\ op[t].pc # "idle" => op[t].key \in issued
                          /\ op[t].pc \in SnapshotPCs => op[t].cur \in issued

\* The flush holds writeMu as long as it holds records or snapshots.
Locked ==
    /\ writeMu <=> fl.pc \in {"next", "rev", "scope"}
    /\ ~writeMu => fl.todo = {} /\ \A k \in Keys : fl.snaps[k] = NoEntry
    /\ mode = "down" => ~writeMu /\ \A t \in Threads : op[t].pc = "idle"

\* A purge that is under way has taken its key out of memory, and a purged key
\* that a flush may write is one that a restart has found in the bucket.
PurgesLast ==
    /\ \A t \in Threads : op[t].pc = "delKey" => op[t].key \notin records
    /\ \A k \in purged : k \in records \/ k \in fl.todo \/ fl.snaps[k] # NoEntry => db[k] # NoEntry

\* RevokedAt is set once: whoever has loaded it, or has it in the bucket, agrees.
RevokedOnce ==
    /\ mode # "down" => \A k \in Keys : db[k] # NoEntry /\ db[k].rev # 0 => rec[k].rev = db[k].rev
    /\ \A t \in Threads : op[t].pc \in {"scope", "persist"} /\ op[t].snap.rev # 0
                              => rec[op[t].cur].rev = op[t].snap.rev
    /\ \A k \in Keys : fl.snaps[k] # NoEntry =>
          /\ fl.snaps[k].rev # 0 => rec[k].rev = fl.snaps[k].rev
          /\ db[k] # NoEntry /\ db[k].rev # 0 /\ ~(fl.pc = "rev" /\ fl.cur = k)
                => fl.snaps[k].rev = db[k].rev

FlushSafe == Known /\ Locked /\ PurgesLast /\ RevokedOnce

\* A step of thread t that leaves the bucket alone: it may draw a key, take one out of
\* memory or set a RevokedAt that was 0.
LEMMA ThreadKeeps ==
    ASSUME TypeInv, TypeInv', FlushSafe, NEW t \in Threads,
           \A u \in Threads \ {t} : op'[u] = op[u],
           mode' = mode, mode # "down", fl' = fl, writeMu' = writeMu, db' = db, purged' = purged,
           issued \subseteq issued', records' \subseteq records \cup (issued' \ issued),
           \A k \in issued : rec[k].rev # 0 => rec'[k].rev = rec[k].rev,
           op'[t].pc # "idle" => op'[t].key \in issued',
           op'[t].pc \in SnapshotPCs => op'[t].cur \in issued',
           op'[t].pc = "delKey" => op'[t].key \notin records',
           op'[t].pc \in {"scope", "persist"} /\ op'[t].snap.rev # 0
               => rec'[op'[t].cur].rev = op'[t].snap.rev
    PROVE  FlushSafe'
<1>0. Known /\ Locked /\ PurgesLast /\ RevokedOnce
  BY Zenon DEF FlushSafe
<1>1. Known'
  BY <1>0 DEF Known
<1>2. Locked'
  BY <1>0, Zenon DEF Locked
<1>3. PurgesLast'
  BY <1>0 DEF PurgesLast, Known
<1>4. RevokedOnce'
  <2>1. \A k \in Keys : db[k] # NoEntry /\ db[k].rev # 0 => rec'[k].rev = db[k].rev
    BY <1>0 DEF RevokedOnce, Known
  <2>2. ASSUME NEW u \in Threads, op'[u].pc \in {"scope", "persist"}, op'[u].snap.rev # 0
        PROVE  rec'[op'[u].cur].rev = op'[u].snap.rev
    <3>1. CASE u # t
      BY <1>0, <2>2, <3>1 DEF RevokedOnce, Known, SnapshotPCs
    <3> QED
      BY <2>2, <3>1, Zenon
  <2>3. \A k \in Keys : fl.snaps[k] # NoEntry /\ fl.snaps[k].rev # 0 => rec'[k].rev = fl.snaps[k].rev
    BY <1>0 DEF RevokedOnce, Known
  <2> QED
    BY <1>0, <2>1, <2>2, <2>3, Zenon DEF RevokedOnce
<1> QED
  BY <1>1, <1>2, <1>3, <1>4, Zenon DEF FlushSafe

LEMMA BeginKeeps ==
    ASSUME TypeInv, TypeInv', FlushSafe, NEW t \in Threads, Begin(t)
    PROVE  FlushSafe'
<1>0. op \in [Threads -> Ops] /\ Known /\ ("exp" \in SnapshotPCs)
  BY Zenon DEF TypeInv, TypeOK, FlushSafe, SnapshotPCs
<1>1. ASSUME NEW kind, NEW k, CanBegin(t, kind, k) PROVE mode # "down"
  BY <1>1, Zenon DEF CanBegin
<1>2. ASSUME NEW k \in Keys, NEW ttl, NEW s, Vend(t, k, ttl, s) PROVE FlushSafe'
  <2>1. /\ mode # "down" /\ issued' = issued \cup {k} /\ k \notin issued /\ records' = records \cup {k}
        /\ mode' = mode /\ fl' = fl /\ writeMu' = writeMu /\ db' = db /\ purged' = purged
        /\ \A u \in Threads \ {t} : op'[u] = op[u]
    BY <1>0, <1>1, <1>2, Zenon DEF Vend, Insert
  <2>2. op'[t].pc = "exp" /\ op'[t].key = k /\ op'[t].cur = k
    BY <1>0, <1>2, Zenon DEF Vend, Idle
  <2>3. \A x \in issued : rec'[x] = rec[x]
    BY <1>2, <2>1, Zenon DEF Vend, Insert, TypeInv, TypeOK
  <2> QED
    BY <2>1, <2>2, <2>3, ThreadKeeps, Zenon
<1>3. ASSUME NEW kind, NEW k \in Keys, NEW label, NEW e, NEW want, Lookup(t, kind, k, label, e, want),
             label \in {"cas", "rotExp", "setExpiry"}
      PROVE  FlushSafe'
  <2>1. /\ mode # "down" /\ UNCHANGED <<mode, records, rec, db, writeMu, fl, issued, purged>>
        /\ \A u \in Threads \ {t} : op'[u] = op[u]
    BY <1>0, <1>1, <1>3, Zenon DEF Lookup
  <2>2. op'[t].pc = label /\ op'[t].key = k /\ k \in issued
    BY <1>0, <1>3, Zenon DEF Lookup, Idle, Known
  <2> QED
    BY <1>3, <2>1, <2>2, ThreadKeeps, Zenon DEF SnapshotPCs
<1>4. ASSUME NEW k \in Keys, NEW want, BeginPatchScopes(t, k, want) PROVE FlushSafe'
  <2>1. /\ mode # "down" /\ UNCHANGED <<mode, records, rec, db, writeMu, fl, issued, purged>>
        /\ \A u \in Threads \ {t} : op'[u] = op[u]
    BY <1>0, <1>1, <1>4, Zenon DEF BeginPatchScopes
  <2>2. op'[t].pc = "scopes" /\ op'[t].key = k /\ k \in issued
    BY <1>0, <1>4, Zenon DEF BeginPatchScopes, Idle
  <2> QED
    BY <2>1, <2>2, ThreadKeeps, Zenon DEF SnapshotPCs
<1>5. ASSUME NEW k \in Keys, Delete(t, k) PROVE FlushSafe'
  <2>1. /\ mode # "down" /\ UNCHANGED <<mode, rec, db, writeMu, fl, issued, purged>>
        /\ records' = records \ {k} /\ \A u \in Threads \ {t} : op'[u] = op[u]
    BY <1>0, <1>1, <1>5, Zenon DEF Delete
  <2>2. op'[t].pc = "delKey" /\ op'[t].key = k /\ k \in issued
    BY <1>0, <1>5, Zenon DEF Delete, Idle, Known
  <2> QED
    BY <2>1, <2>2, ThreadKeeps, Zenon DEF SnapshotPCs
<1> QED
  BY <1>2, <1>3, <1>4, <1>5, Zenon DEF Begin, BeginRevoke, BeginRotate, BeginPatchExpiry

LEMMA ContinueKeeps ==
    ASSUME TypeInv, TypeInv', FlushSafe, NEW t \in Threads,
           Continue(t), ~PersistKey(t), ~DeleteKey(t)
    PROVE  FlushSafe'
<1> DEFINE o == op[t]
<1>0. op \in [Threads -> Ops] /\ o \in Ops /\ rec \in [Keys -> Records] /\ issued \subseteq Keys /\ Known /\ Locked
  BY Zenon DEF TypeInv, TypeOK, FlushSafe
<1>1. ASSUME o.pc # "idle" PROVE mode # "down" /\ o.key \in issued
  BY <1>0, <1>1, Zenon DEF Known, Locked
<1>2. Idle.pc = "idle" /\ \A k : /\ Snapshot(t, k).pc = "exp" /\ Snapshot(t, k).key = o.key
                              /\ Snapshot(t, k).cur = k
  BY <1>0, Zenon DEF Idle, Snapshot, Ops
<1>3. ASSUME \A u \in Threads \ {t} : op'[u] = op[u], o.pc # "idle",
             UNCHANGED <<mode, records, db, writeMu, fl, issued, purged>>,
             \A k \in issued : rec[k].rev # 0 => rec'[k].rev = rec[k].rev,
             \/ op'[t].pc = "idle"
             \/ op'[t].key = o.key /\ op'[t].pc \notin {"delKey", "rev", "scope", "persist"}
                /\ (op'[t].pc = "exp" => op'[t].cur = o.key)
      PROVE  FlushSafe'
  BY <1>1, <1>3, ThreadKeeps, Zenon DEF SnapshotPCs
<1>4. CASE CasRevoked(t)
  <2>1. \A k \in issued : rec[k].rev # 0 => rec'[k].rev = rec[k].rev
    BY <1>0, <1>4, Zenon DEF CasRevoked
  <2>2. op'[t] = Idle \/ op'[t] = Snapshot(t, o.key)
    BY <1>0, <1>4, Zenon DEF CasRevoked, Return
  <2>3. /\ \A u \in Threads \ {t} : op'[u] = op[u]
        /\ o.pc # "idle" /\ UNCHANGED <<mode, records, db, writeMu, fl, issued, purged>>
    BY <1>0, <1>4, Zenon DEF CasRevoked, Return
  <2> QED
    BY <1>2, <1>3, <2>1, <2>2, <2>3
<1>5. CASE SetExpiry(t)
  <2>1. \A k \in issued : rec'[k].rev = rec[k].rev
    BY <1>0, <1>5, Zenon DEF SetExpiry, Records
  <2>2. op'[t] = Snapshot(t, o.key)
    BY <1>0, <1>5, Zenon DEF SetExpiry
  <2>3. /\ \A u \in Threads \ {t} : op'[u] = op[u]
        /\ o.pc # "idle" /\ UNCHANGED <<mode, records, db, writeMu, fl, issued, purged>>
    BY <1>0, <1>5, Zenon DEF SetExpiry
  <2> QED
    BY <1>2, <1>3, <2>1, <2>2, <2>3
<1>6. CASE UpdateScopes(t)
  <2>1. \A k \in issued : rec'[k].rev = rec[k].rev
    BY <1>0, <1>6, Zenon DEF UpdateScopes, Records
  <2>2. op'[t].pc = "exp" /\ op'[t].cur = o.key /\ op'[t].key = o.key
    BY <1>0, <1>6, Zenon DEF UpdateScopes, Snapshot, Ops
  <2>3. /\ \A u \in Threads \ {t} : op'[u] = op[u]
        /\ o.pc # "idle" /\ UNCHANGED <<mode, records, db, writeMu, fl, issued, purged>>
    BY <1>0, <1>6, Zenon DEF UpdateScopes
  <2> QED
    BY <1>3, <2>1, <2>2, <2>3, Zenon
<1>7. CASE ReadScopes(t) \/ UpdateScopesLookup(t) \/ RotateReadExpiry(t) \/ RotateReadScopes(t)
  <2>1. /\ \A u \in Threads \ {t} : op'[u] = op[u]
        /\ o.pc # "idle" /\ UNCHANGED <<mode, records, rec, db, writeMu, fl, issued, purged>>
    BY <1>0, <1>7, Zenon DEF ReadScopes, UpdateScopesLookup, RotateReadExpiry, RotateReadScopes, Return, Goto
  <2>2. \/ op'[t].pc = "idle"
        \/ op'[t].key = o.key /\ op'[t].pc \in {"updLookup", "setScopes", "rotScopes", "rotVend"}
    <3>1. CASE ReadScopes(t)
      BY <1>0, <1>2, <3>1, Zenon DEF ReadScopes, Return, Ops
    <3>2. CASE UpdateScopesLookup(t)
      BY <1>0, <1>2, <3>2 DEF UpdateScopesLookup, Return, Goto, Ops
    <3>3. CASE RotateReadExpiry(t)
      <4>1. PICK e : op' = [op EXCEPT ![t] = [@ EXCEPT !.pc = "rotScopes", !.exp = e]]
        BY <3>3, Zenon DEF RotateReadExpiry
      <4> QED
        BY <1>0, <4>1, Zenon DEF Ops
    <3>4. CASE RotateReadScopes(t)
      BY <1>0, <3>4, Zenon DEF RotateReadScopes, Ops
    <3> QED
      BY <1>7, <3>1, <3>2, <3>3, <3>4, Zenon
  <2> QED
    BY <1>3, <2>1, <2>2, Zenon
<1>8. ASSUME NEW k \in Keys, RotateVend(t, k) PROVE FlushSafe'
  <2>1. /\ issued' = issued \cup {k} /\ k \notin issued /\ records' = records \cup {k}
        /\ mode' = mode /\ fl' = fl /\ writeMu' = writeMu /\ db' = db /\ purged' = purged
        /\ o.pc # "idle" /\ \A u \in Threads \ {t} : op'[u] = op[u]
    BY <1>0, <1>8, Zenon DEF RotateVend, Insert
  <2>2. op'[t].pc = "exp" /\ op'[t].key = o.key /\ op'[t].cur = k
    BY <1>0, <1>8, Zenon DEF RotateVend, Ops
  <2>3. \A x \in issued : rec'[x] = rec[x]
    BY <1>0, <1>8, <2>1, Zenon DEF RotateVend, Insert
  <2> QED
    BY <1>1, <2>1, <2>2, <2>3, ThreadKeeps, Zenon
<1>9. CASE SnapshotLoad(t)
  <2>1. /\ \A u \in Threads \ {t} : op'[u] = op[u]
        /\ o.pc \in {"exp", "rev", "scope"} /\ UNCHANGED <<mode, records, rec, db, writeMu, fl, issued, purged>>
    BY <1>0, <1>9, Zenon DEF SnapshotLoad
  <2>2. /\ op'[t].pc = AfterLoad(o.pc) /\ op'[t].key = o.key /\ op'[t].cur = o.cur
        /\ op'[t].snap = Load(o.snap, rec[o.cur], o.pc)
    BY <1>0, <1>9, Zenon DEF SnapshotLoad, Ops
  <2>3. op'[t].pc \in {"scope", "persist"} /\ op'[t].snap.rev # 0 => rec[o.cur].rev = op'[t].snap.rev
    BY <2>1, <2>2 DEF FlushSafe, RevokedOnce, Load, AfterLoad
  <2>4. op'[t].pc \in {"rev", "scope", "persist"} /\ o.cur \in issued
    BY <1>0, <2>1, <2>2, Zenon DEF AfterLoad, Known, SnapshotPCs
  <2> QED
    BY <1>1, <2>1, <2>2, <2>3, <2>4, ThreadKeeps
<1> QED
  BY <1>4, <1>5, <1>6, <1>7, <1>8, <1>9, Zenon DEF Continue

\* PersistKey and DeleteKey wait for writeMu, so that no flush is under way.
LEMMA BucketKeeps ==
    ASSUME TypeInv, TypeInv', FlushSafe, NEW t \in Threads, PersistKey(t) \/ DeleteKey(t)
    PROVE  FlushSafe'
<1> DEFINE o == op[t]
<1>0. /\ op \in [Threads -> Ops] /\ o \in Ops /\ db \in [Keys -> Records \cup {NoEntry}]
      /\ Known /\ Locked /\ PurgesLast /\ RevokedOnce
  BY Zenon DEF TypeInv, TypeOK, FlushSafe
<1>1. /\ UNCHANGED <<mode, records, rec, writeMu, fl, issued>> /\ ~writeMu /\ o.pc \in {"persist", "delKey"}
      /\ \A u \in Threads \ {t} : op'[u] = op[u]
  BY <1>0, Zenon DEF PersistKey, DeleteKey, Return
<1>2. mode # "down" /\ fl.todo = {} /\ \A k \in Keys : fl.snaps[k] = NoEntry
  BY <1>0, <1>1, Zenon DEF Locked
<1>3. /\ op'[t].pc \in {"idle", "cas", "scopes"}
      /\ op'[t].pc # "idle" => op'[t].key = o.key
  <2>1. Idle.pc = "idle"
    BY Zenon DEF Idle
  <2>2. op'[t] = AfterPersist(o) \/ op'[t] = Idle
    BY <1>0, Zenon DEF PersistKey, DeleteKey, Return
  <2>3. \/ AfterPersist(o) = Idle
        \/ AfterPersist(o).key = o.key /\ AfterPersist(o).pc \in {"cas", "scopes"}
    BY <1>0, Zenon DEF AfterPersist, Ops
  <2> QED
    BY <2>1, <2>2, <2>3, Zenon
<1>4. Locked'
  BY <1>0, <1>1, <1>2, Zenon DEF Locked
<1>5. CASE PersistKey(t)
  <2>1. purged' = purged /\ (db' = [db EXCEPT ![o.cur] = o.snap] \/ db' = db) /\ o.pc = "persist"
    BY <1>5, Zenon DEF PersistKey, Transaction
  <2>2. o.cur \in issued /\ o.key \in issued /\ o.snap # NoEntry
    BY <1>0, <2>1, ConstantsAssumption, Zenon DEF Known, SnapshotPCs, Ops
  <2>3. Known'
    BY <1>0, <1>1, <1>3, <2>1, <2>2 DEF Known, SnapshotPCs
  <2>4. PurgesLast'
    BY <1>0, <1>1, <1>2, <1>3, <2>1, <2>2 DEF PurgesLast, TypeInv, TypeOK
  <2>5. RevokedOnce'
    BY <1>0, <1>1, <1>2, <1>3, <2>1, <2>2 DEF RevokedOnce
  <2> QED
    BY <1>4, <2>3, <2>4, <2>5, Zenon DEF FlushSafe
<1>6. CASE DeleteKey(t)
  <2>1. /\ purged' = purged \cup {o.key} /\ (db' = [db EXCEPT ![o.key] = NoEntry] \/ db' = db)
        /\ o.pc = "delKey"
    BY <1>6, Zenon DEF DeleteKey, Transaction
  <2>2. o.key \in issued /\ o.key \notin records
    BY <1>0, <2>1, Zenon DEF Known, PurgesLast
  <2>3. Known'
    BY <1>0, <1>1, <1>3, <2>1, <2>2 DEF Known, SnapshotPCs
  <2>4. PurgesLast'
    BY <1>0, <1>1, <1>2, <1>3, <2>1, <2>2 DEF PurgesLast, TypeInv, TypeOK
  <2>5. RevokedOnce'
    BY <1>0, <1>1, <1>2, <1>3, <2>1, <2>2 DEF RevokedOnce
  <2> QED
    BY <1>4, <2>3, <2>4, <2>5, Zenon DEF FlushSafe
<1> QED
  BY <1>5, <1>6, Zenon

LEMMA FlusherKeeps ==
    ASSUME TypeInv, TypeInv', FlushSafe, Flusher
    PROVE  FlushSafe'
<1>0. /\ Known /\ Locked /\ PurgesLast /\ RevokedOnce
      /\ fl \in Flushes /\ fl.snaps \in [Keys -> Records \cup {NoEntry}] /\ rec \in [Keys -> Records]
      /\ db \in [Keys -> Records \cup {NoEntry}] /\ records \subseteq Keys /\ purged \subseteq Keys
  BY Zenon DEF FlushSafe, TypeInv, TypeOK, Flushes
<1>1. CASE FlushBegin
  <2>1. /\ UNCHANGED <<mode, records, rec, db, op, issued, purged>> /\ writeMu' = TRUE /\ ~writeMu
        /\ mode # "down"
        /\ fl'.pc = "next" /\ fl'.todo = records /\ \A k \in Keys : fl'.snaps[k] = NoEntry
    BY <1>1, Zenon DEF FlushBegin, NoFlush
  <2>2. Known'
    BY <1>0, <2>1, Zenon DEF Known
  <2>3. Locked'
    BY <1>0, <2>1, Zenon DEF Locked
  <2>4. PurgesLast'
    BY <1>0, <2>1, Zenon DEF PurgesLast
  <2>5. RevokedOnce'
    BY <1>0, <2>1, Zenon DEF RevokedOnce
  <2> QED
    BY <2>2, <2>3, <2>4, <2>5, Zenon DEF FlushSafe
<1>2. ASSUME NEW k \in Keys, FlushPick(k) PROVE FlushSafe'
  <2> DEFINE s == Load(Blank, rec[k], "exp")
  <2>1. /\ UNCHANGED <<mode, records, rec, db, writeMu, op, issued, purged>>
        /\ fl.pc = "next" /\ k \in fl.todo
        /\ fl'.pc = "rev" /\ fl'.cur = k /\ fl'.todo = fl.todo \ {k}
        /\ fl'.snaps = [fl.snaps EXCEPT ![k] = s]
    BY <1>0, <1>2, Zenon DEF FlushPick, Flushes
  <2>2. s.rev = 0 /\ s # NoEntry
    BY <1>0, BlankType, LoadType, ConstantsAssumption DEF Load, Blank
  <2> HIDE DEF s
  <2>3. Known'
    BY <1>0, <2>1 DEF Known
  <2>4. Locked'
    BY <1>0, <2>1, Zenon DEF Locked
  <2>5. PurgesLast'
    BY <1>0, <2>1 DEF PurgesLast
  <2>6. RevokedOnce'
    BY <1>0, <2>1, <2>2 DEF RevokedOnce
  <2> QED
    BY <2>3, <2>4, <2>5, <2>6, Zenon DEF FlushSafe
<1>3. CASE FlushLoad
  <2> DEFINE c == fl.cur
             s == Load(fl.snaps[c], rec[c], fl.pc)
  <2>1. /\ UNCHANGED <<mode, records, rec, db, writeMu, op, issued, purged>>
        /\ fl.pc \in {"rev", "scope"} /\ fl'.pc = IF fl.pc = "rev" THEN "scope" ELSE "next"
        /\ fl'.cur = c /\ fl'.todo = fl.todo /\ fl'.snaps = [fl.snaps EXCEPT ![c] = s]
    BY <1>0, <1>3, Zenon DEF FlushLoad, Flushes
  <2>2. c \in Keys /\ fl.snaps[c] # NoEntry /\ mode # "down"
    BY <1>0, <2>1, Zenon DEF TypeInv, Addressed, Locked
  <2>3. s.rev = (IF fl.pc = "rev" THEN rec[c].rev ELSE fl.snaps[c].rev) /\ s # NoEntry
    <3>1. fl.snaps[c] \in Records /\ rec[c] \in Records
      BY <1>0, <2>2, Zenon
    <3>2. s \in Records
      BY <3>1, LoadType, Zenon
    <3>3. s.rev = IF fl.pc = "rev" THEN rec[c].rev ELSE fl.snaps[c].rev
      BY <2>1, Zenon DEF Load
    <3> QED
      BY <3>2, <3>3, ConstantsAssumption, Zenon
  <2> HIDE DEF s
  <2>4. Known'
    BY <1>0, <2>1, <2>2, Zenon DEF Known
  <2>5. Locked'
    BY <1>0, <2>1, Zenon DEF Locked
  <2>6. PurgesLast'
    BY <1>0, <2>1, <2>2 DEF PurgesLast
  <2>7. RevokedOnce'
    <3>1. \A k \in Keys : db[k] # NoEntry /\ db[k].rev # 0 => rec[k].rev = db[k].rev
      BY <1>0, <2>2, Zenon DEF RevokedOnce
    <3>2. ASSUME NEW k \in Keys, fl'.snaps[k] # NoEntry
          PROVE  /\ fl'.snaps[k].rev # 0 => rec[k].rev = fl'.snaps[k].rev
                 /\ db[k] # NoEntry /\ db[k].rev # 0 /\ ~(fl'.pc = "rev" /\ fl'.cur = k)
                       => fl'.snaps[k].rev = db[k].rev
      BY <1>0, <2>1, <2>2, <2>3, <3>1, <3>2 DEF RevokedOnce
    <3> QED
      BY <1>0, <2>1, <3>2, Zenon DEF RevokedOnce
  <2> QED
    BY <2>4, <2>5, <2>6, <2>7, Zenon DEF FlushSafe
<1>4. CASE FlushCommit
  <2>1. /\ UNCHANGED <<records, rec, op, issued, purged>> /\ writeMu' = FALSE /\ fl.pc = "next"
        /\ mode' \in {mode, "closed"}
        /\ fl'.pc = "idle" /\ fl'.todo = {} /\ \A k \in Keys : fl'.snaps[k] = NoEntry
        /\ \A k \in Keys : db'[k] = db[k] \/ (fl.snaps[k] # NoEntry /\ db'[k] = fl.snaps[k])
    BY <1>4, Zenon DEF FlushCommit, Transaction, NoFlush
  <2>2. mode # "down"
    BY <1>0, <2>1, Zenon DEF Locked
  <2>3. Known'
    BY <1>0, <2>1, Zenon DEF Known
  <2>4. Locked'
    BY <1>0, <2>1, <2>2, Zenon DEF Locked
  <2>5. PurgesLast'
    BY <1>0, <2>1, Zenon DEF PurgesLast
  <2>6. RevokedOnce'
    BY <1>0, <2>1, <2>2 DEF RevokedOnce
  <2> QED
    BY <2>3, <2>4, <2>5, <2>6, Zenon DEF FlushSafe
<1>5. CASE FlusherStop
  <2>1. /\ UNCHANGED <<mode, records, rec, db, writeMu, op, issued, purged>> /\ fl.pc = "idle"
        /\ fl'.pc = "stopped" /\ fl'.todo = fl.todo /\ fl'.snaps = fl.snaps /\ fl'.cur = fl.cur
    BY <1>0, <1>5, Zenon DEF FlusherStop, Flushes
  <2>2. Known' /\ PurgesLast'
    BY <1>0, <2>1, Zenon DEF Known, PurgesLast
  <2>3. Locked' /\ RevokedOnce'
    BY <1>0, <2>1 DEF Locked, RevokedOnce
  <2> QED
    BY <2>2, <2>3, Zenon DEF FlushSafe
<1> QED
  BY <1>1, <1>2, <1>3, <1>4, <1>5, Zenon DEF Flusher

LEMMA ProcessKeeps ==
    ASSUME TypeInv, TypeInv', FlushSafe, Shutdown \/ Crash \/ Restart \/ Tick \/ UNCHANGED vars
    PROVE  FlushSafe'
<1>0. /\ Known /\ Locked /\ PurgesLast /\ RevokedOnce
      /\ db \in [Keys -> Records \cup {NoEntry}] /\ records \subseteq Keys /\ purged \subseteq Keys
  BY Zenon DEF FlushSafe, TypeInv, TypeOK
<1>1. CASE Shutdown \/ Tick \/ UNCHANGED vars
  <2>1. /\ UNCHANGED <<records, rec, db, writeMu, op, fl, issued, purged>>
        /\ mode' = mode \/ (mode # "down" /\ mode' # "down")
    BY <1>1, Zenon DEF Shutdown, Tick, vars
  <2>2. Known' /\ PurgesLast'
    BY <1>0, <2>1, Zenon DEF Known, PurgesLast
  <2>3. Locked' /\ RevokedOnce'
    BY <1>0, <2>1, Zenon DEF Locked, RevokedOnce
  <2> QED
    BY <2>2, <2>3, Zenon DEF FlushSafe
<1>2. CASE Crash
  <2>1. /\ UNCHANGED <<db, issued, purged>> /\ mode' = "down" /\ records' = {} /\ writeMu' = FALSE
        /\ fl'.pc = "idle" /\ fl'.todo = {} /\ \A k \in Keys : fl'.snaps[k] = NoEntry
        /\ \A t \in Threads : op'[t] = Idle
    BY <1>2, Zenon DEF Crash, NoFlush
  <2>2. Idle.pc = "idle" /\ \A t \in Threads : op'[t].pc = "idle"
    BY <2>1 DEF Idle
  <2>3. Known' /\ Locked'
    BY <1>0, <2>1, <2>2, Zenon DEF Known, Locked, SnapshotPCs
  <2>4. PurgesLast' /\ RevokedOnce'
    BY <1>0, <2>1, <2>2, Zenon DEF PurgesLast, RevokedOnce
  <2> QED
    BY <2>3, <2>4, Zenon DEF FlushSafe
<1>3. CASE Restart
  <2>1. /\ UNCHANGED <<db, writeMu, op, fl, issued>> /\ mode = "down" /\ mode' = "up"
        /\ records' = {k \in Keys : Loadable(k)} /\ rec' = [k \in Keys |-> Restored(k)]
        /\ purged' = purged \ Provisioned
    BY <1>3, Zenon DEF Restart
  <2>2. ~writeMu /\ fl.todo = {} /\ (\A k \in Keys : fl.snaps[k] = NoEntry) /\ \A t \in Threads : op[t].pc = "idle"
    BY <1>0, <2>1, Zenon DEF Locked
  <2>3. \A k \in Keys : db[k] # NoEntry => rec'[k].rev = db[k].rev
    BY <2>1, Zenon DEF Restored
  <2>4. Known' /\ Locked'
    BY <1>0, <2>1, <2>2, Zenon DEF Known, Locked, Loadable
  <2>5. PurgesLast' /\ RevokedOnce'
    BY <1>0, <2>1, <2>2, <2>3, Zenon DEF PurgesLast, RevokedOnce, Loadable
  <2> QED
    BY <2>4, <2>5, Zenon DEF FlushSafe
<1> QED
  BY <1>1, <1>2, <1>3, Zenon

LEMMA FlushSafeInit == Init => FlushSafe
<1> SUFFICES ASSUME Init PROVE FlushSafe
  BY Zenon
<1>1. /\ \A t \in Threads : op[t].pc = "idle"
      /\ fl.pc = "idle" /\ fl.todo = {} /\ \A k \in Keys : fl.snaps[k] = NoEntry /\ db[k] = NoEntry
      /\ records = Provisioned /\ issued = Provisioned /\ purged = {} /\ writeMu = FALSE /\ mode = "up"
  BY Zenon DEF Init, Idle, NoFlush
<1> QED
  BY <1>1, Zenon DEF FlushSafe, Known, Locked, PurgesLast, RevokedOnce, SnapshotPCs

LEMMA FlushSafeStep == TypeInv /\ FlushSafe /\ [Next]_vars => FlushSafe'
<1> SUFFICES ASSUME TypeInv, FlushSafe, [Next]_vars PROVE FlushSafe'
  BY Zenon
<1>1. TypeInv'
  BY TypeStep, Zenon
<1> QED
  BY <1>1, BeginKeeps, ContinueKeeps, BucketKeeps, FlusherKeeps, ProcessKeeps, Zenon DEF Next

\* A flush writes no purged key back and replaces no revocation.
LEMMA FlushSafeSuffices ==
    ASSUME TypeInv, FlushSafe, FlushCommit, NEW k \in Keys
    PROVE  /\ db[k] = NoEntry /\ k \in purged => db'[k] = NoEntry
           /\ db[k] # NoEntry /\ db[k].rev # 0 => db'[k].rev = db[k].rev
<1>1. fl.pc = "next" /\ (db'[k] = db[k] \/ (fl.snaps[k] # NoEntry /\ db'[k] = fl.snaps[k]))
  BY Zenon DEF FlushCommit, Transaction
<1> QED
  BY <1>1, Zenon DEF FlushSafe, PurgesLast, RevokedOnce

\* What writeMu is for, under every fault, with any number of handlers: a flush neither
\* writes a purged key back nor replaces a durable revocation by an older snapshot.
THEOREM FlushClobbersNothing == Spec => FlushNeverClobbers
<1>1. TypeInv /\ FlushSafe /\ [Next]_vars =>
        [FlushCommit => \A k \in Keys :
            /\ db[k] = NoEntry /\ k \in purged => db'[k] = NoEntry
            /\ db[k] # NoEntry /\ db[k].rev # 0 => db'[k].rev = db[k].rev]_vars
  BY FlushSafeSuffices, Zenon
<1> QED
  BY <1>1, TypeInit, TypeStep, FlushSafeInit, FlushSafeStep, PTL DEF Spec, FlushNeverClobbers

(***************************************************************************)
(* A PATCH of the scopes under every fault                                 *)
(***************************************************************************)

\* Where a PATCH holds the scopes that it has read and merged.
MergePCs == {"updLookup", "setScopes"}

\* Unless another PATCH has overtaken it, a field that the body does not carry will be
\* stored as it is.
MergeFresh(o) ==
    o.pc \in MergePCs =>
        /\ o.want.m = Unset => o.scope.m = rec[o.key].scope.m
        /\ o.want.p = Unset => o.scope.p = rec[o.key].scope.p

MergesFresh == \A t \in Threads \ overtaken : MergeFresh(op[t])

\* An operation begins without anything read and leaves the records in use alone.
LEMMA BeginReads ==
    ASSUME TypeInv, NEW t \in Threads, Begin(t)
    PROVE  /\ op'[t].pc \notin {"updLookup", "setScopes", "rotScopes", "rotVend"} /\ op'[t].new = NoKey
           /\ now' = now /\ overtaken' = overtaken
           /\ \A u \in Threads \ {t} : op'[u] = op[u]
           /\ \A k \in issued : rec'[k] = rec[k]
<1> DEFINE Begun == /\ op'[t].pc \in {"exp", "cas", "rotExp", "setExpiry", "scopes", "delKey"} /\ op'[t].new = NoKey
                    /\ now' = now /\ overtaken' = overtaken
                    /\ \A u \in Threads \ {t} : op'[u] = op[u]
                    /\ \A k \in issued : rec'[k] = rec[k]
<1>0. op \in [Threads -> Ops] /\ rec \in [Keys -> Records] /\ issued \subseteq Keys
  BY Zenon DEF TypeInv, TypeOK
<1>1. ASSUME NEW k \in Keys, NEW ttl, NEW s, Vend(t, k, ttl, s) PROVE Begun
  BY <1>0, <1>1, Zenon DEF Vend, Insert, Idle
<1>2. ASSUME NEW kind, NEW k \in Keys, NEW label, NEW e, NEW want, Lookup(t, kind, k, label, e, want),
             label \in {"cas", "rotExp", "setExpiry"}
      PROVE  Begun
  BY <1>0, <1>2, Zenon DEF Lookup, Idle
<1>3. ASSUME NEW k \in Keys, NEW want, BeginPatchScopes(t, k, want) PROVE Begun
  BY <1>0, <1>3, Zenon DEF BeginPatchScopes, Idle
<1>4. ASSUME NEW k \in Keys, Delete(t, k) PROVE Begun
  BY <1>0, <1>4, Zenon DEF Delete, Idle
<1>5. Begun
  BY <1>1, <1>2, <1>3, <1>4, Zenon DEF Begin, BeginRevoke, BeginRotate, BeginPatchExpiry
<1> QED
  BY <1>5, Zenon

\* Only UpdateScopes changes the scope of a record in use.
LEMMA MergesKept ==
    ASSUME TypeInv, FlushSafe, MergesFresh, overtaken' = overtaken,
           \A k \in issued : rec'[k].scope = rec[k].scope,
           \A u \in Threads : \/ op'[u] = op[u] \/ op'[u].pc \notin MergePCs
                              \/ /\ op[u].pc \in MergePCs /\ op'[u].key = op[u].key
                                 /\ op'[u].want = op[u].want /\ op'[u].scope = op[u].scope
    PROVE  MergesFresh'
<1>1. ASSUME NEW u \in Threads \ overtaken PROVE MergeFresh(op[u])'
  <2> SUFFICES ASSUME op'[u].pc \in MergePCs PROVE MergeFresh(op[u])'
    BY Zenon DEF MergeFresh
  <2>1. /\ op[u].pc \in MergePCs /\ op'[u].key = op[u].key
        /\ op'[u].want = op[u].want /\ op'[u].scope = op[u].scope
    BY Zenon
  <2>2. op[u].key \in issued
    BY <2>1, Zenon DEF FlushSafe, Known, MergePCs
  <2>3. MergeFresh(op[u])
    BY Zenon DEF MergesFresh
  <2> QED
    BY <2>1, <2>2, <2>3, Zenon DEF MergeFresh
<1> QED
  BY <1>1, Zenon DEF MergesFresh

LEMMA ContinueMerges ==
    ASSUME TypeInv, FlushSafe, MergesFresh, NEW t \in Threads, Continue(t)
    PROVE  MergesFresh'
<1> DEFINE o == op[t]
<1>0. op \in [Threads -> Ops] /\ o \in Ops /\ rec \in [Keys -> Records] /\ issued \subseteq Keys
  BY Zenon DEF TypeInv, TypeOK
<1>1. Idle.pc = "idle" /\ \A k : Snapshot(t, k).pc = "exp"
  BY <1>0, Zenon DEF Idle, Snapshot, Ops
<1>2. ASSUME overtaken' = overtaken, \A k \in issued : rec'[k].scope = rec[k].scope,
             \A u \in Threads \ {t} : op'[u] = op[u], op'[t].pc \notin MergePCs
      PROVE  MergesFresh'
  BY <1>2, MergesKept, Zenon
<1>3. CASE CasRevoked(t) \/ SetExpiry(t)
  <2>1. /\ overtaken' = overtaken /\ \A u \in Threads \ {t} : op'[u] = op[u]
        /\ op'[t] = Idle \/ op'[t] = Snapshot(t, o.key)
    BY <1>0, <1>3, Zenon DEF CasRevoked, SetExpiry, Return
  <2>2. \A k \in issued : rec'[k].scope = rec[k].scope
    BY <1>0, <1>3 DEF CasRevoked, SetExpiry, Records
  <2> QED
    BY <1>1, <1>2, <2>1, <2>2, Zenon DEF MergePCs
<1>4. CASE RotateReadExpiry(t) \/ RotateReadScopes(t) \/ SnapshotLoad(t) \/ PersistKey(t) \/ DeleteKey(t)
  <2>1. overtaken' = overtaken /\ rec' = rec /\ \A u \in Threads \ {t} : op'[u] = op[u]
    BY <1>0, <1>4, Zenon DEF RotateReadExpiry, RotateReadScopes, SnapshotLoad, PersistKey, DeleteKey, Return
  <2>2. op'[t].pc \notin MergePCs
    <3>1. CASE RotateReadExpiry(t)
      <4>1. PICK e : op' = [op EXCEPT ![t] = [@ EXCEPT !.pc = "rotScopes", !.exp = e]]
        BY <3>1, Zenon DEF RotateReadExpiry
      <4> QED
        BY <1>0, <4>1, Zenon DEF Ops, MergePCs
    <3>2. CASE RotateReadScopes(t)
      BY <1>0, <3>2, Zenon DEF RotateReadScopes, Ops, MergePCs
    <3>3. CASE SnapshotLoad(t)
      BY <1>0, <3>3 DEF SnapshotLoad, AfterLoad, Ops, MergePCs
    <3>4. CASE PersistKey(t)
      BY <1>0, <1>1, <3>4 DEF PersistKey, AfterPersist, Ops, MergePCs
    <3>5. CASE DeleteKey(t)
      BY <1>0, <1>1, <3>5, Zenon DEF DeleteKey, Return, MergePCs
    <3> QED
      BY <1>4, <3>1, <3>2, <3>3, <3>4, <3>5, Zenon
  <2> QED
    BY <1>2, <2>1, <2>2, Zenon
<1>5. ASSUME NEW k \in Keys, RotateVend(t, k) PROVE MergesFresh'
  <2>1. /\ overtaken' = overtaken /\ \A u \in Threads \ {t} : op'[u] = op[u]
        /\ \A x \in issued : rec'[x] = rec[x]
    BY <1>0, <1>5, Zenon DEF RotateVend, Insert
  <2>2. op'[t].pc = "exp"
    BY <1>0, <1>5, Zenon DEF RotateVend, Ops
  <2> QED
    BY <1>2, <2>1, <2>2, Zenon DEF MergePCs
<1>6. CASE UpdateScopesLookup(t)
  <2>1. overtaken' = overtaken /\ rec' = rec /\ o.pc \in MergePCs /\ \A u \in Threads \ {t} : op'[u] = op[u]
    BY <1>0, <1>6, Zenon DEF UpdateScopesLookup, Return, Goto, MergePCs
  <2>2. \/ op'[t].pc \notin MergePCs
        \/ op'[t].key = o.key /\ op'[t].want = o.want /\ op'[t].scope = o.scope
    BY <1>0, <1>1, <1>6 DEF UpdateScopesLookup, Return, Goto, Ops, MergePCs
  <2> QED
    BY <2>1, <2>2, MergesKept, Zenon
<1>7. CASE ReadScopes(t)
  <2>1. overtaken' = overtaken \ {t} /\ rec' = rec /\ \A u \in Threads \ {t} : op'[u] = op[u]
    BY <1>0, <1>7, Zenon DEF ReadScopes, Return
  <2>2. ASSUME op'[t].pc \in MergePCs
        PROVE  /\ op'[t].key = o.key /\ op'[t].want = o.want
               /\ op'[t].scope = [m |-> Pick(o.want.m, rec[o.key].scope.m),
                                  p |-> Pick(o.want.p, rec[o.key].scope.p)]
    <3>1. ~Return(t)
      BY <1>0, <1>1, <2>2, Zenon DEF Return, MergePCs
    <3>2. op' = [op EXCEPT ![t] = [@ EXCEPT !.pc = "updLookup",
                     !.scope = [m |-> Pick(op[t].want.m, rec[op[t].key].scope.m),
                                p |-> Pick(op[t].want.p, rec[op[t].key].scope.p)]]]
      BY <1>7, <3>1, Zenon DEF ReadScopes
    <3> QED
      BY <1>0, <3>2, Zenon DEF Ops
  <2>3. MergeFresh(op[t])'
    BY <2>1, <2>2 DEF MergeFresh, Pick
  <2>4. ASSUME NEW u \in Threads \ overtaken, u # t PROVE MergeFresh(op[u])'
    BY <2>1, <2>4, Zenon DEF MergesFresh, MergeFresh
  <2> QED
    BY <2>1, <2>3, <2>4, Zenon DEF MergesFresh
<1>8. CASE UpdateScopes(t)
  <2>1. /\ overtaken' = {u \in Threads \ {t} : u \in overtaken \/ Merging(u, o.key)}
        /\ \A u \in Threads \ {t} : op'[u] = op[u]
        /\ \A k \in Keys \ {o.key} : rec'[k] = rec[k]
    BY <1>0, <1>8, Zenon DEF UpdateScopes
  <2>2. op'[t].pc = "exp"
    BY <1>0, <1>8, Zenon DEF UpdateScopes, Snapshot, Ops
  <2>3. ASSUME NEW u \in Threads \ overtaken', u # t PROVE MergeFresh(op[u])'
    <3>1. u \notin overtaken /\ ~Merging(u, o.key)
      BY <2>1, <2>3, Zenon
    <3>2. MergeFresh(op[u])
      BY <2>3, <3>1, Zenon DEF MergesFresh
    <3>3. op[u].pc \in MergePCs => op[u].key \in issued /\ op[u].key # o.key
      BY <2>3, <3>1, Zenon DEF FlushSafe, Known, Merging, MergePCs
    <3> QED
      BY <1>0, <2>1, <2>3, <3>2, <3>3, Zenon DEF MergeFresh
  <2>4. MergeFresh(op[t])'
    BY <2>2, Zenon DEF MergeFresh, MergePCs
  <2> QED
    BY <2>3, <2>4, Zenon DEF MergesFresh
<1> QED
  BY <1>3, <1>4, <1>5, <1>6, <1>7, <1>8 DEF Continue

LEMMA MergesFreshStep == TypeInv /\ FlushSafe /\ MergesFresh /\ [Next]_vars => MergesFresh'
<1> SUFFICES ASSUME TypeInv, FlushSafe, MergesFresh, [Next]_vars PROVE MergesFresh'
  BY Zenon
<1>1. ASSUME NEW t \in Threads, Begin(t) PROVE MergesFresh'
  <2>1. /\ op'[t].pc \notin MergePCs /\ overtaken' = overtaken
        /\ \A u \in Threads \ {t} : op'[u] = op[u]
        /\ \A k \in issued : rec'[k] = rec[k]
    BY <1>1, BeginReads, Zenon DEF MergePCs
  <2> QED
    BY <2>1, MergesKept, Zenon
<1>2. CASE Flusher \/ Shutdown \/ Tick \/ UNCHANGED vars
  <2>1. op' = op /\ rec' = rec /\ overtaken' = overtaken
    BY <1>2, Zenon DEF Flusher, FlushBegin, FlushPick, FlushLoad, FlushCommit, FlusherStop, Shutdown, Tick, vars
  <2> QED
    BY <2>1, MergesKept, Zenon
<1>3. CASE Crash \/ Restart
  <2>1. \A u \in Threads : op'[u].pc = "idle"
    <3>1. CASE Crash
      BY <3>1, IdleStates, Zenon DEF Crash
    <3>2. CASE Restart
      BY <3>2, Zenon DEF Restart, FlushSafe, Locked
    <3> QED
      BY <1>3, <3>1, <3>2, Zenon
  <2> QED
    BY <2>1, Zenon DEF MergesFresh, MergeFresh, MergePCs
<1> QED
  BY <1>1, <1>2, <1>3, ContinueMerges, Zenon DEF Next

\* Under every fault and with any number of overlapping operations, PATCH stores a field
\* that its body does not carry as it is in the record, although it read the field two
\* lookups earlier: revocations, rotations, purges, flushes, crashes and restarts never
\* come between, and only another PATCH of the key can.
THEOREM PatchesKeep == Spec => PatchKeepsUnsentFields
<1> DEFINE Kept(t) == UpdateScopes(t) =>
              LET old == rec[op[t].key].scope
                  new == rec'[op[t].key].scope
              IN  /\ op[t].want.m = Unset => new.m = old.m
                  /\ op[t].want.p = Unset => new.p = old.p
<1>1. ASSUME TypeInv, MergesFresh, NEW t \in Threads \ overtaken PROVE Kept(t)
  <2> SUFFICES ASSUME UpdateScopes(t) PROVE Kept(t)
    BY Zenon
  <2>1. op[t].pc = "setScopes" /\ op[t].key \in Keys /\ MergeFresh(op[t])
    BY <1>1, Zenon DEF UpdateScopes, TypeInv, Addressed, MergesFresh
  <2>2. rec'[op[t].key].scope = op[t].scope
    BY <1>1, <2>1 DEF UpdateScopes, TypeInv, TypeOK, Records
  <2> QED
    BY <2>1, <2>2, Zenon DEF MergeFresh, MergePCs
<1>2. TypeInv /\ MergesFresh /\ [Next]_vars => [\A t \in Threads \ overtaken : Kept(t)]_vars
  BY <1>1, Zenon
<1>3. Init => MergesFresh
  <2>1. ASSUME Init, NEW t \in Threads PROVE op[t].pc = "idle"
    BY <2>1, IdleStates, Zenon DEF Init
  <2> QED
    BY <2>1, Zenon DEF MergesFresh, MergeFresh, MergePCs
<1> QED
  BY <1>2, <1>3, TypeInit, TypeStep, FlushSafeInit, FlushSafeStep, MergesFreshStep, PTL
  DEF Spec, PatchKeepsUnsentFields

(***************************************************************************)
(* Revocations without faults                                              *)
(***************************************************************************)

\* A durable revocation is never overwritten by an older snapshot, whoever writes it.
LEMMA RevocationStep ==
    ASSUME NoFaults, TypeInv, WriteThrough, FlushSafe, [Next]_vars, NEW k \in Keys,
           db[k] # NoEntry, db'[k] # NoEntry, db[k].rev # 0
    PROVE  db'[k].rev = db[k].rev
<1>0. op \in [Threads -> Ops] /\ db \in [Keys -> Records \cup {NoEntry}]
  BY Zenon DEF TypeInv, TypeOK
<1>1. CASE FlushCommit
  BY <1>1, FlushSafeSuffices, Zenon
<1>2. ASSUME NEW t \in Threads, PersistKey(t) PROVE db'[k].rev = db[k].rev
  <2>1. op[t].pc = "persist" /\ (db' = [db EXCEPT ![op[t].cur] = op[t].snap] \/ db' = db)
    BY <1>2, Zenon DEF PersistKey, Transaction
  <2>2. op[t].snap.rev = rec[op[t].cur].rev /\ mode # "down"
    BY <2>1, Zenon DEF WriteThrough, SnapshotFresh, ModeInStep
  <2>3. rec[k].rev = db[k].rev
    BY <2>2, Zenon DEF FlushSafe, RevokedOnce
  <2> QED
    BY <1>0, <2>1, <2>2, <2>3, Zenon
<1>3. ASSUME NEW t \in Threads, DeleteKey(t) PROVE db'[k].rev = db[k].rev
  BY <1>0, <1>3, Zenon DEF DeleteKey, Transaction
<1>4. CASE db' = db
  BY <1>4, Zenon
<1>5. ASSUME NEW t \in Threads, Begin(t) PROVE db' = db
  BY <1>5, Zenon DEF Begin, Vend, BeginRevoke, BeginRotate, BeginPatchExpiry, BeginPatchScopes, Lookup, Delete
<1>6. ASSUME NEW t \in Threads, Continue(t), ~PersistKey(t), ~DeleteKey(t) PROVE db' = db
  BY <1>6, Zenon DEF Continue, CasRevoked, SetExpiry, ReadScopes, UpdateScopesLookup, UpdateScopes,
              RotateReadExpiry, RotateReadScopes, RotateVend, SnapshotLoad
<1>7. CASE Flusher /\ ~FlushCommit
  BY <1>7, Zenon DEF Flusher, FlushBegin, FlushPick, FlushLoad, FlusherStop
<1> QED
  BY <1>1, <1>2, <1>3, <1>4, <1>5, <1>6, <1>7 DEF Next, Shutdown, Crash, Restart, Tick, vars

\* With one operation per key at a time, a working disk and a drained shutdown, a
\* revocation that has reached the bucket stays there until the key is purged.
THEOREM RevocationsLast ==
    ASSUME NoFaults
    PROVE  Spec => RevocationStaysDurable
<1>1. TypeInv /\ WriteThrough /\ FlushSafe /\ [Next]_vars =>
        [\A k \in Keys : (db[k] # NoEntry /\ db'[k] # NoEntry)
                             => (db[k].rev # 0 => db'[k].rev = db[k].rev)]_vars
  BY RevocationStep, Zenon
<1> QED
  BY <1>1, WriteThroughHolds, TypeInit, TypeStep, FlushSafeInit, FlushSafeStep, PTL
  DEF Spec, RevocationStaysDurable


\* A new key that expires at e outlives what is left of the old key's lifetime.
Covers(e, old) == (rec[old].exp > now => e >= rec[old].exp) /\ (rec[old].exp = 0 => e = 0)

\* What Rotate has read is still good: the new key has the scope and the lifetime of
\* the old.
OpFresh(o) ==
    /\ o.pc \in {"rotScopes", "rotVend"} => Covers(Lifetime(o.exp), o.key)
    /\ o.pc = "rotVend" => o.scope = rec[o.key].scope
    /\ o.new # NoKey => /\ o.new # o.key
                        /\ rec[o.new].scope = rec[o.key].scope
                        /\ Covers(rec[o.new].exp, o.key)

OpsFresh == \A t \in Threads : OpFresh(op[t])

\* Where Rotate holds something that it has read.
ReadPCs == {"rotScopes", "rotVend"}

\* An operation with nothing read and no new key has nothing to keep.
LEMMA NothingRead ==
    ASSUME NEW t \in Threads, op'[t].pc \notin ReadPCs, op'[t].new = NoKey
    PROVE  OpFresh(op[t])'
BY Zenon DEF OpFresh, ReadPCs

\* No other operation works on the keys of thread t, so that only t can make what it
\* has read stale.
LEMMA OthersFresh ==
    ASSUME TypeInv, WriteThrough, OpsFresh, NEW t \in Threads, now' = now,
           \A u \in Threads \ {t} : op'[u] = op[u],
           \A k \in issued \ {op[t].key} : rec'[k] = rec[k],
           OpFresh(op[t])'
    PROVE  OpsFresh'
<1>1. ASSUME NEW u \in Threads \ {t} PROVE OpFresh(op[u])'
  <2> DEFINE o == op[u]
  <2>0. o.key \in issued \cup {NoKey} /\ o.new \in issued \cup {NoKey}
    BY Zenon DEF WriteThrough, OneOpPerKey, Busy
  <2>1. (o.key # NoKey => o.key # op[t].key) /\ (o.new # NoKey => o.new # op[t].key)
    <3>1. Busy(u) \cap Busy(t) \subseteq {NoKey}
      BY Zenon DEF WriteThrough, OneOpPerKey
    <3> QED
      BY <3>1, Zenon DEF Busy
  <2>2. OpFresh(o)
    BY Zenon DEF OpsFresh
  <2>3. (o.pc # "idle" => o.key # NoKey) /\ (o.pc = "idle" => o.new = NoKey)
    BY ConstantsAssumption DEF TypeInv, Addressed, WriteThrough, OpShape
  <2>4. CASE o.pc = "idle"
    BY <1>1, <2>3, <2>4, NothingRead, Zenon DEF ReadPCs
  <2>5. CASE o.pc # "idle"
    <3>1. rec'[o.key] = rec[o.key] /\ (o.new # NoKey => rec'[o.new] = rec[o.new])
      BY <2>0, <2>1, <2>3, <2>5, Zenon
    <3> QED
      BY <1>1, <2>2, <3>1, Zenon DEF OpFresh, Covers, Lifetime
  <2> QED
    BY <2>4, <2>5, Zenon
<1> QED
  BY <1>1, Zenon DEF OpsFresh

\* An operation begins with nothing read.
LEMMA BeginFresh ==
    ASSUME TypeInv, WriteThrough, OpsFresh, NEW t \in Threads, Begin(t)
    PROVE  OpsFresh'
BY BeginReads, NothingRead, OthersFresh, Zenon DEF ReadPCs

\* An operation that goes on reads what is there, or leaves what it has read alone.
LEMMA ContinueFresh ==
    ASSUME TypeInv, WriteThrough, OpsFresh, NEW t \in Threads, Continue(t)
    PROVE  OpsFresh'
<1> DEFINE o == op[t]
           K == o.key
<1>0. /\ op \in [Threads -> Ops] /\ o \in Ops /\ rec \in [Keys -> Records] /\ issued \subseteq Keys
      /\ now \in Nat /\ OpFresh(o)
      /\ o.pc # "idle" => K \in Keys /\ K \in issued
  BY ConstantsAssumption DEF TypeInv, TypeOK, Addressed, OpsFresh, WriteThrough, OneOpPerKey, Busy
<1>1. o.new # NoKey => o.new \in Keys /\ o.new # K /\ o.pc \in SnapshotPCs \cup {"cas"}
  BY <1>0, Zenon DEF OpFresh, WriteThrough, OpShape, TypeInv, TypeOK
<1>2. Idle.pc = "idle" /\ Idle.new = NoKey
      /\ Snapshot(t, K).pc = "exp" /\ Snapshot(t, K).key = K /\ Snapshot(t, K).new = o.new
  BY <1>0, Zenon DEF Idle, Snapshot, Ops
<1>3. ASSUME now' = now, \A u \in Threads \ {t} : op'[u] = op[u],
             \A k \in Keys \ {K} : rec'[k] = rec[k],
             o.new # NoKey => rec'[K].scope = rec[K].scope /\ rec'[K].exp = rec[K].exp,
             op'[t] = Idle \/ (op'[t].key = K /\ op'[t].new = o.new /\ op'[t].pc \notin ReadPCs)
      PROVE  OpsFresh'
  <2>1. CASE op'[t].new = NoKey
    BY <1>0, <1>2, <1>3, <2>1, NothingRead, OthersFresh, Zenon DEF ReadPCs
  <2>2. CASE op'[t].new # NoKey
    <3>1. op'[t].key = K /\ op'[t].new = o.new /\ op'[t].pc \notin ReadPCs /\ o.new # NoKey
      BY <1>2, <1>3, <2>2, Zenon
    <3>2. rec'[o.new] = rec[o.new] /\ rec'[K].scope = rec[K].scope /\ rec'[K].exp = rec[K].exp
      BY <1>1, <1>3, <3>1, Zenon
    <3>3. OpFresh(op[t])'
      BY <1>0, <1>3, <3>1, <3>2, Zenon DEF OpFresh, Covers, ReadPCs
    <3> QED
      BY <1>0, <1>3, <3>3, OthersFresh, Zenon
  <2> QED
    BY <2>1, <2>2, Zenon
<1>4. CASE CasRevoked(t)
  <2>1. now' = now /\ o.pc = "cas" /\ (op'[t] = Idle \/ op'[t] = Snapshot(t, K))
        /\ \A u \in Threads \ {t} : op'[u] = op[u]
    BY <1>0, <1>4, Zenon DEF CasRevoked, Return
  <2>2. \A k \in Keys \ {K} : rec'[k] = rec[k]
    BY <1>0, <1>4, Zenon DEF CasRevoked
  <2>3. rec'[K].scope = rec[K].scope /\ rec'[K].exp = rec[K].exp
    BY <1>0, <1>4, <2>1 DEF CasRevoked, Records
  <2> QED
    BY <1>2, <1>3, <2>1, <2>2, <2>3, Zenon DEF ReadPCs
<1>5. CASE SetExpiry(t)
  <2>1. now' = now /\ o.pc = "setExpiry" /\ op'[t] = Snapshot(t, K) /\ \A u \in Threads \ {t} : op'[u] = op[u]
    BY <1>0, <1>5, Zenon DEF SetExpiry
  <2>2. \A k \in Keys \ {K} : rec'[k] = rec[k]
    BY <1>0, <1>5, Zenon DEF SetExpiry
  <2> QED
    BY <1>1, <1>2, <1>3, <2>1, <2>2, Zenon DEF ReadPCs, SnapshotPCs
<1>6. CASE UpdateScopes(t)
  <2>1. now' = now /\ o.pc = "setScopes" /\ \A u \in Threads \ {t} : op'[u] = op[u]
    BY <1>0, <1>6, Zenon DEF UpdateScopes
  <2>2. op'[t].pc = "exp" /\ op'[t].key = K /\ op'[t].new = o.new
    BY <1>0, <1>6, Zenon DEF UpdateScopes, Snapshot, Ops
  <2>3. \A k \in Keys \ {K} : rec'[k] = rec[k]
    BY <1>0, <1>6, Zenon DEF UpdateScopes
  <2> QED
    BY <1>1, <1>3, <2>1, <2>2, <2>3, Zenon DEF ReadPCs, SnapshotPCs
<1>7. CASE SnapshotLoad(t) \/ PersistKey(t) \/ DeleteKey(t) \/ ReadScopes(t) \/ UpdateScopesLookup(t)
  <2>1. now' = now /\ rec' = rec /\ \A u \in Threads \ {t} : op'[u] = op[u]
    BY <1>0, <1>7, Zenon
    DEF SnapshotLoad, PersistKey, DeleteKey, ReadScopes, UpdateScopesLookup, Return, Goto
  <2>2. op'[t] = Idle \/ (op'[t].key = K /\ op'[t].new = o.new /\ op'[t].pc \notin ReadPCs)
    <3>1. CASE SnapshotLoad(t)
      BY <1>0, <3>1 DEF SnapshotLoad, AfterLoad, Ops, ReadPCs
    <3>2. CASE PersistKey(t)
      BY <1>0, <3>2 DEF PersistKey, AfterPersist, Ops, ReadPCs
    <3>3. CASE DeleteKey(t)
      BY <1>0, <3>3, Zenon DEF DeleteKey, Return
    <3>4. CASE ReadScopes(t)
      BY <1>0, <3>4, Zenon DEF ReadScopes, Return, Ops, ReadPCs
    <3>5. CASE UpdateScopesLookup(t)
      BY <1>0, <3>5 DEF UpdateScopesLookup, Return, Goto, Ops, ReadPCs
    <3> QED
      BY <1>7, <3>1, <3>2, <3>3, <3>4, <3>5, Zenon
  <2> QED
    BY <1>3, <2>1, <2>2, Zenon
<1>8. ASSUME now' = now, rec' = rec, \A u \in Threads \ {t} : op'[u] = op[u], OpFresh(op[t])'
      PROVE  OpsFresh'
  BY <1>8, OthersFresh, Zenon
<1>9. CASE RotateReadExpiry(t)
  <2> DEFINE left == rec[K].exp - now
             e == IF left > 0 THEN left ELSE 0
  <2>1. now' = now /\ rec' = rec /\ o.pc = "rotExp" /\ \A u \in Threads \ {t} : op'[u] = op[u]
    BY <1>0, <1>9, Zenon DEF RotateReadExpiry
  <2>2. op' = [op EXCEPT ![t] = [@ EXCEPT !.pc = "rotScopes", !.exp = e]]
    BY <1>9, Zenon DEF RotateReadExpiry
  <2>3. rec[K].exp \in Nat
    BY <1>0, <2>1, Zenon DEF Records
  <2>4. Covers(Lifetime(e), K)
    BY <1>0, <2>3 DEF Covers, Lifetime
  <2> HIDE DEF e
  <2>5. op'[t].pc = "rotScopes" /\ op'[t].exp = e /\ op'[t].key = K /\ op'[t].new = o.new
    BY <1>0, <2>2, Zenon DEF Ops
  <2>6. o.new = NoKey
    BY <1>1, <2>1, Zenon DEF SnapshotPCs
  <2>7. OpFresh(op[t])'
    BY <2>1, <2>4, <2>5, <2>6, Zenon DEF OpFresh, Covers, Lifetime
  <2> QED
    BY <1>8, <2>1, <2>7, Zenon
<1>10. CASE RotateReadScopes(t)
  <2>1. now' = now /\ rec' = rec /\ o.pc = "rotScopes" /\ \A u \in Threads \ {t} : op'[u] = op[u]
    BY <1>0, <1>10, Zenon DEF RotateReadScopes
  <2>2. /\ op'[t].pc = "rotVend" /\ op'[t].exp = o.exp /\ op'[t].key = K /\ op'[t].new = o.new
        /\ op'[t].scope = rec[K].scope
    BY <1>0, <1>10, Zenon DEF RotateReadScopes, Ops
  <2>3. o.new = NoKey
    BY <1>1, <2>1, Zenon DEF SnapshotPCs
  <2>4. OpFresh(op[t])'
    BY <1>0, <2>1, <2>2, <2>3, Zenon DEF OpFresh, Covers, Lifetime
  <2> QED
    BY <1>8, <2>1, <2>4, Zenon
<1>11. ASSUME NEW k \in Keys, RotateVend(t, k) PROVE OpsFresh'
  <2>1. /\ now' = now /\ o.pc = "rotVend" /\ k \notin issued /\ \A u \in Threads \ {t} : op'[u] = op[u]
        /\ rec' = [rec EXCEPT ![k] = NewRecord(Lifetime(o.exp), o.scope)]
    BY <1>0, <1>11, Zenon DEF RotateVend, Insert
  <2>2. op'[t].pc = "exp" /\ op'[t].key = K /\ op'[t].new = k
    BY <1>0, <1>11, Zenon DEF RotateVend, Ops
  <2>3. /\ \A x \in issued : rec'[x] = rec[x]
        /\ rec'[k].scope = o.scope /\ rec'[k].exp = Lifetime(o.exp) /\ k # K
    BY <1>0, <2>1, Zenon DEF NewRecord
  <2>4. OpFresh(op[t])'
    BY <1>0, <2>1, <2>2, <2>3, Zenon DEF OpFresh, Covers, Lifetime
  <2> QED
    BY <2>1, <2>3, <2>4, OthersFresh, Zenon
<1> QED
  BY <1>4, <1>5, <1>6, <1>7, <1>9, <1>10, <1>11 DEF Continue

\* The flush and the life of the process: no record changes while operations are under
\* way, and time shortens what is left of an old key no less than of the new one.
LEMMA ProcessFresh ==
    ASSUME TypeInv, WriteThrough, OpsFresh,
           Flusher \/ Shutdown \/ Crash \/ Restart \/ Tick \/ UNCHANGED vars
    PROVE  OpsFresh'
<1>1. CASE op' = op /\ rec' = rec /\ now' = now
  BY <1>1, Zenon DEF OpsFresh, OpFresh, Covers, Lifetime
<1>2. CASE \A t \in Threads : op'[t].pc \notin ReadPCs /\ op'[t].new = NoKey
  BY <1>2, NothingRead, Zenon DEF OpsFresh
<1>3. CASE Crash
  BY <1>2, <1>3, Zenon DEF Crash, Idle, ReadPCs
<1>4. CASE Restart
  <2>1. op' = op /\ \A t \in Threads : op[t].pc = "idle"
    BY <1>4, Zenon DEF Restart, WriteThrough, ModeInStep
  <2>2. \A t \in Threads : op[t].new = NoKey
    BY <2>1, Zenon DEF WriteThrough, OpShape
  <2> QED
    BY <1>2, <2>1, <2>2, Zenon DEF ReadPCs
<1>5. CASE Tick
  <2>1. op' = op /\ rec' = rec /\ now' = now + 1 /\ now \in Nat
    BY <1>5, Zenon DEF Tick, TypeInv, TypeOK
  <2>2. ASSUME NEW t \in Threads PROVE OpFresh(op[t])'
    <3> DEFINE o == op[t]
    <3>0. OpFresh(o) /\ o.exp \in Nat
      BY Zenon DEF OpsFresh, TypeInv, TypeOK, Ops
    <3>1. o.pc \in {"rotScopes", "rotVend"} \/ o.new # NoKey => rec[o.key].exp \in Nat
      BY Zenon DEF TypeInv, TypeOK, Records, Addressed, WriteThrough, OpShape
    <3>2. o.new # NoKey => rec[o.new].exp \in Nat
      BY Zenon DEF TypeInv, TypeOK, Records, Ops
    <3>3. o.pc \in {"rotScopes", "rotVend"} => Covers(Lifetime(o.exp), o.key)'
      <4> SUFFICES ASSUME o.pc \in {"rotScopes", "rotVend"} PROVE Covers(Lifetime(o.exp), o.key)'
        BY Zenon
      <4>1. Covers(Lifetime(o.exp), o.key)
        BY <3>0, Zenon DEF OpFresh
      <4> QED
        BY <2>1, <3>0, <3>1, <4>1 DEF Covers, Lifetime
    <3>4. o.new # NoKey => Covers(rec[o.new].exp, o.key)'
      <4> SUFFICES ASSUME o.new # NoKey PROVE Covers(rec[o.new].exp, o.key)'
        BY Zenon
      <4>1. Covers(rec[o.new].exp, o.key)
        BY <3>0, Zenon DEF OpFresh
      <4> QED
        BY <2>1, <3>1, <3>2, <4>1 DEF Covers
    <3> QED
      BY <2>1, <3>0, <3>3, <3>4, Zenon DEF OpFresh
  <2> QED
    BY <2>2, Zenon DEF OpsFresh
<1>6. CASE Flusher \/ Shutdown \/ UNCHANGED vars
  <2>1. op' = op /\ rec' = rec /\ now' = now
    BY <1>6, Zenon DEF Flusher, FlushBegin, FlushPick, FlushLoad, FlushCommit, FlusherStop, Shutdown, vars
  <2> QED
    BY <1>1, <2>1, Zenon
<1> QED
  BY <1>3, <1>4, <1>5, <1>6, Zenon

LEMMA OpsFreshInit == Init => OpsFresh
<1> SUFFICES ASSUME Init, NEW t \in Threads PROVE OpFresh(op[t])
  BY Zenon DEF OpsFresh
<1>1. op[t].pc = "idle" /\ op[t].new = NoKey
  BY Zenon DEF Init, Idle
<1> QED
  BY <1>1, Zenon DEF OpFresh

LEMMA OpsFreshStep ==
    ASSUME TypeInv, WriteThrough, OpsFresh, [Next]_vars
    PROVE  OpsFresh'
BY BeginFresh, ContinueFresh, ProcessFresh, Zenon DEF Next

\* With no fault, before Rotate revokes the old key the new one is in memory and in the
\* bucket, with the scope of the old key and at least what is left of its lifetime.
THEOREM RotationsHandOver ==
    ASSUME NoFaults
    PROVE  Spec => []RotationHandsOver
<1>1. ASSUME TypeInv, WriteThrough, OpsFresh PROVE RotationHandsOver
  <2> SUFFICES ASSUME NEW t \in Threads, op[t].kind = "rotate", op[t].new # NoKey, op[t].cur # op[t].new
               PROVE  /\ op[t].new \in records /\ Loadable(op[t].new) /\ Restored(op[t].new) = rec[op[t].new]
                      /\ rec[op[t].new].scope = rec[op[t].key].scope
                      /\ rec[op[t].key].exp > now => rec[op[t].new].exp >= rec[op[t].key].exp
                      /\ rec[op[t].key].exp = 0 => rec[op[t].new].exp = 0
    BY Zenon DEF RotationHandsOver
  <2> DEFINE n == op[t].new
  <2>1. n \in records /\ n \in Keys /\ op[t].pc # "idle"
    BY <1>1, Zenon DEF WriteThrough, OpShape, TypeInv, TypeOK, SnapshotPCs
  <2>2. mode = "up"
    BY <1>1, <2>1, Zenon DEF WriteThrough, ModeInStep
  <2>3. ~Dirty(n)
    <3>1. \A u \in Threads \ {t} : n \notin Busy(u)
      BY <1>1, <2>1, Zenon DEF WriteThrough, OneOpPerKey, Busy
    <3>2. \A u \in Threads : op[u].pc \in SnapshotPCs => op[u].cur \in Busy(u)
      BY <1>1, Zenon DEF WriteThrough, OpShape, Busy
    <3> QED
      BY <3>1, <3>2, Zenon DEF Dirty
  <2>4. Loadable(n) /\ rec[n] = Stored(n)
    BY <1>1, <2>1, <2>2, <2>3 DEF WriteThrough, BucketInStep
  <2>5. OpFresh(op[t])
    BY <1>1, Zenon DEF OpsFresh
  <2>6. Restored(n) = rec[n]
    BY <1>1, <2>1, <2>4, RestoredIsStored, Zenon DEF TypeInv
  <2>7. rec[n].scope = rec[op[t].key].scope /\ Covers(rec[n].exp, op[t].key)
    BY <2>5, Zenon DEF OpFresh
  <2> QED
    BY <2>1, <2>4, <2>6, <2>7, Zenon DEF Covers
<1>2. TypeInv /\ WriteThrough /\ OpsFresh => RotationHandsOver
  BY <1>1, Zenon
<1>3. TypeInv /\ WriteThrough /\ OpsFresh /\ [Next]_vars => OpsFresh'
  BY OpsFreshStep, Zenon
<1> QED
  BY <1>2, <1>3, WriteThroughHolds, TypeInit, TypeStep, OpsFreshInit, PTL DEF Spec
=============================================================================
