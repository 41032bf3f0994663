------------------------------ MODULE ZdbStore ------------------------------
(***************************************************************************)
(* The record store of a database of z/zdb (class ZdbAny of Zdb.hpp and    *)
(* Zdb.cpp): records in memory that the application allocates, commits,    *)
(* updates, deletes and purges, a cache of them, a write thread that       *)
(* brings them to files of FileRecs records, and recovery from the files.  *)
(*                                                                         *)
(* A call of the application is one action: it holds the lock where it     *)
(* changes shared state, but has released it when it queues the write, so  *)
(* the writes of several threads are queued in any order (see Queue).  The *)
(* write thread's writes, purge() and a crash interleave with the calls.   *)
(* A record in memory (a POD) has an identity: the application may delete  *)
(* one whose write is still queued.                                        *)
(*                                                                         *)
(* External: the application's threads, the file system (what was written  *)
(* survives a crash of the process) and read and write errors (none).      *)
(***************************************************************************)
EXTENDS Integers, Sequences, SequencesExt, FiniteSetsExt, Functions, TLC

CONSTANTS
  FileRecs,    \* records in a file
  CacheSize,   \* initial size of the cache
  FilesMax,    \* files kept open
  MaxRN,       \* bound: record numbers allocated
  Pods,        \* bound: records in memory, as numbers
  MaxHeld,     \* bound: records allocated and not committed
  MaxQueue,    \* bound: writes queued
  MaxPurges,   \* bound: calls of purge()
  MaxCrashes,  \* bound: crashes
  InOrder,     \* whether the application commits records in the order it allocates them
  DelQueued    \* whether it deletes records whose write is queued

ASSUME StoreAssumption ==
  /\ FileRecs \in Nat \ {0} /\ CacheSize \in Nat /\ FilesMax \in Nat \ {0}
  /\ MaxRN \in Nat \ {0} /\ Pods \subseteq Nat \ {0} /\ MaxPurges \in Nat /\ MaxCrashes \in Nat

VARIABLES
  mem,      \* records in memory, m_cache, m_lru, m_cacheSize
  fs,       \* the files, m_files with their bitmaps, m_filesLRU, m_lastFile
  nextRN, minRN, fileRN,
  held,     \* records of the application that are not committed
  queue,    \* the write thread's queue, with the writes that are committed and not in it yet
  writer,   \* the write() the write thread is in
  purging,  \* the purge() a thread is in
  recovering,  \* the records recover() has still to bring back, before anything else is done
  purges, crashes,
  older,    \* history: the versions each record was allocated to replace
  live,     \* history: records committed, and not replaced, deleted or purged
  kept,     \* history: records that were written, and whose erasure was not begun
  filled,   \* history: records whose place in a file was marked deleted before they were written
  gapped,   \* history: whether a record was written after a place in its file that never was
  erased,   \* history: records whose write was completed, with the erasure of what they replace
  late,     \* history: versions whose write was queued after that of a later one
  torn      \* history: whether a crash interrupted such an erasure

numbers == <<nextRN, minRN, fileRN>>
history == <<older, live, kept, filled, gapped, erased, late, torn>>
vars == <<mem, fs, numbers, held, queue, writer, purging, recovering, purges, crashes, history>>

RN == 0..(MaxRN - 1)
Slot == 0..(FileRecs - 1)
FileOf(rn) == rn \div FileRecs
SlotOf(rn) == rn % FileRecs

Magic == {"zero", "allocated", "committed", "deleted"}
Trailer == [rn : RN, prev : RN, magic : Magic]
Zero == [rn |-> 0, prev |-> 0, magic |-> "zero"]
Op == {"none", "add", "upd", "del"}
Idle == [pod |-> 0]

TypeOK ==
  /\ DOMAIN mem.pods \subseteq Pods
  /\ \A p \in DOMAIN mem.pods : mem.pods[p] \in [data : Trailer, op : Op, pinned : BOOLEAN]
  /\ ToSet(mem.cache) \cup ToSet(mem.lru) \cup held \cup ToSet(queue) \subseteq DOMAIN mem.pods
  /\ \A i \in DOMAIN fs.disk : fs.disk[i] \in [Slot -> Trailer]
  /\ DOMAIN fs.open = ToSet(fs.lru) /\ DOMAIN fs.open \subseteq DOMAIN fs.disk
  /\ nextRN \in 0..MaxRN /\ minRN \in 0..MaxRN /\ fileRN \in 0..MaxRN
  /\ purges \in 0..MaxPurges /\ crashes \in 0..MaxCrashes /\ older \in [RN -> SUBSET RN]
  /\ live \cup kept \cup filled \cup erased \cup late \cup recovering \subseteq RN /\ gapped \in BOOLEAN /\ torn \in BOOLEAN

\* The function f with y at x, whether f was defined there or not.
With(f, x, y) == [z \in DOMAIN f \cup {x} |-> IF z = x THEN y ELSE f[z]]

-----------------------------------------------------------------------------
(* Files *)

ScanUnwritten(file) == {s \in Slot : file[s].magic # "committed"}

\* The slots scan() finds deleted: it ends at the first that was never written.
Scan(file) ==
  {s \in Slot : file[s].magic # "committed" /\ \A t \in 0..s : file[t].magic # "zero"}

\* getFile(): the file is then open, unless it does not exist and is not to be created.
GetFile(f, i, create) ==
  IF i \in DOMAIN f.open THEN [f EXCEPT !.lru = Append(RemoveFirst(@, i), i)]
  ELSE IF i \notin DOMAIN f.disk /\ ~create THEN f
  ELSE LET exists == i \in DOMAIN f.disk
           full == Len(f.lru) >= FilesMax
       IN [disk |-> IF exists THEN f.disk ELSE With(f.disk, i, [s \in Slot |-> Zero]),
           open |-> With(Restrict(f.open, DOMAIN f.open \ IF full THEN {Head(f.lru)} ELSE {}),
                         i, IF exists THEN Scan(f.disk[i]) ELSE {}),
           lru |-> Append(IF full THEN Tail(f.lru) ELSE f.lru, i),
           last |-> Max({f.last, i})]

DelFileKeepUsed(f, i) ==
  LET g == [f EXCEPT !.open = Restrict(@, DOMAIN @ \ {i})]
      h == IF i = f.last THEN GetFile(g, i + 1, TRUE) ELSE g
  IN [h EXCEPT !.disk = Restrict(@, DOMAIN @ \ {i})]

\* delFile(): a file after the last is created, so that there is always one.
DelFile(f, i) ==
  LET g == [f EXCEPT !.open = Restrict(@, DOMAIN @ \ {i}), !.lru = RemoveFirst(@, i)]
      h == IF i = f.last THEN GetFile(g, i + 1, TRUE) ELSE g
  IN [h EXCEPT !.disk = Restrict(@, DOMAIN @ \ {i})]

WriteSlot(f, rn, data) == [f EXCEPT !.disk[FileOf(rn)][SlotOf(rn)] = data]

\* Zdb_File::del(): a file none of whose records is left is removed, else data is written.
Erase(f, rn, data) ==
  LET i == FileOf(rn)
      g == [f EXCEPT !.open[i] = @ \cup {SlotOf(rn)}]
  IN IF g.open[i] = Slot THEN DelFile(g, i) ELSE WriteSlot(g, rn, data)

\* The first of the places in rn's file before it that were never written.
GapStart(rn) == Max({fileRN, FileOf(rn) * FileRecs})
FillGap(f, rn) == Erase(GetFile(f, FileOf(rn), TRUE), rn, [rn |-> rn, prev |-> rn, magic |-> "deleted"])

\* The record at rn in the files, which rn2file() opened.
InFile(f, rn) == FileOf(rn) \in DOMAIN f.open
Stored(f, rn) == f.disk[FileOf(rn)][SlotOf(rn)]

-----------------------------------------------------------------------------
(* Records in memory and the cache: m_cache finds the record that was added last. *)

NewPod == Min(Pods \ DOMAIN mem.pods)
CanAlloc == Pods \ DOMAIN mem.pods # {}
AddPod(m, p, data) == [m EXCEPT !.pods = With(@, p, [data |-> data, op |-> "none", pinned |-> FALSE])]

Places(m, rn) == {i \in DOMAIN m.cache : m.pods[m.cache[i]].data.rn = rn}
Cached(m, rn) == m.cache[Min(Places(m, rn))]

\* m_cache->del(rn) and cacheDel_(rn).
Uncache(m, rn) == IF Places(m, rn) = {} THEN m ELSE [m EXCEPT !.cache = RemoveAt(@, Min(Places(m, rn)))]
CacheDel(m, rn) ==
  IF Places(m, rn) = {} THEN m ELSE [Uncache(m, rn) EXCEPT !.lru = RemoveFirst(@, Cached(m, rn))]

CacheAdd(m, p) ==
  [m EXCEPT !.cache = <<p>> \o @, !.lru = Append(@, p), !.hash = IF Len(m.cache) >= @ THEN 2 * @ ELSE @]

CacheUnpinned(m, p) ==
  IF Len(m.cache) < m.size \/ m.lru = <<>> THEN CacheAdd(m, p)
  ELSE CacheAdd(Uncache([m EXCEPT !.lru = Tail(@)], m.pods[Head(m.lru)].data.rn), p)

\* cache(): the least recently used record makes room, unless it is pinned.
Cache(m, p) ==
  IF Len(m.cache) < m.size \/ m.lru = <<>> THEN CacheAdd(m, p)
  ELSE LET old == Head(m.lru)
           rest == [m EXCEPT !.lru = Tail(@)]
           grown == CacheAdd([rest EXCEPT !.lru = Append(@, old)], p)
       IN IF m.pods[old].pinned THEN [grown EXCEPT !.size = grown.hash]
          ELSE CacheAdd(Uncache(rest, m.pods[old].data.rn), p)

\* Records nobody refers to are gone.
Collect(m, used) ==
  [m EXCEPT !.pods = Restrict(@, DOMAIN @ \cap (used \cup ToSet(m.cache) \cup ToSet(m.lru)))]
Settle(m) == mem' = Collect(m, held' \cup ToSet(queue') \cup ({writer'.pod} \ {0}))

\* get__(): the record in the cache, or else the one in the files, with its POD.
Load(rn) ==
  LET hit == Places(mem, rn) # {}
      f == IF hit THEN fs ELSE GetFile(fs, FileOf(rn), FALSE)
      found == hit \/ InFile(f, rn)
      p == IF hit THEN Cached(mem, rn) ELSE NewPod
      m == IF ~hit /\ found THEN AddPod(mem, p, Stored(f, rn)) ELSE mem
  IN [fs |-> f, mem |-> m, pod |-> p, cached |-> hit,
      magic |-> IF found THEN m.pods[p].data.magic ELSE "none"]

-----------------------------------------------------------------------------
(* The application's calls *)

Init ==
  /\ mem = [pods |-> <<>>, cache |-> <<>>, lru |-> <<>>, size |-> CacheSize, hash |-> CacheSize]
  /\ fs = [disk |-> <<>>, open |-> <<>>, lru |-> <<>>, last |-> 0]
  /\ nextRN = 0 /\ minRN = MaxRN /\ fileRN = 0
  /\ held = {} /\ queue = <<>> /\ writer = Idle /\ purging = Idle /\ recovering = {}
  /\ purges = 0 /\ crashes = 0 /\ older = [rn \in RN |-> {}]
  /\ live = {} /\ kept = {} /\ filled = {} /\ gapped = FALSE /\ erased = {} /\ late = {} /\ torn = FALSE

\* A new record that replaces the one at prev, or none if prev is its own number.
Allocate(m, prev) ==
  /\ nextRN < MaxRN /\ Cardinality(held) < MaxHeld /\ CanAlloc
  /\ held' = held \cup {NewPod} /\ nextRN' = nextRN + 1
  /\ older' = [older EXCEPT ![nextRN] = IF prev = nextRN THEN {} ELSE {prev} \cup older[prev]]
  /\ mem' = AddPod(m, NewPod, [rn |-> nextRN, prev |-> prev, magic |-> "allocated"])
  /\ UNCHANGED <<minRN, fileRN, queue, writer, purging, recovering, purges, crashes>>
  /\ UNCHANGED <<live, kept, filled, gapped, erased, late, torn>>

Push == Allocate(mem, nextRN) /\ UNCHANGED fs

\* get_(prev) and update() of what it returned.
Update == \E prev \in 0..(nextRN - 1) :
  LET l == Load(prev)
  IN CanAlloc /\ l.magic = "committed" /\ fs' = l.fs /\ Allocate(mem, prev)

\* ZdbEnv::write(), when the lock is released: the write comes before any of those that other
\* threads have committed, and not queued yet.
Queue(m, p, magic, op) ==
  /\ Len(queue) < MaxQueue
  /\ \E i \in 1..Len(queue) + 1 :
       /\ queue' = InsertAt(queue, i, p)
       /\ late' = late \cup {rn \in older'[m.pods[p].data.rn] :
                               \E j \in i..Len(queue) : mem.pods[queue[j]].data.rn = rn}
  /\ Settle([m EXCEPT !.pods[p].data.magic = magic, !.pods[p].op = op])

Oldest(p) == \A q \in held : mem.pods[p].data.rn <= mem.pods[q].data.rn

\* put(), and putUpdate() with and without replace.
Committed(p) ==
  LET d == mem.pods[p].data
      m == IF d.prev = d.rn THEN mem ELSE CacheDel(mem, d.prev)
  IN Cache([m EXCEPT !.pods[p].pinned = TRUE, !.pods[p].data.magic = "committed"], p)

Put(p, replace) ==
  /\ InOrder => Oldest(p)
  /\ UNCHANGED <<fs, numbers, purging, recovering, purges, crashes, older, kept, filled, gapped, erased, torn>>
  /\ LET d == mem.pods[p].data
     IN /\ replace => d.prev # d.rn
        /\ held' = held \ {p}
        /\ live' = (live \ IF replace THEN older[d.rn] ELSE {}) \cup {d.rn}
        /\ UNCHANGED writer
        /\ Queue(Committed(p), p, "committed", IF replace THEN "upd" ELSE "add")

\* abort() of a push().
Abort(p) ==
  /\ InOrder => Oldest(p)
  /\ mem.pods[p].data.prev = mem.pods[p].data.rn
  /\ held' = held \ {p} /\ UNCHANGED writer
  /\ UNCHANGED <<fs, numbers, purging, recovering, purges, crashes, older, live, kept, filled, gapped, erased, torn>>
  /\ Queue(mem, p, "deleted", "del")

\* get(): a record found in the files is cached; get_() of one that is not committed is the same.
Get == \E rn \in 0..(nextRN - 1) :
  LET l == Load(rn)
  IN /\ CanAlloc /\ fs' = l.fs
     /\ UNCHANGED <<held, queue, writer>>
     /\ Settle(IF l.magic # "committed" THEN mem
               ELSE IF l.cached THEN [l.mem EXCEPT !.lru = Append(RemoveFirst(@, l.pod), l.pod)]
               ELSE Cache(l.mem, l.pod))
     /\ UNCHANGED <<numbers, purging, recovering, purges, crashes, history>>

\* get_() and del(): the record is given a new number, and replaces its old one.
Del == \E rn \in 0..(nextRN - 1) :
  LET l == Load(rn)
      m == CacheDel(l.mem, rn)
  IN /\ CanAlloc /\ l.magic = "committed" /\ nextRN < MaxRN
     /\ ~l.mem.pods[l.pod].pinned \/ DelQueued
     /\ fs' = l.fs /\ nextRN' = nextRN + 1
     /\ older' = [older EXCEPT ![nextRN] = {rn} \cup older[rn]]
     /\ live' = live \ ({rn} \cup older[rn])
     /\ UNCHANGED <<held, writer>>
     /\ Queue([m EXCEPT !.pods[l.pod].data.rn = nextRN, !.pods[l.pod].data.prev = rn], l.pod, "deleted", "del")
     /\ UNCHANGED <<minRN, fileRN, purging, recovering, purges, crashes, kept, filled, gapped, erased, torn>>

\* purge(): one record after the other, from m_minRN to min.
Purge ==
  /\ purging = Idle /\ purges < MaxPurges /\ purges' = purges + 1
  /\ \E min \in (minRN + 1)..nextRN : purging' = [pod |-> 1, rn |-> minRN, min |-> min]
  /\ UNCHANGED <<mem, fs, numbers, held, queue, writer, recovering, crashes, history>>

PurgeStep ==
  /\ purging # Idle /\ CanAlloc
  /\ UNCHANGED <<nextRN, fileRN, recovering, purges, crashes, older, kept, filled, gapped, erased, torn>>
  /\ LET l == Load(purging.rn)
         rn == l.mem.pods[l.pod].data.rn
     IN IF purging.rn >= purging.min \/ purging.rn >= nextRN
        THEN purging' = Idle /\ UNCHANGED <<mem, fs, minRN, queue, live, late, held, writer>>
        ELSE /\ purging' = [purging EXCEPT !.rn = @ + 1]
             /\ fs' = l.fs /\ UNCHANGED <<held, writer>>
             /\ IF l.magic = "none" THEN UNCHANGED <<mem, minRN, queue, live, late>>
                ELSE /\ minRN' = purging.rn
                     /\ Queue(CacheDel(l.mem, purging.rn), l.pod, "deleted", "del")
                     /\ live' = live \ ({rn} \cup older[rn])

-----------------------------------------------------------------------------
(* The write thread *)

WriterUnchanged == UNCHANGED <<nextRN, minRN, held, purging, recovering, purges, crashes, older, live, late, torn>>

WriteBegin ==
  /\ writer = Idle /\ queue # <<>>
  /\ LET p == mem.pods[Head(queue)]
         rn == p.data.rn
         gap == GapStart(rn)
     IN /\ writer' = [pod |-> Head(queue), rn |-> rn, prev |-> p.data.prev, op |-> p.op,
                      step |-> IF gap < rn THEN "gap" ELSE "record", gap |-> gap]
        /\ fileRN' = Max({fileRN, rn + 1})
  /\ queue' = Tail(queue)
  /\ UNCHANGED <<mem, fs, kept, filled, gapped, erased>> /\ WriterUnchanged

\* write_(): what was skipped is marked deleted.
WriteGap ==
  /\ writer # Idle /\ writer.step = "gap"
  /\ fs' = FillGap(fs, writer.gap)
  /\ filled' = filled \cup {writer.gap}
  /\ writer' = [writer EXCEPT !.gap = @ + 1, !.step = IF writer.gap + 1 < writer.rn THEN "gap" ELSE "record"]
  /\ UNCHANGED <<mem, fileRN, queue, kept, gapped, erased>> /\ WriterUnchanged

\* The record is written as it is now.
WriteRecord ==
  /\ writer # Idle /\ writer.step = "record"
  /\ LET w == writer
         data == mem.pods[w.pod].data
         f == GetFile(fs, FileOf(w.rn), TRUE)
     IN /\ fs' = IF w.op = "del" THEN Erase(f, w.rn, data) ELSE WriteSlot(f, w.rn, data)
        /\ gapped' = (gapped \/ \E s \in 0..SlotOf(w.rn) - 1 : f.disk[FileOf(w.rn)][s].magic = "zero")
        /\ kept' = ((kept \cup {w.rn}) \ (IF data.magic = "committed" THEN {} ELSE {w.rn}))
                   \ (IF w.op = "add" THEN {} ELSE older[w.rn])
        /\ writer' = [w EXCEPT !.step = IF w.op = "add" \/ w.prev = w.rn THEN "done" ELSE "chain"]
  /\ UNCHANGED <<mem, fileRN, queue, filled, erased>> /\ WriterUnchanged

WriteChainOnce ==
  /\ writer # Idle /\ writer.step = "chain"
  /\ LET f == GetFile(fs, FileOf(writer.prev), FALSE)
         data == Stored(f, writer.prev)
     IN fs' = IF InFile(f, writer.prev) /\ data.magic = "committed"
              THEN Erase(f, writer.prev, [data EXCEPT !.magic = "deleted"]) ELSE f
  /\ writer' = [writer EXCEPT !.step = "done"]
  /\ UNCHANGED <<mem, fileRN, queue, kept, filled, gapped, erased>> /\ WriterUnchanged

\* The record it replaces is erased, then the one that replaced, until one is not committed.
WriteChain ==
  /\ writer # Idle /\ writer.step = "chain"
  /\ LET rn == writer.prev
         f == GetFile(fs, FileOf(rn), FALSE)
         data == Stored(f, rn)
     IN IF InFile(f, rn) /\ data.magic = "committed"
        THEN /\ fs' = Erase(f, rn, [data EXCEPT !.magic = "deleted"])
             /\ writer' = [writer EXCEPT !.prev = data.prev, !.step = IF data.prev = rn THEN "done" ELSE "chain"]
        ELSE fs' = f /\ writer' = [writer EXCEPT !.step = "done"]
  /\ UNCHANGED <<mem, fileRN, queue, kept, filled, gapped, erased>> /\ WriterUnchanged

WriteDone ==
  /\ writer # Idle /\ writer.step = "done" /\ writer' = Idle
  /\ erased' = IF writer.op = "add" THEN erased ELSE erased \cup {writer.rn}
  /\ UNCHANGED <<held, queue>>
  /\ Settle([mem EXCEPT !.pods[writer.pod].pinned = FALSE])
  /\ UNCHANGED <<fs, nextRN, minRN, fileRN, purging, recovering, purges, crashes, older, live, kept, filled, gapped, late, torn>>

-----------------------------------------------------------------------------
(* A crash of the process, and recover() *)

ReachedCommitted(disk, rn) ==
  FileOf(rn) \in DOMAIN disk /\ \A s \in 0..SlotOf(rn) : disk[FileOf(rn)][s].magic = "committed"

\* A file is read up to the first record that was never written.
Reached(disk, rn) ==
  FileOf(rn) \in DOMAIN disk /\ \A s \in 0..SlotOf(rn) : disk[FileOf(rn)][s].magic # "zero"
Recovered(disk) ==
  {rn \in RN : Reached(disk, rn) /\ disk[FileOf(rn)][SlotOf(rn)].rn = rn}

Crash ==
  LET found == Recovered(fs.disk)
      above == {0} \cup {rn + 1 : rn \in found}
      lost == nextRN' .. (MaxRN - 1)
  IN /\ crashes < MaxCrashes /\ crashes' = crashes + 1
     /\ mem' = [pods |-> <<>>, cache |-> <<>>, lru |-> <<>>, size |-> CacheSize, hash |-> CacheSize]
     /\ fs' = [disk |-> fs.disk, open |-> <<>>, lru |-> <<>>, last |-> 0]
     /\ nextRN' = Max(above) /\ fileRN' = Max(above) /\ minRN' = Min({MaxRN} \cup found)
     /\ held' = {} /\ queue' = <<>> /\ writer' = Idle /\ purging' = Idle /\ recovering' = found
     /\ UNCHANGED purges
     /\ live' = {rn \in found : Stored(fs, rn).magic = "committed"} /\ kept' = kept \ lost
     /\ filled' = filled \ lost /\ erased' = erased \ lost /\ late' = late \ lost
     /\ older' = [rn \in RN |-> IF rn \in lost THEN {} ELSE older[rn]]
     /\ torn' = (torn \/ (writer # Idle /\ writer.step = "chain"))
     /\ UNCHANGED gapped

\* recover(pod): the record it replaces leaves the cache, but not the list of used records.
Recover ==
  /\ recovering # {} /\ CanAlloc
  /\ LET rn == Min(recovering)
         data == Stored(fs, rn)
         m == AddPod(mem, NewPod, data)
     IN /\ recovering' = recovering \ {rn}
        /\ UNCHANGED <<held, queue, writer>>
        /\ Settle(Cache(IF data.prev = rn THEN m ELSE Uncache(m, data.prev), NewPod))
  /\ UNCHANGED <<fs, numbers, purging, purges, crashes, history>>

-----------------------------------------------------------------------------
Next ==
  \/ /\ recovering = {}
     /\ \/ Push \/ Update \/ Get \/ Del \/ Purge \/ PurgeStep
        \/ \E p \in held : Abort(p) \/ \E replace \in BOOLEAN : Put(p, replace)
        \/ WriteBegin \/ WriteGap \/ WriteRecord \/ WriteChain \/ WriteDone
  \/ Recover \/ Crash

Spec == Init /\ [][Next]_vars

-----------------------------------------------------------------------------
(* Properties *)

OnDisk(rn) == FileOf(rn) \in DOMAIN fs.disk /\ Stored(fs, rn).magic = "committed"

\* A record that was written is found again by recovery, until the write of what replaces or
\* deletes it begins, whatever is written, erased and removed around it; only one whose place had
\* been marked deleted before it was written may be lost, when its file is removed.  The number of
\* a record that is still on disk is not given to another.
Durable == ~gapped =>
  /\ \A rn \in kept \ filled : OnDisk(rn) /\ rn \in Recovered(fs.disk)
  /\ \A rn \in RN \ filled : OnDisk(rn) => rn < nextRN /\ rn < fileRN

\* The newest version of a record can be read from the moment it is committed, while its write is
\* queued too: it is in the cache, where it stays until it is written, or in its file; until a record
\* is written after a place that never was (gapped): that place's number may be given again.
Readable ==
  ~gapped /\ recovering = {} => \A rn \in {n \in live \ filled : \A v \in live : n \notin older[v]} :
    IF Places(mem, rn) # {} THEN mem.pods[Cached(mem, rn)].data.magic = "committed" ELSE OnDisk(rn)

\* Once an update or a deletion is written, no version before it is left on disk, unless its write
\* was queued later (late), a crash interrupted an earlier erasure, or a version between them, or
\* itself, was marked deleted before it was written (filled): it may be lost with its file or purged
\* as it was marked, with no version before it; or a version was lost by recovery (gapped).
VersionsErased ==
  ~gapped /\ ~torn =>
    \A rn \in erased :
      ({rn} \cup older[rn]) \cap filled = {} /\ older[rn] \cap late = {} => \A a \in older[rn] : ~OnDisk(a)
=============================================================================
