------------------------------- MODULE SCache -------------------------------
(***************************************************************************)
(* The sector cache, kernel/filesys/scache.c: NSECACHS buffers, an         *)
(* allocation list (alist) in the order of reuse, and one list per block   *)
(* device (clist) sorted by block number, together with the file system    *)
(* code that calls it and the block device below it.                       *)
(*                                                                         *)
(* The kernel is single threaded and no interrupt handler enters the       *)
(* cache, so a call runs undisturbed; the loops over the clists are        *)
(* nevertheless one step per iteration, because whether they end is one of *)
(* the questions.  A block is a pair <<device, number>>.  The content of a *)
(* block is the block it belongs to and how often it has been changed.     *)
(*                                                                         *)
(* struct scache has a counter sem that scache_alloc tests; nothing in the *)
(* kernel ever sets it, so every buffer can be recycled at any time.       *)
(***************************************************************************)
EXTENDS Integers

CONSTANTS
    NSECACHS,    \* number of buffers
    Dev,         \* block devices (pairs of major and minor)
    Block,       \* the blocks that are requested: pairs <<device, number>>
    Driven,      \* the devices that have a driver, so that dev_open succeeds
    Reachable,   \* the blocks for which dev_lseek succeeds
    MaxVersion   \* bound: how often one block is changed

ASSUME SCacheAssumption ==
    /\ NSECACHS \in Nat \ {0}
    /\ Block \subseteq Dev \X Nat
    /\ Driven \subseteq Dev
    /\ Reachable \subseteq {k \in Block : k[1] \in Driven}
    /\ Reachable # {}
    /\ MaxVersion \in Nat

Buf == 1 .. NSECACHS

NULL == 0

VARIABLES
    cnt, begin, end,   \* scache_data
    anext, alast,      \* the alist links of each buffer
    clist,             \* scache_clist: the head of each device's list
    cnext, clast,      \* the clist links of each buffer
    fill,              \* the block each buffer was filled for; only its
                       \* number, blk, is kept in struct scache
    buf, changed,      \* data and S_CHANGED of each buffer
    disk,              \* the data of each block on its device
    pos,               \* the block the device is positioned at
    pc, op, key,       \* where the call is, what it is, its block
    sp, p, q,          \* buffer to return; loop pointers, q in scache_commit
    made               \* history: how often each block has been changed

alistVars == <<cnt, begin, end, anext, alast>>
clistVars == <<clist, cnext, clast>>
dataVars  == <<fill, buf, changed, disk, pos, made>>
callVars  == <<pc, op, key, sp, p, q>>
vars == <<alistVars, clistVars, dataVars, callVars>>

NoBlock == <<>>
NoData == [origin |-> NoBlock, version |-> 0]
Content == [origin : Block, version : Nat]
Changed(c) == [c EXCEPT !.version = @ + 1]

BlkOf(x) == fill[x][2]

\* The call is over, and with it its local variables.
ToCaller ==
    /\ pc' = "idle" /\ op' = "none" /\ key' = NoBlock
    /\ sp' = NULL /\ p' = NULL /\ q' = NULL

Used == {x \in Buf : x <= cnt}
Pointer == Used \cup {NULL}

Init ==
    /\ cnt = 0 /\ begin = NULL /\ end = NULL
    /\ anext = [x \in Buf |-> NULL]
    /\ alast = [x \in Buf |-> NULL]
    /\ clist = [d \in Dev |-> NULL]
    /\ cnext = [x \in Buf |-> NULL]
    /\ clast = [x \in Buf |-> NULL]
    /\ fill = [x \in Buf |-> NoBlock]
    /\ buf = [x \in Buf |-> NoData]
    /\ changed = [x \in Buf |-> FALSE]
    /\ disk = [k \in Block |-> [origin |-> k, version |-> 0]]
    /\ pos \in Reachable
    /\ made = [k \in Block |-> 0]
    /\ pc = "idle" /\ op = "none" /\ key = NoBlock
    /\ sp = NULL /\ p = NULL /\ q = NULL

-----------------------------------------------------------------------------
(* The calls the file systems make.                                        *)

\* vfs read, lseek and open: scache_get.  vfs write: scache_get, change the
\* buffer, set S_CHANGED.  mfs: scache_get, change the buffer, scache_sync.
Call(o, k) ==
    /\ pc = "idle"
    /\ o = "read" \/ made[k] < MaxVersion
    /\ pc' = "get" /\ op' = o /\ key' = k
    /\ p' = clist[k[1]]
    /\ UNCHANGED <<alistVars, clistVars, dataVars, sp, q>>

\* vfs close: scache_commit of the file's device.
CallCommit(k) ==
    /\ pc = "idle"
    /\ pc' = "commit" /\ op' = "commit" /\ key' = k
    /\ q' = clist[k[1]]
    /\ UNCHANGED <<alistVars, clistVars, dataVars, sp, p>>

\* The caller has the buffer that scache_get returned.
Return ==
    /\ pc = "got"
    /\ op = "read"
    /\ ToCaller
    /\ UNCHANGED <<alistVars, clistVars, dataVars>>

\* Mutant: vfs write does not set S_CHANGED.
ChangeBuffer_Unmarked ==
    /\ pc = "got"
    /\ op # "read"
    /\ buf' = [buf EXCEPT ![sp] = Changed(@)]
    /\ made' = [made EXCEPT ![key] = @ + 1]
    /\ IF op = "write"
         THEN ToCaller
         ELSE pc' = "sync" /\ p' = clist[key[1]] /\ UNCHANGED <<op, key, sp, q>>
    /\ UNCHANGED <<alistVars, clistVars, fill, changed, disk, pos>>

ChangeBuffer ==
    /\ pc = "got"
    /\ op # "read"
    /\ buf' = [buf EXCEPT ![sp] = Changed(@)]
    /\ made' = [made EXCEPT ![key] = @ + 1]
    /\ IF op = "write"
         THEN /\ changed' = [changed EXCEPT ![sp] = TRUE]
              /\ ToCaller
         ELSE /\ pc' = "sync"
              /\ p' = clist[key[1]]
              /\ UNCHANGED <<changed, op, key, sp, q>>
    /\ UNCHANGED <<alistVars, clistVars, fill, disk, pos>>

-----------------------------------------------------------------------------
(* scache_seek, the loop of scache_get and of scache_sync.                 *)

SeekNext ==
    /\ pc \in {"get", "sync"}
    /\ p # NULL
    /\ BlkOf(p) # key[2]
    /\ p' = cnext[p]
    /\ UNCHANGED <<alistVars, clistVars, dataVars, pc, op, key, sp, q>>

\* Mutant: stop at the first block that is not smaller, without comparing.
Found_NotSmaller == p # NULL /\ BlkOf(p) >= key[2]

Found == p # NULL /\ BlkOf(p) = key[2]

-----------------------------------------------------------------------------
(* scache_get.                                                             *)

\* The code's assignments in order, so that lists that are not well formed
\* change as they do in the program.
scache_promo(x) ==
    IF anext[x] = NULL
      THEN UNCHANGED <<begin, end, anext, alast>>
      ELSE LET al1 == [alast EXCEPT ![anext[x]] = alast[x]]
               an1 == IF al1[x] # NULL THEN [anext EXCEPT ![al1[x]] = anext[x]]
                                       ELSE anext
               n   == an1[x]
               al2 == IF an1[n] # NULL THEN [al1 EXCEPT ![an1[n]] = x] ELSE al1
               an2 == [an1 EXCEPT ![x] = an1[n]]
           IN  /\ begin' = IF al1[x] = NULL THEN anext[x] ELSE begin
               /\ alast' = [al2 EXCEPT ![x] = n]
               /\ anext' = [an2 EXCEPT ![n] = x]
               /\ end' = IF anext'[x] = NULL THEN x ELSE end

GetHit ==
    /\ pc = "get"
    /\ Found
    /\ scache_promo(p)
    /\ sp' = p
    /\ pc' = "got"
    /\ UNCHANGED <<cnt, clistVars, dataVars, op, key, p, q>>

\* scache_alloc while there are unused buffers: take them in order.
AllocNew ==
    /\ cnt < NSECACHS
    /\ sp' = cnt + 1
    /\ begin' = IF cnt = 0 THEN sp' ELSE begin
    /\ alast' = [alast EXCEPT ![sp'] = IF cnt = 0 THEN NULL ELSE end]
    /\ anext' = IF end = NULL THEN [anext EXCEPT ![sp'] = NULL]
                              ELSE [anext EXCEPT ![sp'] = NULL, ![end] = sp']
    /\ end' = sp'
    /\ cnt' = cnt + 1
    /\ UNCHANGED <<cnext, clast>>

\* scache_alloc when all are in use: recycle the one at begin.  begin itself
\* and the head of the buffer's clist are not assigned.
AllocRecycle ==
    /\ cnt = NSECACHS
    /\ sp' = begin
    /\ LET x   == begin
           an1 == IF alast[x] # NULL THEN [anext EXCEPT ![alast[x]] = anext[x]]
                                     ELSE anext
           al1 == IF an1[x] # NULL THEN [alast EXCEPT ![an1[x]] = alast[x]]
                                   ELSE alast
           cn1 == IF clast[x] # NULL THEN [cnext EXCEPT ![clast[x]] = cnext[x]]
                                     ELSE cnext
       IN  /\ alast' = [al1 EXCEPT ![x] = end]
           /\ anext' = [an1 EXCEPT ![x] = NULL, ![end] = x]
           /\ cnext' = cn1
           /\ clast' = IF cn1[x] # NULL THEN [clast EXCEPT ![cn1[x]] = clast[x]]
                                        ELSE clast
           /\ end' = x
    /\ UNCHANGED <<cnt, begin>>

scache_alloc == AllocNew \/ AllocRecycle

\* Mutant: the device is not positioned.
dev_lseek_Skipped(k) == pos' = pos

\* dev_lseek moves the device, unless the block is beyond the limit.
dev_lseek(k) == pos' = IF k \in Reachable THEN k ELSE pos

\* A block that is not in the cache: allocate a buffer and fill it from
\* where the device is; the results of dev_lseek and dev_read are ignored.
GetMiss ==
    /\ pc = "get"
    /\ p = NULL
    /\ key[1] \in Driven
    /\ scache_alloc
    /\ dev_lseek(key)
    /\ fill' = [fill EXCEPT ![sp'] = key]
    /\ buf' = [buf EXCEPT ![sp'] = disk[pos']]
    /\ pc' = "insert"
    /\ p' = clist[key[1]]
    /\ UNCHANGED <<clist, changed, disk, made, op, key, q>>

\* "Cannot open blkdev": scache_get returns 0.
GetRefused ==
    /\ pc = "get"
    /\ p = NULL
    /\ key[1] \notin Driven
    /\ ToCaller
    /\ UNCHANGED <<alistVars, clistVars, dataVars>>

-----------------------------------------------------------------------------
(* scache_insert of sp into the list of its device.                        *)

InsertDone == /\ pc' = "got"
              /\ UNCHANGED <<alistVars, dataVars, op, key, sp, p, q>>

InsertFirst ==
    /\ pc = "insert"
    /\ p = NULL
    /\ clist' = [clist EXCEPT ![key[1]] = sp]
    /\ cnext' = [cnext EXCEPT ![sp] = NULL]
    /\ clast' = [clast EXCEPT ![sp] = NULL]
    /\ InsertDone

InsertNext ==
    /\ pc = "insert"
    /\ p # NULL
    /\ BlkOf(p) < BlkOf(sp)
    /\ cnext[p] # NULL
    /\ p' = cnext[p]
    /\ UNCHANGED <<alistVars, clistVars, dataVars, pc, op, key, sp, q>>

\* "same blk exists": the result of scache_insert is ignored.
InsertSame ==
    /\ pc = "insert"
    /\ p # NULL
    /\ BlkOf(p) = BlkOf(sp)
    /\ UNCHANGED clistVars
    /\ InsertDone

\* Mutant: the head of the list is not moved.
InsertBefore_KeepsHead ==
    /\ pc = "insert"
    /\ p # NULL
    /\ BlkOf(p) > BlkOf(sp)
    /\ clast' = [clast EXCEPT ![sp] = clast[p], ![p] = sp]
    /\ cnext' = IF clast[p] # NULL THEN [cnext EXCEPT ![sp] = p, ![clast[p]] = sp]
                                   ELSE [cnext EXCEPT ![sp] = p]
    /\ UNCHANGED clist
    /\ InsertDone

\* Before p.  When p is the first of its list, p->clast->cnext is a store
\* through a null pointer, to low memory that nothing uses.
InsertBefore ==
    /\ pc = "insert"
    /\ p # NULL
    /\ BlkOf(p) > BlkOf(sp)
    /\ clast' = [clast EXCEPT ![sp] = clast[p], ![p] = sp]
    /\ cnext' = LET cn1 == [cnext EXCEPT ![sp] = p]
                IN  IF clast[p] # NULL THEN [cn1 EXCEPT ![clast[p]] = sp]
                                       ELSE cn1
    /\ clist' = IF clast[p] = NULL THEN [clist EXCEPT ![key[1]] = sp] ELSE clist
    /\ InsertDone

\* Mutant: item->cnext = clist, as in the branches above.
InsertLast_LinksBack ==
    /\ pc = "insert"
    /\ p # NULL
    /\ BlkOf(p) < BlkOf(sp)
    /\ cnext[p] = NULL
    /\ clast' = [clast EXCEPT ![sp] = p]
    /\ cnext' = [cnext EXCEPT ![sp] = p, ![p] = sp]
    /\ UNCHANGED clist
    /\ InsertDone

InsertLast ==
    /\ pc = "insert"
    /\ p # NULL
    /\ BlkOf(p) < BlkOf(sp)
    /\ cnext[p] = NULL
    /\ clast' = [clast EXCEPT ![sp] = p]
    /\ cnext' = [cnext EXCEPT ![sp] = NULL, ![p] = sp]
    /\ UNCHANGED clist
    /\ InsertDone

-----------------------------------------------------------------------------
(* scache_sync and scache_commit.  S_CHANGED is never cleared.  The early   *)
(* return for a block that is not in the cache is unreachable: SyncFinds.  *)

\* Back in scache_commit, or in the file system.
SyncDone ==
    /\ IF op = "commit"
         THEN /\ pc' = "commit"
              /\ p' = NULL
              /\ q' = cnext[q]
              /\ UNCHANGED <<op, key, sp>>
         ELSE ToCaller
    /\ UNCHANGED <<alistVars, clistVars, fill, buf, changed, made>>

SyncHit ==
    /\ pc = "sync"
    /\ Found
    /\ dev_lseek(key)
    /\ disk' = [disk EXCEPT ![pos'] = buf[p]]
    /\ SyncDone

\* One iteration of scache_commit over the list of the device.
CommitNext ==
    /\ pc = "commit"
    /\ q # NULL
    /\ IF changed[q]
         THEN /\ pc' = "sync"
              /\ key' = <<key[1], BlkOf(q)>>
              /\ p' = clist[key[1]]
              /\ UNCHANGED q
         ELSE /\ q' = cnext[q]
              /\ UNCHANGED <<pc, key, p>>
    /\ UNCHANGED <<alistVars, clistVars, dataVars, op, sp>>

CommitDone ==
    /\ pc = "commit"
    /\ q = NULL
    /\ ToCaller
    /\ UNCHANGED <<alistVars, clistVars, dataVars>>

Step == \/ Return \/ ChangeBuffer \/ SeekNext \/ GetHit \/ GetMiss \/ GetRefused
        \/ InsertFirst \/ InsertNext \/ InsertSame \/ InsertBefore \/ InsertLast
        \/ SyncHit \/ CommitNext \/ CommitDone

Next == \/ \E k \in Block, o \in {"read", "write", "update"} : Call(o, k)
        \/ \E k \in Block : CallCommit(k)
        \/ Step

Spec == Init /\ [][Next]_vars

\* The processor goes on executing a call that has begun.
FairSpec == Spec /\ WF_vars(Step)
-----------------------------------------------------------------------------
(* Properties.                                                             *)

\* Every pointer is null or leads to a buffer in use, recycled or not, so the
\* null tests of the code are all the tests it needs.
TypeOK ==
    /\ cnt \in 0 .. NSECACHS
    /\ begin \in Pointer /\ end \in Pointer
    /\ sp \in Pointer /\ p \in Pointer /\ q \in Pointer
    /\ anext \in [Buf -> Pointer] /\ alast \in [Buf -> Pointer]
    /\ cnext \in [Buf -> Pointer] /\ clast \in [Buf -> Pointer]
    /\ clist \in [Dev -> Pointer]
    /\ fill \in [Buf -> Block \cup {NoBlock}]
    /\ buf \in [Buf -> Content \cup {NoData}]
    /\ \A x \in Used : fill[x] \in Block /\ buf[x] \in Content
    /\ changed \in [Buf -> BOOLEAN]
    /\ disk \in [Block -> Content]
    /\ made \in [Block -> Nat]
    /\ pos \in Reachable
    /\ pc \in {"idle", "get", "insert", "got", "sync", "commit"}
    /\ op \in {"none", "read", "write", "update", "commit"}
    /\ pc # "idle" => key \in Dev \X Nat

\* The buffers that should be on the list of device d: the one scache_insert
\* is working on is not on it yet.
Listed(d) == {x \in Used : fill[x][1] = d /\ ~(pc = "insert" /\ x = sp)}

\* y is the buffer of S after x, and before x, in the order of the blocks.
IsNext(y, x, S) ==
    IF y = NULL THEN \A z \in S : BlkOf(z) <= BlkOf(x)
                ELSE /\ y \in S
                     /\ BlkOf(x) < BlkOf(y)
                     /\ \A z \in S : BlkOf(z) <= BlkOf(x) \/ BlkOf(y) <= BlkOf(z)
IsLast(y, x, S) ==
    IF y = NULL THEN \A z \in S : BlkOf(x) <= BlkOf(z)
                ELSE /\ y \in S
                     /\ BlkOf(y) < BlkOf(x)
                     /\ \A z \in S : BlkOf(x) <= BlkOf(z) \/ BlkOf(z) <= BlkOf(y)

ClistSorted(d) ==
    /\ \A x, y \in Listed(d) : BlkOf(x) = BlkOf(y) => x = y
    /\ IF clist[d] = NULL THEN Listed(d) = {}
                          ELSE /\ clist[d] \in Listed(d)
                               /\ \A x \in Listed(d) : BlkOf(clist[d]) <= BlkOf(x)
    /\ \A x \in Listed(d) : /\ IsNext(cnext[x], x, Listed(d))
                            /\ IsLast(clast[x], x, Listed(d))

\* "not empty, search and insert (sorted)" (scache.c:114): the list of each
\* device holds exactly the buffers filled for the device, once per block,
\* in the order of the block numbers, in both directions.
ClistsSorted == \A d \in Dev : ClistSorted(d)

\* A buffer holds the data of the block it stands for, and not of the block
\* of another device or of the position an earlier call left.
BuffersHoldTheirBlock == \A x \in Used : buf[x].origin = fill[x]

\* scache_get returns the buffer of the block it was asked for: a hit on the
\* list of a device is a block of that device that was "really already read"
\* (scache.c:177).
GetReturnsItsBlock == pc = "got" => fill[sp] = key

\* scache_sync is only called for blocks that are in the cache, whichever
\* buffers have been recycled: "requested block not in cache, cannot sync"
\* (scache.c:216) is never printed and no data is dropped there.
SyncFinds == pc = "sync" => p # NULL

\* The content of block k as the callers of the cache see it.
View(k) ==
    IF \E x \in Used : fill[x] = k
      THEN buf[CHOOSE x \in Used : fill[x] = k]
      ELSE disk[k]

\* The cache is transparent: it implements a store in which only the callers'
\* changes change anything, each of them one block.
Store == INSTANCE BlockStore WITH store <- [k \in Block |-> View(k)]
Transparent == Store!Spec

\* "commited all changed sectors" (vfs.c:306): when scache_commit returns,
\* every change ever made to a block of the device is on the device.
CommitSavesChanges ==
    [][pc = "commit" /\ pc' = "idle" =>
         \A k \in Block : k[1] = key[1] => disk[k].version = made[k]]_vars

\* Every call of the cache returns: the loops over the lists end.
CallsReturn == (pc # "idle") ~> (pc = "idle")
-----------------------------------------------------------------------------
(* Inductive invariants.                                                   *)

\* For every use of the cache, recycling included.
PInv ==
    /\ TypeOK
    /\ cnt > 0 => begin # NULL /\ end # NULL
    /\ pc \in {"get", "insert", "got"} => key \in Block /\ op # "commit"
    /\ pc \in {"insert", "got"} => sp # NULL
    /\ pc = "sync" /\ op = "commit" => q # NULL

\* scache_get needs no buffer in use: the blocks fit into the cache.
Fits == pc = "get" /\ p = NULL /\ key[1] \in Driven => cnt < NSECACHS

\* What the loops know of the block they are looking for.
LoopInv ==
    /\ pc \in {"get", "sync"} =>
         IF p = NULL
           THEN \A x \in Listed(key[1]) : BlkOf(x) # key[2]
           ELSE /\ p \in Listed(key[1])
                /\ \A x \in Listed(key[1]) : BlkOf(x) = key[2] => BlkOf(p) <= key[2]
    /\ pc = "sync" => \E x \in Listed(key[1]) : BlkOf(x) = key[2]
    /\ pc = "insert" =>
         /\ fill[sp] = key
         /\ \A x \in Listed(key[1]) : BlkOf(x) # key[2]
         /\ IF p = NULL
              THEN Listed(key[1]) = {}
              ELSE /\ p \in Listed(key[1])
                   /\ \A x \in Listed(key[1]) : BlkOf(x) < BlkOf(p) => BlkOf(x) < key[2]
    /\ pc = "got" => fill[sp] = key
    /\ q # NULL => pc \in {"commit", "sync"} /\ q \in Listed(key[1])

\* While the blocks fit into the cache.
LInv == PInv /\ ClistsSorted /\ LoopInv

\* Every block of a device that has a driver is within its limits.
AllReachable == Reachable = {k \in Block : k[1] \in Driven}

\* The data, while the blocks fit and all can be reached.
DataInv ==
    /\ \A x \in Used : fill[x] \in Reachable /\ buf[x].origin = fill[x]
    /\ \A k \in Block : /\ disk[k].origin = k
                        /\ View(k).version = made[k]
                        /\ made[k] <= MaxVersion
    /\ pc \in {"get", "insert", "got"} /\ op # "read" => made[key] < MaxVersion

\* The device holds what the buffer holds.
Saved(x) == disk[fill[x]] = buf[x]

\* What is not saved is marked, or is just being written by the file system; and
\* scache_commit has saved what it has passed.
SaveInv ==
    /\ \A x \in Used : changed[x] \/ Saved(x)
                         \/ (pc = "sync" /\ op # "commit" /\ fill[x] = key)
    /\ pc = "commit" => op = "commit"
    /\ pc = "sync" /\ op = "commit" => BlkOf(q) = key[2]
    /\ pc \in {"commit", "sync"} /\ op = "commit" =>
         \A x \in Listed(key[1]) : q = NULL \/ BlkOf(x) < BlkOf(q) => Saved(x)

=============================================================================
