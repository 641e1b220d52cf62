---------------------------- MODULE SCache_proof ----------------------------
(***************************************************************************)
(* Proofs about the sector cache, for any number of buffers, devices and   *)
(* blocks: its pointers, its lists, and, while the blocks fit into it and  *)
(* can be reached, the data in it and what scache_commit saves of them.    *)
(***************************************************************************)
EXTENDS SCache, TLAPS

USE SCacheAssumption DEF NULL

\* The empty cache: no pointer leads anywhere.
LEMMA PInit == Init => PInv
  <1> SUFFICES ASSUME Init PROVE PInv
    BY Zenon
  <1>1. Used = {} /\ Pointer = {NULL}
    BY SMTT(30) DEF Init, Used, Buf, Pointer
  <1>2. disk \in [Block -> Content] /\ made \in [Block -> Nat]
    BY Zenon DEF Init, Content
  <1>3. buf \in [Buf -> Content \cup {NoData}]
    BY Zenon DEF Init
  <1> QED
    BY <1>1, <1>2, <1>3 DEF Init, PInv, TypeOK

\* Steps that leave the buffers alone and only move the call along.
LEMMA Moves ==
    ASSUME PInv, UNCHANGED <<alistVars, clistVars, fill, buf, changed, made>>,
           disk' \in [Block -> Content], pos' \in Reachable,
           sp' \in Pointer, p' \in Pointer, q' \in Pointer,
           pc' \in {"idle", "get", "insert", "got", "sync", "commit"},
           op' \in {"none", "read", "write", "update", "commit"},
           pc' # "idle" => key' \in Dev \X Nat,
           pc' \in {"get", "insert", "got"} => key' \in Block /\ op' # "commit",
           pc' \in {"insert", "got"} => sp' # NULL,
           pc' = "sync" /\ op' = "commit" => q' # NULL
    PROVE  PInv'
  <1>1. Used' = Used /\ Pointer' = Pointer
    BY Zenon DEF Used, Pointer, alistVars
  <1>2. TypeOK'
    BY Zenon, <1>1 DEF PInv, TypeOK, alistVars, clistVars
  <1> QED
    BY Zenon, <1>2 DEF PInv, alistVars

\* dev_lseek leaves the device at a block it can reach.
LEMMA SeekReaches == ASSUME NEW k, PInv, dev_lseek(k) PROVE pos' \in Reachable
  BY Zenon DEF PInv, TypeOK, dev_lseek

\* Promotion only exchanges two neighbours of the allocation list.
LEMMA PromoTypes ==
    ASSUME PInv, NEW x \in Used, scache_promo(x)
    PROVE  /\ begin' \in Pointer /\ end' \in Pointer
           /\ anext' \in [Buf -> Pointer] /\ alast' \in [Buf -> Pointer]
           /\ cnt > 0 => begin' # NULL /\ end' # NULL
  <1>0. x \in Buf /\ x # NULL /\ x \in Pointer
    BY DEF Used, Pointer, Buf
  <1>1. /\ x \in Buf /\ x # NULL /\ x \in Pointer
        /\ begin \in Pointer /\ end \in Pointer
        /\ anext \in [Buf -> Pointer] /\ alast \in [Buf -> Pointer]
        /\ cnt > 0 => begin # NULL /\ end # NULL
    BY Zenon, <1>0 DEF PInv, TypeOK
  <1>2. CASE anext[x] = NULL
    BY Zenon, <1>1, <1>2 DEF scache_promo
  <1>3. CASE anext[x] # NULL
    <2> DEFINE al1 == [alast EXCEPT ![anext[x]] = alast[x]]
               an1 == IF al1[x] # NULL THEN [anext EXCEPT ![al1[x]] = anext[x]]
                                       ELSE anext
               n   == an1[x]
               al2 == IF an1[n] # NULL THEN [al1 EXCEPT ![an1[n]] = x] ELSE al1
               an2 == [an1 EXCEPT ![x] = an1[n]]
    <2>1. al1 \in [Buf -> Pointer] /\ anext[x] \in Pointer
      BY Zenon, <1>1
    <2>2. an1 \in [Buf -> Pointer] /\ n \in Pointer /\ n # NULL
      BY Zenon, <1>1, <1>3, <2>1 DEF Pointer
    <2>3. n \in Buf /\ an1[n] \in Pointer
      BY Zenon, <2>2 DEF Pointer, Used
    <2>4. al2 \in [Buf -> Pointer] /\ an2 \in [Buf -> Pointer]
      BY Zenon, <1>1, <2>1, <2>2, <2>3
    <2>5. /\ begin' = IF al1[x] = NULL THEN anext[x] ELSE begin
          /\ alast' = [al2 EXCEPT ![x] = n]
          /\ anext' = [an2 EXCEPT ![n] = x]
          /\ end' = IF anext'[x] = NULL THEN x ELSE end
      BY Zenon, <1>3 DEF scache_promo
    <2> HIDE DEF al1, an1, n, al2, an2
    <2> QED
      BY Zenon, <1>1, <1>3, <2>1, <2>2, <2>3, <2>4, <2>5
  <1> QED
    BY Zenon, <1>2, <1>3

\* scache_alloc takes a fresh buffer of the array.
LEMMA AllocNewTypes ==
    ASSUME PInv, AllocNew
    PROVE  /\ cnt' \in 0 .. NSECACHS /\ sp' = cnt + 1 /\ sp' \in Buf
           /\ Used' = Used \cup {sp'} /\ sp' \notin Used
           /\ begin' \in Pointer' \ {NULL} /\ end' \in Pointer' \ {NULL}
           /\ anext' \in [Buf -> Pointer'] /\ alast' \in [Buf -> Pointer']
           /\ cnext' \in [Buf -> Pointer'] /\ clast' \in [Buf -> Pointer']
  <1>1. cnt' \in 0 .. NSECACHS /\ sp' = cnt + 1 /\ cnt' = cnt + 1 /\ sp' \in Buf
    BY SMTT(30) DEF AllocNew, PInv, TypeOK, Buf
  <1>2. Used' = Used \cup {sp'} /\ sp' \notin Used
    BY SMTT(30), <1>1 DEF PInv, TypeOK, Used, Buf
  <1>3. Pointer' = Pointer \cup {sp'} /\ sp' # NULL
    BY <1>1, <1>2 DEF Pointer, PInv, TypeOK
  <1>4. begin' \in Pointer' \ {NULL} /\ end' \in Pointer' \ {NULL}
    BY <1>1, <1>3 DEF AllocNew, PInv, TypeOK
  <1>5. anext' \in [Buf -> Pointer'] /\ alast' \in [Buf -> Pointer']
    BY Zenon, <1>1, <1>3 DEF AllocNew, PInv, TypeOK, Pointer
  <1>6. cnext' \in [Buf -> Pointer'] /\ clast' \in [Buf -> Pointer']
    BY Zenon, <1>3 DEF AllocNew, PInv, TypeOK
  <1> QED
    BY Zenon, <1>1, <1>2, <1>4, <1>5, <1>6

\* scache_alloc takes the buffer at the end of the alist.
LEMMA AllocRecycleTypes ==
    ASSUME PInv, AllocRecycle
    PROVE  /\ cnt' = cnt /\ sp' = begin /\ sp' \in Used
           /\ Used' = Used /\ Pointer' = Pointer
           /\ begin' \in Pointer \ {NULL} /\ end' \in Pointer \ {NULL}
           /\ anext' \in [Buf -> Pointer] /\ alast' \in [Buf -> Pointer]
           /\ cnext' \in [Buf -> Pointer] /\ clast' \in [Buf -> Pointer]
  <1>1. /\ cnt' = cnt /\ sp' = begin /\ begin' = begin /\ end' = begin
        /\ cnt > 0
    BY DEF AllocRecycle
  <1>2. begin \in Used /\ begin \in Buf /\ end \in Buf /\ begin \in Pointer \ {NULL} /\ end \in Pointer
    BY Zenon, <1>1 DEF PInv, TypeOK, Pointer, Used
  <1>3. Used' = Used /\ Pointer' = Pointer
    BY Zenon, <1>1 DEF Used, Pointer
  <1> DEFINE x == begin
             an1 == IF alast[x] # NULL THEN [anext EXCEPT ![alast[x]] = anext[x]]
                                       ELSE anext
             al1 == IF an1[x] # NULL THEN [alast EXCEPT ![an1[x]] = alast[x]]
                                     ELSE alast
             cn1 == IF clast[x] # NULL THEN [cnext EXCEPT ![clast[x]] = cnext[x]]
                                       ELSE cnext
  <1>4. an1 \in [Buf -> Pointer] /\ cn1 \in [Buf -> Pointer]
    BY Zenon, <1>2 DEF PInv, TypeOK
  <1>5. al1 \in [Buf -> Pointer]
    BY Zenon, <1>2, <1>4 DEF PInv, TypeOK
  <1>6. /\ alast' = [al1 EXCEPT ![x] = end]
        /\ anext' = [an1 EXCEPT ![x] = NULL, ![end] = x]
        /\ cnext' = cn1
        /\ clast' = IF cn1[x] # NULL THEN [clast EXCEPT ![cn1[x]] = clast[x]]
                                     ELSE clast
    BY Zenon DEF AllocRecycle
  <1> HIDE DEF an1, al1, cn1
  <1>7. alast' \in [Buf -> Pointer] /\ anext' \in [Buf -> Pointer] /\ cnext' \in [Buf -> Pointer]
    BY Zenon, <1>2, <1>4, <1>5, <1>6 DEF Pointer
  <1>8. clast' \in [Buf -> Pointer]
    BY Zenon, <1>2, <1>4, <1>6 DEF PInv, TypeOK
  <1> QED
    BY Zenon, <1>1, <1>2, <1>3, <1>7, <1>8

\* A miss: the buffer is filled for the block asked for.
LEMMA GetMissTypes == ASSUME PInv, GetMiss PROVE PInv'
  <1>1. /\ key \in Block /\ key \in Dev \X Nat /\ key' = key /\ op' = op /\ q' = q
        /\ op # "commit"
        /\ pc' = "insert" /\ p' = clist[key[1]] /\ pos' \in Reachable
        /\ fill' = [fill EXCEPT ![sp'] = key]
        /\ buf' = [buf EXCEPT ![sp'] = disk[pos']]
        /\ UNCHANGED <<clist, changed, disk, made>>
    BY Zenon, SeekReaches DEF GetMiss, PInv, TypeOK
  <1>2. disk[pos'] \in Content
    BY Zenon, <1>1 DEF PInv, TypeOK
  <1>3. /\ cnt' \in 0 .. NSECACHS /\ sp' \in Buf /\ sp' # NULL
        /\ Used' = Used \cup {sp'} /\ Pointer' = Pointer \cup {sp'}
        /\ begin' \in Pointer' \ {NULL} /\ end' \in Pointer' \ {NULL}
        /\ anext' \in [Buf -> Pointer'] /\ alast' \in [Buf -> Pointer']
        /\ cnext' \in [Buf -> Pointer'] /\ clast' \in [Buf -> Pointer']
    <2>1. CASE AllocNew
      BY <2>1, AllocNewTypes DEF Pointer, Buf
    <2>2. CASE AllocRecycle
      <3>1. sp' \in Used /\ sp' \in Pointer /\ sp' \in Buf /\ sp' # NULL
        BY <2>2, AllocRecycleTypes DEF Pointer, Buf, Used
      <3>2. cnt' \in 0 .. NSECACHS
        BY Zenon, <2>2, AllocRecycleTypes DEF PInv, TypeOK
      <3> QED
        BY Zenon, <2>2, <3>1, <3>2, AllocRecycleTypes
    <2> QED
      BY Zenon, <2>1, <2>2 DEF GetMiss, scache_alloc
  <1>4. clist' \in [Dev -> Pointer'] /\ p' \in Pointer' /\ q' \in Pointer' /\ sp' \in Pointer'
    BY Zenon, <1>1, <1>3 DEF PInv, TypeOK
  <1>5. fill' \in [Buf -> Block \cup {NoBlock}] /\ buf' \in [Buf -> Content \cup {NoData}]
    BY Zenon, <1>1, <1>2, <1>3 DEF PInv, TypeOK
  <1>6. \A x \in Used' : fill'[x] \in Block /\ buf'[x] \in Content
    <2> SUFFICES ASSUME NEW x \in Used' PROVE fill'[x] \in Block /\ buf'[x] \in Content
      BY Zenon
    <2>1. x \in Buf /\ x \in Used \cup {sp'}
      BY Zenon, <1>3 DEF Used
    <2> QED
      BY Zenon, <1>1, <1>2, <1>3, <2>1 DEF PInv, TypeOK
  <1>7. TypeOK'
    BY Zenon, <1>1, <1>3, <1>4, <1>5, <1>6 DEF PInv, TypeOK
  <1> QED
    BY Zenon, <1>1, <1>3, <1>7 DEF PInv

\* No step of the cache makes a pointer leave the buffers in use.
LEMMA PNext == PInv /\ [Next]_vars => PInv'
  <1> SUFFICES ASSUME PInv, [Next]_vars PROVE PInv'
    BY Zenon
  <1> USE DEF PInv, TypeOK
  <1>1. ASSUME NEW k \in Block, NEW o \in {"read", "write", "update"}, Call(o, k)
        PROVE  PInv'
    BY Zenon, <1>1, Moves DEF Call, dataVars
  <1>2. ASSUME NEW k \in Block, CallCommit(k) PROVE PInv'
    BY Zenon, <1>2, Moves DEF CallCommit, dataVars
  <1>3. CASE Return
    BY Zenon, <1>3, Moves DEF Return, ToCaller, dataVars, Pointer
  <1>4. CASE ChangeBuffer
    <2>1. /\ sp \in Used /\ sp \in Buf /\ buf[sp] \in Content
      BY Zenon, <1>4 DEF ChangeBuffer, Pointer, Used
    <2>2. Changed(buf[sp]) \in Content
      BY SMTT(30), <2>1 DEF Changed, Content
    <2>3. Used' = Used /\ Pointer' = Pointer /\ NULL \in Pointer
      BY Zenon, <1>4 DEF ChangeBuffer, alistVars, Used, Pointer
    <2>4. made' \in [Block -> Nat]
      BY <1>4 DEF ChangeBuffer
    <2>5. buf' \in [Buf -> Content \cup {NoData}]
      BY Zenon, <1>4, <2>1, <2>2 DEF ChangeBuffer
    <2>6. \A x \in Used : fill'[x] \in Block /\ buf'[x] \in Content
      BY Zenon, <1>4, <2>1, <2>2 DEF ChangeBuffer, Used
    <2>7. changed' \in [Buf -> BOOLEAN]
      BY Zenon, <1>4 DEF ChangeBuffer
    <2>8. /\ UNCHANGED <<alistVars, clistVars, fill, disk, pos>>
          /\ \/ ToCaller
             \/ pc' = "sync" /\ p' = clist[key[1]] /\ UNCHANGED <<op, key, sp, q>> /\ key \in Dev \X Nat
      BY Zenon, <1>4 DEF ChangeBuffer
    <2>9. sp' \in Pointer /\ p' \in Pointer /\ q' \in Pointer
      BY <2>3, <2>8 DEF ToCaller
    <2>10. TypeOK'
      BY Zenon, <2>3, <2>4, <2>5, <2>6, <2>7, <2>8, <2>9 DEF ToCaller, alistVars, clistVars
    <2> QED
      BY Zenon, <1>4, <2>8, <2>10 DEF ToCaller, alistVars, ChangeBuffer
  <1>5. CASE SeekNext
    BY SMTT(30), <1>5, Moves DEF SeekNext, dataVars, Pointer, Used
  <1>6. CASE GetHit
    <2>1. p \in Used /\ p # NULL
      BY Zenon, <1>6 DEF GetHit, Found, Pointer
    <2>2. Used' = Used /\ Pointer' = Pointer
      BY Zenon, <1>6 DEF GetHit, Used, Pointer
    <2>3. TypeOK'
      BY Zenon, <1>6, <2>1, <2>2, PromoTypes DEF GetHit, clistVars, dataVars
    <2> QED
      BY Zenon, <1>6, <2>1, <2>3, PromoTypes DEF GetHit
  <1>7. CASE GetMiss
    BY Zenon, <1>7, GetMissTypes
  <1>8. CASE GetRefused
    BY Zenon, <1>8, Moves DEF GetRefused, ToCaller, dataVars, Pointer
  <1>9. ASSUME InsertDone, pc = "insert",
               clist' \in [Dev -> Pointer], cnext' \in [Buf -> Pointer], clast' \in [Buf -> Pointer]
        PROVE  PInv'
    <2>1. Used' = Used /\ Pointer' = Pointer
      BY Zenon, <1>9 DEF InsertDone, alistVars, Used, Pointer
    <2>2. TypeOK'
      BY Zenon, <1>9, <2>1 DEF InsertDone, alistVars, dataVars
    <2> QED
      BY Zenon, <1>9, <2>2 DEF InsertDone, alistVars
  <1>10. sp \in Pointer /\ p \in Pointer /\ NULL \in Pointer
    BY Zenon DEF Pointer
  <1>11. CASE InsertFirst
    BY Zenon, <1>9, <1>10, <1>11 DEF InsertFirst
  <1>12. CASE InsertNext
    BY Zenon, <1>12, Moves DEF InsertNext, dataVars, Pointer, Used
  <1>13. CASE InsertSame
    BY Zenon, <1>9, <1>13 DEF InsertSame, clistVars
  <1>14. CASE InsertBefore
    BY Zenon, <1>9, <1>10, <1>14 DEF InsertBefore, Pointer, Used
  <1>15. CASE InsertLast
    BY Zenon, <1>9, <1>10, <1>15 DEF InsertLast
  <1>16. CASE SyncHit
    <2>1. p \in Used /\ pos' \in Reachable /\ buf[p] \in Content
      BY Zenon, <1>16, SeekReaches DEF SyncHit, Found, Pointer
    <2>2. disk' \in [Block -> Content]
      BY Zenon, <1>16, <2>1 DEF SyncHit
    <2>3. op = "commit" => q \in Buf
      BY Zenon, <1>16 DEF SyncHit, Pointer, Used
    <2> QED
      BY SMTT(30), <1>10, <1>16, <2>1, <2>2, <2>3, Moves DEF SyncHit, SyncDone, ToCaller
  <1>17. CASE CommitNext
    <2>1. q \in Used /\ q \in Buf /\ BlkOf(q) \in Nat
      BY SMTT(30), <1>17 DEF CommitNext, Pointer, Used, BlkOf
    <2> QED
      BY SMTT(30), <1>17, <2>1, Moves DEF CommitNext, dataVars
  <1>18. CASE CommitDone
    BY Zenon, <1>18, Moves DEF CommitDone, ToCaller, dataVars, Pointer
  <1>19. CASE UNCHANGED vars
    BY SMTT(30), <1>19, Moves DEF vars, dataVars, callVars
  <1> QED
    BY Zenon, <1>1, <1>2, <1>3, <1>4, <1>5, <1>6, <1>7, <1>8, <1>11, <1>12, <1>13,
       <1>14, <1>15, <1>16, <1>17, <1>18, <1>19 DEF Next, Step

\* Every pointer of the cache is null or leads to a buffer in use and every
\* buffer in use holds a block's data, whatever is recycled.
THEOREM TypeCorrect == Spec => []TypeOK
  <1>1. Spec => []PInv
    BY PInit, PNext, PTL DEF Spec
  <1>2. PInv => TypeOK
    BY Zenon DEF PInv
  <1> QED
    BY <1>1, <1>2, PTL

-----------------------------------------------------------------------------
(* The lists, while the blocks fit into the cache.                         *)

\* The lists of the empty cache.
LEMMA LInit == Init => LInv
  <1> SUFFICES ASSUME Init PROVE LInv
    OBVIOUS
  <1>1. Used = {}
    BY DEF Init, Used, Buf
  <1>2. \A d : Listed(d) = {}
    BY Zenon, <1>1 DEF Listed
  <1>3. ClistsSorted
    BY Zenon, <1>2 DEF Init, ClistsSorted, ClistSorted
  <1> QED
    BY Zenon, <1>3, PInit DEF Init, LInv, LoopInv

\* What is on a list is a buffer in use, filled for a block of its device.
LEMMA ListedTypes ==
    ASSUME PInv, NEW d, NEW x \in Listed(d)
    PROVE  /\ x \in Used /\ x \in Buf /\ x # NULL
           /\ fill[x] \in Block /\ fill[x] = <<d, BlkOf(x)>> /\ BlkOf(x) \in Nat
  <1>1. x \in Used /\ x \in Buf /\ x # NULL /\ fill[x][1] = d
    BY DEF Listed, Used, Buf
  <1>2. fill[x] \in Block
    BY Zenon, <1>1 DEF PInv, TypeOK
  <1> QED
    BY <1>1, <1>2 DEF BlkOf

\* The lists stay sorted when neither they nor what is on them changes.
LEMMA SameLists ==
    ASSUME PInv, ClistsSorted, UNCHANGED clistVars,
           \A d \in Dev : Listed(d)' = Listed(d),
           \A d \in Dev : \A x \in Listed(d) : fill'[x] = fill[x]
    PROVE  ClistsSorted'
  <1> SUFFICES ASSUME NEW d \in Dev PROVE ClistSorted(d)'
    BY Zenon DEF ClistsSorted
  <1>1. ClistSorted(d) /\ Listed(d)' = Listed(d) /\ UNCHANGED <<clist, cnext, clast>>
    BY Zenon DEF ClistsSorted, clistVars
  <1>2. \A x \in Listed(d) : BlkOf(x)' = BlkOf(x)
    BY Zenon DEF BlkOf
  <1>3. \A x, y \in Listed(d) : (BlkOf(x) = BlkOf(y))' => x = y
    BY Zenon, <1>1, <1>2 DEF ClistSorted
  <1>4. IF clist'[d] = NULL THEN Listed(d)' = {}
                            ELSE /\ clist'[d] \in Listed(d)'
                                 /\ \A x \in Listed(d)' : (BlkOf(clist[d]) <= BlkOf(x))'
    BY SMTT(30), <1>1, <1>2 DEF ClistSorted
  <1>5. ASSUME NEW x \in Listed(d)
        PROVE  IsNext(cnext[x], x, Listed(d))' /\ IsLast(clast[x], x, Listed(d))'
    <2>1. IsNext(cnext[x], x, Listed(d)) /\ IsLast(clast[x], x, Listed(d))
      BY Zenon, <1>1, <1>5 DEF ClistSorted
    <2> QED
      BY <1>1, <1>2, <1>5, <2>1 DEF IsNext, IsLast
  <1> QED
    BY <1>1, <1>3, <1>4, <1>5 DEF ClistSorted

\* Steps outside scache_insert that leave the buffers in place.
LEMMA ListedSame ==
    ASSUME UNCHANGED <<cnt, fill>>,
           \/ pc # "insert" /\ pc' # "insert"
           \/ pc = "insert" /\ pc' = "insert" /\ sp' = sp
    PROVE  \A d : Listed(d)' = Listed(d)
  BY Zenon DEF Listed, Used

\* A loop begins at the head of the list.
LEMMA HeadFirst ==
    ASSUME LInv, NEW d \in Dev
    PROVE  /\ clist[d] = NULL => Listed(d) = {}
           /\ clist[d] # NULL => /\ clist[d] \in Listed(d)
                                 /\ \A x \in Listed(d) : BlkOf(clist[d]) <= BlkOf(x)
  BY Zenon DEF LInv, ClistsSorted, ClistSorted

\* scache_insert puts its buffer on the list of its device.
LEMMA InsertLists ==
    ASSUME LInv, pc = "insert", InsertDone
    PROVE  /\ sp \in Buf /\ fill[sp] = key /\ BlkOf(sp) = key[2] /\ BlkOf(sp) \in Nat
           /\ key[1] \in Dev /\ key \in Block /\ sp \in Used /\ sp # NULL
           /\ \A d : sp \notin Listed(d)
           /\ Listed(key[1])' = Listed(key[1]) \cup {sp}
           /\ \A d : d # key[1] => Listed(d)' = Listed(d)
           /\ fill' = fill /\ key' = key /\ sp' = sp
           /\ \A x : BlkOf(x)' = BlkOf(x)
           /\ PInv /\ ClistSorted(key[1])
  <1>1. sp \in Used /\ sp \in Buf /\ key \in Block /\ sp # NULL
    BY Zenon DEF LInv, PInv, TypeOK, Pointer, Used
  <1>2. fill[sp] = key /\ BlkOf(sp) = key[2] /\ BlkOf(sp) \in Nat /\ key[1] \in Dev
    BY Zenon, <1>1 DEF LInv, LoopInv, BlkOf
  <1>3. \A d : sp \notin Listed(d)
    BY Zenon DEF Listed
  <1>4. Used' = Used /\ fill' = fill /\ pc' = "got" /\ sp' = sp /\ key' = key
    BY Zenon DEF InsertDone, alistVars, dataVars, Used
  <1>5. Listed(key[1])' = Listed(key[1]) \cup {sp}
    BY Zenon, <1>1, <1>2, <1>4 DEF Listed
  <1>6. \A d : d # key[1] => Listed(d)' = Listed(d)
    BY Zenon, <1>1, <1>2, <1>4 DEF Listed
  <1>7. \A x : BlkOf(x)' = BlkOf(x)
    BY Zenon, <1>4 DEF BlkOf
  <1>8. PInv /\ ClistSorted(key[1])
    BY Zenon, <1>2 DEF LInv, ClistsSorted
  <1> QED
    BY Zenon, <1>1, <1>2, <1>3, <1>4, <1>5, <1>6, <1>7, <1>8

\* The lists of the other devices are not touched.
LEMMA OtherLists ==
    ASSUME LInv, pc = "insert", InsertDone,
           \A d \in Dev : d # key[1] => clist'[d] = clist[d],
           \A x \in Buf : x \notin Listed(key[1]) \cup {sp} =>
                            cnext'[x] = cnext[x] /\ clast'[x] = clast[x],
           ClistSorted(key[1])'
    PROVE  ClistsSorted'
  <1> SUFFICES ASSUME NEW d \in Dev, d # key[1] PROVE ClistSorted(d)'
    BY InsertLists DEF ClistsSorted
  <1>1. ClistSorted(d) /\ Listed(d)' = Listed(d) /\ clist'[d] = clist[d]
    BY Zenon, InsertLists DEF LInv, ClistsSorted
  <1>2. \A x : BlkOf(x)' = BlkOf(x)
    BY Zenon, InsertLists
  <1>3. ASSUME NEW x \in Listed(d) PROVE cnext'[x] = cnext[x] /\ clast'[x] = clast[x]
    <2>1. x \in Buf /\ x # sp /\ x \notin Listed(key[1])
      BY Zenon, <1>3, InsertLists DEF Listed, Used
    <2> QED
      BY Zenon, <2>1
  <1>4. ASSUME NEW x \in Listed(d)
        PROVE  IsNext(cnext[x], x, Listed(d))' /\ IsLast(clast[x], x, Listed(d))'
    <2>1. IsNext(cnext[x], x, Listed(d)) /\ IsLast(clast[x], x, Listed(d))
      BY Zenon, <1>1, <1>4 DEF ClistSorted
    <2> QED
      BY SMTT(30), <1>1, <1>2, <1>3, <1>4, <2>1 DEF IsNext, IsLast
  <1> QED
    BY SMTT(30), <1>1, <1>2, <1>4 DEF ClistSorted

\* scache_insert into an empty list.
LEMMA InsertFirstSorted == ASSUME LInv, InsertFirst PROVE ClistsSorted'
  <1>1. pc = "insert" /\ InsertDone /\ p = NULL
    BY Zenon DEF InsertFirst
  <1>2. Listed(key[1])' = {sp}
    BY Zenon, <1>1, InsertLists DEF LInv, LoopInv
  <1>3. clist'[key[1]] = sp /\ cnext'[sp] = NULL /\ clast'[sp] = NULL /\ BlkOf(sp)' \in Nat
    BY Zenon, <1>1, InsertLists DEF InsertFirst, PInv, TypeOK
  <1>4. ClistSorted(key[1])'
    BY SMTT(30), <1>1, <1>2, <1>3, InsertLists DEF ClistSorted, IsNext, IsLast
  <1>5. \A d \in Dev : d # key[1] => clist'[d] = clist[d]
    BY Zenon, <1>1, InsertLists DEF InsertFirst, PInv, TypeOK
  <1>6. \A x \in Buf : x # sp => cnext'[x] = cnext[x] /\ clast'[x] = clast[x]
    BY Zenon, <1>1, InsertLists DEF InsertFirst, PInv, TypeOK
  <1> QED
    BY Zenon, <1>1, <1>4, <1>5, <1>6, OtherLists

\* scache_insert before the first buffer of a higher block.
LEMMA InsertBeforeSorted == ASSUME LInv, InsertBefore PROVE ClistsSorted'
  <1>1. pc = "insert" /\ InsertDone /\ p # NULL /\ BlkOf(p) > BlkOf(sp)
    BY Zenon DEF InsertBefore
  <1> DEFINE S == Listed(key[1])
             l == clast[p]
             b(x) == BlkOf(x)
  <1>2. p \in S /\ p \in Buf /\ p # sp
    BY Zenon, <1>1, InsertLists, ListedTypes DEF LInv, LoopInv
  <1>3. \A x \in S : b(x) \in Nat /\ x \in Buf /\ x # NULL
    BY Zenon, <1>1, InsertLists, ListedTypes
  <1>4. \A x \in S : b(x) < b(p) => b(x) < b(sp)
    BY Zenon, <1>1, InsertLists DEF LInv, LoopInv
  <1>5. IF l = NULL THEN \A z \in S : b(p) <= b(z)
                    ELSE l \in S /\ b(l) < b(p) /\ \A z \in S : b(p) <= b(z) \/ b(z) <= b(l)
    BY Zenon, <1>1, <1>2, InsertLists DEF ClistSorted, IsLast
  <1>6. \A x, y \in S : b(x) = b(y) => x = y
    BY Zenon, <1>1, InsertLists DEF ClistSorted
  <1>7. /\ S' = S \cup {sp} /\ sp \notin S /\ sp \in Buf /\ b(sp) \in Nat
        /\ \A x : b(x)' = b(x)
    BY Zenon, <1>1, InsertLists
  <1>8. /\ clast'[sp] = l /\ clast'[p] = sp /\ cnext'[sp] = p
        /\ l # NULL => cnext'[l] = sp
        /\ \A x \in Buf : x # sp /\ x # p => clast'[x] = clast[x]
        /\ \A x \in Buf : x # sp /\ x # l => cnext'[x] = cnext[x]
    BY Zenon, <1>2, <1>3, <1>5, <1>7, InsertLists, <1>1 DEF InsertBefore, PInv, TypeOK
  <1>9. /\ l = NULL => clist'[key[1]] = sp
        /\ l # NULL => clist'[key[1]] = clist[key[1]]
        /\ \A d \in Dev : d # key[1] => clist'[d] = clist[d]
    BY Zenon, <1>1, InsertLists DEF InsertBefore, PInv, TypeOK
  <1>10. l = NULL => clist[key[1]] = p
    <2>1. clist[key[1]] # NULL /\ clist[key[1]] \in S /\ b(clist[key[1]]) <= b(p)
      BY Zenon, <1>1, <1>2, InsertLists DEF ClistSorted
    <2> QED
      BY <1>2, <1>3, <1>5, <1>6, <2>1
  <1>11. /\ clist[key[1]] # NULL /\ clist[key[1]] \in S
         /\ \A x \in S : b(clist[key[1]]) <= b(x)
    BY Zenon, <1>1, <1>2, InsertLists DEF ClistSorted
  <1>12. ASSUME NEW x \in S, NEW y \in S PROVE
         /\ cnext[x] = y => b(x) < b(y) /\ \A z \in S : b(z) <= b(x) \/ b(y) <= b(z)
         /\ clast[x] = y => b(y) < b(x) /\ \A z \in S : b(x) <= b(z) \/ b(z) <= b(y)
    BY Zenon, <1>1, <1>3, <1>12, InsertLists DEF ClistSorted, IsNext, IsLast
  <1>13. ASSUME NEW x \in S PROVE
         /\ IF cnext[x] = NULL THEN \A z \in S : b(z) <= b(x) ELSE cnext[x] \in S
         /\ IF clast[x] = NULL THEN \A z \in S : b(x) <= b(z) ELSE clast[x] \in S
    BY Zenon, <1>1, <1>13, InsertLists DEF ClistSorted, IsNext, IsLast
  <1> HIDE DEF S, l, b
  <1>14. \A x \in S : b(x) # b(sp)
    BY Zenon, <1>1, InsertLists DEF LInv, LoopInv, S, b
  <1>20. ASSUME NEW x \in S'
         PROVE  IF cnext'[x] = NULL THEN \A z \in S' : b(z) <= b(x)
                  ELSE /\ cnext'[x] \in S' /\ b(x) < b(cnext'[x])
                       /\ \A z \in S' : b(z) <= b(x) \/ b(cnext'[x]) <= b(z)
    <2>0. b(sp) < b(p) /\ p # NULL
      BY Zenon, <1>1 DEF b
    <2>1. CASE x = sp
      BY SMTT(30), <1>2, <1>3, <1>4, <1>5, <1>7, <1>8, <2>0, <2>1
    <2>2. CASE x # sp /\ x = l
      BY SMTT(30), <1>2, <1>3, <1>4, <1>5, <1>7, <1>8, <2>0, <2>2, <1>20, InsertLists, <1>1
    <2>3. CASE x # sp /\ x # l
      <3>1. x \in S /\ cnext'[x] = cnext[x]
        BY Zenon, <1>3, <1>7, <1>8, <1>20, <2>3
      <3>2. CASE cnext[x] = NULL
        BY SMTT(30), <1>2, <1>3, <1>7, <1>13, <2>0, <3>1, <3>2
      <3>3. CASE cnext[x] # NULL
        <4>1. cnext[x] \in S /\ b(x) < b(cnext[x]) /\ \A z \in S : b(z) <= b(x) \/ b(cnext[x]) <= b(z)
          BY Zenon, <1>12, <1>13, <3>1, <3>3
        <4>2. b(sp) <= b(x) \/ b(cnext[x]) <= b(sp)
          BY SMTT(30), <1>2, <1>3, <1>4, <1>5, <1>6, <1>7, <2>0, <2>3, <3>1, <4>1
        <4> QED
          BY Zenon, <1>7, <3>1, <3>3, <4>1, <4>2
      <3> QED
        BY Zenon, <3>2, <3>3
    <2> QED
      BY Zenon, <2>1, <2>2, <2>3
  <1>21. ASSUME NEW x \in S'
         PROVE  IF clast'[x] = NULL THEN \A z \in S' : b(x) <= b(z)
                  ELSE /\ clast'[x] \in S' /\ b(clast'[x]) < b(x)
                       /\ \A z \in S' : b(x) <= b(z) \/ b(z) <= b(clast'[x])
    <2>0. b(sp) < b(p) /\ sp # NULL
      BY Zenon, <1>1, InsertLists DEF b
    <2>1. CASE x = sp
      <3>1. CASE l = NULL
        BY SMTT(30), <1>3, <1>5, <1>7, <1>8, <2>0, <2>1, <3>1, <1>2
      <3>2. CASE l # NULL
        BY SMTT(30), <1>2, <1>3, <1>4, <1>5, <1>7, <1>8, <2>0, <2>1, <3>2
      <3> QED
        BY Zenon, <3>1, <3>2
    <2>2. CASE x = p
      BY SMTT(30), <1>2, <1>3, <1>4, <1>5, <1>7, <1>8, <2>0, <2>2
    <2>3. CASE x # sp /\ x # p
      <3>1. x \in S /\ clast'[x] = clast[x]
        BY Zenon, <1>3, <1>7, <1>8, <1>21, <2>3
      <3>2. CASE clast[x] = NULL
        <4>1. \A z \in S : b(x) <= b(z)
          BY Zenon, <1>13, <3>1, <3>2
        <4>2. b(x) < b(p)
          BY <1>2, <1>3, <1>6, <2>3, <3>1, <4>1
        <4> QED
          BY SMTT(30), <1>3, <1>4, <1>7, <3>1, <3>2, <4>1, <4>2
      <3>3. CASE clast[x] # NULL
        <4>1. clast[x] \in S /\ b(clast[x]) < b(x) /\ \A z \in S : b(x) <= b(z) \/ b(z) <= b(clast[x])
          BY Zenon, <1>12, <1>13, <3>1, <3>3
        <4>2. b(x) <= b(sp) \/ b(sp) <= b(clast[x])
          BY SMTT(30), <1>2, <1>3, <1>4, <1>5, <1>6, <1>7, <2>0, <2>3, <3>1, <4>1
        <4> QED
          BY Zenon, <1>7, <3>1, <3>3, <4>1, <4>2
      <3> QED
        BY Zenon, <3>2, <3>3
    <2> QED
      BY Zenon, <2>1, <2>2, <2>3
  <1>22. /\ clist'[key[1]] # NULL /\ clist'[key[1]] \in S'
         /\ \A x \in S' : b(clist'[key[1]]) <= b(x)
    <2>1. CASE l = NULL
      BY SMTT(30), <1>1, <1>2, <1>3, <1>5, <1>7, <1>9, <2>1, InsertLists DEF b
    <2>2. CASE l # NULL
      <3>1. b(clist[key[1]]) <= b(sp)
        BY SMTT(30), <1>3, <1>4, <1>5, <1>7, <1>11, <2>2
      <3> QED
        BY Zenon, <1>7, <1>9, <1>11, <2>2, <3>1
    <2> QED
      BY Zenon, <2>1, <2>2
  <1>23. \A x, y \in S' : b(x) = b(y) => x = y
    BY Zenon, <1>6, <1>7, <1>14
  <1>24. ClistSorted(key[1])'
    <2>1. Listed(key[1])' = S' /\ (\A x : BlkOf(x)' = b(x)) /\ key' = key
      BY Zenon, <1>1, <1>7, InsertLists DEF S, b
    <2> QED
      BY Zenon, <1>7, <1>20, <1>21, <1>22, <1>23, <2>1 DEF ClistSorted, IsNext, IsLast
  <1>25. \A x \in Buf : x \notin Listed(key[1]) \cup {sp} => cnext'[x] = cnext[x] /\ clast'[x] = clast[x]
    BY <1>2, <1>5, <1>8 DEF S, l, Buf
  <1> QED
    BY Zenon, <1>1, <1>9, <1>24, <1>25, OtherLists

\* scache_insert behind the last buffer.
LEMMA InsertLastSorted == ASSUME LInv, InsertLast PROVE ClistsSorted'
  <1>1. pc = "insert" /\ InsertDone /\ p # NULL /\ BlkOf(p) < BlkOf(sp) /\ cnext[p] = NULL
    BY Zenon DEF InsertLast
  <1> DEFINE S == Listed(key[1])
             b(x) == BlkOf(x)
  <1>2. p \in S /\ p \in Buf /\ p # sp
    BY Zenon, <1>1, InsertLists, ListedTypes DEF LInv, LoopInv
  <1>3. \A x \in S : b(x) \in Nat /\ x \in Buf /\ x # NULL
    BY Zenon, <1>1, InsertLists, ListedTypes
  <1>4. \A x \in S : b(x) <= b(p)
    BY Zenon, <1>1, <1>2, InsertLists DEF ClistSorted, IsNext
  <1>5. \A x, y \in S : b(x) = b(y) => x = y
    BY Zenon, <1>1, InsertLists DEF ClistSorted
  <1>6. /\ S' = S \cup {sp} /\ sp \notin S /\ sp \in Buf /\ b(sp) \in Nat /\ sp # NULL
        /\ (\A x : b(x)' = b(x)) /\ key' = key
    BY Zenon, <1>1, InsertLists
  <1>7. /\ clast'[sp] = p /\ cnext'[sp] = NULL /\ cnext'[p] = sp /\ clist' = clist
        /\ \A x \in Buf : x # sp => clast'[x] = clast[x]
        /\ \A x \in Buf : x # sp /\ x # p => cnext'[x] = cnext[x]
    BY Zenon, <1>1, <1>2, <1>6, InsertLists DEF InsertLast, PInv, TypeOK
  <1>8. \A x \in S : b(x) < b(sp)
    BY SMTT(30), <1>1, <1>2, <1>3, <1>4, <1>6
  <1>9. ASSUME NEW x \in S
        PROVE  /\ IF cnext[x] = NULL THEN \A z \in S : b(z) <= b(x)
                    ELSE /\ cnext[x] \in S /\ b(x) < b(cnext[x])
                         /\ \A z \in S : b(z) <= b(x) \/ b(cnext[x]) <= b(z)
               /\ IF clast[x] = NULL THEN \A z \in S : b(x) <= b(z)
                    ELSE /\ clast[x] \in S /\ b(clast[x]) < b(x)
                         /\ \A z \in S : b(x) <= b(z) \/ b(z) <= b(clast[x])
    BY Zenon, <1>1, <1>9, InsertLists DEF ClistSorted, IsNext, IsLast
  <1>10. /\ clist[key[1]] # NULL /\ clist[key[1]] \in S
         /\ \A x \in S : b(clist[key[1]]) <= b(x)
    BY Zenon, <1>1, <1>2, InsertLists DEF ClistSorted
  <1> HIDE DEF S, b
  <1>11. ASSUME NEW x \in S'
         PROVE  IF cnext'[x] = NULL THEN \A z \in S' : b(z) <= b(x)
                  ELSE /\ cnext'[x] \in S' /\ b(x) < b(cnext'[x])
                       /\ \A z \in S' : b(z) <= b(x) \/ b(cnext'[x]) <= b(z)
    <2>1. CASE x = sp
      BY SMTT(30), <1>3, <1>6, <1>7, <1>8, <2>1
    <2>2. CASE x = p
      BY SMTT(30), <1>2, <1>3, <1>4, <1>6, <1>7, <1>8, <2>2
    <2>3. CASE x # sp /\ x # p
      <3>1. x \in S /\ cnext'[x] = cnext[x] /\ cnext[x] # NULL
        BY SMTT(30), <1>2, <1>3, <1>4, <1>5, <1>6, <1>7, <1>9, <1>11, <2>3
      <3> QED
        BY SMTT(30), <1>3, <1>6, <1>8, <1>9, <3>1
    <2> QED
      BY Zenon, <2>1, <2>2, <2>3
  <1>12. ASSUME NEW x \in S'
         PROVE  IF clast'[x] = NULL THEN \A z \in S' : b(x) <= b(z)
                  ELSE /\ clast'[x] \in S' /\ b(clast'[x]) < b(x)
                       /\ \A z \in S' : b(x) <= b(z) \/ b(z) <= b(clast'[x])
    <2>1. CASE x = sp
      BY SMTT(30), <1>1, <1>2, <1>3, <1>4, <1>6, <1>7, <1>8, <2>1
    <2>2. CASE x # sp
      <3>1. x \in S /\ clast'[x] = clast[x] /\ b(x) < b(sp)
        BY Zenon, <1>3, <1>6, <1>7, <1>8, <1>12, <2>2
      <3> QED
        BY <1>3, <1>6, <1>9, <3>1
    <2> QED
      BY Zenon, <2>1, <2>2
  <1>13. /\ clist'[key[1]] # NULL /\ clist'[key[1]] \in S'
         /\ \A x \in S' : b(clist'[key[1]]) <= b(x)
    BY SMTT(30), <1>3, <1>6, <1>7, <1>8, <1>10
  <1>14. \A x, y \in S' : b(x) = b(y) => x = y
    BY SMTT(30), <1>3, <1>5, <1>6, <1>8
  <1>15. ClistSorted(key[1])'
    <2>1. Listed(key[1])' = S' /\ \A x : BlkOf(x)' = b(x)
      BY Zenon, <1>6 DEF S, b
    <2> QED
      BY Zenon, <1>6, <1>11, <1>12, <1>13, <1>14, <2>1 DEF ClistSorted, IsNext, IsLast
  <1>16. \A x \in Buf : x \notin Listed(key[1]) \cup {sp} => cnext'[x] = cnext[x] /\ clast'[x] = clast[x]
    BY Zenon, <1>2, <1>7 DEF S
  <1> QED
    BY Zenon, <1>1, <1>7, <1>15, <1>16, OtherLists

\* A miss while there are unused buffers: the lists stay as they are, and
\* scache_insert begins at the head.
LEMMA GetMissLists ==
    ASSUME LInv, Fits, GetMiss
    PROVE  ClistsSorted' /\ LoopInv'
  <1>1. PInv /\ AllocNew /\ pc = "get" /\ p = NULL /\ key \in Block /\ key[1] \in Dev
    BY DEF LInv, PInv, Fits, GetMiss, scache_alloc, AllocRecycle
  <1>2. sp' \in Buf /\ sp' \notin Used /\ Used' = Used \cup {sp'}
    BY Zenon, <1>1, AllocNewTypes
  <1>3. fill' = [fill EXCEPT ![sp'] = key] /\ pc' = "insert" /\ key' = key
        /\ p' = clist[key[1]] /\ q' = q /\ UNCHANGED clistVars
    BY Zenon, <1>1 DEF GetMiss, AllocNew, clistVars
  <1>4. fill'[sp'] = key /\ \A x \in Used : fill'[x] = fill[x]
    BY Zenon, <1>1, <1>2, <1>3 DEF PInv, TypeOK, Used
  <1>5. \A d : Listed(d)' = Listed(d)
    BY Zenon, <1>1, <1>2, <1>3, <1>4 DEF Listed
  <1>6. \A d : \A x \in Listed(d) : fill'[x] = fill[x] /\ BlkOf(x)' = BlkOf(x) /\ BlkOf(x) \in Nat
    BY Zenon, <1>1, <1>4, ListedTypes DEF BlkOf
  <1>7. ClistsSorted'
    BY Zenon, <1>1, <1>3, <1>5, <1>6, SameLists DEF LInv
  <1>8. \A x \in Listed(key[1]) : BlkOf(x) # key[2]
    BY Zenon, <1>1 DEF LInv, LoopInv
  <1>9. q = NULL
    BY Zenon, <1>1 DEF LInv, LoopInv
  <1>10. LoopInv'
    BY SMTT(30), <1>1, <1>3, <1>4, <1>5, <1>6, <1>8, <1>9, HeadFirst DEF LoopInv
  <1> QED
    BY Zenon, <1>7, <1>10

\* While the blocks fit, every step keeps the lists sorted and the loops on them.
LEMMA LNext == LInv /\ Fits /\ [Next]_vars => LInv'
  <1> SUFFICES ASSUME LInv, Fits, [Next]_vars PROVE ClistsSorted' /\ LoopInv'
    BY Zenon, PNext DEF LInv
  <1>p. PInv /\ ClistsSorted /\ LoopInv
    BY Zenon DEF LInv
  <1>n. \A d : \A x \in Listed(d) : BlkOf(x) \in Nat
    BY Zenon, <1>p, ListedTypes
  <1>s. ASSUME UNCHANGED <<cnt, fill, clistVars>>,
               \/ pc # "insert" /\ pc' # "insert"
               \/ pc = "insert" /\ pc' = "insert" /\ sp' = sp
        PROVE  /\ ClistsSorted'
               /\ \A d : Listed(d)' = Listed(d)
               /\ \A x : BlkOf(x)' = BlkOf(x)
    BY Zenon, <1>p, <1>s, ListedSame, SameLists DEF BlkOf
  <1>1. ASSUME NEW k \in Block, NEW o \in {"read", "write", "update"}, Call(o, k)
        PROVE  ClistsSorted' /\ LoopInv'
    <2>1. k[1] \in Dev /\ q = NULL
      BY Zenon, <1>1 DEF Call, LInv, LoopInv
    <2> QED
      BY SMTT(30), <1>1, <1>s, <1>n, <2>1, HeadFirst DEF Call, LoopInv, alistVars, dataVars
  <1>2. ASSUME NEW k \in Block, CallCommit(k) PROVE ClistsSorted' /\ LoopInv'
    <2>1. k[1] \in Dev
      BY SMTT(30)
    <2> QED
      BY Zenon, <1>2, <1>s, <2>1, HeadFirst DEF CallCommit, LoopInv, alistVars, dataVars
  <1>3. CASE Return
    BY Zenon, <1>3, <1>s DEF Return, ToCaller, LoopInv, alistVars, dataVars
  <1>4. CASE ChangeBuffer
    <2>1. /\ key \in Block /\ key[1] \in Dev /\ fill[sp] = key /\ q = NULL
          /\ pc = "got" /\ sp \in Used
      BY Zenon, <1>4, <1>p DEF ChangeBuffer, LoopInv, PInv, TypeOK, Pointer
    <2>2. sp \in Listed(key[1]) /\ BlkOf(sp) = key[2]
      BY Zenon, <2>1 DEF Listed, BlkOf
    <2>3. pc' # "insert" /\ UNCHANGED <<cnt, fill, clistVars>>
      BY Zenon, <1>4 DEF ChangeBuffer, ToCaller, alistVars
    <2>4. CASE op = "write"
      BY Zenon, <1>4, <1>s, <2>1, <2>3, <2>4 DEF ChangeBuffer, ToCaller, LoopInv
    <2>5. CASE op # "write"
      BY SMTT(30), <1>4, <1>s, <1>n, <2>1, <2>2, <2>3, <2>5, HeadFirst DEF ChangeBuffer, LoopInv
    <2> QED
      BY Zenon, <2>4, <2>5
  <1>5. CASE SeekNext
    <2>1. /\ pc \in {"get", "sync"} /\ p # NULL /\ BlkOf(p) # key[2] /\ p' = cnext[p]
          /\ UNCHANGED <<cnt, fill, clistVars, pc, op, key, sp, q>>
      BY Zenon, <1>5 DEF SeekNext, alistVars, dataVars
    <2>2. p \in Listed(key[1]) /\ \A x \in Listed(key[1]) : BlkOf(x) = key[2] => BlkOf(p) <= key[2]
      BY Zenon, <2>1 DEF LInv, LoopInv
    <2>3. key[1] \in Dev /\ key[2] \in Nat
      BY Zenon, <1>p, <2>1 DEF PInv, TypeOK
    <2>4. IsNext(cnext[p], p, Listed(key[1]))
      BY Zenon, <1>p, <2>2, <2>3 DEF ClistsSorted, ClistSorted
    <2>5. IF cnext[p] = NULL
            THEN \A x \in Listed(key[1]) : BlkOf(x) # key[2]
            ELSE /\ cnext[p] \in Listed(key[1])
                 /\ \A x \in Listed(key[1]) : BlkOf(x) = key[2] => BlkOf(cnext[p]) <= key[2]
      BY <1>n, <2>1, <2>2, <2>3, <2>4 DEF IsNext
    <2> QED
      BY Zenon, <1>p, <1>s, <2>1, <2>5 DEF LoopInv
  <1>6. CASE GetHit
    <2>1. /\ pc = "get" /\ Found /\ sp' = p /\ pc' = "got"
          /\ UNCHANGED <<cnt, fill, clistVars, key, q>>
      BY Zenon, <1>6 DEF GetHit, dataVars
    <2>2. p \in Listed(key[1]) /\ key \in Block /\ q = NULL
      BY Zenon, <1>p, <2>1 DEF LoopInv, PInv, Found
    <2>3. fill[p] = key
      BY <1>p, <2>1, <2>2, ListedTypes DEF Found
    <2> QED
      BY Zenon, <1>s, <2>1, <2>2, <2>3 DEF LoopInv
  <1>7. CASE GetMiss
    BY Zenon, <1>7, GetMissLists
  <1>8. CASE GetRefused
    BY Zenon, <1>8, <1>s DEF GetRefused, ToCaller, LoopInv, alistVars, dataVars
  <1>9. ASSUME InsertDone, pc = "insert" PROVE LoopInv'
    <2>1. q = NULL /\ fill[sp] = key
      BY Zenon, <1>p, <1>9 DEF LoopInv
    <2> QED
      BY Zenon, <1>9, <2>1 DEF InsertDone, dataVars, LoopInv
  <1>10. CASE InsertFirst
    BY Zenon, <1>9, <1>10, InsertFirstSorted DEF InsertFirst
  <1>11. CASE InsertNext
    <2>1. /\ pc = "insert" /\ p # NULL /\ BlkOf(p) < BlkOf(sp) /\ cnext[p] # NULL
          /\ p' = cnext[p] /\ UNCHANGED <<cnt, fill, clistVars, pc, op, key, sp, q>>
      BY Zenon, <1>11 DEF InsertNext, alistVars, dataVars
    <2>2. /\ p \in Listed(key[1]) /\ fill[sp] = key /\ BlkOf(sp) = key[2]
          /\ key[1] \in Dev /\ key[2] \in Nat
      BY Zenon, <1>p, <2>1 DEF LoopInv, PInv, BlkOf
    <2>3. IsNext(cnext[p], p, Listed(key[1]))
      BY Zenon, <1>p, <2>2 DEF ClistsSorted, ClistSorted
    <2>4. /\ cnext[p] \in Listed(key[1])
          /\ \A x \in Listed(key[1]) : BlkOf(x) < BlkOf(cnext[p]) => BlkOf(x) < key[2]
      BY SMTT(30), <1>n, <2>1, <2>2, <2>3 DEF IsNext
    <2> QED
      BY Zenon, <1>p, <1>s, <2>1, <2>4 DEF LoopInv
  <1>12. CASE InsertSame
    <2>1. BlkOf(p) = key[2] /\ p \in Listed(key[1])
      BY Zenon, <1>p, <1>12 DEF InsertSame, LoopInv, BlkOf
    <2> QED
      BY Zenon, <1>p, <1>12, <2>1 DEF InsertSame, LoopInv
  <1>13. CASE InsertBefore
    BY Zenon, <1>9, <1>13, InsertBeforeSorted DEF InsertBefore
  <1>14. CASE InsertLast
    BY Zenon, <1>9, <1>14, InsertLastSorted DEF InsertLast
  <1>15. CASE SyncHit
    <2>1. pc = "sync" /\ SyncDone /\ UNCHANGED <<cnt, fill, clistVars>> /\ pc' # "insert"
      BY Zenon, <1>15 DEF SyncHit, SyncDone, alistVars, ToCaller
    <2>2. CASE op = "commit"
      <3>1. q \in Listed(key[1]) /\ key[1] \in Dev /\ q # NULL
        BY Zenon, <1>p, <2>1, <2>2 DEF LoopInv, PInv, TypeOK
      <3>2. IsNext(cnext[q], q, Listed(key[1]))
        BY Zenon, <1>p, <3>1 DEF ClistsSorted, ClistSorted
      <3> QED
        BY Zenon, <1>s, <2>1, <2>2, <3>1, <3>2 DEF SyncDone, LoopInv, IsNext
    <2>3. CASE op # "commit"
      BY Zenon, <1>s, <2>1, <2>3 DEF SyncDone, ToCaller, LoopInv
    <2> QED
      BY Zenon, <2>2, <2>3
  <1>16. CASE CommitNext
    <2>1. /\ pc = "commit" /\ q # NULL /\ UNCHANGED <<cnt, fill, clistVars>> /\ pc' # "insert"
      BY Zenon, <1>16 DEF CommitNext, alistVars, dataVars
    <2>2. q \in Listed(key[1]) /\ key[1] \in Dev
      BY Zenon, <1>p, <2>1 DEF LoopInv, PInv, TypeOK
    <2>3. CASE changed[q]
      <3>1. pc' = "sync" /\ key'[1] = key[1] /\ key'[2] = BlkOf(q) /\ p' = clist[key[1]] /\ q' = q
        BY SMTT(30), <1>16, <2>3 DEF CommitNext
      <3> QED
        BY SMTT(30), <1>s, <1>n, <2>1, <2>2, <3>1, HeadFirst DEF LoopInv
    <2>4. CASE ~changed[q]
      <3>1. IsNext(cnext[q], q, Listed(key[1]))
        BY Zenon, <1>p, <2>2 DEF ClistsSorted, ClistSorted
      <3> QED
        BY Zenon, <1>16, <1>s, <2>1, <2>2, <2>4, <3>1 DEF CommitNext, LoopInv, IsNext
    <2> QED
      BY Zenon, <2>3, <2>4
  <1>17. CASE CommitDone
    BY Zenon, <1>17, <1>s DEF CommitDone, ToCaller, LoopInv, alistVars, dataVars
  <1>18. CASE UNCHANGED vars
    <2>1. UNCHANGED <<cnt, fill, clistVars, pc, key, sp, p, q>>
      BY Zenon, <1>18 DEF vars, alistVars, dataVars, callVars
    <2> QED
      BY Zenon, <1>p, <1>s, <2>1 DEF LoopInv
  <1> QED
    BY Zenon, <1>1, <1>2, <1>3, <1>4, <1>5, <1>6, <1>7, <1>8, <1>10, <1>11, <1>12,
       <1>13, <1>14, <1>15, <1>16, <1>17, <1>18 DEF Next, Step

\* The inductive invariant of the lists holds while the blocks fit.
LEMMA LInvariance == Spec /\ []Fits => []LInv
  BY LInit, LNext, PTL DEF Spec

\* While the blocks fit into the cache, every list is sorted and complete.
THEOREM ListsSorted == Spec /\ []Fits => []ClistsSorted
  <1>1. LInv => ClistsSorted
    BY Zenon DEF LInv
  <1> QED
    BY <1>1, LInvariance, PTL

\* While the blocks fit, scache_get returns the buffer of its block.
THEOREM GetCorrect == Spec /\ []Fits => []GetReturnsItsBlock
  <1>1. LInv => GetReturnsItsBlock
    BY Zenon DEF LInv, LoopInv, GetReturnsItsBlock
  <1> QED
    BY <1>1, LInvariance, PTL

\* While the blocks fit, scache_sync finds the block it is to write.
THEOREM SyncCorrect == Spec /\ []Fits => []SyncFinds
  <1>1. LInv => SyncFinds
    BY Zenon DEF LInv, LoopInv, SyncFinds
  <1> QED
    BY <1>1, LInvariance, PTL
-----------------------------------------------------------------------------
(* The data, while the blocks fit and can be reached.                      *)

\* No two buffers are filled for the same block.
LEMMA FillUnique == LInv => \A x, y \in Used : fill[x] = fill[y] => x = y
  <1> SUFFICES ASSUME LInv, NEW x \in Used, NEW y \in Used, fill[x] = fill[y]
               PROVE  x = y
    BY Zenon
  <1> DEFINE d == fill[x][1]
  <1>1. fill[x] \in Block /\ d \in Dev
    BY Zenon DEF LInv, PInv, TypeOK
  <1>2. CASE pc = "insert" /\ (x = sp \/ y = sp)
    <2>1. fill[sp] = key /\ \A z \in Listed(key[1]) : BlkOf(z) # key[2]
      BY Zenon, <1>2 DEF LInv, LoopInv
    <2>2. \A z \in Used : z # sp /\ fill[z] = key => z \in Listed(key[1])
      BY Zenon, <1>2 DEF Listed
    <2> QED
      BY Zenon, <1>2, <2>1, <2>2 DEF BlkOf
  <1>3. CASE ~(pc = "insert" /\ (x = sp \/ y = sp))
    <2>1. x \in Listed(d) /\ y \in Listed(d)
      BY Zenon, <1>3 DEF Listed
    <2> QED
      BY <1>1, <2>1 DEF LInv, ClistsSorted, ClistSorted, BlkOf
  <1> QED
    BY Zenon, <1>2, <1>3

\* A block reads as its buffer if it has one, as the disk otherwise.
ViewSound ==
    \A k : /\ \A x \in Used : fill[x] = k => View(k) = buf[x]
           /\ (\A x \in Used : fill[x] # k) => View(k) = disk[k]

\* View is well defined, as no block has two buffers.
LEMMA ViewCases == LInv => ViewSound
  <1> SUFFICES ASSUME LInv, NEW k
               PROVE  /\ \A x \in Used : fill[x] = k => View(k) = buf[x]
                      /\ (\A x \in Used : fill[x] # k) => View(k) = disk[k]
    BY Zenon DEF ViewSound
  <1>1. ASSUME NEW x \in Used, fill[x] = k PROVE View(k) = buf[x]
    <2> DEFINE c == CHOOSE y \in Used : fill[y] = k
    <2>1. c \in Used /\ fill[c] = k
      BY Zenon, <1>1
    <2>2. View(k) = buf[c]
      BY Zenon, <1>1 DEF View
    <2> QED
      BY Zenon, <1>1, <2>1, <2>2, FillUnique
  <1> QED
    BY Zenon, <1>1 DEF View

\* Before the first call every block reads as it is on disk.
LEMMA DataInit == ASSUME AllReachable PROVE Init => DataInv
  <1> SUFFICES ASSUME Init PROVE DataInv
    BY Zenon
  <1>1. Used = {}
    BY DEF Init, Used, Buf
  <1>2. \A k \in Block : View(k) = [origin |-> k, version |-> 0]
    BY Zenon, <1>1 DEF View, Init
  <1> QED
    BY <1>1, <1>2 DEF DataInv, Init

\* The three steps that touch data, and what they do to the blocks.
LEMMA MissView ==
    ASSUME AllReachable, LInv, DataInv, Fits, GetMiss, LInv'
    PROVE  DataInv' /\ \A k \in Block : View(k)' = View(k)
  <1>1. PInv /\ AllocNew /\ pc = "get" /\ p = NULL /\ key \in Block /\ key[1] \in Driven
    BY DEF LInv, PInv, Fits, GetMiss, scache_alloc, AllocRecycle
  <1>2. sp' \in Buf /\ sp' \notin Used /\ Used' = Used \cup {sp'}
    BY Zenon, <1>1, AllocNewTypes
  <1>3. /\ key \in Reachable /\ pos' = key /\ key' = key /\ op' = op /\ pc' = "insert"
        /\ fill' = [fill EXCEPT ![sp'] = key]
        /\ buf' = [buf EXCEPT ![sp'] = disk[key]]
        /\ disk' = disk /\ made' = made
    BY Zenon, <1>1 DEF GetMiss, dev_lseek, AllReachable
  <1>4. fill'[sp'] = key /\ buf'[sp'] = disk[key]
        /\ \A x \in Used : fill'[x] = fill[x] /\ buf'[x] = buf[x]
    BY Zenon, <1>1, <1>2, <1>3 DEF PInv, TypeOK, Used
  <1>5. \A x \in Used : fill[x] # key
    <2> SUFFICES ASSUME NEW x \in Used, fill[x] = key PROVE FALSE
      BY Zenon
    <2>1. x \in Listed(key[1]) /\ BlkOf(x) = key[2]
      BY Zenon, <1>1 DEF Listed, BlkOf
    <2> QED
      BY Zenon, <1>1, <2>1 DEF LInv, LoopInv
  <1>6. ASSUME NEW k \in Block PROVE View(k)' = View(k)
    <2>0. ViewSound /\ ViewSound'
      BY ViewCases, PTL
    <2>1. CASE k = key
      BY ZenonT(30), <1>2, <1>4, <1>5, <2>0, <2>1 DEF ViewSound
    <2>2. CASE k # key /\ \E x \in Used : fill[x] = k
      BY <1>2, <1>4, <2>0, <2>2 DEF ViewSound
    <2>3. CASE k # key /\ \A x \in Used : fill[x] # k
      BY <1>2, <1>3, <1>4, <2>0, <2>3 DEF ViewSound
    <2> QED
      BY Zenon, <2>1, <2>2, <2>3
  <1>7. \A x \in Used' : fill'[x] \in Reachable /\ buf'[x].origin = fill'[x]
    BY <1>1, <1>2, <1>3, <1>4 DEF DataInv
  <1> QED
    BY Zenon, <1>1, <1>3, <1>6, <1>7 DEF DataInv

\* A caller's write changes the view of its own block alone.
LEMMA ChangeView ==
    ASSUME LInv, DataInv, ChangeBuffer, LInv'
    PROVE  /\ DataInv'
           /\ key \in Block /\ View(key).version < MaxVersion
           /\ \A k \in Block : View(k)' = IF k = key THEN Changed(View(k)) ELSE View(k)
  <1>1. /\ pc = "got" /\ op # "read" /\ fill[sp] = key /\ key \in Block
        /\ sp \in Used /\ sp \in Buf /\ PInv /\ buf[sp] \in Content
    <2>1. PInv /\ LoopInv
      BY Zenon DEF LInv
    <2>2. pc = "got" /\ op # "read"
      BY Zenon DEF ChangeBuffer
    <2>3. fill[sp] = key
      BY Zenon, <2>1, <2>2 DEF LoopInv
    <2> QED
      BY Zenon, <2>1, <2>2, <2>3 DEF PInv, TypeOK, Pointer, Used
  <1>2. /\ buf' = [buf EXCEPT ![sp] = Changed(buf[sp])]
        /\ made' = [made EXCEPT ![key] = made[key] + 1]
        /\ UNCHANGED <<cnt, fill, disk>> /\ Used' = Used
        /\ pc' \notin {"get", "insert", "got"}
    <2>1. /\ buf' = [buf EXCEPT ![sp] = Changed(buf[sp])]
          /\ made' = [made EXCEPT ![key] = made[key] + 1]
          /\ UNCHANGED <<cnt, fill, disk>>
      BY Zenon DEF ChangeBuffer, alistVars
    <2>2. pc' \notin {"get", "insert", "got"}
      BY Zenon DEF ChangeBuffer, ToCaller
    <2> QED
      BY Zenon, <2>1, <2>2 DEF Used
  <1>3. buf'[sp] = Changed(buf[sp]) /\ \A x \in Used : x # sp => buf'[x] = buf[x]
    BY Zenon, <1>1, <1>2 DEF PInv, TypeOK, Used
  <1>4. /\ made[key] \in Nat /\ made[key] < MaxVersion /\ made'[key] = made[key] + 1
        /\ \A k \in Block : k # key => made'[k] = made[k]
    BY Zenon, <1>1, <1>2 DEF DataInv, PInv, TypeOK
  <1>5. ViewSound /\ ViewSound'
    BY ViewCases, PTL
  <1>6. \A k \in Block : k = key => View(k) = buf[sp] /\ View(k)' = Changed(buf[sp])
    BY <1>1, <1>2, <1>3, <1>5 DEF ViewSound
  <1>7. ASSUME NEW k \in Block, k # key PROVE View(k)' = View(k)
    <2>1. CASE \E x \in Used : fill[x] = k
      BY SMTT(30), <1>1, <1>2, <1>3, <1>5, <1>7, <2>1 DEF ViewSound
    <2>2. CASE \A x \in Used : fill[x] # k
      BY <1>2, <1>5, <2>2 DEF ViewSound
    <2> QED
      BY Zenon, <2>1, <2>2
  <1>8. /\ Changed(buf[sp]).origin = buf[sp].origin
        /\ Changed(buf[sp]).version = buf[sp].version + 1
    BY Zenon, <1>1 DEF Changed, Content
  <1>9. \A x \in Used' : fill'[x] \in Reachable /\ buf'[x].origin = fill'[x]
    BY Zenon, <1>1, <1>2, <1>3, <1>8 DEF DataInv
  <1>10. \A k \in Block : /\ disk'[k].origin = k
                          /\ View(k)'.version = made'[k]
                          /\ made'[k] <= MaxVersion
    <2> SUFFICES ASSUME NEW k \in Block
                 PROVE  disk'[k].origin = k /\ View(k)'.version = made'[k] /\ made'[k] <= MaxVersion
      BY Zenon
    <2>1. CASE k = key
      BY <1>1, <1>2, <1>4, <1>6, <1>8, <2>1 DEF DataInv
    <2>2. CASE k # key
      BY Zenon, <1>2, <1>4, <1>7, <2>2 DEF DataInv
    <2> QED
      BY Zenon, <2>1, <2>2
  <1>11. DataInv'
    BY Zenon, <1>2, <1>9, <1>10 DEF DataInv
  <1>12. View(key).version < MaxVersion
    BY Zenon, <1>1, <1>4 DEF DataInv
  <1> QED
    BY Zenon, <1>1, <1>6, <1>7, <1>11, <1>12

\* scache_sync writes what is in the buffer: the view stays.
LEMMA SyncView ==
    ASSUME AllReachable, LInv, DataInv, SyncHit, LInv'
    PROVE  DataInv' /\ \A k \in Block : View(k)' = View(k)
  <1>1. /\ pc = "sync" /\ p \in Listed(key[1]) /\ BlkOf(p) = key[2] /\ PInv /\ key \in Dev \X Nat
    <2>1. PInv /\ LoopInv
      BY Zenon DEF LInv
    <2>2. pc = "sync" /\ p # NULL /\ BlkOf(p) = key[2]
      BY Zenon DEF SyncHit, Found
    <2>3. p \in Listed(key[1])
      BY Zenon, <2>1, <2>2 DEF LoopInv
    <2> QED
      BY Zenon, <2>1, <2>2, <2>3 DEF PInv, TypeOK
  <1>2. p \in Used /\ fill[p] = key /\ key \in Reachable
    BY <1>1, ListedTypes DEF DataInv
  <1>3. /\ disk' = [disk EXCEPT ![key] = buf[p]]
        /\ UNCHANGED <<cnt, fill, buf, made>> /\ Used' = Used
        /\ pc' \notin {"get", "insert", "got"}
    BY Zenon, <1>2 DEF SyncHit, dev_lseek, SyncDone, ToCaller, alistVars, Used
  <1>4. /\ disk'[key] = buf[p] /\ \A k \in Block : k # key => disk'[k] = disk[k]
    BY Zenon, <1>1, <1>2, <1>3 DEF PInv, TypeOK
  <1>5. ViewSound /\ ViewSound'
    BY ViewCases, PTL
  <1>6. ASSUME NEW k \in Block PROVE View(k)' = View(k)
    <2>1. CASE \E x \in Used : fill[x] = k
      BY SMTT(30), <1>3, <1>5, <2>1 DEF ViewSound
    <2>2. CASE \A x \in Used : fill[x] # k
      BY SMTT(30), <1>2, <1>3, <1>4, <1>5, <2>2 DEF ViewSound
    <2> QED
      BY Zenon, <2>1, <2>2
  <1>7. \A k \in Block : disk'[k].origin = k
    BY <1>2, <1>4 DEF DataInv
  <1> QED
    BY Zenon, <1>3, <1>6, <1>7 DEF DataInv

\* A step changes what the callers see only in ChangeBuffer, in one block.
Visible ==
    \/ \A k \in Block : View(k)' = View(k)
    \/ /\ key \in Block /\ View(key).version < MaxVersion
       /\ \A k \in Block : View(k)' = IF k = key THEN Changed(View(k)) ELSE View(k)

\* Every step keeps the data right, and is a step of the block store or none.
LEMMA DataNext ==
    ASSUME AllReachable
    PROVE  LInv /\ DataInv /\ Fits /\ [Next]_vars => DataInv' /\ Visible
  <1> SUFFICES ASSUME LInv, DataInv, Fits, [Next]_vars PROVE DataInv' /\ Visible
    BY Zenon
  <1>i. LInv'
    BY Zenon, LNext
  <1>s. ASSUME UNCHANGED <<cnt, fill, buf, disk, made>>,
               pc' \in {"get", "insert", "got"} /\ op' # "read" => made[key'] < MaxVersion
        PROVE  DataInv' /\ Visible
    <2>1. Used' = Used
      BY Zenon, <1>s DEF Used
    <2>2. \A k \in Block : View(k)' = View(k)
      BY Zenon, <1>s, <2>1 DEF View
    <2> QED
      BY Zenon, <1>s, <2>1, <2>2 DEF DataInv, Visible
  <1>k. pc \in {"get", "insert", "got"} /\ op # "read" => made[key] < MaxVersion
    BY Zenon DEF DataInv
  <1>1. ASSUME NEW k \in Block, NEW o \in {"read", "write", "update"}, Call(o, k)
        PROVE  DataInv' /\ Visible
    BY Zenon, <1>1, <1>s DEF Call, alistVars, dataVars
  <1>2. ASSUME NEW k \in Block, CallCommit(k) PROVE DataInv' /\ Visible
    BY Zenon, <1>2, <1>s DEF CallCommit, alistVars, dataVars
  <1>3. CASE Return \/ GetRefused \/ CommitDone
    BY Zenon, <1>3, <1>s DEF Return, GetRefused, CommitDone, ToCaller, alistVars, dataVars
  <1>4. CASE ChangeBuffer
    BY Zenon, <1>4, <1>i, ChangeView DEF Visible
  <1>5. CASE SeekNext \/ InsertNext
    <2>1. CASE SeekNext
      BY Zenon, <1>s, <1>k, <2>1 DEF SeekNext, alistVars, dataVars
    <2>2. CASE InsertNext
      BY Zenon, <1>s, <1>k, <2>2 DEF InsertNext, alistVars, dataVars
    <2> QED
      BY Zenon, <1>5, <2>1, <2>2
  <1>6. CASE GetHit
    BY Zenon, <1>6, <1>s, <1>k DEF GetHit, dataVars
  <1>7. CASE GetMiss
    BY Zenon, <1>7, <1>i, MissView DEF Visible
  <1>8. ASSUME pc = "insert", InsertDone PROVE DataInv' /\ Visible
    BY Zenon, <1>8, <1>s, <1>k DEF InsertDone, alistVars, dataVars
  <1>9. CASE InsertFirst \/ InsertSame \/ InsertBefore \/ InsertLast
    BY Zenon, <1>8, <1>9 DEF InsertFirst, InsertSame, InsertBefore, InsertLast
  <1>10. CASE SyncHit
    BY Zenon, <1>10, <1>i, SyncView DEF Visible
  <1>11. CASE CommitNext
    BY Zenon, <1>11, <1>s DEF CommitNext, alistVars, dataVars
  <1>12. CASE UNCHANGED vars
    BY Zenon, <1>12, <1>s, <1>k DEF vars, alistVars, dataVars, callVars
  <1> QED
    BY Zenon, <1>1, <1>2, <1>3, <1>4, <1>5, <1>6, <1>7, <1>9, <1>10, <1>11, <1>12 DEF Next, Step

\* While the blocks fit and can be reached, no buffer ever holds the data of
\* another block.
THEOREM BuffersCorrect ==
    ASSUME AllReachable
    PROVE  Spec /\ []Fits => []BuffersHoldTheirBlock
  <1>1. DataInv => BuffersHoldTheirBlock
    BY Zenon DEF DataInv, BuffersHoldTheirBlock
  <1> QED
    BY <1>1, LInvariance, DataInit, DataNext, PTL DEF Spec

\* While the blocks fit and can be reached, the cache implements the abstract
\* store of BlockStore: misses, list changes, syncs and commits are stutters,
\* and a caller's change of a buffer is one change of one block.
THEOREM CacheTransparent ==
    ASSUME AllReachable
    PROVE  Spec /\ []Fits => Transparent
  <1> DEFINE St == [k \in Block |-> View(k)]
  <1>1. Init => Store!Init
    <2> SUFFICES ASSUME Init PROVE Store!Init
      BY Zenon
    <2>1. Used = {}
      BY DEF Init, Used, Buf
    <2>2. \A k \in Block : View(k) = [origin |-> k, version |-> 0]
      BY <2>1 DEF View, Init
    <2> QED
      BY Zenon, <2>2 DEF Store!Init
  <1>2. Visible => [Store!Next]_St
    <2> SUFFICES ASSUME Visible PROVE [Store!Next]_St
      BY Zenon
    <2>1. CASE \A k \in Block : View(k)' = View(k)
      BY Zenon, <2>1
    <2>2. CASE /\ key \in Block /\ View(key).version < MaxVersion
               /\ \A k \in Block : View(k)' = IF k = key THEN Changed(View(k)) ELSE View(k)
      <3>1. St[key].version < MaxVersion
        BY Zenon, <2>2
      <3>2. St' = [St EXCEPT ![key] = Changed(St[key])]
        BY Zenon, <2>2
      <3>3. Store!Change(key)
        BY Zenon, <3>1, <3>2 DEF Store!Change, Store!Changed, Changed
      <3> QED
        BY Zenon, <2>2, <3>3 DEF Store!Next
    <2> QED
      BY Zenon, <2>1, <2>2 DEF Visible
  <1> QED
    BY <1>1, <1>2, LInvariance, DataInit, DataNext, PTL DEF Spec, Transparent, Store!Spec
-----------------------------------------------------------------------------
(* What scache_commit saves.                                               *)

\* Steps that touch no data, outside the loops of scache_sync and scache_commit.
LEMMA SaveElsewhere ==
    ASSUME SaveInv, UNCHANGED <<cnt, fill, buf, changed, disk>>,
           pc # "sync", pc' \notin {"sync", "commit"}
    PROVE  SaveInv'
  <1>1. Used' = Used
    BY Zenon DEF Used
  <1>2. \A x \in Used : changed[x] \/ Saved(x)
    BY Zenon DEF SaveInv
  <1>3. \A x \in Used' : changed'[x] \/ Saved(x)'
    BY Zenon, <1>1, <1>2 DEF Saved
  <1> QED
    BY Zenon, <1>3 DEF SaveInv

\* scache_get fills a new buffer from the device.
LEMMA SaveMiss ==
    ASSUME AllReachable, LInv, SaveInv, Fits, GetMiss
    PROVE  SaveInv'
  <1>1. PInv /\ AllocNew /\ pc = "get" /\ p = NULL /\ key \in Block /\ key[1] \in Driven
    BY DEF LInv, PInv, Fits, GetMiss, scache_alloc, AllocRecycle
  <1>2. sp' \in Buf /\ sp' \notin Used /\ Used' = Used \cup {sp'}
    BY Zenon, <1>1, AllocNewTypes
  <1>3. /\ pos' = key /\ pc' = "insert"
        /\ fill' = [fill EXCEPT ![sp'] = key]
        /\ buf' = [buf EXCEPT ![sp'] = disk[key]]
        /\ disk' = disk /\ changed' = changed
    BY Zenon, <1>1 DEF GetMiss, dev_lseek, AllReachable
  <1>4. fill'[sp'] = key /\ buf'[sp'] = disk[key]
        /\ \A x \in Used : fill'[x] = fill[x] /\ buf'[x] = buf[x]
    BY Zenon, <1>1, <1>2, <1>3 DEF PInv, TypeOK, Used
  <1>5. \A x \in Used : changed[x] \/ Saved(x)
    BY Zenon, <1>1 DEF SaveInv
  <1>6. \A x \in Used' : changed'[x] \/ Saved(x)'
    BY Zenon, <1>2, <1>3, <1>4, <1>5 DEF Saved
  <1> QED
    BY Zenon, <1>3, <1>6 DEF SaveInv

\* A change is marked by vfs write, and synced at once by mfs.
LEMMA SaveChange ==
    ASSUME LInv, SaveInv, ChangeBuffer
    PROVE  SaveInv'
  <1>1. pc = "got" /\ PInv /\ LoopInv
    BY Zenon DEF LInv, ChangeBuffer
  <1>2. fill[sp] = key /\ op # "commit" /\ sp \in Buf
    BY Zenon, <1>1 DEF PInv, TypeOK, LoopInv, Pointer, Used
  <1>3. /\ buf' = [buf EXCEPT ![sp] = Changed(buf[sp])]
        /\ UNCHANGED <<cnt, fill, disk>> /\ Used' = Used
    BY Zenon DEF ChangeBuffer, alistVars, Used
  <1>4. \A x \in Used : x # sp => buf'[x] = buf[x]
    BY Zenon, <1>1, <1>3 DEF PInv, TypeOK, Used
  <1>5. \A x \in Used : changed[x] \/ Saved(x)
    BY Zenon, <1>1 DEF SaveInv
  <1>6. CASE op = "write"
    <2>1. changed' = [changed EXCEPT ![sp] = TRUE] /\ pc' = "idle"
      BY Zenon, <1>6 DEF ChangeBuffer, ToCaller
    <2>2. changed'[sp] /\ \A x \in Used : x # sp => changed'[x] = changed[x]
      BY Zenon, <1>1, <1>2, <2>1 DEF PInv, TypeOK, Used
    <2>3. \A x \in Used' : changed'[x] \/ Saved(x)'
      BY Zenon, <1>3, <1>4, <1>5, <2>2 DEF Saved
    <2> QED
      BY Zenon, <2>1, <2>3 DEF SaveInv
  <1>7. CASE op # "write"
    <2>1. UNCHANGED <<changed, op, key>> /\ pc' = "sync"
      BY Zenon, <1>7 DEF ChangeBuffer
    <2>2. \A x \in Used' : changed'[x] \/ Saved(x)' \/ (pc' = "sync" /\ op' # "commit" /\ fill'[x] = key')
      BY Zenon, <1>2, <1>3, <1>4, <1>5, <2>1 DEF Saved
    <2> QED
      BY Zenon, <1>2, <2>1, <2>2 DEF SaveInv
  <1> QED
    BY Zenon, <1>6, <1>7

\* The buffers before the next one of a list are those before this one, and this one.
LEMMA PassedNext ==
    ASSUME LInv, key[1] \in Dev, q \in Listed(key[1])
    PROVE  \A x \in Listed(key[1]) :
             cnext[q] = NULL \/ BlkOf(x) < BlkOf(cnext[q]) => BlkOf(x) < BlkOf(q) \/ x = q
  <1>1. IsNext(cnext[q], q, Listed(key[1])) /\ \A x, y \in Listed(key[1]) : BlkOf(x) = BlkOf(y) => x = y
    BY Zenon DEF LInv, ClistsSorted, ClistSorted
  <1>2. \A x \in Listed(key[1]) : BlkOf(x) \in Nat
    BY Zenon, ListedTypes DEF LInv
  <1>3. \A x \in Listed(key[1]) : cnext[q] = NULL \/ BlkOf(x) < BlkOf(cnext[q]) => BlkOf(x) <= BlkOf(q)
    BY <1>1, <1>2 DEF IsNext
  <1>4. \A x \in Listed(key[1]) : BlkOf(x) <= BlkOf(q) => BlkOf(x) < BlkOf(q) \/ x = q
    BY <1>1, <1>2
  <1> QED
    BY Zenon, <1>3, <1>4

\* scache_commit begins with the first buffer of the list: none is passed.
LEMMA SaveCallCommit ==
    ASSUME LInv, SaveInv, NEW k \in Block, CallCommit(k)
    PROVE  SaveInv'
  <1>1. /\ pc = "idle" /\ pc' = "commit" /\ op' = "commit" /\ key' = k /\ q' = clist[k[1]]
        /\ UNCHANGED <<cnt, fill, buf, changed, disk>>
    BY Zenon DEF CallCommit, alistVars, dataVars
  <1>2. Used' = Used
    BY Zenon, <1>1 DEF Used
  <1>3. k[1] \in Dev
    BY Zenon
  <1>4. Listed(k[1])' = Listed(k[1])
    BY Zenon, <1>1, <1>2 DEF Listed
  <1>5. \A x \in Listed(k[1]) : ~ (clist[k[1]] = NULL \/ BlkOf(x) < BlkOf(clist[k[1]]))
    <2>1. \A x \in Listed(k[1]) : BlkOf(x) \in Nat
      BY Zenon, ListedTypes DEF LInv
    <2> QED
      BY <1>3, <2>1, HeadFirst
  <1>6. \A x \in Used' : changed'[x] \/ Saved(x)'
    BY Zenon, <1>1, <1>2 DEF SaveInv, Saved
  <1>7. \A x \in Listed(key[1])' : ~ (q' = NULL \/ BlkOf(x)' < BlkOf(q)')
    BY Zenon, <1>1, <1>4, <1>5 DEF BlkOf
  <1> QED
    BY Zenon, <1>1, <1>6, <1>7 DEF SaveInv

\* One iteration of scache_commit.
LEMMA SaveCommitNext ==
    ASSUME LInv, SaveInv, CommitNext
    PROVE  SaveInv'
  <1>1. /\ pc = "commit" /\ op = "commit" /\ q # NULL /\ op' = op
        /\ UNCHANGED <<cnt, fill, buf, changed, disk>>
    BY Zenon DEF CommitNext, SaveInv, alistVars, dataVars
  <1>2. Used' = Used
    BY Zenon, <1>1 DEF Used
  <1>3. key[1] \in Dev /\ q \in Listed(key[1]) /\ q \in Used
    <2>1. PInv /\ LoopInv
      BY Zenon DEF LInv
    <2>2. q \in Listed(key[1])
      BY Zenon, <1>1, <2>1 DEF LoopInv
    <2>3. key \in Dev \X Nat
      BY Zenon, <1>1, <2>1 DEF PInv, TypeOK
    <2> QED
      BY Zenon, <2>2, <2>3 DEF Listed
  <1>4. \A x \in Used' : changed'[x] \/ Saved(x)'
    BY Zenon, <1>1, <1>2 DEF SaveInv, Saved
  <1>5. \A x \in Listed(key[1]) : BlkOf(x) < BlkOf(q) => Saved(x)
    BY Zenon, <1>1 DEF SaveInv
  <1>6. CASE changed[q]
    <2>1. pc' = "sync" /\ key' = <<key[1], BlkOf(q)>> /\ q' = q
      BY Zenon, <1>6 DEF CommitNext
    <2>2. key'[1] = key[1] /\ key'[2] = BlkOf(q)'
      BY Zenon, <1>1, <2>1 DEF BlkOf
    <2>3. Listed(key[1])' = Listed(key[1])
      BY Zenon, <1>1, <1>2, <2>1, <2>2 DEF Listed
    <2>4. \A x \in Listed(key[1])' : q' = NULL \/ BlkOf(x)' < BlkOf(q)' => Saved(x)'
      BY Zenon, <1>1, <1>5, <2>1, <2>3 DEF BlkOf, Saved
    <2> QED
      BY Zenon, <1>1, <1>4, <2>1, <2>2, <2>4 DEF SaveInv
  <1>7. CASE ~changed[q]
    <2>1. pc' = pc /\ key' = key /\ q' = cnext[q]
      BY Zenon, <1>7 DEF CommitNext
    <2>2. Listed(key[1])' = Listed(key[1])
      BY Zenon, <1>1, <1>2, <2>1 DEF Listed
    <2>3. Saved(q)
      BY Zenon, <1>1, <1>3, <1>7 DEF SaveInv
    <2>4. \A x \in Listed(key[1]) : cnext[q] = NULL \/ BlkOf(x) < BlkOf(cnext[q]) => Saved(x)
      BY Zenon, <1>3, <1>5, <2>3, PassedNext
    <2>5. \A x \in Listed(key[1])' : q' = NULL \/ BlkOf(x)' < BlkOf(q)' => Saved(x)'
      BY Zenon, <1>1, <2>1, <2>2, <2>4 DEF BlkOf, Saved
    <2> QED
      BY Zenon, <1>1, <1>4, <2>1, <2>5 DEF SaveInv
  <1> QED
    BY Zenon, <1>6, <1>7

\* scache_sync saves the buffer it was called for.
LEMMA SaveSync ==
    ASSUME LInv, DataInv, SaveInv, SyncHit
    PROVE  SaveInv'
  <1>1. /\ pc = "sync" /\ p \in Listed(key[1]) /\ BlkOf(p) = key[2] /\ key \in Dev \X Nat
    <2>1. PInv /\ LoopInv
      BY Zenon DEF LInv
    <2>2. pc = "sync" /\ p # NULL /\ BlkOf(p) = key[2]
      BY Zenon DEF SyncHit, Found
    <2>3. p \in Listed(key[1])
      BY Zenon, <2>1, <2>2 DEF LoopInv
    <2> QED
      BY Zenon, <2>1, <2>2, <2>3 DEF PInv, TypeOK
  <1>2. p \in Used /\ fill[p] = key /\ key \in Reachable /\ key \in Block
    BY <1>1, ListedTypes DEF DataInv, LInv
  <1>3. /\ disk' = [disk EXCEPT ![key] = buf[p]]
        /\ UNCHANGED <<cnt, fill, buf, changed>> /\ Used' = Used
    BY Zenon, <1>2 DEF SyncHit, dev_lseek, SyncDone, alistVars, Used
  <1>4. disk'[key] = buf[p] /\ \A k \in Block : k # key => disk'[k] = disk[k]
    BY Zenon, <1>2, <1>3 DEF LInv, PInv, TypeOK
  <1>5. \A x \in Used : fill[x] = key => x = p
    BY Zenon, <1>2, FillUnique
  <1>6. \A x \in Used : fill[x] \in Block
    BY Zenon DEF LInv, PInv, TypeOK
  <1>7. \A x \in Used : (x = p \/ Saved(x)) => Saved(x)'
    BY Zenon, <1>2, <1>3, <1>4, <1>5, <1>6 DEF Saved
  <1>8. \A x \in Used' : changed'[x] \/ Saved(x)'
    BY Zenon, <1>1, <1>3, <1>5, <1>7 DEF SaveInv
  <1>9. CASE op = "commit"
    <2>1. pc' = "commit" /\ q' = cnext[q] /\ UNCHANGED <<op, key, sp>>
      BY Zenon, <1>9 DEF SyncHit, SyncDone
    <2>2. q \in Listed(key[1]) /\ key[1] \in Dev /\ BlkOf(q) = key[2]
      <3>1. q # NULL
        BY Zenon, <1>1, <1>9 DEF LInv, PInv
      <3>2. q \in Listed(key[1]) /\ BlkOf(q) = key[2]
        BY Zenon, <1>1, <1>9, <3>1 DEF LInv, LoopInv, SaveInv
      <3> QED
        BY Zenon, <1>1, <3>2
    <2>3. q = p
      BY Zenon, <1>1, <2>2 DEF LInv, ClistsSorted, ClistSorted
    <2>4. Listed(key[1])' = Listed(key[1])
      BY Zenon, <1>1, <1>3, <2>1 DEF Listed
    <2>5. \A x \in Listed(key[1]) : BlkOf(x) < BlkOf(q) => Saved(x)
      BY Zenon, <1>1, <1>9 DEF SaveInv
    <2>6. \A x \in Listed(key[1]) : x \in Used
      BY Zenon DEF Listed
    <2>7. \A x \in Listed(key[1]) : cnext[q] = NULL \/ BlkOf(x) < BlkOf(cnext[q]) => Saved(x)'
      BY Zenon, <1>7, <2>2, <2>3, <2>5, <2>6, PassedNext
    <2>8. \A x \in Listed(key[1])' : q' = NULL \/ BlkOf(x)' < BlkOf(q)' => Saved(x)'
      BY Zenon, <1>3, <2>1, <2>4, <2>7 DEF BlkOf
    <2> QED
      BY Zenon, <1>8, <1>9, <2>1, <2>8 DEF SaveInv
  <1>10. CASE op # "commit"
    <2>1. pc' = "idle"
      BY Zenon, <1>10 DEF SyncHit, SyncDone, ToCaller
    <2> QED
      BY Zenon, <1>8, <2>1 DEF SaveInv
  <1> QED
    BY Zenon, <1>9, <1>10

\* Every step keeps what is not saved marked.
LEMMA SaveNext ==
    ASSUME AllReachable
    PROVE  LInv /\ DataInv /\ SaveInv /\ Fits /\ [Next]_vars => SaveInv'
  <1> SUFFICES ASSUME LInv, DataInv, SaveInv, Fits, [Next]_vars PROVE SaveInv'
    BY Zenon
  <1>1. ASSUME NEW k \in Block, NEW o \in {"read", "write", "update"}, Call(o, k) PROVE SaveInv'
    BY Zenon, <1>1, SaveElsewhere DEF Call, alistVars, dataVars
  <1>2. ASSUME NEW k \in Block, CallCommit(k) PROVE SaveInv'
    BY Zenon, <1>2, SaveCallCommit
  <1>3. CASE Return \/ GetRefused \/ CommitDone
    BY Zenon, <1>3, SaveElsewhere DEF Return, GetRefused, CommitDone, ToCaller, alistVars, dataVars
  <1>4. CASE ChangeBuffer
    BY Zenon, <1>4, SaveChange
  <1>5. CASE SeekNext
    <2>1. UNCHANGED <<cnt, fill, buf, changed, disk, pc, op, key, sp, q>>
      BY Zenon, <1>5 DEF SeekNext, alistVars, dataVars
    <2> QED
      BY Zenon, <2>1 DEF SaveInv, Saved, Listed, Used, BlkOf
  <1>6. CASE GetHit
    BY Zenon, <1>6, SaveElsewhere DEF GetHit, dataVars
  <1>7. CASE GetMiss
    BY Zenon, <1>7, SaveMiss
  <1>8. CASE InsertNext
    BY Zenon, <1>8, SaveElsewhere DEF InsertNext, alistVars, dataVars
  <1>9. CASE InsertFirst \/ InsertSame \/ InsertBefore \/ InsertLast
    BY Zenon, <1>9, SaveElsewhere
       DEF InsertFirst, InsertSame, InsertBefore, InsertLast, InsertDone, alistVars, dataVars
  <1>10. CASE SyncHit
    BY Zenon, <1>10, SaveSync
  <1>11. CASE CommitNext
    BY Zenon, <1>11, SaveCommitNext
  <1>12. CASE UNCHANGED vars
    <2>1. UNCHANGED <<cnt, fill, buf, changed, disk, pc, op, key, sp, q>>
      BY Zenon, <1>12 DEF vars, alistVars, dataVars, callVars
    <2> QED
      BY Zenon, <2>1 DEF SaveInv, Saved, Listed, Used, BlkOf
  <1> QED
    BY Zenon, <1>1, <1>2, <1>3, <1>4, <1>5, <1>6, <1>7, <1>8, <1>9, <1>10, <1>11, <1>12
       DEF Next, Step

\* While the blocks fit and can be reached, every change ever made to a block of
\* the device is on the device when scache_commit returns.
THEOREM CommitSaves ==
    ASSUME AllReachable
    PROVE  Spec /\ []Fits => CommitSavesChanges
  <1>1. Init => SaveInv
    <2> SUFFICES ASSUME Init PROVE SaveInv
      BY Zenon
    <2>1. Used = {} /\ pc = "idle"
      BY DEF Init, Used, Buf
    <2> QED
      BY Zenon, <2>1 DEF SaveInv
  <1>2. LInv /\ DataInv /\ SaveInv /\ [Next]_vars =>
          [pc = "commit" /\ pc' = "idle" =>
             \A k \in Block : k[1] = key[1] => disk[k].version = made[k]]_vars
    <2> SUFFICES ASSUME LInv, DataInv, SaveInv, [Next]_vars, pc = "commit", pc' = "idle",
                        NEW k \in Block, k[1] = key[1]
                 PROVE  disk[k].version = made[k]
      BY Zenon
    <2>1. q = NULL
      <3>1. CommitDone \/ CommitNext
        BY Zenon DEF Next, Step, Call, CallCommit, Return, ChangeBuffer, SeekNext, GetHit,
           GetMiss, GetRefused, InsertFirst, InsertNext, InsertSame, InsertBefore,
           InsertLast, SyncHit, vars, callVars
      <3> QED
        BY Zenon, <3>1 DEF CommitDone, CommitNext
    <2>2. \A x \in Listed(key[1]) : Saved(x)
      BY Zenon, <2>1 DEF SaveInv
    <2>3. View(k).version = made[k]
      BY Zenon DEF DataInv
    <2>4. ViewSound
      BY Zenon, ViewCases
    <2>5. CASE \E x \in Used : fill[x] = k
      <3>1. PICK x \in Used : fill[x] = k
        BY Zenon, <2>5
      <3>2. x \in Listed(key[1])
        BY Zenon, <3>1 DEF Listed
      <3>3. disk[k] = buf[x] /\ View(k) = buf[x]
        BY Zenon, <2>2, <2>4, <3>1, <3>2 DEF Saved, ViewSound
      <3> QED
        BY Zenon, <2>3, <3>3
    <2>6. CASE \A x \in Used : fill[x] # k
      BY Zenon, <2>3, <2>4, <2>6 DEF ViewSound
    <2> QED
      BY Zenon, <2>5, <2>6
  <1> QED
    BY <1>1, <1>2, LInvariance, DataInit, DataNext, SaveNext, PTL DEF Spec, CommitSavesChanges
=============================================================================
