------------------------------- MODULE Frames ------------------------------
(* The body's memory: the frame bitmap (pmm.c), one page-table hierarchy    *)
(* per enclosure with a private user half (vmm.c), the break, map, unmap    *)
(* and protect acts that serve.c performs on the running enclosure's map,   *)
(* and the ring-0 heap (heap.c).  A page number stands for a virtual page;  *)
(* one table frame stands for the levels below a hierarchy's root.          *)
EXTENDS Naturals, Sequences, FiniteSets, SequencesExt

CONSTANTS NFrames,     \* frames the loader's memory map reports, from 1
          Reserved,    \* those of the image, low memory and modules
          BrkPages,    \* pages 1..BrkPages of the break
          MapPages,    \* pages above them that map hands out
          PerTable,    \* pages under one page table
          Enclosures,  \* resident enclosures, each with its own map
          UnmapsActive,\* the unmap act edits the running map (SOCKET_ACT);
                       \* otherwise it edits the boot map (BRIDGE)
          HeapSize,    \* heap units of 16 bytes; a header takes one
          MaxActs

VARIABLES used,     \* the bitmap's set bits
          free,     \* g_free_frames
          map,      \* map[m]: [root, tables, pte], root 0 when not built
          active,   \* the map CR3 holds
          brk,      \* brk[m]: the break, in pages, saved across a hand-off
          nextMap,  \* g_mmap_next, shared by the enclosures
          heap,     \* blocks in address order: [size, free, live]
          acts

vars == <<used, free, map, active, brk, nextMap, heap, acts>>

AllFrames == 1..NFrames
LastPage  == BrkPages + MapPages
Pages     == 1..LastPage
TableOf(p) == (p - 1) \div PerTable
Boot      == "boot"
Maps      == Enclosures \cup {Boot}

NoMap == [root |-> 0, tables |-> [t \in {TableOf(p) : p \in Pages} |-> 0],
          pte |-> [p \in Pages |-> 0]]

(* pmm_init frees what the loader reports and reserves the rest; the boot   *)
(* map's tables are static, in the image.                                   *)
Init ==
  /\ used = Reserved /\ free = NFrames - Cardinality(Reserved)
  /\ map = [m \in Maps |-> NoMap]
  /\ active = Boot
  /\ brk = [m \in Maps |-> 0] /\ nextMap = BrkPages + 1
  /\ heap = <<[size |-> HeapSize - 1, free |-> TRUE, live |-> FALSE]>>
  /\ acts = 0

----------------------------------------------------------------------------
(* The allocator and the walk, on a state [used, free, map, ok].            *)
Alloc(s) == IF s.used = AllFrames THEN 0 ELSE Min(AllFrames \ s.used)

Take(s, f) == [s EXCEPT !.used = @ \cup {f}, !.free = @ - 1]

(* pmm_free: a set bit is cleared and counted, a clear one is left alone.   *)
Give(s, f) ==
  IF f \in s.used THEN [s EXCEPT !.used = @ \ {f}, !.free = @ + 1] ELSE s

(* next_table_user takes a frame for a table that is missing.               *)
MapUser(s, m, p, f) ==
  LET t == TableOf(p)
      table == Alloc(s)
  IN  IF s.map[m].tables[t] # 0
      THEN [s EXCEPT !.map[m].pte[p] = f]
      ELSE IF table = 0 THEN [s EXCEPT !.ok = FALSE]
      ELSE [Take(s, table) EXCEPT !.map[m].tables[t] = table, !.map[m].pte[p] = f]

(* A fresh zeroed frame under page p; it goes back if no table can be had,  *)
(* except by the loader.  The act stops at the first page it cannot back.   *)
Back(s, m, p, gives) ==
  LET f == Alloc(s)
      after == MapUser(Take(s, f), m, p, f)
  IN  IF ~s.ok \/ f = 0 THEN [s EXCEPT !.ok = FALSE]
      ELSE IF after.ok \/ ~gives THEN after
      ELSE Give(after, f)

PageRange(from, to) == [k \in 1..(IF to < from THEN 0 ELSE to - from + 1) |-> from + k - 1]

(* A page that is present is kept as it is.                                 *)
BackAbsent(s, m, from, to) ==
  FoldLeft(LAMBDA x, p : IF x.map[m].pte[p] # 0 THEN x ELSE Back(x, m, p, TRUE),
           s, PageRange(from, to))

Unmapped == IF UnmapsActive THEN active ELSE Boot

(* The entry is read in the running map: a present user page gives its      *)
(* frame back.  The page is cleared in the map the build unmaps.            *)
ReleasePage(s, p) ==
  LET f == s.map[active].pte[p]
      y == [s EXCEPT !.map[Unmapped].pte[p] = 0]
  IN  IF f # 0 THEN Give(y, f) ELSE y

Release(s, from, to) == FoldLeft(ReleasePage, s, PageRange(from, to))

Now == [used |-> used, free |-> free, map |-> map, ok |-> TRUE]
Become(s) == used' = s.used /\ free' = s.free /\ map' = s.map

Acting == acts < MaxActs /\ acts' = acts + 1
Running == active # Boot

(* A new hierarchy: three frames (here the root and one table), given back  *)
(* if the last cannot be had; then the loader maps the program's break base *)
(* page with fresh frames, and leaves what it took if it runs out.          *)
MapNew(m) ==
  /\ Acting /\ map[m].root = 0
  /\ LET root == Alloc(Now)
         s1   == Take(Now, root)
         tab  == Alloc(s1)
         s2   == [Take(s1, tab) EXCEPT !.map[m].root = root, !.map[m].tables[0] = tab]
     IN  IF root = 0 THEN Become(Now) /\ UNCHANGED <<active, brk>>
         ELSE IF tab = 0 THEN Become(Give(s1, root)) /\ UNCHANGED <<active, brk>>
         ELSE /\ Become(Back(s2, m, 1, FALSE))
              /\ active' = m /\ brk' = [brk EXCEPT ![m] = 1]
  /\ UNCHANGED <<nextMap, heap>>

(* The coroutine hand-off: the map and the saved break change together.     *)
Switch(m) ==
  /\ Acting /\ m # active /\ map[m].root # 0
  /\ active' = m
  /\ UNCHANGED <<used, free, map, brk, nextMap, heap>>

(* The break: down, the pages above it are released; up, absent ones are    *)
(* backed, and it does not move if one cannot be.                           *)
Brk(to) ==
  /\ Acting /\ Running /\ to # brk[active]
  /\ LET s == IF to < brk[active] THEN Release(Now, to + 1, brk[active])
              ELSE BackAbsent(Now, active, brk[active] + 1, to)
     IN  Become(s) /\ brk' = IF s.ok THEN [brk EXCEPT ![active] = to] ELSE brk
  /\ UNCHANGED <<active, nextMap, heap>>

(* An anonymous map at the next address, or over one it is told to take;    *)
(* with no access it only reserves.  A guard page follows.                  *)
Mmap(n, accessible) ==
  /\ Acting /\ Running /\ nextMap + n <= LastPage + 1
  /\ LET s == IF accessible THEN BackAbsent(Now, active, nextMap, nextMap + n - 1) ELSE Now
     IN  Become(s) /\ nextMap' = IF s.ok THEN nextMap + n + 1 ELSE nextMap
  /\ UNCHANGED <<active, brk, heap>>

(* A protection that gives access commits what is absent, as does a map     *)
(* over a fixed address.                                                    *)
Commit(from, to) ==
  /\ Acting /\ Running /\ from <= to
  /\ Become(BackAbsent(Now, active, from, to))
  /\ UNCHANGED <<active, brk, nextMap, heap>>

Munmap(from, to) ==
  /\ Acting /\ Running /\ from <= to
  /\ Become(Release(Now, from, to))
  /\ UNCHANGED <<active, brk, nextMap, heap>>

----------------------------------------------------------------------------
(* The ring-0 heap: first fit, split when a header and a unit remain, and a *)
(* freed block takes in the free block after it.                            *)
Fits(n) == {k \in 1..Len(heap) : heap[k].free /\ heap[k].size >= n}

Kmalloc(n) ==
  /\ Acting /\ Fits(n) # {}
  /\ LET k == Min(Fits(n))
         b == heap[k]
         taken(z) == [size |-> z, free |-> FALSE, live |-> TRUE]
         rest == [size |-> b.size - n - 1, free |-> TRUE, live |-> FALSE]
     IN  heap' = IF b.size >= n + 2
                 THEN SubSeq(heap, 1, k-1) \o <<taken(n), rest>> \o SubSeq(heap, k+1, Len(heap))
                 ELSE [heap EXCEPT ![k] = taken(b.size)]
  /\ UNCHANGED <<used, free, map, active, brk, nextMap>>

Kfree(k) ==
  /\ Acting /\ heap[k].live
  /\ LET joins == k < Len(heap) /\ heap[k + 1].free
     IN  heap' = IF joins
                 THEN SubSeq(heap, 1, k-1)
                      \o <<[size |-> heap[k].size + 1 + heap[k+1].size, free |-> TRUE, live |-> FALSE]>>
                      \o SubSeq(heap, k+2, Len(heap))
                 ELSE [heap EXCEPT ![k] = [@ EXCEPT !.free = TRUE, !.live = FALSE]]
  /\ UNCHANGED <<used, free, map, active, brk, nextMap>>

Next ==
  \/ \E m \in Enclosures : MapNew(m) \/ Switch(m)
  \/ \E to \in 1..BrkPages : Brk(to)
  \/ \E n \in 1..2, a \in BOOLEAN : Mmap(n, a)
  \/ \E from, to \in (BrkPages + 1)..LastPage : Commit(from, to) \/ Munmap(from, to)
  \/ \E n \in 1..HeapSize : Kmalloc(n)
  \/ \E k \in 1..Len(heap) : Kfree(k)

Spec == Init /\ [][Next]_vars

----------------------------------------------------------------------------
Users(f)  == {x \in Maps \X Pages : map[x[1]].pte[x[2]] = f}
Tables(f) == {x \in Maps \X DOMAIN NoMap.tables : map[x[1]].tables[x[2]] = f}
Roots(f)  == {m \in Maps : map[m].root = f}
Owners(f) == Cardinality(Users(f)) + Cardinality(Tables(f)) + Cardinality(Roots(f))

(* Every user frame is mapped at one page of one enclosure's map, no table  *)
(* frame is also a page, and no mapped frame is free to be handed out       *)
(* again (serve_munmap, serve_brk).                                         *)
EveryFrameHasOneOwner ==
  \A f \in AllFrames :
    /\ f \in Reserved \/ f \notin used => Owners(f) = 0
    /\ Owners(f) <= 1

(* The count of free frames is the bitmap's.                                *)
CountIsTheBitmap == free = Cardinality(AllFrames \ used)

(* No path in the acts loses a frame: what is taken is owned (with frames   *)
(* enough for the loads, which give nothing back when they run out).        *)
NoFrameIsLost ==
  \A f \in used \ Reserved : Owners(f) = 1

(* The blocks fill the heap area and each live one has its own.             *)
HeapIsTiled ==
  /\ FoldLeft(LAMBDA n, b : n + b.size + 1, 0, heap) = HeapSize
  /\ \A k \in 1..Len(heap) : heap[k].size >= 1 /\ heap[k].live = ~heap[k].free

FramesAreKept == EveryFrameHasOneOwner /\ CountIsTheBitmap /\ NoFrameIsLost /\ HeapIsTiled
=============================================================================
