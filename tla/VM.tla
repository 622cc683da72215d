--------------------------------- MODULE VM ---------------------------------
(***************************************************************************)
(* Virtual memory (kern/vm): the regions of a task, its page tables, the   *)
(* frames that back them, and the free list threaded through the free      *)
(* frames; new_pages and remove_pages, the page fault that backs a ZFOD    *)
(* page, fork's copy and the freeing of a whole address space.             *)
(*                                                                         *)
(* Pages are numbered from USER_MEM_START; TomeSize of them share a page   *)
(* table.  A region [start, end) of the code is [start, end - 1] there.    *)
(* What a frame holds is its link on the free list (its first word) and    *)
(* the rest of it: 0, or the thread that wrote it last.                    *)
(*                                                                         *)
(* A section under frame_allocator_lock is one step.  A thread that holds  *)
(* its task's lock is in lock; a page fault does not take that lock.       *)
(*                                                                         *)
(* The code counts on its callers: nothing keeps a thread from using what  *)
(* another thread of its task is unmapping.  If SharePages is FALSE no     *)
(* thread does, which is an assumption about programs (MayTouch).          *)
(***************************************************************************)
EXTENDS Integers, FiniteSets, FiniteSetsExt, SequencesExt

CONSTANTS Spaces,       \* address spaces: one for each task
          Users,        \* the threads
          Frames, Nil,
          Zfod,         \* the frame of zeroes that backs every fresh page
          NumPages, TomeSize,
          NewRegions,   \* the regions that programs ask new_pages for
          SharePages    \* whether threads of a task get in each other's way

Pages == 0 .. NumPages - 1

Tome(p) == p \div TomeSize

Tomes == 0 .. Tome(NumPages - 1)

ASSUME VMAssumption ==
    /\ NumPages \in Nat \ {0} /\ TomeSize \in Nat \ {0}
    /\ IsFiniteSet(Frames) /\ Cardinality(Frames) >= 3
    /\ Zfod \notin Frames /\ Nil \notin Frames \cup {Zfod, 0} \cup Spaces \cup Users
    /\ NewRegions \subseteq [start : Pages, end : 0 .. NumPages, new : {TRUE}]
    /\ \A r \in NewRegions : r.start <= r.end
    /\ SharePages \in BOOLEAN

VARIABLES
    head, next, avail,  \* freelist_p; the link in each frame; fr_avail
    rest,               \* what the rest of each frame holds
    pte, tbl,           \* page table entries; the frame of each page table
    regions,            \* mmap of each space
    lock,               \* the task lock
    space,              \* the space a thread lives in
    upc, job            \* where a thread is, and the locals of its call

listVars == <<head, next, avail>>
frameVars == <<listVars, rest>>
spaceVars == <<pte, tbl, regions, lock>>
vmVars == <<frameVars, spaceVars, space, upc, job>>

(* A page table entry that is not present.                                 *)
Absent == [to |-> Nil, rw |-> FALSE]

NoJob == [call |-> "none", todo |-> {}, seen |-> Absent, reg |-> Nil,
          tabs |-> <<>>, child |-> Nil]

PagesOf(r) == r.start .. r.end - 1

TomesOf(r) == {Tome(r.start)} \cup {Tome(p) : p \in PagesOf(r)}

(* A program is loaded on page 0: text, which has its frame and is not     *)
(* writable, or data that has not been touched.  fr_init_allocator counts  *)
(* one frame fewer than it lists.                                          *)
VMInit ==
    \E s0 \in Spaces, t0 \in Users, f \in SetToSeqs(Frames), text \in BOOLEAN :
      LET first == IF text THEN 3 ELSE 2
          page0 == [to |-> IF text THEN f[2] ELSE Zfod, rw |-> FALSE]
      IN
        /\ head = f[first]
        /\ next = [g \in Frames |->
                     LET i == CHOOSE i \in DOMAIN f : f[i] = g
                     IN  IF i \in first .. Len(f) - 1 THEN f[i + 1] ELSE Nil]
        /\ avail = Len(f) - first
        /\ rest = [g \in Frames \cup {Zfod} |-> IF text /\ g = f[2] THEN t0 ELSE 0]
        /\ pte = [s \in Spaces |-> [p \in Pages |->
                    IF s = s0 /\ p = 0 THEN page0 ELSE Absent]]
        /\ tbl = [s \in Spaces |-> [k \in Tomes |->
                    IF s = s0 /\ k = 0 THEN f[1] ELSE Nil]]
        /\ regions = [s \in Spaces |->
                    IF s = s0 THEN <<[start |-> 0, end |-> 1, new |-> FALSE]>> ELSE <<>>]
        /\ lock = [s \in Spaces |-> Nil]
        /\ space = [t \in Users |-> IF t = t0 THEN s0 ELSE Nil]
        /\ upc = [t \in Users |-> IF t = t0 THEN "out" ELSE "absent"]
        /\ job = [t \in Users |-> NoJob]

UserGoto(t, label) == upc' = [upc EXCEPT ![t] = label]

Peers(t) == {u \in Users \ {t} : space[u] = space[t]}

(* The pages that a call about region r of space s works on, and those     *)
(* that are not mapped but would be in a page table of the region, which   *)
(* the call may free.                                                      *)
RegionPages(s, r) ==
    PagesOf(r) \cup {p \in Pages : Tome(p) \in TomesOf(r) /\ pte[s][p] = Absent}

Touches(t) ==
    CASE job[t].call = "fault" -> job[t].todo
      [] job[t].call \in {"new", "remove"} -> RegionPages(space[t], job[t].reg)
      [] OTHER -> {}

MayTouch(t, P) == SharePages \/ \A u \in Peers(t) : Touches(u) \cap P = {}

Page(t) == Min(job[t].todo)

Entry(t) == pte[space[t]][Page(t)]

-----------------------------------------------------------------------------
(* The free list, with frame_allocator_lock held. *)

(* The link stays in the first word of the frame; nothing follows it from  *)
(* there again.                                                            *)
Pop ==
    /\ head' = next[head]
    /\ next' = [next EXCEPT ![head] = Nil]
    /\ avail' = avail - 1

Push(f) ==
    /\ rest' = [rest EXCEPT ![f] = 0]
    /\ next' = [next EXCEPT ![f] = head]
    /\ head' = f
    /\ avail' = avail + 1

(* The frames on the free list: those that next leads to from the head.    *)
Path == LET at[i \in 0 .. Cardinality(Frames)] ==
              IF i = 0 THEN head
              ELSE IF at[i - 1] = Nil THEN Nil ELSE next[at[i - 1]]
        IN  at

FreeFrames == {Path[i] : i \in DOMAIN Path} \ {Nil}

-----------------------------------------------------------------------------
(* Frames are pushed before the entry that maps them is cleared. *)

(* Between the two, page p of space s maps a frame that is free.           *)
Pushed(s, p) ==
    \E t \in Users :
        /\ upc[t] = "free_clear" /\ space[t] = s /\ Page(t) = p
        /\ job[t].seen.to = pte[s][p].to

(* Between the two, the frame of page table k of space s is free.          *)
TablePushed(s, k) ==
    \E t \in Users : upc[t] = "table_clear" /\ space[t] = s /\ Head(job[t].tabs) = k

(* Its entries are all 0 but for the link, which is not a valid entry,     *)
(* until the frame is taken again and filled by its new owner.             *)
LostTable(s, k) == TablePushed(s, k) /\ tbl[s][k] \notin FreeFrames

(* What an access to page p of space s does then is no longer up to the    *)
(* space: it is translated by the entries of another, or it changes the    *)
(* frame of zeroes.                                                        *)
LeadsAstray(s, p) ==
    \/ LostTable(s, Tome(p))
    \/ pte[s][p].rw /\ (Pushed(s, p) \/ pte[s][p].to = Zfod)

-----------------------------------------------------------------------------
(* A write by user code, and the page fault it may take. *)

Write(t, p) ==
    /\ upc[t] = "out" /\ MayTouch(t, {p})
    /\ LET e == pte[space[t]][p] IN
       \/ /\ e.rw
          /\ rest' = [rest EXCEPT ![e.to] = t]
          /\ UserGoto(t, IF LeadsAstray(space[t], p) THEN "astray" ELSE "out")
          /\ UNCHANGED job
       \/ /\ ~e.rw
          /\ UserGoto(t, IF LeadsAstray(space[t], p) THEN "astray" ELSE "f_look")
          /\ job' = [job EXCEPT ![t] = [NoJob EXCEPT !.call = "fault", !.todo = {p}]]
          /\ UNCHANGED rest
    /\ UNCHANGED <<listVars, spaceVars, space>>

(* The page fault goes through the page table with every step, and takes   *)
(* what it finds there for its entry.                                      *)
FaultGoto(t, label) ==
    UserGoto(t, IF LostTable(space[t], Tome(Page(t))) THEN "astray" ELSE label)

(* pg_page_fault_handler; a page that is not there or has its frame kills  *)
(* the thread.                                                             *)
FaultLook(t) ==
    /\ upc[t] = "f_look"
    /\ FaultGoto(t, IF Entry(t).to = Zfod THEN "f_check" ELSE "killed")
    /\ UNCHANGED <<frameVars, spaceVars, space, job>>

(* physically_back_page asserts that the page is still there.              *)
FaultCheck(t) ==
    /\ upc[t] = "f_check"
    /\ FaultGoto(t, IF Entry(t) = Absent THEN "panic" ELSE "f_back")
    /\ job' = [job EXCEPT ![t].seen = Entry(t)]
    /\ UNCHANGED <<frameVars, spaceVars, space>>

(* The entry may be written to a table that has been freed.                *)
FaultBacked(t) ==
    LET k == Tome(Page(t)) IN
    /\ UserGoto(t, IF tbl[space[t]][k] = Nil THEN "panic"
               ELSE IF TablePushed(space[t], k) THEN "astray" ELSE "f_attrs")
    /\ pte' = [pte EXCEPT ![space[t]][Page(t)] = [to |-> head, rw |-> job[t].seen.rw]]

(* Mutant: the free list is not advanced. *)
FaultBackKeepsHead(t) ==
    /\ upc[t] = "f_back" /\ head # Nil
    /\ FaultBacked(t)
    /\ avail' = avail - 1
    /\ UNCHANGED <<head, next, rest, tbl, regions, lock, space, job>>

FaultBack(t) ==
    /\ upc[t] = "f_back" /\ head # Nil
    /\ FaultBacked(t)
    /\ Pop
    /\ UNCHANGED <<rest, tbl, regions, lock, space, job>>

FaultNoFrame(t) ==
    /\ upc[t] = "f_back" /\ head = Nil
    /\ UserGoto(t, "killed")
    /\ UNCHANGED <<frameVars, spaceVars, space, job>>

(* pg_set_attrs makes the page writable, if it is there.                   *)
FaultAttrs(t) ==
    /\ upc[t] = "f_attrs"
    /\ pte' = IF Entry(t) = Absent THEN pte
              ELSE [pte EXCEPT ![space[t]][Page(t)].rw = TRUE]
    /\ FaultGoto(t, "out")
    /\ job' = [job EXCEPT ![t] = NoJob]
    /\ UNCHANGED <<frameVars, tbl, regions, lock, space>>

-----------------------------------------------------------------------------
(* Regions: mreg_compare, on [start, end). *)

Below(r, q) == r.start < q.start /\ r.end <= q.start

Above(r, q) == r.start >= q.end /\ r.end > q.end

Overlaps(rs, r) == \E q \in ToSet(rs) : ~Below(q, r) /\ ~Above(q, r)

(* mreg_insert: before the first region that the new one is not above.     *)
InsertRegion(rs, r) ==
    InsertAt(rs, Min({i \in DOMAIN rs : ~Above(r, rs[i])} \cup {Len(rs) + 1}), r)

(* mreg_lookup of the address of page a.                                   *)
LookupAt(rs, a) ==
    SelectInSeq(rs, LAMBDA r : ~(r.start < a /\ r.end <= a) /\ ~(r.start > a /\ r.end > a))

-----------------------------------------------------------------------------
(* new_pages: create_mem_region checks that there are frames, without      *)
(* frame_allocator_lock, and that the pages are free.  A call that fails   *)
(* there changes nothing.                                                  *)

CallNew(t, r) ==
    LET s == space[t] IN
    /\ upc[t] = "out" /\ lock[s] = Nil /\ MayTouch(t, RegionPages(s, r))
    /\ r.end - r.start <= avail /\ ~Overlaps(regions[s], r)
    /\ regions' = [regions EXCEPT ![s] = InsertRegion(@, r)]
    /\ IF PagesOf(r) = {} THEN UNCHANGED <<lock, upc, job>>
       ELSE /\ lock' = [lock EXCEPT ![s] = t]
            /\ UserGoto(t, "n_page")
            /\ job' = [job EXCEPT ![t] = [NoJob EXCEPT !.call = "new", !.reg = r,
                                                       !.todo = PagesOf(r)]]
    /\ UNCHANGED <<frameVars, pte, tbl, space>>

(* pg_alloc; a page table made of a frame that is not clean holds garbage. *)
NewPage(t) ==
    LET s == space[t]
        k == Tome(Page(t))
        new == tbl[s][k] = Nil
        last == job[t].todo = {Page(t)}
    IN  /\ upc[t] = "n_page" /\ ~(new /\ head = Nil)
        /\ IF new THEN tbl' = [tbl EXCEPT ![s][k] = head] /\ Pop
           ELSE UNCHANGED <<listVars, tbl>>
        /\ pte' = [pte EXCEPT ![s][Page(t)] = [to |-> Zfod, rw |-> FALSE]]
        /\ lock' = IF last THEN [lock EXCEPT ![s] = Nil] ELSE lock
        /\ job' = [job EXCEPT ![t] = IF last THEN NoJob
                                     ELSE [job[t] EXCEPT !.todo = @ \ {Page(t)}]]
        /\ UserGoto(t, IF new /\ rest[head] # 0 THEN "wild"
                   ELSE IF last THEN "out" ELSE "n_page")
        /\ UNCHANGED <<rest, regions, space>>

(* No frame for the page table: the pages mapped so far are freed again.   *)
NewPageFails(t) ==
    /\ upc[t] = "n_page" /\ tbl[space[t]][Tome(Page(t))] = Nil /\ head = Nil
    /\ job' = [job EXCEPT ![t].todo = PagesOf(job[t].reg) \ @]
    /\ UserGoto(t, "free_look")
    /\ UNCHANGED <<frameVars, spaceVars, space>>

-----------------------------------------------------------------------------
(* remove_pages: only of a region that new_pages has made; other calls     *)
(* change nothing.                                                         *)

CallRemove(t, a) ==
    LET s == space[t]
        i == LookupAt(regions[s], a)
    IN  /\ upc[t] = "out" /\ lock[s] = Nil
        /\ i # 0
        /\ LET r == regions[s][i] IN
           /\ r.new /\ MayTouch(t, RegionPages(s, r))
           /\ job' = [job EXCEPT ![t] = [NoJob EXCEPT !.call = "remove", !.reg = r,
                                                      !.todo = PagesOf(r)]]
        /\ lock' = [lock EXCEPT ![s] = t]
        /\ UserGoto(t, "free_look")
        /\ UNCHANGED <<frameVars, pte, tbl, regions, space>>

(* pg_free, page by page: the entry is made writable, whatever it maps;    *)
(* then the frame is cleared and pushed; then the entry goes.              *)
FreeLook(t) ==
    LET e == [Entry(t) EXCEPT !.rw = TRUE]
    IN  /\ upc[t] = "free_look" /\ job[t].todo # {}
        /\ IF Entry(t) = Absent
           THEN /\ job' = [job EXCEPT ![t].todo = @ \ {Page(t)}]
                /\ UNCHANGED <<upc, pte>>
           ELSE /\ pte' = [pte EXCEPT ![space[t]][Page(t)] = e]
                /\ job' = [job EXCEPT ![t].seen = e]
                /\ UserGoto(t, IF e.to = Zfod THEN "free_clear" ELSE "free_frame")
        /\ UNCHANGED <<frameVars, tbl, regions, lock, space>>

FreeFrame(t) ==
    /\ upc[t] = "free_frame"
    /\ Push(job[t].seen.to)
    /\ UserGoto(t, "free_clear")
    /\ UNCHANGED <<spaceVars, space, job>>

FreeClear(t) ==
    /\ upc[t] = "free_clear"
    /\ pte' = [pte EXCEPT ![space[t]][Page(t)] = Absent]
    /\ job' = [job EXCEPT ![t].todo = @ \ {Page(t)}, ![t].seen = Absent]
    /\ UserGoto(t, "free_look")
    /\ UNCHANGED <<frameVars, tbl, regions, lock, space>>

(* Mutant: the neighbour below is forgotten. *)
OwnTablesAbove(rs, r) ==
    LET i == CHOOSE i \in DOMAIN rs : rs[i] = r
    IN  IF i < Len(rs) /\ Tome(rs[i + 1].start) = Tome(r.end - 1) THEN <<>>
        ELSE <<Tome(r.start)>>

(* destroy_mem_region: the tables of a region that its neighbours do not   *)
(* share, as the code names them: the low one in place of the high one,    *)
(* and of those between all but the last.                                  *)
OwnTables(rs, r) ==
    LET i == CHOOSE i \in DOMAIN rs : rs[i] = r
        lo == Tome(r.start)
        hi == Tome(r.end - 1)
        shareLo == i > 1 /\ Tome(rs[i - 1].end - 1) = lo
        shareHi == i < Len(rs) /\ Tome(rs[i + 1].start) = hi
    IN  IF lo = hi
        THEN IF shareLo \/ shareHi THEN <<>> ELSE <<lo>>
        ELSE (IF shareLo THEN <<>> ELSE <<lo>>) \o (IF shareHi THEN <<>> ELSE <<lo>>)
             \o [n \in 1 .. hi - lo - 2 |-> lo + n]

(* vm_final: each region's tables in their order, but for the one that its *)
(* predecessor ends in.                                                    *)
AllTables(rs) ==
    LET First(i) == IF i > 1 /\ Tome(rs[i - 1].end - 1) = Tome(rs[i].start)
                    THEN Tome(rs[i].start) + 1 ELSE Tome(rs[i].start)
        tables == {k \in Tomes : \E i \in DOMAIN rs :
                       First(i) <= k /\ k * TomeSize < rs[i].end}
    IN  {q \in SetToSeqs(tables) : \A i, j \in DOMAIN q : i < j => q[i] < q[j]}

Tables(t) == IF job[t].call = "exit" THEN AllTables(regions[space[t]])
             ELSE {OwnTables(regions[space[t]], job[t].reg)}

PagesFreed(t) ==
    /\ upc[t] = "free_look" /\ job[t].todo = {}
    /\ \E q \in Tables(t) : job' = [job EXCEPT ![t].tabs = q]
    /\ UserGoto(t, "tables")
    /\ UNCHANGED <<frameVars, spaceVars, space>>

(* pg_free_table: validate_pt asserts that no entry is valid; then the     *)
(* frame is pushed; then the directory entry goes.  If there is no such    *)
(* table, the frame that is freed is whatever lies on the stack.           *)
FreeTable(t) ==
    LET s == space[t]
        k == Head(job[t].tabs)
    IN  /\ upc[t] = "tables" /\ job[t].tabs # <<>>
        /\ IF tbl[s][k] = Nil \/ \E p \in Pages : Tome(p) = k /\ pte[s][p] # Absent
           THEN /\ UserGoto(t, IF tbl[s][k] = Nil THEN "wild" ELSE "panic")
                /\ UNCHANGED frameVars
           ELSE Push(tbl[s][k]) /\ UserGoto(t, "table_clear")
        /\ UNCHANGED <<spaceVars, space, job>>

ClearTable(t) ==
    /\ upc[t] = "table_clear"
    /\ tbl' = [tbl EXCEPT ![space[t]][Head(job[t].tabs)] = Nil]
    /\ job' = [job EXCEPT ![t].tabs = Tail(@)]
    /\ UserGoto(t, "tables")
    /\ UNCHANGED <<frameVars, pte, regions, lock, space>>

(* validate_pd asserts that every table left maps a page.                  *)
EmptyTable(s) ==
    \E k \in Tomes : tbl[s][k] # Nil /\ \A p \in Pages : Tome(p) = k => pte[s][p] = Absent

RegionFreed(t) ==
    LET s == space[t] IN
    /\ upc[t] = "tables" /\ job[t].tabs = <<>> /\ job[t].call \in {"new", "remove"}
    /\ regions' = [regions EXCEPT ![s] = RemoveFirst(@, job[t].reg)]
    /\ lock' = [lock EXCEPT ![s] = Nil]
    /\ job' = [job EXCEPT ![t] = NoJob]
    /\ UserGoto(t, IF job[t].call = "remove" /\ EmptyTable(s) THEN "panic" ELSE "out")
    /\ UNCHANGED <<frameVars, pte, tbl, space>>

-----------------------------------------------------------------------------
(* thread_fork and vanish; the last thread of a task frees its space.      *)

ThreadFork(t, u) ==
    /\ upc[t] = "out" /\ upc[u] = "absent"
    /\ space' = [space EXCEPT ![u] = space[t]]
    /\ UserGoto(u, "out")
    /\ UNCHANGED <<frameVars, spaceVars, job>>

Leave(t) ==
    /\ space' = [space EXCEPT ![t] = Nil]
    /\ job' = [job EXCEPT ![t] = NoJob]
    /\ UserGoto(t, "absent")

Vanish(t) ==
    /\ upc[t] \in {"out", "killed"}
    /\ \/ Peers(t) # {} /\ Leave(t)
       \/ /\ Peers(t) = {}
          /\ job' = [job EXCEPT ![t] = [NoJob EXCEPT !.call = "exit",
                        !.todo = UNION {PagesOf(r) : r \in ToSet(regions[space[t]])}]]
          /\ UserGoto(t, "free_look")
          /\ UNCHANGED space
    /\ UNCHANGED <<frameVars, spaceVars>>

SpaceFreed(t) ==
    LET s == space[t] IN
    /\ upc[t] = "tables" /\ job[t].tabs = <<>> /\ job[t].call = "exit"
    /\ regions' = [regions EXCEPT ![s] = <<>>]
    /\ IF EmptyTable(s) THEN UserGoto(t, "panic") /\ UNCHANGED <<space, job>> ELSE Leave(t)
    /\ UNCHANGED <<frameVars, pte, tbl, lock>>

-----------------------------------------------------------------------------
(* fork: vm_copy, region by region and page by page.  A copy that fails    *)
(* ends in the failed assert that Lifecycle shows.                         *)

Unused(s) ==
    /\ regions[s] = <<>>
    /\ \A t \in Users : space[t] # s /\ job[t].child # s

CallFork(t, c, u) ==
    /\ upc[t] = "out" /\ Peers(t) = {} /\ Unused(c) /\ upc[u] = "absent"
    /\ upc' = [upc EXCEPT ![t] = "c_region", ![u] = "nascent"]
    /\ job' = [job EXCEPT ![t].call = "fork", ![t].child = c, ![u].child = c]
    /\ UNCHANGED <<frameVars, spaceVars, space>>

CopyRegion(t) ==
    LET src == regions[space[t]]
        n == Len(regions[job[t].child]) + 1
    IN  /\ upc[t] = "c_region" /\ n <= Len(src)
        /\ IF src[n].end - src[n].start > avail
           THEN UserGoto(t, "copy_failed") /\ UNCHANGED <<regions, job>>
           ELSE /\ regions' = [regions EXCEPT ![job[t].child] = Append(@, src[n])]
                /\ job' = [job EXCEPT ![t].todo = PagesOf(src[n])]
                /\ UserGoto(t, "c_frame")
        /\ UNCHANGED <<frameVars, pte, tbl, lock, space>>

RegionCopied(t) ==
    /\ upc[t] = "c_frame" /\ job[t].todo = {}
    /\ UserGoto(t, "c_region")
    /\ UNCHANGED <<frameVars, spaceVars, space, job>>

(* Mutant: child and parent share the frame. *)
CopyFrameShared(t) ==
    /\ upc[t] = "c_frame" /\ job[t].todo # {}
    /\ Entry(t).to # Zfod
    /\ job' = [job EXCEPT ![t].seen = Entry(t)]
    /\ UserGoto(t, "c_map")
    /\ UNCHANGED <<frameVars, spaceVars, space>>

(* copy_frame *)
CopyFrame(t) ==
    /\ upc[t] = "c_frame" /\ job[t].todo # {} /\ Entry(t).to # Zfod
    /\ IF head = Nil
       THEN UserGoto(t, "copy_failed") /\ UNCHANGED <<frameVars, job>>
       ELSE /\ Pop
            /\ rest' = [rest EXCEPT ![head] = rest[Entry(t).to]]
            /\ job' = [job EXCEPT ![t].seen = [Entry(t) EXCEPT !.to = head]]
            /\ UserGoto(t, "c_map")
    /\ UNCHANGED <<spaceVars, space>>

(* The page is not copied while it is still backed by the ZFOD frame.      *)
CopyZfod(t) ==
    /\ upc[t] = "c_frame" /\ job[t].todo # {} /\ Entry(t).to = Zfod
    /\ job' = [job EXCEPT ![t].seen = Entry(t)]
    /\ UserGoto(t, "c_map")
    /\ UNCHANGED <<frameVars, spaceVars, space>>

(* Enter the page into the child's table, which it may need first.         *)
CopyMap(t) ==
    LET c == job[t].child
        k == Tome(Page(t))
        new == tbl[c][k] = Nil
    IN  /\ upc[t] = "c_map"
        /\ IF new /\ head = Nil
           THEN UserGoto(t, "copy_failed") /\ UNCHANGED <<listVars, pte, tbl, job>>
           ELSE /\ IF new THEN tbl' = [tbl EXCEPT ![c][k] = head] /\ Pop
                   ELSE UNCHANGED <<listVars, tbl>>
                /\ pte' = [pte EXCEPT ![c][Page(t)] = job[t].seen]
                /\ job' = [job EXCEPT ![t].todo = @ \ {Page(t)}, ![t].seen = Absent]
                /\ UserGoto(t, IF new /\ rest[head] # 0 THEN "wild" ELSE "c_frame")
        /\ UNCHANGED <<rest, regions, lock, space>>

ForkReturns(t) ==
    LET c == job[t].child IN
    /\ upc[t] = "c_region" /\ Len(regions[c]) = Len(regions[space[t]])
    /\ \E u \in Users \ {t} :
        /\ job[u].child = c
        /\ space' = [space EXCEPT ![u] = c]
        /\ upc' = [upc EXCEPT ![t] = "out", ![u] = "out"]
        /\ job' = [job EXCEPT ![t] = NoJob, ![u] = NoJob]
    /\ UNCHANGED <<frameVars, spaceVars>>

-----------------------------------------------------------------------------
FaultStep(t) ==
    FaultLook(t) \/ FaultCheck(t) \/ FaultBack(t) \/ FaultNoFrame(t) \/ FaultAttrs(t)

FreeStep(t) ==
    \/ FreeLook(t) \/ FreeFrame(t) \/ FreeClear(t) \/ PagesFreed(t)
    \/ FreeTable(t) \/ ClearTable(t) \/ RegionFreed(t) \/ SpaceFreed(t)

CopyStep(t) ==
    \/ CopyRegion(t) \/ RegionCopied(t) \/ CopyFrame(t) \/ CopyZfod(t)
    \/ CopyMap(t) \/ ForkReturns(t)

CallStep(t) ==
    \/ \E p \in Pages : Write(t, p) \/ CallRemove(t, p)
    \/ \E r \in NewRegions : CallNew(t, r)
    \/ \E u \in Users : ThreadFork(t, u) \/ \E c \in Spaces : CallFork(t, c, u)
    \/ Vanish(t)

(* A panic, or what follows from memory that is not what it should be,     *)
(* ends what can be said.                                                  *)
Stopped == \E t \in Users : upc[t] \in {"panic", "wild", "astray", "copy_failed"}

VMNext ==
    /\ ~Stopped
    /\ \E t \in Users :
        CallStep(t) \/ FaultStep(t) \/ NewPage(t) \/ NewPageFails(t) \/ FreeStep(t) \/ CopyStep(t)

VMSpec == VMInit /\ [][VMNext]_vmVars
-----------------------------------------------------------------------------
(***************************************************************************)
(* Properties.                                                             *)
(***************************************************************************)

UserPCs == {"absent", "nascent", "out", "killed", "panic", "wild", "astray", "copy_failed",
        "f_look", "f_check", "f_back", "f_attrs", "n_page",
        "free_look", "free_frame", "free_clear", "tables", "table_clear",
        "c_region", "c_frame", "c_map"}

Entries == [to : Frames \cup {Zfod}, rw : BOOLEAN] \cup {Absent}

Regions == [start : Pages, end : 0 .. NumPages, new : BOOLEAN]

Jobs == [call : {"none", "fault", "new", "remove", "exit", "fork"},
         todo : SUBSET Pages, seen : Entries, reg : Regions \cup {Nil},
         tabs : Seq(Tomes), child : Spaces \cup {Nil}]

VMTypes ==
    /\ head \in Frames \cup {Nil} /\ next \in [Frames -> Frames \cup {Nil}]
    /\ avail \in -1 .. Cardinality(Frames) - 1
    /\ rest \in [Frames \cup {Zfod} -> Users \cup {0}]
    /\ pte \in [Spaces -> [Pages -> Entries]]
    /\ tbl \in [Spaces -> [Tomes -> Frames \cup {Nil}]]
    /\ regions \in [Spaces -> Seq(Regions)]
    /\ lock \in [Spaces -> Users \cup {Nil}]
    /\ space \in [Users -> Spaces \cup {Nil}]
    /\ upc \in [Users -> UserPCs]
    /\ job \in [Users -> Jobs]

(* A space that no call is building up or taking down.                     *)
Settled(s) ==
    \A t \in Users :
        /\ job[t].child # s
        /\ space[t] = s => job[t].call \notin {"new", "remove", "exit"}

(* Regions are disjoint and ascend; in a space that is settled exactly the *)
(* pages of its regions are mapped, and there is a page table exactly      *)
(* where a page needs one (vm.c:98-136,415-434).                           *)
TablesExact ==
    \A s \in Spaces :
        /\ \A i, j \in DOMAIN regions[s] :
              i < j => regions[s][i].end <= regions[s][j].start
        /\ Settled(s) =>
              /\ \A p \in Pages : pte[s][p] # Absent <=>
                    \E r \in ToSet(regions[s]) : p \in PagesOf(r)
              /\ \A k \in Tomes : tbl[s][k] # Nil <=>
                    \E p \in Pages : Tome(p) = k /\ pte[s][p] # Absent

(* The asserts of the page tables hold: validate_pt, validate_pd and those *)
(* of set_pte and get_pte (page_alloc.c:52,65,398-441).                    *)
AssertsHold == \A t \in Users : upc[t] # "panic"

(* No access of a thread goes through a page table or to a frame that its  *)
(* space has given back.  Refuted when threads share pages: the frame goes *)
(* to the free list, and from there to any space, while the directory      *)
(* still names it (page_alloc.c:102,340-345).                              *)
StaysInSpace == \A t \in Users : upc[t] # "astray"

VMConsistent == VMTypes /\ TablesExact /\ AssertsHold /\ StaysInSpace

(* The frame that a page has, that a page table has, and that a thread has *)
(* made a copy into.  A frame that has been pushed counts as free, though  *)
(* the entry that maps it is still to be cleared.                          *)
PageFrame(s, p) == IF Pushed(s, p) THEN Nil ELSE pte[s][p].to

TableFrame(s, k) == IF TablePushed(s, k) THEN Nil ELSE tbl[s][k]

CopiedFrame(t) == IF upc[t] \in {"c_map", "copy_failed"} THEN job[t].seen.to ELSE Nil

UsesOf(f) ==
    {<<"page", x>> : x \in {x \in Spaces \X Pages : PageFrame(x[1], x[2]) = f}}
    \cup {<<"table", x>> : x \in {x \in Spaces \X Tomes : TableFrame(x[1], x[2]) = f}}
    \cup {<<"copy", t>> : t \in {t \in Users : CopiedFrame(t) = f}}

(* Every frame has one use: it backs one page of one space, is one page    *)
(* table, is on its way to a child, or is free.  fr_avail is one less than *)
(* the number of free frames, which are clean, as the frame of zeroes is   *)
(* (page_alloc.c:47-125, frame_alloc.c:33-47).                             *)
FramesAccounted ==
    /\ Path[Cardinality(Frames)] = Nil
    /\ \A f \in Frames :
          Cardinality(UsesOf(f)) = IF f \in FreeFrames THEN 0 ELSE 1
    /\ avail = Cardinality(FreeFrames) - 1
    /\ \A f \in FreeFrames \cup {Zfod} : rest[f] = 0

(* What programs see: nothing of a space that is not theirs yet or no      *)
(* longer, nor of a region that is being made or removed.                  *)
Seen(s, p) ==
    IF \/ ~\E t \in Users : space[t] = s /\ job[t].call # "exit"
       \/ \E t \in Users : /\ space[t] = s /\ job[t].call \in {"new", "remove"}
                             /\ p \in PagesOf(job[t].reg)
       \/ pte[s][p] = Absent
    THEN Nil ELSE rest[pte[s][p].to]

Mem == INSTANCE Memory
         WITH Values <- Users, Unmapped <- Nil,
              mem <- [s \in Spaces |-> [p \in Pages |-> Seen(s, p)]]

(* Virtual memory does what Memory promises: spaces are isolated, fresh    *)
(* pages read as zero, fork copies, and no system call changes a page that *)
(* it was not asked to.                                                    *)
ActsLikeMemory == Mem!Spec

(* A page that has its frame keeps it until it is unmapped ("nothing is    *)
(* done with non-ZFOD pages", page_alloc.c:351-352).  Refuted when threads *)
(* share pages: both look at the entry before either backs the page.       *)
Keeps(s, p) ==
    pte[s][p] # Absent /\ pte[s][p].to # Zfod =>
        pte'[s][p] = Absent \/ pte'[s][p].to = pte[s][p].to

BackedPageKeepsFrame == [][\A s \in Spaces, p \in Pages : Keeps(s, p)]_vmVars

(* A fresh page is a page of zeroes to its first word (ZFOD, "zero-filled  *)
(* on demand").  Refuted: the link of the free list is left in that word   *)
(* when the page gets its frame (page_alloc.c:73-74).                      *)
Backed(s, p) == pte[s][p].to = Zfod /\ pte'[s][p].to \in Frames

FreshPageIsZero ==
    [][\A s \in Spaces, p \in Pages : Backed(s, p) => next[pte'[s][p].to] = Nil]_vmVars

(* Only tables that exist are freed.  Refuted: when no frame is left for a *)
(* table although create_mem_region saw enough of them, vm_alloc frees the *)
(* table that it could not allocate (vm.c:242-247).                        *)
FreesOnlyTables == \A t \in Users : upc[t] # "wild"
=============================================================================
