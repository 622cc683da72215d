------------------------------ MODULE VMProofs ------------------------------
(***************************************************************************)
(* Virtual memory, for any number of spaces, threads, frames and pages,    *)
(* and for programs whose threads touch nothing that another of their      *)
(* task is unmapping (~SharePages, an assumption: the code does not ensure *)
(* it): no access leaves its space, every frame has one use, page tables   *)
(* go with the regions, and programs see what Memory promises.             *)
(*                                                                         *)
(* VMIInv says, beyond the properties: F are the frames that no page, no   *)
(* table and no copy has, in the order of the list; each thread is where   *)
(* its call can have brought it; a page of a region is mapped unless       *)
(* somebody is about to map it or has cleared it.  AsideInv says that page *)
(* faults and the freeing of tables keep out of each other's way, TableInv *)
(* how tables and regions belong together in the middle of a call.         *)
(***************************************************************************)
EXTENDS VM, FiniteSetTheorems, SequenceTheorems, WellFoundedInduction, TLAPS

(* The labels of a page fault, of freeing pages and of fork's copy.        *)
FaultPCs == {"f_look", "f_check", "f_back", "f_attrs"}
FreePCs == {"free_look", "free_frame", "free_clear", "tables", "table_clear"}
CopyPCs == {"c_region", "c_frame", "c_map"}

(* The frame of each page, of each page table and of each copy.            *)
PageHolds == [s \in Spaces |-> [p \in Pages |-> PageFrame(s, p)]]
TableHolds == [s \in Spaces |-> [k \in Tomes |-> TableFrame(s, k)]]
CopyHolds == [t \in Users |-> CopiedFrame(t)]

(* No frame is held twice, and F are those that are not held.              *)
Shared(ph, th, ch, F) ==
    /\ \A s, r \in Spaces, p, q \in Pages :
          ph[s][p] \in Frames /\ ph[s][p] = ph[r][q] => s = r /\ p = q
    /\ \A s, r \in Spaces, k, l \in Tomes :
          th[s][k] \in Frames /\ th[s][k] = th[r][l] => s = r /\ k = l
    /\ \A t, u \in Users : ch[t] \in Frames /\ ch[t] = ch[u] => t = u
    /\ \A s, r \in Spaces, p \in Pages, k \in Tomes :
          ph[s][p] \in Frames => ph[s][p] # th[r][k]
    /\ \A s \in Spaces, p \in Pages, t \in Users : ph[s][p] \in Frames => ph[s][p] # ch[t]
    /\ \A s \in Spaces, k \in Tomes, t \in Users : th[s][k] \in Frames => th[s][k] # ch[t]
    /\ F \in SUBSET Frames
    /\ \A f \in Frames :
          f \in F <=> /\ \A s \in Spaces, p \in Pages : ph[s][p] # f
                      /\ \A s \in Spaces, k \in Tomes : th[s][k] # f
                      /\ \A t \in Users : ch[t] # f

(* q is the list that begins at h.                                         *)
IsFreeList(q, h, nx) ==
    /\ q \in Seq(Frames)
    /\ \A i, j \in DOMAIN q : q[i] = q[j] => i = j
    /\ h = IF q = <<>> THEN Nil ELSE q[1]
    /\ \A i \in DOMAIN q : nx[q[i]] = IF i = Len(q) THEN Nil ELSE q[i + 1]

ListOf(F, h, nx, a) == \E q \in Seq(Frames) : IsFreeList(q, h, nx) /\ ToSet(q) = F /\ a = Len(q) - 1

FrameInv ==
    \E F \in SUBSET Frames :
        /\ Shared(PageHolds, TableHolds, CopyHolds, F)
        /\ ListOf(F, head, next, avail)
        /\ \A f \in F \cup {Zfod} : rest[f] = 0

(* The call a thread is in, by the label it stands at.                     *)
CallOf(t) ==
    /\ upc[t] \in {"absent", "nascent"} <=> space[t] = Nil
    /\ upc[t] \in {"absent", "out"} => job[t] = NoJob
    /\ upc[t] = "nascent" => job[t].call = "none" /\ job[t].child \in Spaces
    /\ upc[t] \in FaultPCs \cup {"killed"} => job[t].call = "fault"
    /\ upc[t] \in FaultPCs \cup {"n_page", "free_frame", "free_clear", "c_map"} =>
          job[t].todo # {}
    /\ upc[t] = "n_page" => job[t].call = "new"
    /\ upc[t] \in FreePCs => job[t].call \in {"new", "remove", "exit"}
    /\ upc[t] \in {"tables", "table_clear"} => job[t].todo = {}
    /\ job[t].call \in {"new", "remove"} =>
          job[t].reg \in Regions /\ job[t].todo \subseteq PagesOf(job[t].reg)
    /\ upc[t] \in CopyPCs => job[t].call = "fork" /\ job[t].child \in Spaces
    /\ upc[t] \notin CopyPCs \cup {"nascent"} => job[t].child = Nil
    /\ job[t].child # Nil => job[t].child # space[t]

(* The pages that a call maps, unmaps or backs.                            *)
Works(t) == CASE job[t].call = "fault" -> job[t].todo
              [] job[t].call \in {"new", "remove"} -> PagesOf(job[t].reg)
              [] OTHER -> {}

(* Two threads: who works on a page works on it alone, a space that is     *)
(* taken down or copied has no other thread, and one that is built up has  *)
(* none.                                                                   *)
Apart(t, u) ==
    /\ space[t] # Nil /\ space[t] = space[u] =>
          Works(t) \cap Works(u) = {} /\ job[t].call \notin {"exit", "fork"}
    /\ job[t].child # Nil => space[u] # job[t].child
    /\ job[t].child # Nil /\ job[u].child = job[t].child =>
          (upc[t] = "nascent" <=> upc[u] # "nascent")

(* Who keeps the page of a region from being mapped.                       *)
Excused(t, s, p) ==
    \/ space[t] = s /\ job[t].call \in {"new", "remove"} /\ p \in PagesOf(job[t].reg)
    \/ space[t] = s /\ job[t].call = "exit"
    \/ job[t].child = s /\ upc[t] \in {"c_frame", "c_map"} /\ p \in job[t].todo

RegionInv ==
    /\ \A s \in Spaces : \A i, j \in DOMAIN regions[s] :
          i # j => PagesOf(regions[s][i]) \cap PagesOf(regions[s][j]) = {}
    /\ \A s \in Spaces, p \in Pages :
          pte[s][p] # Absent => \E i \in DOMAIN regions[s] : p \in PagesOf(regions[s][i])
    /\ \A s \in Spaces : \A i \in DOMAIN regions[s] : \A p \in PagesOf(regions[s][i]) :
          pte[s][p] # Absent \/ \E t \in Users : Excused(t, s, p)

(* The region of a call is one of its space's. *)
Held(t) ==
    job[t].call \in {"new", "remove"} /\ PagesOf(job[t].reg) # {} =>
        \E i \in DOMAIN regions[space[t]] : regions[space[t]][i] = job[t].reg

(* It holds the lock of its space. *)
Owner(t) == job[t].call \in {"new", "remove"} => lock[space[t]] = t

(* How far a call has come.                                                *)
Progress(t) ==
    /\ upc[t] = "n_page" => \A p \in PagesOf(job[t].reg) :
          pte[space[t]][p] = Absent <=> p \in job[t].todo
    /\ upc[t] \in FreePCs /\ job[t].call # "exit" =>
          \A p \in PagesOf(job[t].reg) \ job[t].todo : pte[space[t]][p] = Absent
    /\ upc[t] \in FreePCs /\ job[t].call = "exit" =>
          \A p \in Pages \ job[t].todo : pte[space[t]][p] = Absent
    /\ upc[t] \in {"f_check", "f_back"} => Entry(t).to = Zfod
    /\ upc[t] = "f_attrs" => Entry(t).to \in Frames
    /\ upc[t] = "free_frame" => job[t].seen.to \in Frames
    /\ upc[t] \in {"free_frame", "free_clear"} => Entry(t) = job[t].seen
    /\ upc[t] = "table_clear" => job[t].tabs # <<>>

CopyProgress(t) ==
    LET src == regions[space[t]]
        dst == regions[job[t].child]
    IN  upc[t] \in CopyPCs =>
            /\ Len(dst) <= Len(src)
            /\ \A i \in DOMAIN dst : dst[i] = src[i]
            /\ upc[t] # "c_region" => /\ Len(dst) > 0
                                      /\ job[t].todo \subseteq PagesOf(dst[Len(dst)])
                                      /\ \A p \in job[t].todo : pte[job[t].child][p] = Absent
            /\ upc[t] = "c_map" => /\ job[t].seen # Absent
                                   /\ job[t].seen.to = Zfod => ~job[t].seen.rw
            /\ upc[t] # "c_map" => job[t].seen = Absent

(* A page that is not backed is not written to.                            *)
ZfodInv == \A s \in Spaces, p \in Pages :
    pte[s][p].to = Zfod => ~pte[s][p].rw \/ Pushed(s, p)

UserInv(t) == CallOf(t) /\ Held(t) /\ Owner(t) /\ Progress(t) /\ CopyProgress(t)

SpaceInv ==
    /\ \A t \in Users : UserInv(t)
    /\ \A t, u \in Users : t # u => Apart(t, u)
    /\ RegionInv /\ ZfodInv

VMIInv == VMTypes /\ FrameInv /\ (~Stopped => SpaceInv)

LEMMA VMSizes ==
    /\ NumPages \in Nat \ {0} /\ TomeSize \in Nat \ {0}
    /\ IsFiniteSet(Frames) /\ Cardinality(Frames) >= 3
    /\ Zfod \notin Frames /\ Nil \notin Frames /\ Nil # Zfod
    /\ Nil \notin Spaces /\ Nil \notin Users
BY VMAssumption

-----------------------------------------------------------------------------
(* Sharing out the frames *)

(* Nothing moves that is a frame. *)
LEMMA SharedStays ==
    ASSUME NEW ph, NEW th, NEW ch, NEW F, Shared(ph, th, ch, F), NEW ph2, NEW th2, NEW ch2,
           \A s \in Spaces, p \in Pages : ph2[s][p] = ph[s][p] \/
               (ph[s][p] \notin Frames /\ ph2[s][p] \notin Frames),
           \A s \in Spaces, k \in Tomes : th2[s][k] = th[s][k] \/
               (th[s][k] \notin Frames /\ th2[s][k] \notin Frames),
           \A t \in Users : ch2[t] = ch[t] \/ (ch[t] \notin Frames /\ ch2[t] \notin Frames)
    PROVE  Shared(ph2, th2, ch2, F)
BY DEF Shared

LEMMA PageGets ==
    ASSUME NEW ph, NEW th, NEW ch, NEW F, Shared(ph, th, ch, F),
           NEW s \in Spaces, NEW p \in Pages, NEW f \in F, NEW ph2, NEW ch2,
           ph[s][p] \notin Frames, ph2[s][p] = f,
           \A r \in Spaces, q \in Pages : <<r, q>> # <<s, p>> => ph2[r][q] = ph[r][q],
           \A t \in Users : ch2[t] = ch[t]
    PROVE  Shared(ph2, th, ch2, F \ {f})
<1>1. \A r \in Spaces, q \in Pages :
          ph2[r][q] = IF r = s /\ q = p THEN f ELSE ph[r][q]
  OBVIOUS
<1>2. f \in Frames /\ F \in SUBSET Frames
  BY DEF Shared
<1>3. /\ \A r \in Spaces, q \in Pages : ph[r][q] # f
      /\ \A r \in Spaces, k \in Tomes : th[r][k] # f
      /\ \A t \in Users : ch[t] # f
  BY <1>2 DEF Shared
<1> QED BY <1>1, <1>2, <1>3 DEF Shared

LEMMA PageGives ==
    ASSUME NEW ph, NEW th, NEW ch, NEW F, Shared(ph, th, ch, F),
           NEW s \in Spaces, NEW p \in Pages, NEW f \in Frames, NEW ph2, NEW ch2,
           ph[s][p] = f, ph2[s][p] \notin Frames,
           \A r \in Spaces, q \in Pages : <<r, q>> # <<s, p>> => ph2[r][q] = ph[r][q],
           \A t \in Users : ch2[t] = ch[t]
    PROVE  Shared(ph2, th, ch2, F \cup {f}) /\ f \notin F
<1>1. \A r \in Spaces, q \in Pages :
          IF r = s /\ q = p THEN ph2[r][q] \notin Frames ELSE ph2[r][q] = ph[r][q]
  OBVIOUS
<1>2. /\ \A r \in Spaces, q \in Pages : ph2[r][q] # f
      /\ \A r \in Spaces, k \in Tomes : th[r][k] # f
      /\ \A t \in Users : ch[t] # f
  BY <1>1 DEF Shared
<1>3. f \notin F
  BY DEF Shared
<1> QED BY <1>1, <1>2, <1>3 DEF Shared

LEMMA TableGets ==
    ASSUME NEW ph, NEW th, NEW ch, NEW F, Shared(ph, th, ch, F),
           NEW s \in Spaces, NEW k \in Tomes, NEW f \in F, NEW th2,
           th[s][k] \notin Frames, th2[s][k] = f,
           \A r \in Spaces, l \in Tomes : <<r, l>> # <<s, k>> => th2[r][l] = th[r][l]
    PROVE  Shared(ph, th2, ch, F \ {f})
<1>1. \A r \in Spaces, l \in Tomes :
          th2[r][l] = IF r = s /\ l = k THEN f ELSE th[r][l]
  OBVIOUS
<1>2. f \in Frames /\ F \in SUBSET Frames
  BY DEF Shared
<1>3. /\ \A r \in Spaces, q \in Pages : ph[r][q] # f
      /\ \A r \in Spaces, l \in Tomes : th[r][l] # f
      /\ \A t \in Users : ch[t] # f
  BY <1>2 DEF Shared
<1> QED BY <1>1, <1>2, <1>3 DEF Shared

LEMMA TableGives ==
    ASSUME NEW ph, NEW th, NEW ch, NEW F, Shared(ph, th, ch, F),
           NEW s \in Spaces, NEW k \in Tomes, NEW f \in Frames, NEW th2,
           th[s][k] = f, th2[s][k] \notin Frames,
           \A r \in Spaces, l \in Tomes : <<r, l>> # <<s, k>> => th2[r][l] = th[r][l]
    PROVE  Shared(ph, th2, ch, F \cup {f}) /\ f \notin F
<1>1. \A r \in Spaces, l \in Tomes :
          IF r = s /\ l = k THEN th2[r][l] \notin Frames ELSE th2[r][l] = th[r][l]
  OBVIOUS
<1>2. /\ \A r \in Spaces, q \in Pages : ph[r][q] # f
      /\ \A r \in Spaces, l \in Tomes : th2[r][l] # f
      /\ \A t \in Users : ch[t] # f
  BY <1>1 DEF Shared
<1>3. f \notin F
  BY DEF Shared
<1> QED BY <1>1, <1>2, <1>3 DEF Shared

LEMMA CopyGets ==
    ASSUME NEW ph, NEW th, NEW ch, NEW F, Shared(ph, th, ch, F),
           NEW t \in Users, NEW f \in F, NEW ph2, NEW ch2,
           ch[t] \notin Frames, ch2[t] = f,
           \A u \in Users : u # t => ch2[u] = ch[u],
           \A r \in Spaces, q \in Pages : ph2[r][q] = ph[r][q]
    PROVE  Shared(ph2, th, ch2, F \ {f})
<1>1. f \in Frames /\ F \in SUBSET Frames
  BY DEF Shared
<1>2. /\ \A r \in Spaces, q \in Pages : ph[r][q] # f
      /\ \A r \in Spaces, k \in Tomes : th[r][k] # f
      /\ \A u \in Users : ch[u] # f
  BY <1>1 DEF Shared
<1>3. \A u \in Users : ch2[u] = IF u = t THEN f ELSE ch[u]
  OBVIOUS
<1> QED BY <1>1, <1>2, <1>3 DEF Shared

(* The copy becomes a page, and what was no frame stays none. *)
LEMMA CopyBecomesPage ==
    ASSUME NEW ph, NEW th, NEW ch, NEW F, Shared(ph, th, ch, F),
           NEW t \in Users, NEW s \in Spaces, NEW p \in Pages, NEW ph2, NEW ch2,
           ph[s][p] \notin Frames, ch2[t] \notin Frames,
           ph2[s][p] = ch[t],
           \A u \in Users : u # t => ch2[u] = ch[u],
           \A r \in Spaces, q \in Pages : <<r, q>> # <<s, p>> => ph2[r][q] = ph[r][q]
    PROVE  Shared(ph2, th, ch2, F)
<1>1. \A r \in Spaces, q \in Pages :
          ph2[r][q] = IF r = s /\ q = p THEN ch[t] ELSE ph[r][q]
  OBVIOUS
<1>2. /\ \A r \in Spaces, q \in Pages : ph[r][q] \in Frames => ph[r][q] # ch[t]
      /\ \A r \in Spaces, k \in Tomes : th[r][k] \in Frames => th[r][k] # ch[t]
      /\ \A u \in Users : ch[u] \in Frames /\ ch[u] = ch[t] => u = t
  BY DEF Shared
<1>3. \A f \in Frames :
          /\ (\A r \in Spaces, q \in Pages : ph2[r][q] # f) /\ (\A u \in Users : ch2[u] # f)
          <=> (\A r \in Spaces, q \in Pages : ph[r][q] # f) /\ (\A u \in Users : ch[u] # f)
  BY <1>1
<1>4. /\ \A r \in Spaces, k \in Tomes, q \in Pages, v \in Spaces :
             ph2[r][q] \in Frames => ph2[r][q] # th[v][k]
      /\ \A r, v \in Spaces, q, w \in Pages :
             ph2[r][q] \in Frames /\ ph2[r][q] = ph2[v][w] => r = v /\ q = w
      /\ \A r \in Spaces, q \in Pages, u \in Users :
             ph2[r][q] \in Frames => ph2[r][q] # ch2[u]
  BY <1>1, <1>2 DEF Shared
<1> QED BY <1>3, <1>4 DEF Shared

-----------------------------------------------------------------------------
(* The free list *)

LEMMA ListPops ==
    ASSUME NEW F \in SUBSET Frames, NEW h, NEW nx \in [Frames -> Frames \cup {Nil}],
           NEW a, ListOf(F, h, nx, a), h # Nil
    PROVE  h \in F /\ ListOf(F \ {h}, nx[h], [nx EXCEPT ![h] = Nil], a - 1)
<1>1. PICK q \in Seq(Frames) : IsFreeList(q, h, nx) /\ ToSet(q) = F /\ a = Len(q) - 1
  BY DEF ListOf
<1>2. q # <<>> /\ h = q[1]
  BY <1>1 DEF IsFreeList
<1> DEFINE r == Tail(q)
<1>3. /\ Len(q) \in Nat /\ Len(q) >= 1 /\ DOMAIN q = 1 .. Len(q)
      /\ \A i \in 1 .. Len(q) : q[i] \in Frames
      /\ r \in Seq(Frames) /\ Len(r) = Len(q) - 1 /\ DOMAIN r = 1 .. Len(q) - 1
      /\ \A i \in 1 .. Len(q) - 1 : r[i] = q[i + 1]
  BY <1>2
<1> HIDE DEF r
<1>4. r = <<>> <=> Len(q) = 1
  BY <1>3, EmptySeq
<1>5. h \in Frames /\ h \in F
  BY <1>1, <1>2, <1>3 DEF ToSet
<1>6. \A i, j \in 1 .. Len(q) : q[i] = q[j] => i = j
  BY <1>1, <1>3 DEF IsFreeList
<1>7. \A i \in 1 .. Len(q) - 1 : i + 1 \in 1 .. Len(q) /\ r[i] = q[i + 1] /\ r[i] # h
  BY <1>2, <1>3, <1>6
<1>8. IsFreeList(r, nx[h], [nx EXCEPT ![h] = Nil])
  <2>1. \A i, j \in DOMAIN r : r[i] = r[j] => i = j
    BY <1>3, <1>6, <1>7
  <2>2. nx[h] = IF r = <<>> THEN Nil ELSE r[1]
    BY <1>1, <1>2, <1>3, <1>4 DEF IsFreeList
  <2>3. ASSUME NEW i \in DOMAIN r
        PROVE  [nx EXCEPT ![h] = Nil][r[i]] = IF i = Len(r) THEN Nil ELSE r[i + 1]
    <3>1. i + 1 \in 1 .. Len(q) /\ r[i] = q[i + 1] /\ r[i] # h /\ r[i] \in Frames
      BY <1>3, <1>7, <2>3
    <3>2. nx[q[i + 1]] = IF i + 1 = Len(q) THEN Nil ELSE q[i + 1 + 1]
      BY <1>1, <1>3, <3>1 DEF IsFreeList
    <3>3. [nx EXCEPT ![h] = Nil][r[i]] = nx[r[i]]
      BY <3>1
    <3>4. CASE i + 1 = Len(q)
      BY <1>3, <3>1, <3>2, <3>3, <3>4
    <3>5. CASE i + 1 # Len(q)
      <4>1. i + 1 \in 1 .. Len(q) - 1
        BY <1>3, <2>3, <3>5
      <4>2. r[i + 1] = q[i + 1 + 1] /\ i # Len(r)
        BY <1>3, <3>5, <4>1
      <4> QED BY <3>1, <3>2, <3>3, <3>5, <4>2
    <3> QED BY <3>4, <3>5
  <2> QED BY <1>3, <2>1, <2>2, <2>3 DEF IsFreeList
<1>9. ToSet(r) = F \ {h}
  <2>1. ASSUME NEW f \in F \ {h} PROVE f \in ToSet(r)
    <3>1. PICK i \in 1 .. Len(q) : q[i] = f
      BY <1>1, <1>3, <2>1 DEF ToSet
    <3>2. i - 1 \in DOMAIN r /\ r[i - 1] = q[i - 1 + 1] /\ i - 1 + 1 = i
      BY <1>2, <1>3, <2>1, <3>1
    <3> QED BY <3>1, <3>2 DEF ToSet
  <2>2. ASSUME NEW i \in DOMAIN r PROVE r[i] \in F \ {h}
    <3>1. r[i] = q[i + 1] /\ r[i] # h /\ i + 1 \in DOMAIN q
      BY <1>3, <1>7, <2>2
    <3> QED BY <1>1, <3>1 DEF ToSet
  <2> QED BY <2>1, <2>2 DEF ToSet
<1>10. a - 1 = Len(r) - 1
  BY <1>1, <1>3
<1> QED BY <1>3, <1>5, <1>8, <1>9, <1>10 DEF ListOf

LEMMA ListPushes ==
    ASSUME NEW F \in SUBSET Frames, NEW h, NEW nx \in [Frames -> Frames \cup {Nil}],
           NEW a, ListOf(F, h, nx, a), NEW f \in Frames, f \notin F
    PROVE  ListOf(F \cup {f}, f, [nx EXCEPT ![f] = h], a + 1)
<1>1. PICK q \in Seq(Frames) : IsFreeList(q, h, nx) /\ ToSet(q) = F /\ a = Len(q) - 1
  BY DEF ListOf
<1> DEFINE r == <<f>> \o q
<1>2. /\ Len(q) \in Nat /\ DOMAIN q = 1 .. Len(q)
      /\ \A i \in 1 .. Len(q) : q[i] \in Frames
      /\ r \in Seq(Frames) /\ Len(r) = Len(q) + 1 /\ DOMAIN r = 1 .. Len(q) + 1
      /\ r[1] = f /\ \A i \in 2 .. Len(q) + 1 : r[i] = q[i - 1]
  OBVIOUS
<1>3. r # <<>> /\ (q = <<>> <=> Len(q) = 0)
  BY <1>2
<1> HIDE DEF r
<1>4. \A i \in 1 .. Len(q) : q[i] # f /\ q[i] \in F
  BY <1>1, <1>2 DEF ToSet
<1>5. \A i \in 1 .. Len(q) + 1 : i = 1 \/ (i \in 2 .. Len(q) + 1 /\ i - 1 \in 1 .. Len(q))
  BY <1>2
<1>6. IsFreeList(r, f, [nx EXCEPT ![f] = h])
  <2>1. ASSUME NEW i \in DOMAIN r, NEW j \in DOMAIN r, r[i] = r[j] PROVE i = j
    <3>1. CASE i = 1 \/ j = 1
      BY <1>2, <1>4, <1>5, <2>1, <3>1
    <3>2. CASE i # 1 /\ j # 1
      <4>1. i - 1 \in DOMAIN q /\ j - 1 \in DOMAIN q /\ q[i - 1] = q[j - 1]
        BY <1>2, <1>5, <2>1, <3>2
      <4>2. i - 1 = j - 1
        BY <1>1, <4>1 DEF IsFreeList
      <4> QED BY <1>2, <2>1, <4>2
    <3> QED BY <3>1, <3>2
  <2>2. ASSUME NEW i \in DOMAIN r
        PROVE  [nx EXCEPT ![f] = h][r[i]] = IF i = Len(r) THEN Nil ELSE r[i + 1]
    <3>1. CASE i = 1
      <4>1. [nx EXCEPT ![f] = h][r[i]] = h
        BY <1>2, <3>1
      <4>2. h = IF q = <<>> THEN Nil ELSE q[1]
        BY <1>1 DEF IsFreeList
      <4>3. CASE Len(q) = 0
        BY <1>2, <1>3, <3>1, <4>1, <4>2, <4>3
      <4>4. CASE Len(q) # 0
        <5>1. 2 \in 2 .. Len(q) + 1 /\ r[2] = q[2 - 1]
          BY <1>2, <4>4
        <5> QED BY <1>2, <1>3, <3>1, <4>1, <4>2, <4>4, <5>1
      <4> QED BY <4>3, <4>4
    <3>2. CASE i # 1
      <4>1. i - 1 \in 1 .. Len(q) /\ r[i] = q[i - 1] /\ r[i] # f /\ r[i] \in Frames
        BY <1>2, <1>4, <1>5, <2>2, <3>2
      <4>2. nx[q[i - 1]] = IF i - 1 = Len(q) THEN Nil ELSE q[i - 1 + 1]
        BY <1>1, <1>2, <4>1 DEF IsFreeList
      <4>3. [nx EXCEPT ![f] = h][r[i]] = nx[q[i - 1]]
        BY <4>1
      <4>4. CASE i = Len(r)
        BY <1>2, <4>2, <4>3, <4>4
      <4>5. CASE i # Len(r)
        <5>1. i + 1 \in 2 .. Len(q) + 1 /\ i + 1 - 1 = i /\ i - 1 + 1 = i /\ i - 1 # Len(q)
          BY <1>2, <2>2, <4>5
        <5>2. r[i + 1] = q[i]
          BY <1>2, <5>1
        <5> QED BY <4>2, <4>3, <4>5, <5>1, <5>2
      <4> QED BY <4>4, <4>5
    <3> QED BY <3>1, <3>2
  <2> QED BY <1>2, <1>3, <2>1, <2>2 DEF IsFreeList
<1>7. ToSet(r) = F \cup {f}
  <2>1. ASSUME NEW g \in F \cup {f} PROVE g \in ToSet(r)
    <3>1. CASE g = f
      BY <1>2, <3>1 DEF ToSet
    <3>2. CASE g \in F
      <4>1. PICK i \in 1 .. Len(q) : q[i] = g
        BY <1>1, <1>2, <3>2 DEF ToSet
      <4>2. i + 1 \in 2 .. Len(q) + 1 /\ i + 1 - 1 = i /\ i + 1 \in DOMAIN r
        BY <1>2
      <4>3. r[i + 1] = g
        BY <1>2, <4>1, <4>2
      <4> QED BY <4>2, <4>3 DEF ToSet
    <3> QED BY <2>1, <3>1, <3>2
  <2>2. ASSUME NEW i \in DOMAIN r PROVE r[i] \in F \cup {f}
    BY <1>2, <1>4, <1>5, <2>2
  <2> QED BY <2>1, <2>2 DEF ToSet
<1>8. a + 1 = Len(r) - 1
  BY <1>1, <1>2
<1> QED BY <1>2, <1>6, <1>7, <1>8 DEF ListOf

-----------------------------------------------------------------------------
(* Pages, tables and regions *)

Earlier == {ss \in Nat \X Nat : ss[1] < ss[2]}

LEMMA LeastOfNats ==
    ASSUME NEW S, S \subseteq Nat, S # {}
    PROVE  \E i \in S : \A j \in S : i <= j
<1>1. IsWellFoundedOn(Earlier, Nat)
  BY NatLessThanWellFounded DEF OpToRel, Earlier
<1>2. PICK i \in S : \A j \in S : <<j, i>> \notin Earlier
  BY <1>1, WFMin, Zenon
<1>3. ASSUME NEW j \in S PROVE i <= j
  <2>1. i \in Nat /\ j \in Nat
    OBVIOUS
  <2>2. ASSUME j < i PROVE FALSE
    <3>1. <<j, i>> \in {ss \in Nat \X Nat : ss[1] < ss[2]}
      BY <2>1, <2>2
    <3> QED BY <1>2, <3>1 DEF Earlier
  <2> QED BY <2>1, <2>2
<1> QED BY <1>3

LEMMA MinOfNats ==
    ASSUME NEW S, S \subseteq Nat, S # {}
    PROVE  Min(S) \in S /\ \A j \in S : Min(S) <= j
<1>1. PICK i \in S : \A j \in S : i <= j
  BY LeastOfNats
<1> QED BY <1>1 DEF Min

LEMMA PagesAreNats == Pages \subseteq Nat
BY VMSizes DEF Pages

LEMMA MinIsPage ==
    ASSUME NEW S \in SUBSET Pages, S # {}
    PROVE  Min(S) \in S /\ Min(S) \in Pages
BY MinOfNats, PagesAreNats

LEMMA DivMonotone ==
    ASSUME NEW a \in Int, NEW b \in Int, a <= b, NEW d \in Nat \ {0}
    PROVE  a \div d \in Int /\ b \div d \in Int /\ a \div d <= b \div d
OBVIOUS

LEMMA DivOfNat ==
    ASSUME NEW a \in Nat, NEW d \in Nat \ {0}
    PROVE  a \div d \in Nat
OBVIOUS

LEMMA TomeIn ==
    ASSUME NEW p \in Pages
    PROVE  Tome(p) \in Tomes
<1>1. p \in Nat /\ NumPages - 1 \in Int /\ p <= NumPages - 1 /\ TomeSize \in Nat \ {0}
  BY VMSizes DEF Pages
<1>2. Tome(p) \in Int /\ Tome(NumPages - 1) \in Int /\ Tome(p) <= Tome(NumPages - 1)
  BY <1>1, DivMonotone DEF Tome
<1>3. Tome(p) \in Nat
  BY <1>1, DivOfNat DEF Tome
<1> QED BY <1>2, <1>3 DEF Tomes

LEMMA InsertShifts ==
    ASSUME NEW q \in Seq(Regions), NEW e \in Regions, NEW k \in 1 .. Len(q) + 1
    PROVE  /\ InsertAt(q, k, e) \in Seq(Regions)
           /\ Len(InsertAt(q, k, e)) = Len(q) + 1
           /\ \A i \in 1 .. Len(q) + 1 :
                  InsertAt(q, k, e)[i] = IF i < k THEN q[i]
                                         ELSE IF i = k THEN e ELSE q[i - 1]
<1> DEFINE a == SubSeq(q, 1, k-1)
           b == SubSeq(q, k, Len(q))
<1>1. Len(q) \in Nat /\ DOMAIN q = 1 .. Len(q) /\ \A i \in 1 .. Len(q) : q[i] \in Regions
  OBVIOUS
<1>2. /\ a \in Seq(Regions) /\ Len(a) = k-1
      /\ \A i \in 1 .. k-1 : a[i] = q[i]
  <2>1. \A i \in 1 .. k-1 : q[i] \in Regions
    BY <1>1
  <2> QED BY <1>1, <2>1, SubSeqProperties
<1>3. /\ b \in Seq(Regions) /\ Len(b) = Len(q) - k + 1
      /\ \A i \in 1 .. Len(q) - k + 1 : b[i] = q[k+i-1]
  <2>1. \A i \in k .. Len(q) : q[i] \in Regions
    BY <1>1
  <2>2. k \in Int /\ Len(q) \in Int /\ k <= Len(q) + 1
    BY <1>1
  <2> HIDE DEF b
  <2>3. /\ b \in Seq(Regions)
        /\ Len(b) = IF k <= Len(q) THEN Len(q) - k + 1 ELSE 0
        /\ \A i \in 1 .. Len(q) - k + 1 : b[i] = q[k+i-1]
    BY <2>1, <2>2, SubSeqProperties DEF b
  <2> QED BY <2>2, <2>3
<1>4. InsertAt(q, k, e) = (a \o <<e>>) \o b
  BY DEF InsertAt
<1> DEFINE c == a \o <<e>>
<1> HIDE DEF a, b
<1>5. /\ c \in Seq(Regions) /\ Len(c) = k
      /\ \A i \in 1 .. k : c[i] = IF i < k THEN q[i] ELSE e
  <2>1. <<e>> \in Seq(Regions) /\ Len(<<e>>) = 1 /\ <<e>>[1] = e
    OBVIOUS
  <2>2. c \in Seq(Regions) /\ Len(c) = k
    BY <1>1, <1>2, <2>1
  <2>3. \A i \in 1 .. k : c[i] = IF i <= k - 1 THEN a[i] ELSE <<e>>[i - (k - 1)]
    BY <1>1, <1>2, <2>1, <2>2
  <2>4. ASSUME NEW i \in 1 .. k PROVE c[i] = IF i < k THEN q[i] ELSE e
    <3>1. CASE i < k
      <4>1. i \in 1 .. k - 1 /\ i <= k - 1
        BY <1>1, <3>1
      <4> QED BY <1>2, <2>3, <3>1, <4>1
    <3>2. CASE ~(i < k)
      <4>1. i = k /\ i - (k - 1) = 1 /\ ~(i <= k - 1)
        BY <1>1, <3>2
      <4> QED BY <2>1, <2>3, <3>2, <4>1
    <3> QED BY <3>1, <3>2
  <2> QED BY <2>2, <2>4
<1> HIDE DEF c
<1> DEFINE r == c \o b
<1>6. /\ r \in Seq(Regions) /\ Len(r) = Len(q) + 1
      /\ \A i \in 1 .. Len(q) + 1 : r[i] = IF i <= k THEN c[i] ELSE b[i - k]
  BY <1>1, <1>3, <1>5
<1> HIDE DEF r
<1>7. ASSUME NEW i \in 1 .. Len(q) + 1
      PROVE  r[i] = IF i < k THEN q[i] ELSE IF i = k THEN e ELSE q[i - 1]
  <2>1. CASE i <= k
    <3>1. i \in 1 .. k
      BY <1>1, <2>1
    <3> QED BY <1>5, <1>6, <2>1, <3>1
  <2>2. CASE ~(i <= k)
    <3>1. i - k \in 1 .. Len(q) - k + 1 /\ k + (i - k) - 1 = i - 1 /\ ~(i < k) /\ i # k
      BY <1>1, <2>2
    <3>2. b[i - k] = q[k + (i - k) - 1]
      BY <1>3, <3>1
    <3> QED BY <1>6, <2>2, <3>1, <3>2
  <2> QED BY <2>1, <2>2
<1>8. InsertAt(q, k, e) = r
  BY <1>4 DEF r, c
<1> QED BY <1>6, <1>7, <1>8

LEMMA RemoveShifts ==
    ASSUME NEW q \in Seq(Regions), NEW e \in ToSet(q)
    PROVE  \E k \in 1 .. Len(q) :
               /\ q[k] = e
               /\ RemoveFirst(q, e) \in Seq(Regions)
               /\ Len(RemoveFirst(q, e)) = Len(q) - 1
               /\ \A i \in 1 .. Len(q) - 1 :
                      RemoveFirst(q, e)[i] = q[IF i < k THEN i ELSE i + 1]
<1> DEFINE I == {i \in 1 .. Len(q) : q[i] = e}
           k == Min(I)
<1>1. Len(q) \in Nat /\ DOMAIN q = 1 .. Len(q) /\ \A i \in 1 .. Len(q) : q[i] \in Regions
  OBVIOUS
<1>2. PICK j \in 1 .. Len(q) : q[j] = e
  BY <1>1 DEF ToSet
<1>3. I # {} /\ I \subseteq Nat
  BY <1>1, <1>2
<1>4. k \in I
  BY <1>3, MinOfNats
<1>5. RemoveFirst(q, e) = RemoveAt(q, k)
  BY <1>2, <1>3 DEF RemoveFirst, SelectInSeq
<1>6. k \in 1 .. Len(q) /\ q[k] = e
  BY <1>4
<1> HIDE DEF k, I
<1> DEFINE a == SubSeq(q, 1, k-1)
           b == SubSeq(q, k+1, Len(q))
           r == a \o b
<1>7. RemoveFirst(q, e) = r
  BY <1>5 DEF RemoveAt
<1>8. /\ a \in Seq(Regions) /\ Len(a) = k-1
      /\ \A i \in 1 .. k-1 : a[i] = q[i]
  <2>1. \A i \in 1 .. k-1 : q[i] \in Regions
    BY <1>1, <1>6
  <2> QED BY <1>1, <1>6, <2>1, SubSeqProperties
<1>9. /\ b \in Seq(Regions) /\ Len(b) = Len(q) - k
      /\ \A i \in 1 .. Len(q) - k : b[i] = q[k+i]
  <2>1. \A i \in k+1 .. Len(q) : q[i] \in Regions
    BY <1>1, <1>6
  <2>2. k+1 \in Int /\ Len(q) \in Int /\ k \in Int /\ 1 <= k /\ k <= Len(q)
    BY <1>1, <1>6
  <2> HIDE DEF b
  <2>3. /\ b \in Seq(Regions)
        /\ Len(b) = IF k+1 <= Len(q) THEN Len(q) - (k+1) + 1 ELSE 0
        /\ \A i \in 1 .. Len(q) - (k+1) + 1 : b[i] = q[k+1+i-1]
    BY <2>1, <2>2, SubSeqProperties DEF b
  <2>4. Len(q) - (k+1) + 1 = Len(q) - k /\ \A i \in Int : k+1+i-1 = k+i
    BY <2>2
  <2>5. Len(b) = Len(q) - k
    BY <2>2, <2>3
  <2>6. ASSUME NEW i \in 1 .. Len(q) - k PROVE b[i] = q[k+i]
    <3>1. i \in 1 .. Len(q) - (k+1) + 1 /\ k+1+i-1 = k+i
      BY <2>4
    <3>2. b[i] = q[k+1+i-1]
      BY <2>3, <3>1
    <3> QED BY <3>1, <3>2
  <2> QED BY <2>3, <2>5, <2>6
<1> HIDE DEF a, b
<1>10. /\ r \in Seq(Regions) /\ Len(r) = Len(q) - 1
       /\ \A i \in 1 .. Len(q) - 1 : r[i] = IF i <= k - 1 THEN a[i] ELSE b[i - (k - 1)]
  <2>1. r \in Seq(Regions) /\ Len(r) = Len(a) + Len(b)
    BY <1>8, <1>9
  <2>2. \A i \in 1 .. Len(a) + Len(b) : r[i] = IF i <= Len(a) THEN a[i] ELSE b[i - Len(a)]
    <3>1. a \in Seq(Regions) /\ b \in Seq(Regions)
      BY <1>8, <1>9
    <3> QED BY <3>1, ConcatProperties
  <2>3. Len(a) + Len(b) = Len(q) - 1 /\ Len(a) = k - 1
    BY <1>1, <1>6, <1>8, <1>9
  <2> QED BY <2>1, <2>2, <2>3
<1> HIDE DEF r
<1>11. ASSUME NEW i \in 1 .. Len(q) - 1 PROVE r[i] = q[IF i < k THEN i ELSE i + 1]
  <2>1. CASE i < k
    <3>1. i \in 1 .. k - 1 /\ i <= k - 1
      BY <1>6, <2>1
    <3> QED BY <1>8, <1>10, <2>1, <3>1
  <2>2. CASE ~(i < k)
    <3>1. i - (k - 1) \in 1 .. Len(q) - k /\ k + (i - (k - 1)) = i + 1 /\ ~(i <= k - 1)
      BY <1>1, <1>6, <2>2
    <3>2. b[i - (k - 1)] = q[k + (i - (k - 1))]
      BY <1>9, <3>1
    <3> QED BY <1>10, <2>2, <3>1, <3>2
  <2> QED BY <2>1, <2>2
<1> QED BY <1>6, <1>7, <1>10, <1>11

LEMMA LookupFinds ==
    ASSUME NEW rs \in Seq(Regions), NEW a, LookupAt(rs, a) # 0
    PROVE  LookupAt(rs, a) \in DOMAIN rs
<1> DEFINE I == {i \in 1 .. Len(rs) :
                   ~(rs[i].start < a /\ rs[i].end <= a) /\ ~(rs[i].start > a /\ rs[i].end > a)}
<1>1. I # {} /\ LookupAt(rs, a) = Min(I)
  BY DEF LookupAt, SelectInSeq
<1>2. I \subseteq Nat /\ I \subseteq DOMAIN rs
  OBVIOUS
<1> HIDE DEF I
<1> QED BY <1>1, <1>2, MinOfNats

LEMMA RegionInserted ==
    ASSUME NEW rs \in Seq(Regions), NEW r \in Regions
    PROVE  \E k \in 1 .. Len(rs) + 1 :
               /\ InsertRegion(rs, r) \in Seq(Regions)
               /\ Len(InsertRegion(rs, r)) = Len(rs) + 1
               /\ \A i \in 1 .. Len(rs) + 1 :
                      InsertRegion(rs, r)[i] = IF i < k THEN rs[i]
                                               ELSE IF i = k THEN r ELSE rs[i - 1]
               /\ \A i \in DOMAIN rs : i < k => Above(r, rs[i])
               /\ k \in DOMAIN rs => ~Above(r, rs[k])
<1> DEFINE I == {i \in DOMAIN rs : ~Above(r, rs[i])} \cup {Len(rs) + 1}
           k == Min(I)
<1>1. Len(rs) \in Nat /\ DOMAIN rs = 1 .. Len(rs)
  OBVIOUS
<1>2. InsertRegion(rs, r) = InsertAt(rs, k, r)
  BY DEF InsertRegion
<1>3. /\ I # {} /\ I \subseteq Nat /\ I \subseteq 1 .. Len(rs) + 1
      /\ \A i \in DOMAIN rs : i \in I <=> ~Above(r, rs[i])
  BY <1>1
<1> HIDE DEF I
<1>4. k \in I /\ \A i \in I : k <= i
  BY <1>3, MinOfNats
<1> HIDE DEF k
<1>5. PICK j \in 1 .. Len(rs) + 1 : j = k
  BY <1>3, <1>4
<1>5a. InsertRegion(rs, r) = InsertAt(rs, j, r)
  BY <1>2, <1>5
<1>5b. (\A i \in DOMAIN rs : i < j => Above(r, rs[i])) /\ (j \in DOMAIN rs => ~Above(r, rs[j]))
  <2>1. j \in DOMAIN rs => ~Above(r, rs[j])
    BY <1>3, <1>4, <1>5
  <2>2. ASSUME NEW i \in DOMAIN rs, i < j, ~Above(r, rs[i]) PROVE FALSE
    <3>1. j <= i /\ i \in Nat /\ j \in Nat
      BY <1>1, <1>3, <1>4, <1>5, <2>2
    <3> QED BY <2>2, <3>1
  <2> QED BY <2>1, <2>2
<1>6. InsertAt(rs, j, r) \in Seq(Regions)
  BY InsertShifts
<1>7. Len(InsertAt(rs, j, r)) = Len(rs) + 1
  BY InsertShifts
<1>8. \A i \in 1 .. Len(rs) + 1 :
         InsertAt(rs, j, r)[i] = IF i < j THEN rs[i] ELSE IF i = j THEN r ELSE rs[i - 1]
  BY InsertShifts
<1> HIDE DEF Above
<1> QED BY <1>5a, <1>5b, <1>6, <1>7, <1>8

LEMMA ApartIsDisjoint ==
    ASSUME NEW r \in Regions, NEW q \in Regions, Below(q, r) \/ Above(q, r)
    PROVE  PagesOf(q) \cap PagesOf(r) = {}
<1>1. /\ r.start \in Int /\ r.end \in Int /\ q.start \in Int /\ q.end \in Int
  BY VMSizes DEF Regions, Pages
<1> QED BY <1>1 DEF Below, Above, PagesOf

LEMMA PagesOfAre ==
    ASSUME NEW r \in Regions
    PROVE  PagesOf(r) \subseteq Pages
<1>1. r.start \in 0 .. NumPages - 1 /\ r.end \in 0 .. NumPages /\ NumPages \in Nat
  BY VMSizes DEF Regions, Pages
<1> QED BY <1>1 DEF PagesOf, Pages

LEMMA NewRegionsAre == NewRegions \subseteq Regions
BY VMAssumption DEF Regions

LEMMA OwnTablesAre ==
    ASSUME NEW rs, NEW r \in Regions
    PROVE  OwnTables(rs, r) \in Seq(Tomes)
<1> DEFINE lo == Tome(r.start)
           hi == Tome(r.end - 1)
           between == [n \in 1 .. hi - lo - 2 |-> lo + n]
<1>1. lo \in Tomes
  BY TomeIn DEF Regions
<1>2. hi \in Int /\ Tome(NumPages - 1) \in Int /\ hi <= Tome(NumPages - 1)
  <2>1. /\ r.end - 1 \in Int /\ NumPages - 1 \in Int /\ r.end - 1 <= NumPages - 1
        /\ TomeSize \in Nat \ {0}
    BY VMSizes DEF Regions
  <2> QED BY <2>1, DivMonotone DEF Tome
<1>3. lo \in Int /\ lo >= 0
  BY <1>1, <1>2 DEF Tomes
<1> HIDE DEF lo, hi
<1>4. \A n \in 1 .. hi - lo - 2 : lo + n \in Tomes
  BY <1>2, <1>3 DEF Tomes
<1>5. between \in Seq(Tomes)
  <2>1. CASE hi - lo - 2 \in Nat
    BY <1>4, <2>1
  <2>2. CASE hi - lo - 2 \notin Nat
    <3>1. 1 .. hi - lo - 2 = {}
      BY <1>2, <1>3, <2>2
    <3>2. between = <<>>
      BY <3>1
    <3>3. <<>> \in Seq(Tomes)
      OBVIOUS
    <3> QED BY <3>2, <3>3, Zenon
  <2> QED BY <2>1, <2>2
<1> HIDE DEF between
<1>6. <<lo>> \in Seq(Tomes) /\ <<>> \in Seq(Tomes)
  BY <1>1
<1> DEFINE shareLo == LET i == CHOOSE i \in DOMAIN rs : rs[i] = r
                      IN  i > 1 /\ Tome(rs[i - 1].end - 1) = Tome(r.start)
           shareHi == LET i == CHOOSE i \in DOMAIN rs : rs[i] = r
                      IN  i < Len(rs) /\ Tome(rs[i + 1].start) = Tome(r.end - 1)
<1>7. OwnTables(rs, r) =
         IF lo = hi THEN IF shareLo \/ shareHi THEN <<>> ELSE <<lo>>
         ELSE (IF shareLo THEN <<>> ELSE <<lo>>) \o (IF shareHi THEN <<>> ELSE <<lo>>) \o between
  BY Zenon DEF OwnTables, lo, hi, between
<1> HIDE DEF shareLo, shareHi
<1>8. /\ (IF shareLo THEN <<>> ELSE <<lo>>) \in Seq(Tomes)
      /\ (IF shareHi THEN <<>> ELSE <<lo>>) \in Seq(Tomes)
  BY <1>6, Zenon
<1>9. (IF shareLo THEN <<>> ELSE <<lo>>) \o (IF shareHi THEN <<>> ELSE <<lo>>) \o between
        \in Seq(Tomes)
  BY <1>5, <1>8
<1> QED BY <1>6, <1>7, <1>9

LEMMA AllTablesAre ==
    ASSUME NEW rs, NEW q \in AllTables(rs)
    PROVE  q \in Seq(Tomes)
<1>1. PICK T \in SUBSET Tomes : q \in SetToSeqs(T)
  BY DEF AllTables
<1>2. IsFiniteSet(T) /\ Cardinality(T) \in Nat
  <2>1. Tome(NumPages - 1) \in Int
    BY VMSizes, DivMonotone DEF Tome
  <2>2. IsFiniteSet(Tomes)
    BY <2>1, FS_Interval DEF Tomes
  <2> QED BY <2>2, FS_Subset, FS_CardinalityType
<1>3. q \in [1 .. Cardinality(T) -> T]
  BY <1>1 DEF SetToSeqs
<1> QED BY <1>2, <1>3

-----------------------------------------------------------------------------
LEMMA ListBound ==
    ASSUME NEW F, NEW h, NEW nx, NEW a, ListOf(F, h, nx, a)
    PROVE  a \in -1 .. Cardinality(Frames) - 1 /\ h \in Frames \cup {Nil}
<1>1. PICK q \in Seq(Frames) : IsFreeList(q, h, nx) /\ a = Len(q) - 1
  BY DEF ListOf
<1>2. Len(q) \in Nat /\ DOMAIN q = 1 .. Len(q) /\ \A i \in 1 .. Len(q) : q[i] \in Frames
  OBVIOUS
<1>3. q \in Injection(1 .. Len(q), Frames)
  BY <1>1, <1>2 DEF IsFreeList, Injection, IsInjective
<1>4. IsFiniteSet(Frames) /\ Cardinality(Frames) \in Nat
  BY VMSizes, FS_CardinalityType
<1>5. Cardinality(1 .. Len(q)) <= Cardinality(Frames)
  BY <1>3, <1>4, FS_Injection
<1>6. Cardinality(1 .. Len(q)) = Len(q)
  <2>1. Cardinality(1 .. Len(q)) = IF 1 > Len(q) THEN 0 ELSE Len(q) - 1 + 1
    BY <1>2, FS_Interval
  <2> QED BY <1>2, <2>1
<1>7. h \in Frames \cup {Nil}
  <2>1. h = IF q = <<>> THEN Nil ELSE q[1]
    BY <1>1 DEF IsFreeList
  <2>2. q # <<>> => 1 \in 1 .. Len(q)
    BY <1>2, EmptySeq
  <2> QED BY <1>2, <2>1, <2>2
<1> QED BY <1>1, <1>2, <1>4, <1>5, <1>6, <1>7

LEMMA ListEmpty ==
    ASSUME NEW F \in SUBSET Frames, NEW h, NEW nx, NEW a, ListOf(F, h, nx, a)
    PROVE  h = Nil <=> F = {}
<1>1. PICK q \in Seq(Frames) : IsFreeList(q, h, nx) /\ ToSet(q) = F
  BY DEF ListOf
<1>2. Len(q) \in Nat /\ DOMAIN q = 1 .. Len(q) /\ \A i \in 1 .. Len(q) : q[i] \in Frames
  OBVIOUS
<1>3. h = IF q = <<>> THEN Nil ELSE q[1]
  BY <1>1 DEF IsFreeList
<1>4. q # <<>> => 1 \in 1 .. Len(q)
  BY <1>2, EmptySeq
<1>5. CASE q = <<>>
  <2>1. DOMAIN q = {}
    BY <1>5
  <2>2. ToSet(q) = {}
    BY <2>1 DEF ToSet
  <2> QED BY <1>1, <1>3, <1>5, <2>2
<1>6. CASE q # <<>>
  <2>1. q[1] \in Frames /\ q[1] \in ToSet(q)
    BY <1>2, <1>4, <1>6 DEF ToSet
  <2> QED BY <1>1, <1>3, <1>6, <2>1, VMSizes
<1> QED BY <1>5, <1>6

-----------------------------------------------------------------------------
(* What a step keeps *)

Same(u) == upc'[u] = upc[u] /\ space'[u] = space[u] /\ job'[u] = job[u]

OthersSame(t) == \A u \in Users \ {t} : Same(u)

HoldPCs == {"free_clear", "table_clear", "c_map", "copy_failed"}

LEMMA PushedKept ==
    ASSUME \A u \in Users : Same(u) \/ (upc[u] # "free_clear" /\ upc'[u] # "free_clear"),
           NEW s, NEW p, pte'[s][p].to = pte[s][p].to
    PROVE  Pushed(s, p)' <=> Pushed(s, p)
BY DEF Pushed, Page, Same

LEMMA TablePushedKept ==
    ASSUME \A u \in Users : Same(u) \/ (upc[u] # "table_clear" /\ upc'[u] # "table_clear"),
           NEW s, NEW k
    PROVE  TablePushed(s, k)' <=> TablePushed(s, k)
BY DEF TablePushed, Same

LEMMA TablesKeepFrames ==
    ASSUME tbl' = tbl,
           \A u \in Users : Same(u) \/ (upc[u] # "table_clear" /\ upc'[u] # "table_clear"),
           NEW s, NEW k
    PROVE  TableFrame(s, k)' = TableFrame(s, k)
<1>1. TablePushed(s, k)' <=> TablePushed(s, k)
  BY TablePushedKept
<1> QED BY <1>1 DEF TableFrame

(* Only the list's own frames change hands, and here none does.            *)
LEMMA FramesStay ==
    ASSUME VMTypes, FrameInv, UNCHANGED listVars,
           \A f \in Frames \cup {Zfod} : rest'[f] = rest[f]
              \/ (f # Zfod /\ \E s \in Spaces, p \in Pages : PageFrame(s, p) = f),
           \A s \in Spaces, p \in Pages : PageFrame(s, p)' = PageFrame(s, p)
              \/ (PageFrame(s, p) \notin Frames /\ PageFrame(s, p)' \notin Frames),
           \A s \in Spaces, k \in Tomes : TableFrame(s, k)' = TableFrame(s, k)
              \/ (TableFrame(s, k) \notin Frames /\ TableFrame(s, k)' \notin Frames),
           \A t \in Users : CopiedFrame(t)' = CopiedFrame(t)
              \/ (CopiedFrame(t) \notin Frames /\ CopiedFrame(t)' \notin Frames)
    PROVE  FrameInv'
<1>1. PICK F \in SUBSET Frames :
          /\ Shared(PageHolds, TableHolds, CopyHolds, F)
          /\ ListOf(F, head, next, avail)
          /\ \A f \in F \cup {Zfod} : rest[f] = 0
  BY DEF FrameInv
<1> DEFINE ph == PageHolds
           th == TableHolds
           ch == CopyHolds
           ph2 == PageHolds'
           th2 == TableHolds'
           ch2 == CopyHolds'
<1>2. /\ \A s \in Spaces, p \in Pages : ph[s][p] = PageFrame(s, p) /\ ph2[s][p] = PageFrame(s, p)'
      /\ \A s \in Spaces, k \in Tomes : th[s][k] = TableFrame(s, k) /\ th2[s][k] = TableFrame(s, k)'
      /\ \A t \in Users : ch[t] = CopiedFrame(t) /\ ch2[t] = CopiedFrame(t)'
  BY DEF PageHolds, TableHolds, CopyHolds
<1> HIDE DEF ph, th, ch, ph2, th2, ch2
<1>3. Shared(ph, th, ch, F)
  BY <1>1 DEF ph, th, ch
<1>4. Shared(ph2, th2, ch2, F)
  BY <1>2, <1>3, SharedStays
<1>5. Shared(PageHolds', TableHolds', CopyHolds', F)
  BY <1>4 DEF ph2, th2, ch2
<1>6. ListOf(F, head', next', avail')
  BY <1>1 DEF listVars
<1>7. \A f \in F \cup {Zfod} : rest'[f] = 0
  <2>1. \A f \in F : \A s \in Spaces, p \in Pages : ph[s][p] # f
    BY <1>1, <1>3 DEF Shared
  <2> QED BY <1>1, <1>2, <2>1
<1> QED BY <1>5, <1>6, <1>7 DEF FrameInv

LEMMA PagesStay ==
    ASSUME \A s \in Spaces, p \in Pages : pte'[s][p].to = pte[s][p].to,
           \A u \in Users : Same(u) \/ (upc[u] # "free_clear" /\ upc'[u] # "free_clear"),
           NEW s \in Spaces, NEW p \in Pages
    PROVE  PageFrame(s, p)' = PageFrame(s, p)
<1>1. Pushed(s, p)' <=> Pushed(s, p)
  BY PushedKept
<1> QED BY <1>1 DEF PageFrame

LEMMA CopiesStay ==
    ASSUME NEW t \in Users,
           Same(t) \/ (upc[t] \notin {"c_map", "copy_failed"} /\ upc'[t] \notin {"c_map", "copy_failed"})
    PROVE  CopiedFrame(t)' = CopiedFrame(t)
BY DEF CopiedFrame, Same

(* The steps that no frame takes part in. *)
LEMMA FramesAside ==
    ASSUME VMTypes, FrameInv, UNCHANGED frameVars, tbl' = tbl,
           \A s \in Spaces, p \in Pages : pte'[s][p].to = pte[s][p].to,
           \A u \in Users : Same(u) \/ (upc[u] \notin HoldPCs /\ upc'[u] \notin HoldPCs)
    PROVE  FrameInv'
<1>1. \A u \in Users : Same(u) \/ (upc[u] # "free_clear" /\ upc'[u] # "free_clear")
  BY DEF HoldPCs
<1>2. \A s \in Spaces, p \in Pages : PageFrame(s, p)' = PageFrame(s, p)
  BY <1>1, PagesStay
<1>3. ASSUME NEW t \in Users PROVE CopiedFrame(t)' = CopiedFrame(t)
  BY CopiesStay DEF HoldPCs
<1>3a. \A s \in Spaces, k \in Tomes : TableFrame(s, k)' = TableFrame(s, k)
  BY TablesKeepFrames DEF HoldPCs
<1>4. UNCHANGED listVars /\ \A f \in Frames \cup {Zfod} : rest'[f] = rest[f]
  BY DEF frameVars
<1> QED BY <1>2, <1>3, <1>3a, <1>4, FramesStay

LEMMA ListTypes ==
    ASSUME FrameInv
    PROVE  avail \in -1 .. Cardinality(Frames) - 1 /\ head \in Frames \cup {Nil}
BY ListBound DEF FrameInv

LEMMA EntryIs ==
    ASSUME VMTypes, NEW t \in Users, space[t] \in Spaces, job[t].todo # {}
    PROVE  /\ Page(t) \in job[t].todo /\ Page(t) \in Pages
           /\ Entry(t) = pte[space[t]][Page(t)] /\ Entry(t) \in Entries
<1>1. job[t].todo \in SUBSET Pages
  BY DEF VMTypes, Jobs
<1>2. Page(t) \in job[t].todo /\ Page(t) \in Pages
  BY <1>1, MinIsPage DEF Page
<1> QED BY <1>2 DEF Entry, VMTypes

(* What a thread that works in its own space, or fork in a child's, leaves *)
(* to the others.                                                          *)
LEMMA OthersKept ==
    ASSUME VMTypes, SpaceInv, NEW t \in Users, OthersSame(t),
           \A s \in Spaces, p \in Pages :
              \/ pte'[s][p] = pte[s][p]
              \/ s = space[t] /\ (p \in Works(t) \/ job[t].call = "exit")
              \/ s = job[t].child /\ upc[t] \in CopyPCs,
           \A s \in Spaces :
              \/ regions'[s] = regions[s]
              \/ s = space[t]
              \/ s = job[t].child /\ upc[t] \in CopyPCs,
           \/ regions' = regions
           \/ job[t].call = "exit"
           \/ \A i \in DOMAIN regions[space[t]] :
                 \/ PagesOf(regions[space[t]][i]) \subseteq Works(t)
                 \/ \E k \in DOMAIN regions'[space[t]] :
                       regions'[space[t]][k] = regions[space[t]][i],
           \A s \in Spaces : lock'[s] = lock[s] \/ (s = space[t] /\ lock[s] \in {t, Nil}),
           NEW u \in Users, u # t
    PROVE  UserInv(u)'
<1>1. upc'[u] = upc[u] /\ space'[u] = space[u] /\ job'[u] = job[u]
  BY DEF OthersSame, Same
<1>2. UserInv(u) /\ UserInv(t) /\ Apart(t, u) /\ Apart(u, t)
  BY DEF SpaceInv
<1>3. CallOf(u)'
  BY <1>1, <1>2 DEF CallOf, UserInv
<1>4. /\ upc[u] \in UserPCs
      /\ space[u] \in Spaces \cup {Nil} /\ space[t] \in Spaces \cup {Nil}
      /\ job[u].child \in Spaces \cup {Nil} /\ job[u].todo \in SUBSET Pages
  BY DEF VMTypes, Jobs
<1>5. Progress(u)'
  <2>1. Page(u)' = Page(u)
    BY <1>1 DEF Page
  <2>2. ASSUME upc[u] \in FaultPCs \cup {"n_page"} \cup FreePCs
        PROVE  /\ space[u] \in Spaces
               /\ \A p \in Pages : pte'[space[u]][p] = pte[space[u]][p] \/
                    (p \notin Works(u) /\ job[u].call # "exit")
    <3>1. space[u] \in Spaces
      BY <1>2, <1>4, <2>2 DEF UserInv, CallOf, FaultPCs, FreePCs, CopyPCs
    <3>2. ASSUME NEW p \in Pages, pte'[space[u]][p] # pte[space[u]][p]
          PROVE  p \notin Works(u) /\ job[u].call # "exit"
      <4>1. CASE space[u] = space[t] /\ (p \in Works(t) \/ job[t].call = "exit")
        BY <1>2, <3>1, <4>1, VMSizes DEF Apart
      <4>2. CASE space[u] = job[t].child /\ upc[t] \in CopyPCs
        BY <1>2, <3>1, <4>2, VMSizes DEF Apart
      <4> QED BY <3>1, <3>2, <4>1, <4>2
    <3> QED BY <3>1, <3>2
  <2>3. Works(u) = IF job[u].call = "fault" THEN job[u].todo
                     ELSE IF job[u].call \in {"new", "remove"} THEN PagesOf(job[u].reg) ELSE {}
    BY DEF Works
  <2>4. CASE upc[u] = "n_page"
    <3>1. job[u].call = "new" /\ PagesOf(job[u].reg) \subseteq Pages
      BY <1>2, <2>4, PagesOfAre DEF UserInv, CallOf
    <3>2. \A p \in PagesOf(job[u].reg) : pte'[space[u]][p] = pte[space[u]][p]
      BY <2>2, <2>3, <2>4, <3>1
    <3> QED BY <1>1, <1>2, <2>4, <3>2 DEF Progress, UserInv, FreePCs
  <2>5. CASE upc[u] \in FreePCs
    <3>1. job[u].call \in {"new", "remove", "exit"}
      BY <1>2, <2>5 DEF UserInv, CallOf
    <3>2. upc[u] \in {"free_frame", "free_clear"} => job[u].todo # {}
      BY <1>2 DEF UserInv, CallOf
    <3>3. upc[u] \in {"free_frame", "free_clear"} => Page(u) \in job[u].todo /\ Page(u) \in Pages
      BY <2>2, <2>5, <3>2, EntryIs
    <3>4. ASSUME job[u].call = "exit" PROVE \A p \in Pages : pte'[space[u]][p] = pte[space[u]][p]
      BY <2>2, <2>5, <3>4
    <3>5. ASSUME job[u].call # "exit"
          PROVE  /\ PagesOf(job[u].reg) \subseteq Pages /\ job[u].todo \subseteq PagesOf(job[u].reg)
                 /\ \A p \in PagesOf(job[u].reg) : pte'[space[u]][p] = pte[space[u]][p]
      <4>1. PagesOf(job[u].reg) \subseteq Pages /\ job[u].todo \subseteq PagesOf(job[u].reg)
        BY <1>2, <3>1, <3>5, PagesOfAre DEF UserInv, CallOf
      <4> QED BY <2>2, <2>3, <2>5, <3>1, <3>5, <4>1
    <3>6. upc[u] \in {"free_frame", "free_clear"} => Entry(u)' = Entry(u)
      BY <1>1, <2>1, <3>3, <3>4, <3>5 DEF Entry
    <3>7. CASE job[u].call = "exit"
      BY <1>1, <1>2, <2>5, <3>4, <3>6, <3>7 DEF Progress, UserInv, FreePCs
    <3>8. CASE job[u].call # "exit"
      BY <1>1, <1>2, <2>5, <3>5, <3>6, <3>8 DEF Progress, UserInv, FreePCs
    <3> QED BY <3>7, <3>8
  <2>6. CASE upc[u] \in FaultPCs
    <3>1. job[u].call = "fault" /\ job[u].todo # {}
      BY <1>2, <2>6 DEF UserInv, CallOf
    <3>2. Page(u) \in job[u].todo /\ Page(u) \in Pages
      BY <2>2, <2>6, <3>1, EntryIs
    <3>3. Entry(u)' = Entry(u)
      BY <1>1, <2>1, <2>2, <2>3, <2>6, <3>1, <3>2 DEF Entry
    <3> QED BY <1>1, <1>2, <2>6, <3>3 DEF Progress, UserInv, FaultPCs, FreePCs
  <2>7. CASE upc[u] \notin FaultPCs \cup {"n_page"} \cup FreePCs
    BY <1>1, <2>7 DEF Progress, FaultPCs, FreePCs
  <2> QED BY <2>4, <2>5, <2>6, <2>7
<1>6. CopyProgress(u)'
  <2>1. CASE upc[u] \in CopyPCs
    <3>1. job[u].call = "fork" /\ job[u].child \in Spaces /\ space[u] \in Spaces
      BY <1>2, <1>4, <2>1 DEF UserInv, CallOf, CopyPCs
    <3>2. space[u] # space[t] /\ job[u].child # space[t] /\ space[u] # job[t].child
      BY <1>2, <3>1, VMSizes DEF Apart
    <3>3. upc[t] \in CopyPCs => job[u].child # job[t].child
      BY <1>2, <2>1, <3>1, VMSizes DEF Apart, CopyPCs
    <3>4. /\ regions'[space[u]] = regions[space[u]]
          /\ regions'[job[u].child] = regions[job[u].child]
          /\ \A p \in Pages : pte'[job[u].child][p] = pte[job[u].child][p]
      BY <3>1, <3>2, <3>3
    <3>5. job[u].todo \subseteq Pages
      BY <1>4
    <3> HIDE DEF CopyPCs
    <3> QED BY <1>1, <1>2, <2>1, <3>4, <3>5 DEF CopyProgress, UserInv
  <2>2. CASE upc[u] \notin CopyPCs
    BY <1>1, <2>2 DEF CopyProgress
  <2> QED BY <2>1, <2>2
<1>7. Held(u)'
  <2>1. SUFFICES ASSUME job[u].call \in {"new", "remove"}, PagesOf(job[u].reg) # {}
                 PROVE  \E i \in DOMAIN regions'[space[u]] : regions'[space[u]][i] = job[u].reg
    BY <1>1 DEF Held
  <2>2. PICK i \in DOMAIN regions[space[u]] : regions[space[u]][i] = job[u].reg
    BY <1>2, <2>1 DEF UserInv, Held
  <2>3. space[u] \in Spaces
    <3>1. upc[u] \notin {"absent", "nascent"}
      BY <1>2, <2>1 DEF UserInv, CallOf, NoJob
    <3> QED BY <1>2, <1>4, <3>1 DEF UserInv, CallOf
  <2>4. CASE space[u] = space[t]
    <3>1. job[t].call # "exit" /\ Works(t) \cap Works(u) = {}
      BY <1>2, <2>3, <2>4, VMSizes DEF Apart
    <3>2. Works(u) = PagesOf(job[u].reg)
      BY <2>1 DEF Works
    <3>3. ~(PagesOf(regions[space[t]][i]) \subseteq Works(t))
      BY <2>1, <2>2, <2>4, <3>1, <3>2
    <3> QED BY <2>2, <2>4, <3>1, <3>3
  <2>5. CASE space[u] # space[t]
    <3>1. space[u] # job[t].child
      BY <1>2, <2>3, VMSizes DEF Apart
    <3>2. regions'[space[u]] = regions[space[u]]
      BY <2>3, <2>5, <3>1
    <3> QED BY <2>2, <3>2
  <2> QED BY <2>4, <2>5
<1>8. Owner(u)'
  <2>1. SUFFICES ASSUME job[u].call \in {"new", "remove"} PROVE lock'[space[u]] = u
    BY <1>1 DEF Owner
  <2>2. upc[u] \notin {"absent", "nascent"}
    BY <1>2, <2>1 DEF UserInv, CallOf, NoJob
  <2>3. space[u] \in Spaces
    BY <1>2, <1>4, <2>2 DEF UserInv, CallOf
  <2>4. lock[space[u]] = u
    BY <1>2, <2>1 DEF UserInv, Owner
  <2> QED BY <2>3, <2>4, VMSizes
<1> QED BY <1>3, <1>5, <1>6, <1>7, <1>8 DEF UserInv

LEMMA ApartKept ==
    ASSUME SpaceInv, NEW t \in Users, OthersSame(t), space'[t] = space[t],
           \A u \in Users \ {t} : space[u] = space[t] => Works(t)' \cap Works(u) = {},
           job'[t].call \notin {"exit", "fork"} \/ job'[t].call = job[t].call,
           job'[t].child = job[t].child \/ job'[t].child = Nil,
           upc'[t] = "nascent" <=> upc[t] = "nascent",
           NEW u \in Users, u # t
    PROVE  Apart(t, u)' /\ Apart(u, t)'
<1>1. upc'[u] = upc[u] /\ space'[u] = space[u] /\ job'[u] = job[u]
  BY DEF OthersSame, Same
<1>2. Apart(t, u) /\ Apart(u, t)
  BY DEF SpaceInv
<1>3. Works(u)' = Works(u)
  BY <1>1 DEF Works
<1>4. space[u] = space[t] => Works(t)' \cap Works(u) = {}
  OBVIOUS
<1> HIDE DEF Works
<1>5. Apart(t, u)'
  BY <1>1, <1>2, <1>3, <1>4 DEF Apart
<1>6. Apart(u, t)'
  BY <1>1, <1>2, <1>3, <1>4 DEF Apart
<1> QED BY <1>5, <1>6

LEMMA RegionsKept ==
    ASSUME VMTypes, RegionInv, regions' = regions, NEW t \in Users, OthersSame(t),
           \A s \in Spaces, p \in Pages : pte'[s][p] # Absent => pte[s][p] # Absent \/
              \E i \in DOMAIN regions[s] : p \in PagesOf(regions[s][i]),
           \A s \in Spaces, p \in Pages :
              pte[s][p] # Absent \/ Excused(t, s, p) => pte'[s][p] # Absent \/ Excused(t, s, p)'
    PROVE  RegionInv'
<1>1. \A s \in Spaces, p \in Pages : \A u \in Users \ {t} : Excused(u, s, p)' <=> Excused(u, s, p)
  BY DEF Excused, OthersSame, Same
<1>2. \A s \in Spaces, p \in Pages :
         pte'[s][p] # Absent => \E i \in DOMAIN regions[s] : p \in PagesOf(regions[s][i])
  BY DEF RegionInv
<1>3. ASSUME NEW s \in Spaces, NEW p \in Pages,
             NEW i \in DOMAIN regions[s], p \in PagesOf(regions[s][i])
      PROVE  pte'[s][p] # Absent \/ \E u \in Users : Excused(u, s, p)'
  <2>1. pte[s][p] # Absent \/ \E u \in Users : Excused(u, s, p)
    BY <1>3 DEF RegionInv
  <2> HIDE DEF Excused
  <2> QED BY <1>1, <2>1
<1>4. \A s \in Spaces : \A i \in DOMAIN regions[s] : PagesOf(regions[s][i]) \subseteq Pages
  <2>1. \A s \in Spaces : \A i \in DOMAIN regions[s] : regions[s][i] \in Regions
    BY DEF VMTypes
  <2> QED BY <2>1, PagesOfAre
<1>5. \A s \in Spaces : \A i \in DOMAIN regions'[s] : \A p \in PagesOf(regions'[s][i]) :
         pte'[s][p] # Absent \/ \E u \in Users : Excused(u, s, p)'
  BY <1>3, <1>4
<1> HIDE DEF Excused
<1> QED BY <1>2, <1>5 DEF RegionInv

(* The pages that a thread's call accounts for, as long as it is the same  *)
(* call.                                                                   *)
LEMMA StillExcused ==
    ASSUME NEW t, space'[t] = space[t], job'[t].call = job[t].call,
           job'[t].reg = job[t].reg, job'[t].child = job[t].child,
           upc[t] \in {"c_frame", "c_map"} =>
              upc'[t] \in {"c_frame", "c_map"} /\ job'[t].todo = job[t].todo,
           NEW s, NEW p, Excused(t, s, p)
    PROVE  Excused(t, s, p)'
BY DEF Excused

LEMMA ZfodKept ==
    ASSUME ZfodInv,
           \A s \in Spaces, p \in Pages : pte'[s][p] = pte[s][p]
              \/ (pte'[s][p].to = Zfod => ~pte'[s][p].rw),
           \A u \in Users : Same(u) \/ (upc[u] # "free_clear" /\ upc'[u] # "free_clear")
    PROVE  ZfodInv'
<1>1. ASSUME NEW s \in Spaces, NEW p \in Pages, pte'[s][p].to = Zfod, pte'[s][p].rw
      PROVE  Pushed(s, p)'
  <2>1. pte'[s][p] = pte[s][p]
    BY <1>1
  <2>2. Pushed(s, p)
    BY <1>1, <2>1 DEF ZfodInv
  <2> HIDE DEF Pushed
  <2> QED BY <2>1, <2>2, PushedKept
<1> HIDE DEF Pushed
<1> QED BY <1>1 DEF ZfodInv

LEMMA SpaceKept ==
    ASSUME SpaceInv, NEW t \in Users, OthersSame(t),
           UserInv(t)', \A u \in Users : u # t => UserInv(u)',
           \A u \in Users : u # t => Apart(t, u)' /\ Apart(u, t)',
           RegionInv', ZfodInv'
    PROVE  SpaceInv'
<1>1. \A u, v \in Users : u # v /\ u # t /\ v # t => Apart(u, v)'
  BY DEF SpaceInv, OthersSame, Same, Apart, Works
<1> HIDE DEF Apart, UserInv
<1>2. \A u, v \in Users : u # v => Apart(u, v)'
  BY <1>1
<1>3. \A u \in Users : UserInv(u)'
  OBVIOUS
<1> QED BY <1>2, <1>3 DEF SpaceInv

LEMMA TypesStep ==
    ASSUME VMTypes, FrameInv',
           next' \in [Frames -> Frames \cup {Nil}],
           rest' \in [Frames \cup {Zfod} -> Users \cup {0}],
           pte' \in [Spaces -> [Pages -> Entries]],
           tbl' \in [Spaces -> [Tomes -> Frames \cup {Nil}]],
           regions' \in [Spaces -> Seq(Regions)],
           lock' \in [Spaces -> Users \cup {Nil}],
           space' \in [Users -> Spaces \cup {Nil}],
           upc' \in [Users -> UserPCs],
           job' \in [Users -> Jobs]
    PROVE  VMTypes'
<1>1. avail' \in -1 .. Cardinality(Frames) - 1 /\ head' \in Frames \cup {Nil}
  BY ListBound DEF FrameInv
<1> QED BY <1>1 DEF VMTypes

(* The step of a thread in its own space, or of fork in the child's. *)
LEMMA OwnStep ==
    ASSUME VMTypes, SpaceInv, NEW t \in Users, OthersSame(t), space'[t] = space[t],
           \A s \in Spaces, p \in Pages :
              \/ pte'[s][p] = pte[s][p]
              \/ s = space[t] /\ (p \in Works(t) \/ job[t].call = "exit")
              \/ s = job[t].child /\ upc[t] \in CopyPCs,
           \A s \in Spaces :
              \/ regions'[s] = regions[s]
              \/ s = space[t]
              \/ s = job[t].child /\ upc[t] \in CopyPCs,
           \/ regions' = regions
           \/ job[t].call = "exit"
           \/ \A i \in DOMAIN regions[space[t]] :
                 \/ PagesOf(regions[space[t]][i]) \subseteq Works(t)
                 \/ \E k \in DOMAIN regions'[space[t]] :
                       regions'[space[t]][k] = regions[space[t]][i],
           \A s \in Spaces : lock'[s] = lock[s] \/ (s = space[t] /\ lock[s] \in {t, Nil}),
           \A u \in Users \ {t} : space[u] = space[t] => Works(t)' \cap Works(u) = {},
           job'[t].call \notin {"exit", "fork"} \/ job'[t].call = job[t].call,
           job'[t].child = job[t].child \/ job'[t].child = Nil,
           upc'[t] = "nascent" <=> upc[t] = "nascent",
           UserInv(t)', RegionInv', ZfodInv'
    PROVE  SpaceInv'
<1>1. \A u \in Users : u # t => UserInv(u)'
  BY OthersKept
<1>2. \A u \in Users : u # t => Apart(t, u)' /\ Apart(u, t)'
  BY ApartKept
<1> QED BY <1>1, <1>2, SpaceKept

(* ... when it goes on with the pages that it had. *)
LEMMA TouchesLess ==
    ASSUME SpaceInv, NEW t \in Users, space[t] \in Spaces, Works(t)' \subseteq Works(t)
    PROVE  \A u \in Users \ {t} : space[u] = space[t] => Works(t)' \cap Works(u) = {}
<1>1. \A u \in Users \ {t} : Apart(t, u)
  BY DEF SpaceInv
<1> QED BY <1>1, VMSizes DEF Apart

LEMMA JobNone == NoJob \in Jobs /\ Absent \in Entries
<1>1. <<>> \in Seq(Tomes)
  OBVIOUS
<1> QED BY <1>1 DEF NoJob, Jobs, Entries, Absent

LEMMA AbsentIs == Absent.to = Nil /\ ~Absent.rw
BY DEF Absent

LEMMA EntriesAre ==
    ASSUME NEW e \in Entries
    PROVE  /\ e = [to |-> e.to, rw |-> e.rw] /\ e.rw \in BOOLEAN
           /\ e.to \in Frames \cup {Zfod, Nil}
           /\ e = Absent <=> e.to = Nil
<1>1. CASE e = Absent
  BY <1>1 DEF Absent
<1>2. CASE e \in [to : Frames \cup {Zfod}, rw : BOOLEAN]
  <2>1. e.to \in Frames \cup {Zfod} /\ e.rw \in BOOLEAN /\ e = [to |-> e.to, rw |-> e.rw]
    BY <1>2
  <2>2. e.to # Nil /\ Absent.to = Nil
    BY <2>1, VMSizes DEF Absent
  <2> QED BY <2>1, <2>2
<1> QED BY <1>1, <1>2 DEF Entries

(* A thread that is about in its space. *)
LEMMA InSpace ==
    ASSUME VMTypes, SpaceInv, NEW t \in Users, upc[t] \notin {"absent", "nascent"}
    PROVE  space[t] \in Spaces
BY DEF SpaceInv, UserInv, CallOf, VMTypes

-----------------------------------------------------------------------------
(* The page fault *)

(* A step that only goes on to the next label. *)
LEMMA QuietStep ==
    ASSUME VMTypes, FrameInv, SpaceInv, NEW t \in Users, OthersSame(t),
           UNCHANGED <<frameVars, pte, tbl, regions, lock>>, space'[t] = space[t],
           upc[t] \notin HoldPCs \cup {"absent", "nascent"},
           upc'[t] \notin HoldPCs \cup {"absent", "nascent"},
           job'[t].call = job[t].call, job'[t].reg = job[t].reg, job'[t].child = job[t].child,
           job'[t].todo \subseteq job[t].todo \/ job[t].call # "fault",
           upc[t] = "c_frame" => job[t].todo = {},
           UserInv(t)'
    PROVE  FrameInv' /\ SpaceInv'
<1>1. \A u \in Users : Same(u) \/ (upc[u] \notin HoldPCs /\ upc'[u] \notin HoldPCs)
  BY DEF OthersSame
<1>2. \A u \in Users : Same(u) \/ (upc[u] # "free_clear" /\ upc'[u] # "free_clear")
  BY <1>1 DEF HoldPCs
<1>3. FrameInv'
  BY <1>1, FramesAside
<1>4. RegionInv /\ ZfodInv
  BY DEF SpaceInv
<1>5. ZfodInv'
  BY <1>2, <1>4, ZfodKept
<1>6. \A s \in Spaces, p \in Pages : Excused(t, s, p) => Excused(t, s, p)'
  BY DEF Excused, HoldPCs
<1>7. RegionInv'
  <2> HIDE DEF Excused
  <2> QED BY <1>4, <1>6, RegionsKept
<1>8. Works(t)' \subseteq Works(t)
  BY DEF Works
<1>9. \A u \in Users \ {t} : space[u] = space[t] => Works(t)' \cap Works(u) = {}
  <2>1. space[t] \in Spaces
    BY InSpace
  <2> QED BY <1>8, <2>1, TouchesLess
<1>10. SpaceInv'
  <2> HIDE DEF Works, Excused
  <2> QED BY <1>5, <1>7, <1>9, OwnStep
<1> QED BY <1>3, <1>10

LEMMA GotoOthers ==
    ASSUME VMTypes, NEW t \in Users, NEW label, UserGoto(t, label)
    PROVE  /\ upc'[t] = label /\ \A u \in Users : u # t => upc'[u] = upc[u]
           /\ label \in UserPCs => upc' \in [Users -> UserPCs]
BY DEF UserGoto, VMTypes

LEMMA FaultGotoIs ==
    ASSUME VMTypes, NEW t \in Users, NEW label \in UserPCs, FaultGoto(t, label)
    PROVE  /\ upc'[t] \in {label, "astray"} /\ (~Stopped' => upc'[t] = label)
           /\ \A u \in Users : u # t => upc'[u] = upc[u]
           /\ upc' \in [Users -> UserPCs]
<1>1. upc'[t] \in {label, "astray"} /\ \A u \in Users : u # t => upc'[u] = upc[u]
  BY DEF FaultGoto, UserGoto, VMTypes
<1>2. upc' \in [Users -> UserPCs]
  BY DEF FaultGoto, UserGoto, VMTypes, UserPCs
<1> QED BY <1>1, <1>2 DEF Stopped

(* The thread itself, at its fault. *)
LEMMA FaultGoesOn ==
    ASSUME VMTypes, SpaceInv, NEW t \in Users, upc[t] \in FaultPCs,
           upc'[t] \in FaultPCs \cup {"killed"}, space'[t] = space[t],
           job'[t].call = "fault", job'[t].todo = job[t].todo, job'[t].child = job[t].child,
           upc'[t] \in {"f_check", "f_back"} => Entry(t)'.to = Zfod,
           upc'[t] = "f_attrs" => Entry(t)'.to \in Frames
    PROVE  UserInv(t)'
<1>1. CallOf(t)
  BY DEF SpaceInv, UserInv
<1>2. CallOf(t)'
  BY <1>1 DEF CallOf, FaultPCs, FreePCs, CopyPCs
<1> HIDE DEF Entry
<1>3. Held(t)' /\ Owner(t)' /\ Progress(t)' /\ CopyProgress(t)'
  BY DEF Held, Owner, Progress, CopyProgress, FaultPCs, FreePCs, CopyPCs
<1> QED BY <1>2, <1>3 DEF UserInv

LEMMA FaultLookKeeps ==
    ASSUME VMTypes, FrameInv, SpaceInv, NEW t \in Users, FaultLook(t)
    PROVE  VMTypes' /\ FrameInv' /\ (~Stopped' => SpaceInv')
<1> DEFINE label == IF Entry(t).to = Zfod THEN "f_check" ELSE "killed"
<1>1. /\ upc[t] = "f_look" /\ UNCHANGED <<frameVars, spaceVars, space, job>>
      /\ FaultGoto(t, label)
  BY DEF FaultLook
<1>2. /\ upc'[t] \in {label, "astray"} /\ (~Stopped' => upc'[t] = label)
      /\ \A u \in Users : u # t => upc'[u] = upc[u]
      /\ upc' \in [Users -> UserPCs]
  <2>1. label \in UserPCs
    BY DEF UserPCs
  <2> HIDE DEF label
  <2> QED BY <1>1, <2>1, FaultGotoIs
<1>3. OthersSame(t)
  BY <1>1, <1>2 DEF OthersSame, Same
<1>4. Entry(t)' = Entry(t)
  BY <1>1 DEF Entry, Page, spaceVars
<1>5. UserInv(t) /\ CallOf(t)
  BY DEF SpaceInv, UserInv
<1>6. job[t].call = "fault"
  BY <1>1, <1>5 DEF CallOf, FaultPCs
<1>7. FrameInv'
  <2>1. \A u \in Users : Same(u) \/ (upc[u] \notin HoldPCs /\ upc'[u] \notin HoldPCs)
    BY <1>1, <1>2, <1>3 DEF OthersSame, HoldPCs
  <2> QED BY <1>1, <2>1, FramesAside DEF spaceVars
<1>8. ASSUME ~Stopped' PROVE SpaceInv'
  <2>1. UserInv(t)'
    <3> HIDE DEF Entry
    <3> QED BY <1>1, <1>2, <1>4, <1>6, <1>8, FaultGoesOn DEF FaultPCs
  <2> QED BY <1>1, <1>2, <1>3, <1>8, <2>1, QuietStep DEF spaceVars, HoldPCs
<1>9. VMTypes'
  BY <1>1, <1>2, <1>7, TypesStep DEF VMTypes, spaceVars, frameVars, listVars
<1> QED BY <1>7, <1>8, <1>9

LEMMA FaultNoFrameKeeps ==
    ASSUME VMTypes, FrameInv, SpaceInv, NEW t \in Users, FaultNoFrame(t)
    PROVE  VMTypes' /\ FrameInv' /\ SpaceInv'
<1>1. /\ upc[t] = "f_back" /\ UNCHANGED <<frameVars, spaceVars, space, job>>
      /\ UserGoto(t, "killed")
  BY DEF FaultNoFrame
<1>2. /\ upc'[t] = "killed"
      /\ \A u \in Users : u # t => upc'[u] = upc[u]
      /\ upc' \in [Users -> UserPCs]
  BY <1>1, GotoOthers DEF UserPCs
<1>3. OthersSame(t)
  BY <1>1, <1>2 DEF OthersSame, Same
<1>5. UserInv(t) /\ CallOf(t)
  BY DEF SpaceInv, UserInv
<1>6. job[t].call = "fault"
  BY <1>1, <1>5 DEF CallOf, FaultPCs
<1>7. UserInv(t)'
  <2> HIDE DEF Entry
  <2> QED BY <1>1, <1>2, <1>6, FaultGoesOn DEF FaultPCs
<1>8. FrameInv' /\ SpaceInv'
  BY <1>1, <1>2, <1>3, <1>7, QuietStep DEF spaceVars, HoldPCs
<1>9. VMTypes'
  BY <1>1, <1>2, <1>8, TypesStep DEF VMTypes, spaceVars, frameVars, listVars
<1> QED BY <1>8, <1>9

LEMMA FaultCheckKeeps ==
    ASSUME VMTypes, FrameInv, SpaceInv, NEW t \in Users, FaultCheck(t)
    PROVE  VMTypes' /\ FrameInv' /\ (~Stopped' => SpaceInv')
<1>0. UserInv(t) /\ CallOf(t) /\ Progress(t)
  BY DEF SpaceInv, UserInv
<1>1. /\ upc[t] = "f_check" /\ UNCHANGED <<frameVars, spaceVars, space>>
      /\ FaultGoto(t, IF Entry(t) = Absent THEN "panic" ELSE "f_back")
      /\ job' = [job EXCEPT ![t].seen = Entry(t)]
  BY DEF FaultCheck
<1>2. job[t].call = "fault" /\ job[t].todo # {} /\ job[t] \in Jobs /\ space[t] \in Spaces
  BY <1>0, <1>1, InSpace DEF CallOf, FaultPCs, VMTypes
<1>3. Entry(t).to = Zfod /\ Entry(t) \in Entries
  BY <1>0, <1>1, <1>2, EntryIs DEF Progress
<1>4. Entry(t) # Absent
  BY <1>3, AbsentIs, VMSizes
<1> HIDE DEF Entry
<1>5. /\ upc'[t] \in {"f_back", "astray"} /\ (~Stopped' => upc'[t] = "f_back")
      /\ \A u \in Users : u # t => upc'[u] = upc[u]
      /\ upc' \in [Users -> UserPCs]
  <2>1. FaultGoto(t, "f_back") /\ "f_back" \in UserPCs
    BY <1>1, <1>4 DEF UserPCs
  <2> QED BY <2>1, FaultGotoIs
<1>6. /\ job'[t] = [job[t] EXCEPT !.seen = Entry(t)]
      /\ \A u \in Users : u # t => job'[u] = job[u]
      /\ job' \in [Users -> Jobs]
  BY <1>1, <1>2, <1>3 DEF VMTypes, Jobs
<1>7. /\ job'[t].call = job[t].call /\ job'[t].reg = job[t].reg
      /\ job'[t].todo = job[t].todo /\ job'[t].child = job[t].child
  BY <1>2, <1>6 DEF Jobs
<1>8. OthersSame(t)
  BY <1>1, <1>5, <1>6 DEF OthersSame, Same
<1>9. Entry(t)' = Entry(t)
  BY <1>1, <1>7 DEF Entry, Page, spaceVars
<1>10. FrameInv'
  <2>1. \A u \in Users : Same(u) \/ (upc[u] \notin HoldPCs /\ upc'[u] \notin HoldPCs)
    BY <1>1, <1>5, <1>8 DEF OthersSame, HoldPCs
  <2> QED BY <1>1, <2>1, FramesAside DEF spaceVars
<1>11. ASSUME ~Stopped' PROVE SpaceInv'
  <2>1. UNCHANGED <<frameVars, pte, tbl, regions, lock>> /\ space'[t] = space[t]
    BY <1>1 DEF spaceVars
  <2>2. UserInv(t)'
    BY <1>1, <1>2, <1>3, <1>5, <1>7, <1>9, <1>11, FaultGoesOn DEF FaultPCs
  <2> QED BY <1>1, <1>2, <1>5, <1>7, <1>8, <1>11, <2>1, <2>2, QuietStep DEF HoldPCs
<1>12. VMTypes'
  BY <1>1, <1>5, <1>6, <1>10, TypesStep DEF VMTypes, spaceVars, frameVars, listVars
<1> QED BY <1>10, <1>11, <1>12

LEMMA OutIs ==
    ASSUME NEW t, upc'[t] = "out", job'[t] = NoJob, space'[t] \in Spaces
    PROVE  /\ UserInv(t)' /\ Works(t)' = {}
           /\ job'[t].call = "none" /\ job'[t].child = Nil /\ job'[t].todo = {}
<1>1. /\ NoJob.call = "none" /\ NoJob.child = Nil /\ NoJob.todo = {}
  BY DEF NoJob
<1>2. CallOf(t)'
  BY <1>1, VMSizes DEF CallOf, FaultPCs, FreePCs, CopyPCs
<1>3. Held(t)' /\ Owner(t)' /\ Progress(t)' /\ CopyProgress(t)'
  BY <1>1 DEF Held, Owner, Progress, CopyProgress, FreePCs, CopyPCs
<1>4. Works(t)' = {}
  BY <1>1 DEF Works
<1> QED BY <1>1, <1>2, <1>3, <1>4 DEF UserInv



(* No other thread is about to enter or clear the page of this one.        *)
LEMMA NotPushed ==
    ASSUME VMTypes, SpaceInv, NEW t \in Users, upc[t] \notin {"absent", "nascent", "free_clear"},
           NEW p, \A u \in Users \ {t} : space[u] = space[t] => p \notin Works(u)
    PROVE  ~Pushed(space[t], p)
<1>1. SUFFICES ASSUME NEW u \in Users, upc[u] = "free_clear", space[u] = space[t], Page(u) = p
               PROVE  FALSE
  BY DEF Pushed
<1>2. u # t /\ UserInv(u) /\ CallOf(u) /\ Apart(u, t) /\ space[u] \in Spaces
  BY <1>1, InSpace DEF SpaceInv, UserInv
<1>3. job[u].todo # {} /\ job[u].call \in {"new", "remove", "exit"}
  BY <1>1, <1>2 DEF CallOf, FaultPCs, FreePCs
<1>4. job[u].call \in {"new", "remove"}
  BY <1>1, <1>2, <1>3, VMSizes DEF Apart
<1>5. Page(u) \in job[u].todo /\ job[u].todo \subseteq PagesOf(job[u].reg)
  BY <1>2, <1>3, <1>4, EntryIs DEF CallOf
<1>6. Page(u) \in Works(u)
  BY <1>4, <1>5 DEF Works
<1> QED BY <1>1, <1>2, <1>6

LEMMA OwnPageFree ==
    ASSUME VMTypes, SpaceInv, NEW t \in Users, NEW p \in Works(t), upc[t] # "free_clear"
    PROVE  space[t] \in Spaces => ~Pushed(space[t], p)
<1> SUFFICES ASSUME space[t] \in Spaces PROVE ~Pushed(space[t], p)
  OBVIOUS
<1>1. \A u \in Users \ {t} : Apart(t, u) /\ UserInv(t)
  BY DEF SpaceInv
<1>2. \A u \in Users \ {t} : space[u] = space[t] => p \notin Works(u)
  BY <1>1, VMSizes DEF Apart
<1>3. upc[t] \notin {"absent", "nascent"}
  BY VMSizes DEF SpaceInv, UserInv, CallOf
<1> QED BY <1>2, <1>3, NotPushed

LEMMA MadeWritable ==
    ASSUME NEW e \in Entries, e # Absent
    PROVE  /\ [e EXCEPT !.rw = TRUE] \in Entries /\ [e EXCEPT !.rw = TRUE] # Absent
           /\ [e EXCEPT !.rw = TRUE].to = e.to /\ [e EXCEPT !.rw = TRUE].rw
<1> DEFINE w == [e EXCEPT !.rw = TRUE]
<1>1. e \in [to : Frames \cup {Zfod}, rw : BOOLEAN]
  BY DEF Entries
<1>2. w \in [to : Frames \cup {Zfod}, rw : BOOLEAN] /\ w.to = e.to /\ w.rw = TRUE
  BY <1>1
<1>3. w # Absent
  BY <1>2, AbsentIs
<1> QED BY <1>2, <1>3 DEF Entries

LEMMA PteUpdate ==
    ASSUME VMTypes, NEW s \in Spaces, NEW q \in Pages, NEW e \in Entries,
           pte' = [pte EXCEPT ![s][q] = e]
    PROVE  /\ pte'[s][q] = e
           /\ \A r \in Spaces, p \in Pages : <<r, p>> # <<s, q>> => pte'[r][p] = pte[r][p]
           /\ pte' \in [Spaces -> [Pages -> Entries]]
BY DEF VMTypes

LEMMA TblUpdate ==
    ASSUME VMTypes, NEW s \in Spaces, NEW k \in Tomes, NEW f \in Frames \cup {Nil},
           tbl' = [tbl EXCEPT ![s][k] = f]
    PROVE  /\ tbl'[s][k] = f
           /\ \A r \in Spaces, l \in Tomes : <<r, l>> # <<s, k>> => tbl'[r][l] = tbl[r][l]
           /\ tbl' \in [Spaces -> [Tomes -> Frames \cup {Nil}]]
BY DEF VMTypes

LEMMA FaultAttrsKeeps ==
    ASSUME VMTypes, FrameInv, SpaceInv, NEW t \in Users, FaultAttrs(t)
    PROVE  VMTypes' /\ FrameInv' /\ (~Stopped' => SpaceInv')
<1> DEFINE s == space[t]
           q == Page(t)
<1>0. UserInv(t) /\ CallOf(t) /\ Progress(t) /\ RegionInv /\ ZfodInv
  BY DEF SpaceInv, UserInv
<1>1. /\ upc[t] = "f_attrs" /\ FaultGoto(t, "out")
      /\ job' = [job EXCEPT ![t] = NoJob]
      /\ UNCHANGED <<frameVars, tbl, regions, lock, space>>
  BY DEF FaultAttrs
<1>2. job[t].call = "fault" /\ job[t].todo # {} /\ s \in Spaces
  BY <1>0, <1>1, InSpace DEF CallOf, FaultPCs
<1>3. q \in job[t].todo /\ q \in Pages /\ Entry(t) = pte[s][q] /\ Entry(t) \in Entries
  BY <1>2, EntryIs
<1>4. pte[s][q].to \in Frames /\ pte[s][q] # Absent
  BY <1>0, <1>1, <1>3, AbsentIs, VMSizes DEF Progress
<1>5. pte' = [pte EXCEPT ![s][q] = [pte[s][q] EXCEPT !.rw = TRUE]]
  BY <1>3, <1>4 DEF FaultAttrs
<1> HIDE DEF q
<1> DEFINE e == [pte[s][q] EXCEPT !.rw = TRUE]
<1>7. e \in Entries /\ e.to = pte[s][q].to /\ e # Absent
  BY <1>3, <1>4, MadeWritable
<1>8. pte' = [pte EXCEPT ![s][q] = e]
  BY <1>5
<1> HIDE DEF e
<1>9. /\ pte'[s][q] = e
      /\ \A r \in Spaces, p \in Pages : <<r, p>> # <<s, q>> => pte'[r][p] = pte[r][p]
      /\ pte' \in [Spaces -> [Pages -> Entries]]
  BY <1>2, <1>3, <1>7, <1>8, PteUpdate
<1>10. \A r \in Spaces, p \in Pages : /\ pte'[r][p].to = pte[r][p].to
                                      /\ pte'[r][p] = Absent <=> pte[r][p] = Absent
                                      /\ pte'[r][p] = pte[r][p] \/ pte'[r][p].to # Zfod
                                      /\ pte'[r][p] = pte[r][p] \/ (r = s /\ p = q)
  BY <1>4, <1>7, <1>9, VMSizes
<1>11. /\ upc'[t] \in {"out", "astray"} /\ (~Stopped' => upc'[t] = "out") /\ job'[t] = NoJob
       /\ \A u \in Users : u # t => upc'[u] = upc[u] /\ job'[u] = job[u]
       /\ upc' \in [Users -> UserPCs] /\ job' \in [Users -> Jobs]
  <2>1. "out" \in UserPCs
    BY DEF UserPCs
  <2>2. /\ upc'[t] \in {"out", "astray"} /\ (~Stopped' => upc'[t] = "out")
        /\ \A u \in Users : u # t => upc'[u] = upc[u]
        /\ upc' \in [Users -> UserPCs]
    BY <1>1, <2>1, FaultGotoIs
  <2>3. /\ job'[t] = NoJob /\ job' \in [Users -> Jobs]
        /\ \A u \in Users : u # t => job'[u] = job[u]
    BY <1>1, JobNone DEF VMTypes
  <2> QED BY <2>2, <2>3
<1>12. OthersSame(t) /\ space'[t] = s
  BY <1>1, <1>11 DEF OthersSame, Same
<1>14. \A u \in Users : Same(u) \/ (upc[u] \notin HoldPCs /\ upc'[u] \notin HoldPCs)
  BY <1>1, <1>11, <1>12 DEF OthersSame, HoldPCs
<1>15. FrameInv'
  BY <1>1, <1>10, <1>14, FramesAside
<1>16. ZfodInv'
  <2>1. \A u \in Users : Same(u) \/ (upc[u] # "free_clear" /\ upc'[u] # "free_clear")
    BY <1>14 DEF HoldPCs
  <2> QED BY <1>0, <1>10, <2>1, ZfodKept
<1>17. RegionInv'
  <2>1. \A r \in Spaces, p \in Pages : ~Excused(t, r, p)
    BY <1>1, <1>2 DEF Excused
  <2> HIDE DEF Excused
  <2> QED BY <1>0, <1>1, <1>10, <1>12, <2>1, RegionsKept
<1>18. ASSUME ~Stopped' PROVE SpaceInv'
  <2>0. upc'[t] = "out"
    BY <1>11, <1>18
  <2>2. /\ UserInv(t)' /\ Works(t)' = {}
        /\ job'[t].call = "none" /\ job'[t].child = Nil /\ job'[t].todo = {}
    BY <1>2, <1>11, <1>12, <2>0, OutIs
  <2>1. q \in Works(t)
    BY <1>2, <1>3 DEF Works, q
  <2> HIDE DEF Works, UserInv
  <2> QED BY <1>1, <1>10, <1>11, <1>12, <1>16, <1>17, <2>0, <2>1, <2>2, OwnStep
<1>19. VMTypes'
  BY <1>1, <1>9, <1>11, <1>15, TypesStep DEF VMTypes, frameVars, listVars
<1> QED BY <1>15, <1>18, <1>19

LEMMA PopTypes ==
    ASSUME VMTypes, head # Nil, Pop
    PROVE  next' \in [Frames -> Frames \cup {Nil}] /\ head \in Frames
BY DEF Pop, VMTypes

LEMMA PageTakes ==
    ASSUME VMTypes, FrameInv, head # Nil, Pop, rest' = rest,
           NEW s \in Spaces, NEW p \in Pages,
           PageFrame(s, p) \notin Frames, PageFrame(s, p)' = head,
           \A r \in Spaces, q \in Pages : <<r, q>> # <<s, p>> => PageFrame(r, q)' = PageFrame(r, q),
           \A r \in Spaces, k \in Tomes : TableFrame(r, k)' = TableFrame(r, k),
           \A t \in Users : CopiedFrame(t)' = CopiedFrame(t)
    PROVE  FrameInv'
<1>1. PICK F \in SUBSET Frames :
          /\ Shared(PageHolds, TableHolds, CopyHolds, F)
          /\ ListOf(F, head, next, avail)
          /\ \A f \in F \cup {Zfod} : rest[f] = 0
  BY DEF FrameInv
<1>2. next \in [Frames -> Frames \cup {Nil}]
  BY DEF VMTypes
<1>3. head \in F /\ ListOf(F \ {head}, head', next', avail')
  BY <1>1, <1>2, ListPops DEF Pop
<1> DEFINE ph == PageHolds
           th == TableHolds
           ch == CopyHolds
           ph2 == PageHolds'
           ch2 == CopyHolds'
<1>4. /\ \A r \in Spaces, q \in Pages : ph[r][q] = PageFrame(r, q) /\ ph2[r][q] = PageFrame(r, q)'
      /\ \A t \in Users : ch[t] = CopiedFrame(t) /\ ch2[t] = CopiedFrame(t)'
  BY DEF PageHolds, CopyHolds
<1>4a. TableHolds' = th
  BY DEF TableHolds
<1> HIDE DEF ph, th, ch, ph2, ch2
<1>5. Shared(ph, th, ch, F)
  BY <1>1 DEF ph, th, ch
<1>6. Shared(ph2, th, ch2, F \ {head})
  BY <1>3, <1>4, <1>5, PageGets
<1>7. Shared(PageHolds', TableHolds', CopyHolds', F \ {head})
  BY <1>4a, <1>6 DEF ph2, ch2
<1>8. \A f \in (F \ {head}) \cup {Zfod} : rest'[f] = 0
  BY <1>1
<1> QED BY <1>3, <1>7, <1>8 DEF FrameInv

LEMMA FaultBackKeeps ==
    ASSUME VMTypes, FrameInv, SpaceInv, NEW t \in Users, FaultBack(t)
    PROVE  VMTypes' /\ FrameInv' /\ (~Stopped' => SpaceInv')
<1> DEFINE s == space[t]
           q == Page(t)
           e == [to |-> head, rw |-> job[t].seen.rw]
           label == IF tbl[s][Tome(q)] = Nil THEN "panic"
                    ELSE IF TablePushed(s, Tome(q)) THEN "astray" ELSE "f_attrs"
<1>0. UserInv(t) /\ CallOf(t) /\ Progress(t) /\ RegionInv /\ ZfodInv
  BY DEF SpaceInv, UserInv
<1>1. /\ upc[t] = "f_back" /\ head # Nil /\ Pop
      /\ UserGoto(t, label)
      /\ pte' = [pte EXCEPT ![s][q] = e]
      /\ UNCHANGED <<rest, tbl, regions, lock, space, job>>
  BY DEF FaultBack, FaultBacked
<1>1a. label \in {"panic", "astray", "f_attrs"}
  OBVIOUS
<1>2. job[t].call = "fault" /\ job[t].todo # {} /\ s \in Spaces
  BY <1>0, <1>1, InSpace DEF CallOf, FaultPCs
<1>3. q \in job[t].todo /\ q \in Pages /\ Entry(t) = pte[s][q] /\ Entry(t) \in Entries
  BY <1>2, EntryIs
<1>4. pte[s][q].to = Zfod /\ pte[s][q] # Absent
  BY <1>0, <1>1, <1>3, AbsentIs, VMSizes DEF Progress
<1>5. q \in Works(t)
  BY <1>2, <1>3 DEF Works
<1>6. head \in Frames /\ next' \in [Frames -> Frames \cup {Nil}]
  BY <1>1, PopTypes
<1>7. e \in Entries /\ e.to = head /\ e # Absent
  <2>1. job[t].seen.rw \in BOOLEAN
    BY EntriesAre DEF VMTypes, Jobs
  <2> QED BY <1>6, <2>1, AbsentIs, VMSizes DEF Entries
<1>8. Page(t)' = q
  BY <1>1 DEF Page
<1> HIDE DEF q, e, label
<1>9. /\ pte'[s][q] = e
      /\ \A r \in Spaces, p \in Pages : <<r, p>> # <<s, q>> => pte'[r][p] = pte[r][p]
      /\ pte' \in [Spaces -> [Pages -> Entries]]
  BY <1>1, <1>2, <1>3, <1>7, PteUpdate
<1>10. \A r \in Spaces, p \in Pages : /\ pte'[r][p] = Absent <=> pte[r][p] = Absent
                                      /\ pte'[r][p] = pte[r][p] \/ pte'[r][p].to # Zfod
                                      /\ pte'[r][p] = pte[r][p] \/ (r = s /\ p = q)
  BY <1>4, <1>6, <1>7, <1>9, VMSizes
<1>11. /\ upc'[t] = label
       /\ \A u \in Users : u # t => upc'[u] = upc[u]
       /\ upc' \in [Users -> UserPCs]
  BY <1>1, <1>1a, GotoOthers DEF UserPCs
<1>12. OthersSame(t) /\ space'[t] = s
  BY <1>1, <1>11 DEF OthersSame, Same
<1>13. \A u \in Users : Same(u) \/ (upc[u] \notin HoldPCs /\ upc'[u] \notin HoldPCs)
  BY <1>1, <1>1a, <1>11, <1>12 DEF OthersSame, HoldPCs
<1>14. \A u \in Users : Same(u) \/ (upc[u] # "free_clear" /\ upc'[u] # "free_clear")
  BY <1>13 DEF HoldPCs
<1>15. FrameInv'
  <2>1. PICK r \in Spaces, p \in Pages : r = s /\ p = q
    BY <1>2, <1>3
  <2>2. ~Pushed(r, p)
    BY <1>1, <1>2, <1>5, <2>1, OwnPageFree
  <2>3. \A v \in Spaces, w \in Pages : <<v, w>> # <<r, p>> => (Pushed(v, w)' <=> Pushed(v, w))
    BY <1>9, <1>14, <2>1, PushedKept
  <2>3a. ~Pushed(r, p)'
    <3>1. \A u \in Users : ~(upc[u] = "free_clear" /\ space[u] = r /\ Page(u) = p)
      <4>1. SUFFICES ASSUME NEW u \in Users, upc[u] = "free_clear", space[u] = r, Page(u) = p
                     PROVE  FALSE
        OBVIOUS
      <4>2. UserInv(u) /\ Progress(u) /\ Entry(u) = job[u].seen
        BY <4>1 DEF SpaceInv, UserInv, Progress
      <4> QED BY <2>2, <4>1, <4>2 DEF Pushed, Entry
    <3> QED BY <1>14, <3>1 DEF Pushed, Same, Page
  <2> HIDE DEF Pushed
  <2>4. PageFrame(r, p) \notin Frames
    BY <1>4, <2>1, <2>2, VMSizes DEF PageFrame
  <2>5. pte'[r][p].to = head /\ ~Pushed(r, p)'
    BY <1>7, <1>9, <2>1, <2>3a
  <2>6. PageFrame(r, p)' = head
    BY <2>5 DEF PageFrame
  <2>7. \A v \in Spaces, w \in Pages :
           <<v, w>> # <<r, p>> => PageFrame(v, w)' = PageFrame(v, w)
    BY <1>9, <2>1, <2>3 DEF PageFrame
  <2>8. ASSUME NEW u \in Users PROVE CopiedFrame(u)' = CopiedFrame(u)
    BY <1>13, CopiesStay DEF HoldPCs
  <2>9. head # Nil /\ Pop /\ rest' = rest
    BY <1>1
  <2>10. \A v \in Spaces, k \in Tomes : TableFrame(v, k)' = TableFrame(v, k)
    BY <1>1, <1>13, TablesKeepFrames DEF HoldPCs
  <2> HIDE DEF PageFrame, TableFrame, CopiedFrame, Pop
  <2> QED BY <2>4, <2>6, <2>7, <2>8, <2>9, <2>10, PageTakes
<1>16. ZfodInv'
  BY <1>0, <1>10, <1>14, ZfodKept
<1>17. RegionInv'
  <2>1. \A r \in Spaces, p \in Pages : ~Excused(t, r, p)
    BY <1>1, <1>2 DEF Excused
  <2> HIDE DEF Excused
  <2> QED BY <1>0, <1>1, <1>10, <1>12, <2>1, RegionsKept
<1>18. ASSUME ~Stopped' PROVE SpaceInv'
  <2>1. upc'[t] = "f_attrs"
    BY <1>1a, <1>11, <1>18 DEF Stopped
  <2>2. Entry(t)'.to \in Frames
    BY <1>1, <1>6, <1>7, <1>8, <1>9 DEF Entry
  <2> HIDE DEF Entry
  <2>3. UserInv(t)'
    BY <1>1, <1>2, <2>1, <2>2, FaultGoesOn DEF FaultPCs
  <2>4. Works(t)' \subseteq Works(t)
    BY <1>1 DEF Works
  <2>5. \A u \in Users \ {t} : space[u] = space[t] => Works(t)' \cap Works(u) = {}
    BY <1>2, <2>4, TouchesLess
  <2> HIDE DEF Works, UserInv
  <2> QED BY <1>1, <1>5, <1>10, <1>12, <1>16, <1>17, <2>1, <2>3, <2>5, OwnStep
<1>19. VMTypes'
  BY <1>1, <1>6, <1>9, <1>11, <1>15, TypesStep DEF VMTypes
<1> QED BY <1>15, <1>18, <1>19

(* Whoever may touch a page is alone with it. *)
LEMMA MayWork ==
    ASSUME ~SharePages, NEW t \in Users, NEW P, MayTouch(t, P)
    PROVE  \A u \in Users \ {t} : space[u] = space[t] => P \cap Works(u) = {}
<1>1. SUFFICES ASSUME NEW u \in Users \ {t}, space[u] = space[t] PROVE P \cap Works(u) = {}
  OBVIOUS
<1>2. Touches(u) \cap P = {}
  BY <1>1 DEF MayTouch, Peers
<1>3. Works(u) \subseteq Touches(u)
  BY DEF Works, Touches, RegionPages
<1> QED BY <1>2, <1>3

LEMMA WriteKeeps ==
    ASSUME ~SharePages, VMTypes, FrameInv, SpaceInv, NEW t \in Users, NEW p \in Pages, Write(t, p)
    PROVE  VMTypes' /\ FrameInv' /\ (~Stopped' => SpaceInv')
<1> DEFINE s == space[t]
           e == pte[s][p]
           label(l) == IF LeadsAstray(s, p) THEN "astray" ELSE l
<1>0. UserInv(t) /\ CallOf(t) /\ RegionInv /\ ZfodInv
  BY DEF SpaceInv, UserInv
<1>1. /\ upc[t] = "out" /\ UNCHANGED <<listVars, spaceVars, space>>
      /\ s \in Spaces /\ job[t] = NoJob /\ e \in Entries
  BY <1>0, InSpace DEF Write, CallOf, VMTypes
<1>2. \A u \in Users \ {t} : space[u] = s => p \notin Works(u)
  <2>1. MayTouch(t, {p})
    BY DEF Write
  <2> QED BY <2>1, MayWork
<1>3. ~Pushed(s, p)
  BY <1>1, <1>2, NotPushed
<1>4. CASE e.rw /\ rest' = [rest EXCEPT ![e.to] = t] /\ UserGoto(t, label("out")) /\ UNCHANGED job
  <2>1. e.to \in Frames
    BY <1>0, <1>1, <1>3, <1>4, EntriesAre, AbsentIs DEF ZfodInv
  <2>2. \A f \in Frames \cup {Zfod} : rest'[f] = rest[f] \/ f = e.to
    BY <1>4 DEF VMTypes
  <2>3. PageFrame(s, p) = e.to
    BY <1>3 DEF PageFrame
  <2>4. /\ upc'[t] \in {"out", "astray"} /\ (~Stopped' => upc' = upc)
        /\ \A u \in Users : u # t => upc'[u] = upc[u]
        /\ upc' \in [Users -> UserPCs]
    <3>1. label("out") \in UserPCs /\ label("out") \in {"out", "astray"}
      BY DEF UserPCs
    <3>1a. UserGoto(t, label("out"))
      BY <1>4
    <3> HIDE DEF label
    <3>2. /\ upc'[t] = label("out") /\ upc' \in [Users -> UserPCs]
          /\ \A u \in Users : u # t => upc'[u] = upc[u]
      BY <3>1, <3>1a, GotoOthers
    <3>3. ASSUME ~Stopped' PROVE upc' = upc
      <4>1. upc'[t] = "out"
        BY <3>1, <3>2, <3>3 DEF Stopped
      <4> QED BY <1>1, <3>2, <4>1 DEF VMTypes
    <3> QED BY <3>1, <3>2, <3>3
  <2>4a. \A u \in Users : Same(u) \/ (upc[u] \notin HoldPCs /\ upc'[u] \notin HoldPCs)
    BY <1>1, <1>4, <2>4 DEF Same, HoldPCs
  <2>5. \A r \in Spaces, q \in Pages : PageFrame(r, q)' = PageFrame(r, q)
    <3>1. \A u \in Users : Same(u) \/ (upc[u] # "free_clear" /\ upc'[u] # "free_clear")
      BY <2>4a DEF HoldPCs
    <3> QED BY <1>1, <3>1, PagesStay DEF spaceVars
  <2>6. ASSUME NEW u \in Users PROVE CopiedFrame(u)' = CopiedFrame(u)
    BY <2>4a, CopiesStay DEF HoldPCs
  <2>6a. \A r \in Spaces, k \in Tomes : TableFrame(r, k)' = TableFrame(r, k)
    BY <1>1, <2>4a, TablesKeepFrames DEF HoldPCs, spaceVars
  <2>7. FrameInv'
    <3>2. \A f \in Frames \cup {Zfod} : rest'[f] = rest[f]
              \/ (f # Zfod /\ \E r \in Spaces, q \in Pages : PageFrame(r, q) = f)
      BY <1>1, <2>1, <2>2, <2>3, VMSizes
    <3> HIDE DEF PageFrame, TableFrame, CopiedFrame
    <3> QED BY <1>1, <2>5, <2>6, <2>6a, <3>2, FramesStay
  <2>8. VMTypes'
    <3>1. rest' \in [Frames \cup {Zfod} -> Users \cup {0}]
      BY <1>4, <2>1 DEF VMTypes
    <3> QED BY <1>1, <1>4, <2>4, <2>7, <3>1, TypesStep DEF VMTypes, spaceVars, listVars
  <2>9. ASSUME ~Stopped' PROVE SpaceInv'
    <3>1. UNCHANGED <<pte, regions, lock, space, upc, job>>
      BY <1>1, <1>4, <2>4, <2>9 DEF spaceVars
    <3>2. ASSUME NEW u \in Users PROVE UserInv(u)'
      <4>1. UserInv(u)
        BY DEF SpaceInv
      <4>2. CallOf(u)'
        BY <3>1, <4>1 DEF UserInv, CallOf
      <4>3. Progress(u)'
        BY <3>1, <4>1 DEF UserInv, Progress, Entry, Page
      <4>4. CopyProgress(u)'
        BY <3>1, <4>1 DEF UserInv, CopyProgress
      <4>5. Held(u)' /\ Owner(u)'
        BY <3>1, <4>1 DEF UserInv, Held, Owner
      <4> QED BY <4>2, <4>3, <4>4, <4>5 DEF UserInv
    <3>3. ASSUME NEW u \in Users, NEW v \in Users, u # v PROVE Apart(u, v)'
      BY <3>1, <3>3 DEF SpaceInv, Apart, Works
    <3>4. RegionInv'
      BY <1>0, <3>1 DEF RegionInv, Excused
    <3>5. ZfodInv'
      BY <1>0, <3>1 DEF ZfodInv, Pushed, Page
    <3> QED BY <3>2, <3>3, <3>4, <3>5 DEF SpaceInv
  <2> QED BY <2>7, <2>8, <2>9
<1>5. CASE /\ UserGoto(t, label("f_look"))
           /\ job' = [job EXCEPT ![t] = [NoJob EXCEPT !.call = "fault", !.todo = {p}]]
           /\ UNCHANGED rest
  <2> DEFINE j == [NoJob EXCEPT !.call = "fault", !.todo = {p}]
  <2>1. /\ j \in Jobs /\ j.call = "fault" /\ j.todo = {p} /\ j.child = Nil
        /\ NoJob.call = "none" /\ NoJob.child = Nil
    BY JobNone DEF NoJob, Jobs
  <2> HIDE DEF j
  <2>2. /\ job'[t] = j /\ job' \in [Users -> Jobs]
        /\ \A u \in Users : u # t => job'[u] = job[u]
    BY <1>5, <2>1 DEF VMTypes, j
  <2>3. /\ upc'[t] \in {"f_look", "astray"} /\ (~Stopped' => upc'[t] = "f_look")
        /\ \A u \in Users : u # t => upc'[u] = upc[u]
        /\ upc' \in [Users -> UserPCs]
    <3>1. label("f_look") \in UserPCs /\ label("f_look") \in {"f_look", "astray"}
      BY DEF UserPCs
    <3>1a. UserGoto(t, label("f_look"))
      BY <1>5
    <3> HIDE DEF label
    <3>2. /\ upc'[t] = label("f_look") /\ upc' \in [Users -> UserPCs]
          /\ \A u \in Users : u # t => upc'[u] = upc[u]
      BY <3>1, <3>1a, GotoOthers
    <3> QED BY <3>1, <3>2 DEF Stopped
  <2>4. OthersSame(t) /\ space'[t] = s
    BY <1>1, <2>2, <2>3 DEF OthersSame, Same
  <2>5. \A u \in Users : Same(u) \/ (upc[u] \notin HoldPCs /\ upc'[u] \notin HoldPCs)
    BY <1>1, <2>3, <2>4 DEF OthersSame, HoldPCs
  <2>6. FrameInv'
    BY <1>1, <1>5, <2>5, FramesAside DEF spaceVars, frameVars
  <2>7. VMTypes'
    BY <1>1, <1>5, <2>2, <2>3, <2>6, TypesStep DEF VMTypes, spaceVars, listVars
  <2>8. ASSUME ~Stopped' PROVE UserInv(t)'
    <3>0. upc'[t] = "f_look"
      BY <2>3, <2>8
    <3>1. CallOf(t)'
      BY <1>1, <2>1, <2>2, <3>0, <2>4, VMSizes DEF CallOf, FaultPCs, FreePCs, CopyPCs
    <3>2. Held(t)' /\ Owner(t)' /\ Progress(t)' /\ CopyProgress(t)'
      BY <2>1, <2>2, <3>0 DEF Held, Owner, Progress, CopyProgress, FreePCs, CopyPCs
    <3> QED BY <3>1, <3>2 DEF UserInv
  <2>9. ZfodInv'
    <3>1. \A u \in Users : Same(u) \/ (upc[u] # "free_clear" /\ upc'[u] # "free_clear")
      BY <2>5 DEF HoldPCs
    <3> QED BY <1>0, <1>1, <3>1, ZfodKept DEF spaceVars
  <2>10. RegionInv'
    <3>1. \A r \in Spaces, q \in Pages : ~Excused(t, r, q)
      BY <1>1, <2>1 DEF Excused
    <3> HIDE DEF Excused
    <3> QED BY <1>0, <1>1, <2>4, <3>1, RegionsKept DEF spaceVars
  <2>11. Works(t)' = {p}
    BY <2>1, <2>2 DEF Works
  <2>12. ASSUME ~Stopped' PROVE SpaceInv'
    <3>0. upc'[t] = "f_look" /\ UserInv(t)'
      BY <2>3, <2>8, <2>12
    <3>1. pte' = pte /\ regions' = regions /\ lock' = lock
      BY <1>1 DEF spaceVars
    <3>2. \A u \in Users \ {t} : space[u] = space[t] => Works(t)' \cap Works(u) = {}
      BY <1>2, <2>11
    <3> HIDE DEF Works, UserInv
    <3> QED BY <1>1, <2>1, <2>2, <2>4, <2>9, <2>10, <3>0, <3>1, <3>2, OwnStep
  <2> QED BY <2>6, <2>7, <2>12
<1> QED BY <1>4, <1>5 DEF Write

-----------------------------------------------------------------------------
(* new_pages *)

Disjoint(rs) ==
    \A i, j \in DOMAIN rs : i # j => PagesOf(rs[i]) \cap PagesOf(rs[j]) = {}

LEMMA InsertedApart ==
    ASSUME NEW rs \in Seq(Regions), NEW r \in Regions, Disjoint(rs), ~Overlaps(rs, r)
    PROVE  /\ InsertRegion(rs, r) \in Seq(Regions)
           /\ Disjoint(InsertRegion(rs, r))
           /\ \A i \in DOMAIN rs : \E j \in DOMAIN InsertRegion(rs, r) :
                 InsertRegion(rs, r)[j] = rs[i]
           /\ \A j \in DOMAIN InsertRegion(rs, r) :
                 InsertRegion(rs, r)[j] = r \/
                 \E i \in DOMAIN rs : InsertRegion(rs, r)[j] = rs[i]
           /\ \A i \in DOMAIN rs : PagesOf(rs[i]) \cap PagesOf(r) = {}
           /\ \E j \in DOMAIN InsertRegion(rs, r) : InsertRegion(rs, r)[j] = r
<1> DEFINE R == InsertRegion(rs, r)
<1>1. PICK k \in 1 .. Len(rs) + 1 :
          /\ R \in Seq(Regions) /\ Len(R) = Len(rs) + 1
          /\ \A i \in 1 .. Len(rs) + 1 :
                 R[i] = IF i < k THEN rs[i] ELSE IF i = k THEN r ELSE rs[i - 1]
          /\ \A i \in DOMAIN rs : i < k => Above(r, rs[i])
          /\ k \in DOMAIN rs => ~Above(r, rs[k])
  BY RegionInserted
<1>2. Len(rs) \in Nat /\ DOMAIN rs = 1 .. Len(rs) /\ \A i \in DOMAIN rs : rs[i] \in Regions
  OBVIOUS
<1> HIDE DEF R
<1>3. DOMAIN R = 1 .. Len(rs) + 1
  BY <1>1
<1>4. \A i \in DOMAIN rs : PagesOf(rs[i]) \cap PagesOf(r) = {}
  <2>1. \A i \in DOMAIN rs : Below(rs[i], r) \/ Above(rs[i], r)
    BY DEF Overlaps, ToSet
  <2> QED BY <1>2, <2>1, ApartIsDisjoint
<1>5. ASSUME NEW i \in DOMAIN rs PROVE \E j \in DOMAIN R : R[j] = rs[i]
  <2>1. CASE i < k
    BY <1>1, <1>2, <1>3, <2>1
  <2>2. CASE ~(i < k)
    <3>1. i + 1 \in 1 .. Len(rs) + 1 /\ ~(i + 1 < k) /\ i + 1 # k /\ i + 1 - 1 = i
      BY <1>2, <2>2
    <3>2. R[i + 1] = rs[i]
      BY <1>1, <3>1
    <3> QED BY <1>3, <3>1, <3>2
  <2> QED BY <2>1, <2>2
<1>6. ASSUME NEW j \in DOMAIN R, j # k
      PROVE  \E i \in DOMAIN rs : R[j] = rs[i] /\ i = (IF j < k THEN j ELSE j - 1)
  BY <1>1, <1>2, <1>3, <1>6
<1>8. R[k] = r /\ k \in DOMAIN R
  BY <1>1, <1>2, <1>3
<1>7. \A j \in DOMAIN R : R[j] = r \/ \E i \in DOMAIN rs : R[j] = rs[i]
  BY <1>6, <1>8
<1>9. ASSUME NEW i \in DOMAIN R, NEW j \in DOMAIN R, i # j
      PROVE  PagesOf(R[i]) \cap PagesOf(R[j]) = {}
  <2>1. CASE i = k
    <3>1. PICK y \in DOMAIN rs : R[j] = rs[y]
      BY <1>6, <1>9, <2>1
    <3> QED BY <1>4, <1>8, <2>1, <3>1
  <2>2. CASE j = k
    <3>1. PICK y \in DOMAIN rs : R[i] = rs[y]
      BY <1>6, <1>9, <2>2
    <3> QED BY <1>4, <1>8, <2>2, <3>1
  <2>3. CASE i # k /\ j # k
    <3>1. PICK x \in DOMAIN rs : R[i] = rs[x] /\ x = (IF i < k THEN i ELSE i - 1)
      BY <1>6, <2>3
    <3>2. PICK y \in DOMAIN rs : R[j] = rs[y] /\ y = (IF j < k THEN j ELSE j - 1)
      BY <1>6, <2>3
    <3>3. x # y
      BY <1>3, <1>9, <2>3, <3>1, <3>2
    <3> QED BY <3>1, <3>2, <3>3 DEF Disjoint
  <2> QED BY <2>1, <2>2, <2>3
<1>10. Disjoint(R)
  BY <1>9 DEF Disjoint
<1> QED BY <1>1, <1>4, <1>5, <1>7, <1>8, <1>10 DEF R

LEMMA CallNewKeeps ==
    ASSUME ~SharePages, VMTypes, FrameInv, SpaceInv, NEW t \in Users, NEW r \in NewRegions, CallNew(t, r)
    PROVE  VMTypes' /\ FrameInv' /\ SpaceInv'
<1>0. UserInv(t) /\ CallOf(t) /\ RegionInv /\ ZfodInv
  BY DEF SpaceInv, UserInv
<1>1. PICK s \in Spaces : s = space[t]
  BY InSpace DEF CallNew
<1> DEFINE R == InsertRegion(regions[s], r)
           P == PagesOf(r)
           j == [NoJob EXCEPT !.call = "new", !.reg = r, !.todo = P]
<1>2. /\ upc[t] = "out" /\ lock[s] = Nil /\ ~Overlaps(regions[s], r)
      /\ regions' = [regions EXCEPT ![s] = R]
      /\ IF P = {} THEN UNCHANGED <<lock, upc, job>>
         ELSE /\ lock' = [lock EXCEPT ![s] = t]
              /\ UserGoto(t, "n_page")
              /\ job' = [job EXCEPT ![t] = j]
      /\ UNCHANGED <<frameVars, pte, tbl, space>>
  BY <1>1 DEF CallNew
<1>3. \A u \in Users \ {t} : space[u] = s => P \cap Works(u) = {}
  <2>1. MayTouch(t, RegionPages(s, r)) /\ P \subseteq RegionPages(s, r)
    BY <1>1 DEF CallNew, RegionPages
  <2> HIDE DEF P
  <2> QED BY <1>1, <2>1, MayWork
<1>4. /\ job[t] = NoJob /\ r \in Regions /\ regions[s] \in Seq(Regions)
      /\ Disjoint(regions[s])
  BY <1>0, <1>2, NewRegionsAre DEF CallOf, VMTypes, RegionInv, Disjoint
<1>5. /\ R \in Seq(Regions) /\ Disjoint(R)
      /\ \A i \in DOMAIN regions[s] : \E k \in DOMAIN R : R[k] = regions[s][i]
      /\ \A k \in DOMAIN R : R[k] = r \/ \E i \in DOMAIN regions[s] : R[k] = regions[s][i]
      /\ \A i \in DOMAIN regions[s] : PagesOf(regions[s][i]) \cap P = {}
      /\ \E k \in DOMAIN R : R[k] = r
  BY <1>2, <1>4, InsertedApart
<1>6. P \subseteq Pages
  BY <1>4, PagesOfAre
<1>7. /\ j \in Jobs /\ j.call = "new" /\ j.reg = r /\ j.todo = P /\ j.child = Nil
      /\ NoJob.call = "none" /\ NoJob.child = Nil /\ NoJob.todo = {}
  BY <1>4, <1>6, JobNone DEF NoJob, Jobs
<1> HIDE DEF R, j, P
<1>8. /\ regions'[s] = R /\ \A v \in Spaces : v # s => regions'[v] = regions[v]
      /\ regions' \in [Spaces -> Seq(Regions)]
  BY <1>2, <1>5 DEF VMTypes
<1>9. /\ job'[t] = IF P = {} THEN NoJob ELSE j
      /\ upc'[t] = IF P = {} THEN "out" ELSE "n_page"
      /\ \A u \in Users : u # t => upc'[u] = upc[u] /\ job'[u] = job[u]
      /\ job' \in [Users -> Jobs] /\ upc' \in [Users -> UserPCs]
      /\ lock' \in [Spaces -> Users \cup {Nil}]
  BY <1>2, <1>4, <1>7 DEF VMTypes, UserGoto, UserPCs
<1>10. OthersSame(t) /\ space'[t] = s
  BY <1>1, <1>2, <1>9 DEF OthersSame, Same
<1>11. \A u \in Users : Same(u) \/ (upc[u] \notin HoldPCs /\ upc'[u] \notin HoldPCs)
  BY <1>2, <1>9, <1>10 DEF OthersSame, HoldPCs
<1>12. FrameInv'
  BY <1>2, <1>11, FramesAside
<1>13. VMTypes'
  BY <1>2, <1>8, <1>9, <1>12, TypesStep DEF VMTypes, frameVars, listVars
<1>14. \A p \in P : pte[s][p] = Absent
  BY <1>0, <1>5, <1>6 DEF RegionInv
<1>15. UserInv(t)'
  <2>1. CASE P = {}
    BY <1>9, <1>10, <2>1, OutIs
  <2>2. CASE P # {}
    <3>1. job'[t] = j /\ upc'[t] = "n_page"
      BY <1>9, <2>2
    <3>2. CallOf(t)'
      BY <1>4, <1>7, <1>10, <2>2, <3>1, VMSizes DEF CallOf, FaultPCs, FreePCs, CopyPCs, P
    <3>3. \A p \in PagesOf(job'[t].reg) :
             pte'[space'[t]][p] = Absent <=> p \in job'[t].todo
      BY <1>2, <1>7, <1>10, <1>14, <3>1 DEF P
    <3>4. Progress(t)'
      BY <3>1, <3>3 DEF Progress, FreePCs
    <3>5. CopyProgress(t)'
      BY <3>1 DEF CopyProgress, CopyPCs
    <3>6. Held(t)'
      BY <1>5, <1>7, <1>8, <1>10, <3>1 DEF Held
    <3>7. Owner(t)'
      BY <1>2, <1>10, <2>2 DEF Owner, VMTypes
    <3> QED BY <3>2, <3>4, <3>5, <3>6, <3>7 DEF UserInv
  <2> QED BY <2>1, <2>2
<1>16. ZfodInv'
  <2>1. \A u \in Users : Same(u) \/ (upc[u] # "free_clear" /\ upc'[u] # "free_clear")
    BY <1>11 DEF HoldPCs
  <2> QED BY <1>0, <1>2, <2>1, ZfodKept
<1>17. RegionInv'
  <2>1. \A v \in Spaces, p \in Pages : \A u \in Users : Excused(u, v, p) => Excused(u, v, p)'
    <3>1. \A v \in Spaces, p \in Pages : ~Excused(t, v, p)
      BY <1>2, <1>4, <1>7 DEF Excused
    <3>2. \A v \in Spaces, p \in Pages : \A u \in Users \ {t} : Excused(u, v, p) => Excused(u, v, p)'
      BY <1>10 DEF Excused, OthersSame, Same
    <3> QED BY <3>1, <3>2
  <2>2. \A p \in P : Excused(t, s, p)'
    BY <1>7, <1>9, <1>10 DEF Excused, P
  <2> HIDE DEF Excused
  <2>3. ASSUME NEW v \in Spaces
        PROVE  \A i, k \in DOMAIN regions'[v] :
                  i # k => PagesOf(regions'[v][i]) \cap PagesOf(regions'[v][k]) = {}
    BY <1>0, <1>5, <1>8 DEF RegionInv, Disjoint
  <2>4. ASSUME NEW v \in Spaces, NEW p \in Pages, pte'[v][p] # Absent
        PROVE  \E i \in DOMAIN regions'[v] : p \in PagesOf(regions'[v][i])
    <3>1. PICK i \in DOMAIN regions[v] : p \in PagesOf(regions[v][i])
      BY <1>0, <1>2, <2>4 DEF RegionInv
    <3>2. CASE v = s
      <4>1. PICK k \in DOMAIN R : R[k] = regions[s][i]
        BY <1>5, <3>1, <3>2
      <4> QED BY <1>8, <3>1, <3>2, <4>1
    <3>3. CASE v # s
      BY <1>8, <3>1, <3>3
    <3> QED BY <3>2, <3>3
  <2>5. ASSUME NEW v \in Spaces, NEW i \in DOMAIN regions'[v], NEW p \in PagesOf(regions'[v][i])
        PROVE  pte'[v][p] # Absent \/ \E u \in Users : Excused(u, v, p)'
    <3>1. regions'[v][i] \in Regions
      BY <1>8
    <3>2. p \in Pages
      BY <3>1, PagesOfAre
    <3>3. CASE \E k \in DOMAIN regions[v] : regions'[v][i] = regions[v][k]
      <4>1. PICK k \in DOMAIN regions[v] : p \in PagesOf(regions[v][k])
        BY <3>3
      <4>2. pte[v][p] # Absent \/ \E u \in Users : Excused(u, v, p)
        BY <1>0, <4>1 DEF RegionInv
      <4> QED BY <1>2, <2>1, <3>2, <4>2
    <3>4. CASE v = s /\ R[i] = r
      <4>1. p \in P
        BY <1>8, <3>4 DEF P
      <4> QED BY <2>2, <3>4, <4>1
    <3> QED BY <1>5, <1>8, <3>3, <3>4
  <2> QED BY <2>3, <2>4, <2>5 DEF RegionInv
<1>18. SpaceInv'
  <2>1. \A u \in Users \ {t} : space[u] = space[t] => Works(t)' \cap Works(u) = {}
    <3>1. Works(t)' \subseteq P
      BY <1>7, <1>9 DEF Works, P
    <3> QED BY <1>1, <1>3, <3>1
  <2>2. job'[t].call \notin {"exit", "fork"} /\ job'[t].child = Nil
    BY <1>7, <1>9
  <2>3. upc'[t] # "nascent" /\ upc[t] # "nascent"
    BY <1>2, <1>9
  <2>4. pte' = pte /\ \A v \in Spaces : regions'[v] = regions[v] \/ v = space[t]
    BY <1>1, <1>2, <1>8
  <2>5. \A i \in DOMAIN regions[space[t]] : \E k \in DOMAIN regions'[space[t]] :
                 regions'[space[t]][k] = regions[space[t]][i]
    BY <1>1, <1>5, <1>8
  <2>6. \A v \in Spaces : lock'[v] = lock[v] \/ (v = space[t] /\ lock[v] \in {t, Nil})
    BY <1>1, <1>2 DEF VMTypes
  <2> HIDE DEF Works, UserInv
  <2> QED BY <1>1, <1>10, <1>15, <1>16, <1>17, <2>1, <2>2, <2>3, <2>4, <2>5, <2>6, OwnStep
<1> QED BY <1>12, <1>13, <1>18

(* No two calls of a space make or free pages and tables at a time. *)
LEMMA OneCall ==
    ASSUME VMTypes, SpaceInv, NEW t \in Users, space[t] \in Spaces,
           job[t].call \in {"new", "remove", "exit"},
           NEW u \in Users, u # t, space[u] = space[t]
    PROVE  job[u].call \notin {"new", "remove", "exit"} /\ upc[u] \notin FreePCs
<1>1. Apart(t, u) /\ Apart(u, t) /\ UserInv(t) /\ UserInv(u)
  BY DEF SpaceInv
<1>2. job[t].call # "exit" /\ job[u].call # "exit"
  BY <1>1, VMSizes DEF Apart
<1>3. job[u].call \notin {"new", "remove"}
  BY <1>1, <1>2 DEF UserInv, Owner
<1> QED BY <1>1, <1>2, <1>3 DEF UserInv, CallOf

LEMMA TableNotPushed ==
    ASSUME VMTypes, SpaceInv, NEW t \in Users, space[t] \in Spaces,
           job[t].call \in {"new", "remove", "exit"}, upc[t] # "table_clear", NEW k
    PROVE  ~TablePushed(space[t], k)
BY OneCall DEF TablePushed, FreePCs

LEMMA TableTakes ==
    ASSUME VMTypes, FrameInv, head # Nil, Pop, rest' = rest,
           NEW s \in Spaces, NEW k \in Tomes, tbl[s][k] = Nil, tbl' = [tbl EXCEPT ![s][k] = head],
           \A u \in Users : Same(u) \/ (upc[u] # "table_clear" /\ upc'[u] # "table_clear"),
           ~TablePushed(s, k),
           \A r \in Spaces, q \in Pages : PageFrame(r, q)' = PageFrame(r, q)
              \/ (PageFrame(r, q) \notin Frames /\ PageFrame(r, q)' \notin Frames),
           \A t \in Users : CopiedFrame(t)' = CopiedFrame(t)
    PROVE  FrameInv'
<1>1. PICK F \in SUBSET Frames :
          /\ Shared(PageHolds, TableHolds, CopyHolds, F)
          /\ ListOf(F, head, next, avail)
          /\ \A f \in F \cup {Zfod} : rest[f] = 0
  BY DEF FrameInv
<1>2. next \in [Frames -> Frames \cup {Nil}] /\ head \in Frames
  BY DEF VMTypes
<1>3. head \in F /\ ListOf(F \ {head}, head', next', avail')
  BY <1>1, <1>2, ListPops DEF Pop
<1> DEFINE ph == PageHolds
           th == TableHolds
           ch == CopyHolds
           ph2 == PageHolds'
           th2 == TableHolds'
           ch2 == CopyHolds'
<1>4. /\ \A r \in Spaces, q \in Pages : ph[r][q] = PageFrame(r, q) /\ ph2[r][q] = PageFrame(r, q)'
      /\ \A r \in Spaces, l \in Tomes : th[r][l] = TableFrame(r, l) /\ th2[r][l] = TableFrame(r, l)'
      /\ \A t \in Users : ch[t] = CopiedFrame(t) /\ ch2[t] = CopiedFrame(t)'
  BY DEF PageHolds, TableHolds, CopyHolds
<1>5. PICK f \in Frames \cup {Nil} : f = head
  BY <1>2
<1>5a. tbl' = [tbl EXCEPT ![s][k] = f]
  BY <1>5
<1>5b. /\ tbl'[s][k] = f
       /\ \A r \in Spaces, l \in Tomes : <<r, l>> # <<s, k>> => tbl'[r][l] = tbl[r][l]
  BY <1>5a DEF VMTypes
<1>5c. \A r, l : TablePushed(r, l)' <=> TablePushed(r, l)
  BY TablePushedKept
<1>5d. /\ TableFrame(s, k) \notin Frames /\ TableFrame(s, k)' = f
       /\ \A r \in Spaces, l \in Tomes : <<r, l>> # <<s, k>> => TableFrame(r, l)' = TableFrame(r, l)
  <2> HIDE DEF TablePushed
  <2> QED BY <1>5b, <1>5c, VMSizes DEF TableFrame
<1>5e. f \in F
  BY <1>3, <1>5
<1> HIDE DEF ph, th, ch, ph2, th2, ch2, TableFrame, PageFrame, CopiedFrame
<1>6. Shared(ph, th, ch, F)
  BY <1>1 DEF ph, th, ch
<1>7. Shared(ph2, th, ch2, F)
  BY <1>4, <1>6, SharedStays
<1>8. Shared(ph2, th2, ch2, F \ {f})
  BY <1>4, <1>5d, <1>5e, <1>7, TableGets
<1>9. Shared(PageHolds', TableHolds', CopyHolds', F \ {head})
  BY <1>5, <1>8 DEF ph2, th2, ch2
<1>10. \A g \in (F \ {head}) \cup {Zfod} : rest'[g] = 0
  BY <1>1
<1> QED BY <1>3, <1>9, <1>10 DEF FrameInv

LEMMA NewPageKeeps ==
    ASSUME VMTypes, FrameInv, SpaceInv, NEW t \in Users, NewPage(t)
    PROVE  VMTypes' /\ FrameInv' /\ (~Stopped' => SpaceInv')
<1>0. UserInv(t) /\ CallOf(t) /\ Held(t) /\ Progress(t) /\ RegionInv /\ ZfodInv /\ job[t] \in Jobs
  BY DEF SpaceInv, UserInv, VMTypes
<1>1. upc[t] = "n_page" /\ job[t].call = "new" /\ job[t].todo # {} /\ space[t] \in Spaces
  BY <1>0, InSpace DEF NewPage, CallOf
<1>2. Page(t) \in job[t].todo /\ Page(t) \in Pages /\ Tome(Page(t)) \in Tomes
  BY <1>1, EntryIs, TomeIn
<1> DEFINE s == space[t]
           q == Page(t)
           k == Tome(q)
<1>3. s \in Spaces /\ q \in Pages /\ k \in Tomes /\ q \in job[t].todo
  BY <1>1, <1>2
<1> DEFINE new == tbl[s][k] = Nil
           last == job[t].todo = {q}
           e == [to |-> Zfod, rw |-> FALSE]
           j == [job[t] EXCEPT !.todo = @ \ {q}]
<1>4. /\ ~(new /\ head = Nil)
      /\ IF new THEN tbl' = [tbl EXCEPT ![s][k] = head] /\ Pop
         ELSE UNCHANGED <<listVars, tbl>>
      /\ pte' = [pte EXCEPT ![s][q] = e]
      /\ lock' = IF last THEN [lock EXCEPT ![s] = Nil] ELSE lock
      /\ job' = [job EXCEPT ![t] = IF last THEN NoJob ELSE j]
      /\ UserGoto(t, IF new /\ rest[head] # 0 THEN "wild" ELSE IF last THEN "out" ELSE "n_page")
      /\ UNCHANGED <<rest, regions, space>>
  BY DEF NewPage
<1>5. e \in Entries /\ e.to = Zfod /\ ~e.rw /\ e # Absent
  BY AbsentIs, VMSizes DEF Entries
<1>6. /\ j \in Jobs /\ j.call = "new" /\ j.reg = job[t].reg /\ j.child = job[t].child
      /\ j.todo = job[t].todo \ {q} /\ NoJob \in Jobs
      /\ NoJob.call = "none" /\ NoJob.child = Nil
  BY <1>0, <1>1, JobNone DEF Jobs, NoJob
<1> HIDE DEF e, j, q, k
<1>7. /\ pte'[s][q] = e
      /\ \A r \in Spaces, p \in Pages : <<r, p>> # <<s, q>> => pte'[r][p] = pte[r][p]
      /\ pte' \in [Spaces -> [Pages -> Entries]]
  BY <1>3, <1>4, <1>5, PteUpdate
<1>8. /\ job'[t] = IF last THEN NoJob ELSE j
      /\ \A u \in Users : u # t => job'[u] = job[u]
      /\ job' \in [Users -> Jobs]
  BY <1>4, <1>6 DEF VMTypes
<1>9. /\ upc'[t] \in {"wild", "out", "n_page"}
      /\ upc'[t] # "wild" => upc'[t] = IF last THEN "out" ELSE "n_page"
      /\ \A u \in Users : u # t => upc'[u] = upc[u]
      /\ upc' \in [Users -> UserPCs]
  <2> DEFINE label == IF new /\ rest[head] # 0 THEN "wild" ELSE IF last THEN "out" ELSE "n_page"
  <2>1. UserGoto(t, label) /\ label \in UserPCs
    BY <1>4 DEF UserPCs
  <2>2. label \in {"wild", "out", "n_page"} /\ (label # "wild" => label = IF last THEN "out" ELSE "n_page")
    OBVIOUS
  <2> HIDE DEF label
  <2> QED BY <2>1, <2>2, GotoOthers
<1>10. OthersSame(t) /\ space'[t] = s
  BY <1>3, <1>4, <1>8, <1>9 DEF OthersSame, Same
<1>11. \A u \in Users : Same(u) \/ (upc[u] \notin HoldPCs /\ upc'[u] \notin HoldPCs)
  BY <1>1, <1>9, <1>10 DEF OthersSame, HoldPCs
<1>12. \A u \in Users : Same(u) \/ (upc[u] # "free_clear" /\ upc'[u] # "free_clear")
  BY <1>11 DEF HoldPCs
<1>13. /\ q \in PagesOf(job[t].reg) /\ pte[s][q] = Absent
       /\ job[t].reg \in Regions /\ PagesOf(job[t].reg) \subseteq Pages
       /\ \A p \in PagesOf(job[t].reg) : pte[s][p] = Absent <=> p \in job[t].todo
  BY <1>0, <1>1, <1>2, <1>3, PagesOfAre DEF CallOf, Progress
<1>14. FrameInv'
  <2>1. \A r \in Spaces, p \in Pages : <<r, p>> # <<s, q>> => (Pushed(r, p)' <=> Pushed(r, p))
    BY <1>7, <1>12, PushedKept
  <2> HIDE DEF Pushed
  <2>2. \A r \in Spaces, p \in Pages : PageFrame(r, p)' = PageFrame(r, p)
              \/ (PageFrame(r, p) \notin Frames /\ PageFrame(r, p)' \notin Frames)
    BY <1>5, <1>7, <1>13, <2>1, AbsentIs, VMSizes DEF PageFrame
  <2>3. ASSUME NEW u \in Users PROVE CopiedFrame(u)' = CopiedFrame(u)
    BY <1>11, CopiesStay DEF HoldPCs
  <2> HIDE DEF PageFrame, CopiedFrame
  <2>4. CASE new
    <3>1. head # Nil /\ Pop /\ rest' = rest /\ tbl[s][k] = Nil /\ tbl' = [tbl EXCEPT ![s][k] = head]
      BY <1>4, <2>4
    <3>2. \A u \in Users : Same(u) \/ (upc[u] # "table_clear" /\ upc'[u] # "table_clear")
      BY <1>11 DEF HoldPCs
    <3>3. ~TablePushed(s, k)
      BY <1>1, TableNotPushed
    <3> HIDE DEF Pop, TablePushed
    <3> QED BY <1>3, <2>2, <2>3, <3>1, <3>2, <3>3, TableTakes
  <2>5. CASE ~new
    <3>1. UNCHANGED listVars /\ tbl' = tbl /\ rest' = rest
      BY <1>4, <2>5
    <3>2. \A r \in Spaces, l \in Tomes : TableFrame(r, l)' = TableFrame(r, l)
      BY <1>11, <3>1, TablesKeepFrames DEF HoldPCs
    <3> HIDE DEF TableFrame
    <3> QED BY <2>2, <2>3, <3>1, <3>2, FramesStay
  <2> QED BY <2>4, <2>5
<1>15. VMTypes'
  <2>1. next' \in [Frames -> Frames \cup {Nil}] /\ tbl' \in [Spaces -> [Tomes -> Frames \cup {Nil}]]
    <3>1. CASE new
      BY <1>3, <1>4, <3>1, PopTypes, TblUpdate
    <3>2. CASE ~new
      BY <1>4, <3>2 DEF VMTypes, listVars
    <3> QED BY <3>1, <3>2
  <2>2. lock' \in [Spaces -> Users \cup {Nil}]
    BY <1>4 DEF VMTypes
  <2> QED BY <1>4, <1>7, <1>8, <1>9, <1>14, <2>1, <2>2, TypesStep DEF VMTypes
<1>16. ASSUME ~Stopped' PROVE SpaceInv'
  <2>1. upc'[t] = IF last THEN "out" ELSE "n_page"
    BY <1>9, <1>16 DEF Stopped
  <2>2. UserInv(t)'
    <3>1. CASE last
      BY <1>3, <1>8, <1>10, <2>1, <3>1, OutIs
    <3>2. CASE ~last
      <4>1. job'[t] = j /\ upc'[t] = "n_page" /\ job[t].todo \ {q} # {}
        BY <1>2, <1>3, <1>8, <2>1, <3>2
      <4>2. CallOf(t)'
        BY <1>0, <1>1, <1>6, <1>10, <4>1, VMSizes DEF CallOf, FaultPCs, FreePCs, CopyPCs
      <4>3. Held(t)'
        BY <1>0, <1>1, <1>3, <1>4, <1>6, <1>10, <4>1 DEF Held
      <4>4. \A p \in PagesOf(job'[t].reg) :
               pte'[space'[t]][p] = Absent <=> p \in job'[t].todo
        BY <1>3, <1>5, <1>6, <1>7, <1>10, <1>13, <4>1
      <4>5. Progress(t)' /\ CopyProgress(t)'
        BY <4>1, <4>4 DEF Progress, CopyProgress, FreePCs, CopyPCs
      <4>6. Owner(t)'
        BY <1>0, <1>1, <1>3, <1>4, <1>10, <3>2, <4>1 DEF Owner, UserInv
      <4> QED BY <4>2, <4>3, <4>5, <4>6 DEF UserInv
    <3> QED BY <3>1, <3>2
  <2>3. ZfodInv'
    <3>1. \A r \in Spaces, p \in Pages : pte'[r][p] = pte[r][p] \/ (pte'[r][p].to = Zfod => ~pte'[r][p].rw)
      BY <1>5, <1>7
    <3> QED BY <1>0, <1>12, <3>1, ZfodKept
  <2>4. RegionInv'
    <3>1. PICK i \in DOMAIN regions[s] : regions[s][i] = job[t].reg
      BY <1>0, <1>1, <1>3, <1>13 DEF Held
    <3>2. \A r \in Spaces, p \in Pages : pte'[r][p] # Absent => pte[r][p] # Absent \/
              \E n \in DOMAIN regions[r] : p \in PagesOf(regions[r][n])
      BY <1>7, <1>13, <3>1
    <3>3. ASSUME NEW r \in Spaces, NEW p \in Pages, pte[r][p] # Absent \/ Excused(t, r, p)
          PROVE  pte'[r][p] # Absent \/ Excused(t, r, p)'
      <4>1. CASE pte[r][p] # Absent
        BY <1>5, <1>7, <4>1
      <4>2. CASE Excused(t, r, p)
        <5>1. r = s /\ p \in PagesOf(job[t].reg)
          BY <1>1, <1>3, <4>2 DEF Excused
        <5>2. CASE last
          BY <1>2, <1>3, <1>5, <1>7, <1>13, <5>1, <5>2
        <5>3. CASE ~last
          BY <1>6, <1>8, <1>10, <5>1, <5>3 DEF Excused
        <5> QED BY <5>2, <5>3
      <4> QED BY <3>3, <4>1, <4>2
    <3> HIDE DEF Excused
    <3> QED BY <1>0, <1>4, <1>10, <3>2, <3>3, RegionsKept
  <2>5. q \in Works(t) /\ Works(t)' \subseteq Works(t)
    BY <1>1, <1>6, <1>8, <1>13 DEF Works
  <2>6. \A u \in Users \ {t} : space[u] = space[t] => Works(t)' \cap Works(u) = {}
    BY <1>1, <2>5, TouchesLess
  <2>7. /\ job'[t].call \notin {"exit", "fork"}
        /\ job'[t].child = job[t].child \/ job'[t].child = Nil
    BY <1>6, <1>8
  <2>8. \A r \in Spaces, p \in Pages :
           pte'[r][p] = pte[r][p] \/ (r = space[t] /\ p \in Works(t))
    BY <1>3, <1>7, <2>5
  <2>9. upc'[t] # "nascent" /\ upc[t] # "nascent" /\ regions' = regions /\ space'[t] = space[t]
    BY <1>1, <1>3, <1>4, <1>10, <2>1
  <2>10. \A r \in Spaces : lock'[r] = lock[r] \/ (r = space[t] /\ lock[r] \in {t, Nil})
    <3>1. lock[s] = t
      BY <1>0, <1>1 DEF UserInv, Owner
    <3> QED BY <1>3, <1>4, <3>1 DEF VMTypes
  <2> HIDE DEF Works, UserInv
  <2> QED BY <1>10, <2>10, <2>2, <2>3, <2>4, <2>6, <2>7, <2>8, <2>9, OwnStep
<1> QED BY <1>14, <1>15, <1>16

LEMMA NewPageFailsKeeps ==
    ASSUME VMTypes, FrameInv, SpaceInv, NEW t \in Users, NewPageFails(t)
    PROVE  VMTypes' /\ FrameInv' /\ SpaceInv'
<1>0. UserInv(t) /\ CallOf(t) /\ Held(t) /\ Progress(t) /\ job[t] \in Jobs
  BY DEF SpaceInv, UserInv, VMTypes
<1>1. /\ upc[t] = "n_page" /\ job[t].call = "new" /\ space[t] \in Spaces
      /\ UserGoto(t, "free_look") /\ UNCHANGED <<frameVars, spaceVars, space>>
      /\ job' = [job EXCEPT ![t].todo = PagesOf(job[t].reg) \ job[t].todo]
  BY <1>0, InSpace DEF NewPageFails, CallOf
<1>2. job[t].reg \in Regions /\ PagesOf(job[t].reg) \subseteq Pages
  BY <1>0, <1>1, PagesOfAre DEF CallOf
<1>3. /\ job'[t].todo = PagesOf(job[t].reg) \ job[t].todo
      /\ job'[t].call = job[t].call /\ job'[t].reg = job[t].reg /\ job'[t].child = job[t].child
      /\ \A u \in Users : u # t => job'[u] = job[u]
      /\ job' \in [Users -> Jobs]
  BY <1>0, <1>1, <1>2 DEF VMTypes, Jobs
<1>4. /\ upc'[t] = "free_look" /\ upc' \in [Users -> UserPCs]
      /\ \A u \in Users : u # t => upc'[u] = upc[u]
  BY <1>1, GotoOthers DEF UserPCs
<1>5. OthersSame(t) /\ space'[t] = space[t] /\ UNCHANGED <<frameVars, pte, tbl, regions, lock>>
  BY <1>1, <1>3, <1>4 DEF OthersSame, Same, spaceVars
<1>6. UserInv(t)'
  <2>1. CallOf(t)'
    BY <1>0, <1>1, <1>3, <1>4, <1>5, VMSizes DEF CallOf, FaultPCs, FreePCs, CopyPCs
  <2>2. Held(t)'
    BY <1>0, <1>3, <1>5 DEF Held
  <2>3. \A p \in PagesOf(job'[t].reg) \ job'[t].todo : pte'[space'[t]][p] = Absent
    BY <1>0, <1>1, <1>3, <1>5 DEF Progress
  <2>4. Progress(t)' /\ CopyProgress(t)'
    BY <1>1, <1>3, <1>4, <2>3 DEF Progress, CopyProgress, FreePCs, CopyPCs
  <2>5. Owner(t)'
    BY <1>0, <1>3, <1>5 DEF Owner, UserInv
  <2> QED BY <2>1, <2>2, <2>4, <2>5 DEF UserInv
<1>7. FrameInv' /\ SpaceInv'
  BY <1>1, <1>3, <1>4, <1>5, <1>6, QuietStep DEF HoldPCs
<1>8. VMTypes'
  BY <1>1, <1>3, <1>4, <1>7, TypesStep DEF VMTypes, spaceVars, frameVars, listVars
<1> QED BY <1>7, <1>8

-----------------------------------------------------------------------------
(* remove_pages, and the freeing of pages *)

LEMMA CallRemoveKeeps ==
    ASSUME ~SharePages, VMTypes, FrameInv, SpaceInv, NEW t \in Users, NEW a \in Pages, CallRemove(t, a)
    PROVE  VMTypes' /\ FrameInv' /\ SpaceInv'
<1> DEFINE s == space[t]
           i == LookupAt(regions[s], a)
           r == regions[s][i]
           j == [NoJob EXCEPT !.call = "remove", !.reg = r, !.todo = PagesOf(r)]
<1>0. UserInv(t) /\ CallOf(t) /\ RegionInv /\ ZfodInv
  BY DEF SpaceInv, UserInv
<1>1. /\ upc[t] = "out" /\ lock[s] = Nil /\ i # 0 /\ MayTouch(t, RegionPages(s, r))
      /\ job' = [job EXCEPT ![t] = j]
      /\ lock' = [lock EXCEPT ![s] = t]
      /\ UserGoto(t, "free_look")
      /\ UNCHANGED <<frameVars, pte, tbl, regions, space>>
  BY DEF CallRemove
<1>2. s \in Spaces /\ job[t] = NoJob
  BY <1>0, <1>1, InSpace DEF CallOf
<1>3. i \in DOMAIN regions[s] /\ r \in Regions
  <2>1. regions[s] \in Seq(Regions)
    BY <1>2 DEF VMTypes
  <2>2. i \in DOMAIN regions[s]
    BY <1>1, <2>1, LookupFinds
  <2> QED BY <2>1, <2>2
<1>4. PagesOf(r) \subseteq Pages
  BY <1>3, PagesOfAre
<1>5. /\ j \in Jobs /\ j.call = "remove" /\ j.reg = r /\ j.todo = PagesOf(r) /\ j.child = Nil
      /\ NoJob.call = "none" /\ NoJob.child = Nil
  BY <1>3, <1>4, JobNone DEF NoJob, Jobs
<1> HIDE DEF j
<1>6. /\ job'[t] = j /\ job' \in [Users -> Jobs]
      /\ \A u \in Users : u # t => job'[u] = job[u]
      /\ lock' \in [Spaces -> Users \cup {Nil}]
  BY <1>1, <1>5 DEF VMTypes
<1>7. /\ upc'[t] = "free_look" /\ upc' \in [Users -> UserPCs]
      /\ \A u \in Users : u # t => upc'[u] = upc[u]
  BY <1>1, GotoOthers DEF UserPCs
<1>8. OthersSame(t) /\ space'[t] = s
  BY <1>1, <1>6, <1>7 DEF OthersSame, Same
<1>9. \A u \in Users : Same(u) \/ (upc[u] \notin HoldPCs /\ upc'[u] \notin HoldPCs)
  BY <1>1, <1>7, <1>8 DEF OthersSame, HoldPCs
<1>10. FrameInv'
  BY <1>1, <1>9, FramesAside
<1>11. VMTypes'
  BY <1>1, <1>6, <1>7, <1>10, TypesStep DEF VMTypes, frameVars, listVars
<1>12. UserInv(t)'
  <2>1. CallOf(t)'
    BY <1>2, <1>3, <1>5, <1>6, <1>7, <1>8, VMSizes DEF CallOf, FaultPCs, FreePCs, CopyPCs
  <2>2. Held(t)'
    BY <1>1, <1>3, <1>5, <1>6 DEF Held
  <2>3. PagesOf(job'[t].reg) \ job'[t].todo = {} /\ job'[t].call # "exit"
    BY <1>5, <1>6
  <2>4. Progress(t)' /\ CopyProgress(t)'
    BY <1>7, <2>3 DEF Progress, CopyProgress, FreePCs, CopyPCs
  <2>5. Owner(t)'
    BY <1>1, <1>2, <1>8 DEF Owner, VMTypes
  <2> QED BY <2>1, <2>2, <2>4, <2>5 DEF UserInv
<1>13. ZfodInv'
  <2>1. \A u \in Users : Same(u) \/ (upc[u] # "free_clear" /\ upc'[u] # "free_clear")
    BY <1>9 DEF HoldPCs
  <2> QED BY <1>0, <1>1, <2>1, ZfodKept
<1>14. RegionInv'
  <2>1. \A v \in Spaces, q \in Pages : ~Excused(t, v, q)
    BY <1>1, <1>2, <1>5 DEF Excused
  <2> HIDE DEF Excused
  <2> QED BY <1>0, <1>1, <1>8, <2>1, RegionsKept
<1>15. SpaceInv'
  <2>1. Works(t)' = PagesOf(r)
    BY <1>5, <1>6 DEF Works
  <2>2. \A u \in Users \ {t} : space[u] = space[t] => Works(t)' \cap Works(u) = {}
    <3>1. PagesOf(r) \subseteq RegionPages(s, r)
      BY DEF RegionPages
    <3>2. MayTouch(t, RegionPages(s, r))
      BY <1>1
    <3> HIDE DEF r, RegionPages
    <3> QED BY <2>1, <3>1, <3>2, MayWork
  <2>3. /\ job'[t].call \notin {"exit", "fork"} /\ job'[t].child = Nil
        /\ upc'[t] # "nascent" /\ upc[t] # "nascent" /\ pte' = pte /\ regions' = regions
    BY <1>1, <1>5, <1>6, <1>7
  <2>4. \A v \in Spaces : lock'[v] = lock[v] \/ (v = space[t] /\ lock[v] \in {t, Nil})
    BY <1>1, <1>2 DEF VMTypes
  <2> HIDE DEF Works, UserInv
  <2> QED BY <1>8, <1>12, <1>13, <1>14, <2>2, <2>3, <2>4, OwnStep
<1> QED BY <1>10, <1>11, <1>15

LEMMA PushedBy ==
    ASSUME NEW t \in Users, OthersSame(t), upc[t] # "free_clear", NEW s, NEW p,
           pte'[s][p].to = pte[s][p].to
    PROVE  Pushed(s, p)' <=>
              \/ Pushed(s, p)
              \/ /\ upc'[t] = "free_clear" /\ space'[t] = s /\ Min(job'[t].todo) = p
                 /\ job'[t].seen.to = pte'[s][p].to
BY DEF Pushed, Page, OthersSame, Same

LEMMA TablePushedBy ==
    ASSUME NEW t \in Users, OthersSame(t), upc[t] # "table_clear", NEW s, NEW k
    PROVE  TablePushed(s, k)' <=>
              \/ TablePushed(s, k)
              \/ upc'[t] = "table_clear" /\ space'[t] = s /\ Head(job'[t].tabs) = k
BY DEF TablePushed, OthersSame, Same

(* The pages that a thread frees are no other thread's. *)
LEMMA FreedAlone ==
    ASSUME VMTypes, SpaceInv, NEW t \in Users, upc[t] \in {"free_look", "free_frame"},
           NEW p \in job[t].todo
    PROVE  ~Pushed(space[t], p) /\ (p \in Works(t) \/ job[t].call = "exit")
<1>1. UserInv(t) /\ CallOf(t) /\ space[t] \in Spaces
  BY InSpace DEF SpaceInv, UserInv
<1>2. CASE job[t].call = "exit"
  <2>1. \A u \in Users \ {t} : space[u] # space[t]
    BY <1>1, <1>2, VMSizes DEF SpaceInv, Apart
  <2> QED BY <1>2, <2>1, NotPushed
<1>3. CASE job[t].call # "exit"
  <2>1. job[t].call \in {"new", "remove"}
    BY <1>1, <1>3 DEF CallOf, FreePCs
  <2>2. p \in Works(t)
    BY <1>1, <2>1 DEF CallOf, Works
  <2> QED BY <1>1, <2>2, OwnPageFree
<1> QED BY <1>2, <1>3

(* A thread that frees pages goes on.                                      *)
LEMMA FreeGoesOn ==
    ASSUME VMTypes, SpaceInv, NEW t \in Users, upc[t] \in FreePCs, upc'[t] \in FreePCs,
           space'[t] = space[t], regions' = regions, lock' = lock,
           job'[t].call = job[t].call, job'[t].reg = job[t].reg, job'[t].child = job[t].child,
           job'[t].todo \subseteq job[t].todo,
           \A p \in Pages : p \in job[t].todo \ job'[t].todo \/ pte[space[t]][p] = Absent =>
              pte'[space[t]][p] = Absent,
           upc'[t] \in {"free_frame", "free_clear"} => job'[t].todo # {},
           upc'[t] \in {"free_frame", "free_clear"} => Entry(t)' = job'[t].seen,
           upc'[t] = "free_frame" => job'[t].seen.to \in Frames,
           upc'[t] \in {"tables", "table_clear"} => job'[t].todo = {},
           upc'[t] = "table_clear" => job'[t].tabs # <<>>
    PROVE  UserInv(t)'
<1>1. CallOf(t) /\ Held(t) /\ Progress(t)
  BY DEF SpaceInv, UserInv
<1>2. CallOf(t)'
  BY <1>1 DEF CallOf, FaultPCs, FreePCs, CopyPCs
<1>3. Held(t)' /\ Owner(t)'
  BY <1>1 DEF Held, Owner, SpaceInv, UserInv
<1> HIDE DEF Entry
<1>4. ASSUME job[t].call # "exit" PROVE \A p \in PagesOf(job[t].reg) \ job'[t].todo : pte'[space[t]][p] = Absent
  <2>1. PagesOf(job[t].reg) \subseteq Pages
    BY <1>1, <1>4, PagesOfAre DEF CallOf
  <2>2. \A p \in PagesOf(job[t].reg) \ job[t].todo : pte[space[t]][p] = Absent
    BY <1>1, <1>4 DEF Progress
  <2> QED BY <2>1, <2>2
<1>5. ASSUME job[t].call = "exit" PROVE \A p \in Pages \ job'[t].todo : pte'[space[t]][p] = Absent
  <2>1. \A p \in Pages \ job[t].todo : pte[space[t]][p] = Absent
    BY <1>1, <1>5 DEF Progress
  <2> QED BY <2>1
<1>6. Progress(t)'
  BY <1>4, <1>5 DEF Progress, FreePCs
<1>7. CopyProgress(t)'
  BY DEF CopyProgress, FreePCs, CopyPCs
<1> QED BY <1>2, <1>3, <1>6, <1>7 DEF UserInv

LEMMA FreeLookKeeps ==
    ASSUME VMTypes, FrameInv, SpaceInv, NEW t \in Users, FreeLook(t)
    PROVE  VMTypes' /\ FrameInv' /\ SpaceInv'
<1> DEFINE s == space[t]
           q == Page(t)
           e == [Entry(t) EXCEPT !.rw = TRUE]
<1>0. UserInv(t) /\ CallOf(t) /\ Progress(t) /\ RegionInv /\ ZfodInv /\ job[t] \in Jobs
  BY DEF SpaceInv, UserInv, VMTypes
<1>1. /\ upc[t] = "free_look" /\ job[t].todo # {} /\ s \in Spaces
      /\ UNCHANGED <<frameVars, tbl, regions, lock, space>>
  BY InSpace DEF FreeLook
<1>2. q \in job[t].todo /\ q \in Pages /\ Entry(t) = pte[s][q] /\ Entry(t) \in Entries
  BY <1>1, EntryIs
<1>3. CASE Entry(t) = Absent
  <2>1. job' = [job EXCEPT ![t].todo = job[t].todo \ {q}] /\ UNCHANGED <<upc, pte>>
    BY <1>3 DEF FreeLook
  <2> HIDE DEF q
  <2>2. /\ job'[t].todo = job[t].todo \ {q}
        /\ job'[t].call = job[t].call /\ job'[t].reg = job[t].reg /\ job'[t].child = job[t].child
        /\ \A u \in Users : u # t => job'[u] = job[u]
        /\ job' \in [Users -> Jobs]
    BY <1>0, <2>1 DEF VMTypes, Jobs
  <2>3. OthersSame(t) /\ space'[t] = space[t] /\ upc'[t] = "free_look"
    BY <1>1, <2>1, <2>2 DEF OthersSame, Same
  <2>4. UserInv(t)'
    <3>1. \A p \in Pages : p \in job[t].todo \ job'[t].todo \/ pte[space[t]][p] = Absent =>
              pte'[space[t]][p] = Absent
      BY <1>2, <1>3, <2>1, <2>2
    <3> QED BY <1>1, <2>2, <2>3, <3>1, FreeGoesOn DEF FreePCs
  <2>5. FrameInv' /\ SpaceInv'
    BY <1>1, <2>1, <2>2, <2>3, <2>4, QuietStep DEF HoldPCs
  <2>6. VMTypes'
    BY <1>1, <2>1, <2>2, <2>5, TypesStep DEF VMTypes, frameVars, listVars
  <2> QED BY <2>5, <2>6
<1>4. CASE Entry(t) # Absent
  <2>1. /\ pte' = [pte EXCEPT ![s][q] = e]
        /\ job' = [job EXCEPT ![t].seen = e]
        /\ UserGoto(t, IF e.to = Zfod THEN "free_clear" ELSE "free_frame")
    BY <1>4 DEF FreeLook
  <2>2. e \in Entries /\ e # Absent /\ e.to = pte[s][q].to /\ e.to \in Frames \cup {Zfod}
    <3>1. e \in Entries /\ e # Absent /\ e.to = Entry(t).to
      BY <1>2, <1>4, MadeWritable
    <3> QED BY <1>2, <1>4, <3>1, EntriesAre
  <2> HIDE DEF e, q, Entry
  <2>3. /\ pte'[s][q] = e
        /\ \A r \in Spaces, p \in Pages : <<r, p>> # <<s, q>> => pte'[r][p] = pte[r][p]
        /\ pte' \in [Spaces -> [Pages -> Entries]]
    BY <1>1, <1>2, <2>1, <2>2, PteUpdate
  <2>4. /\ job'[t].seen = e /\ job'[t].todo = job[t].todo
        /\ job'[t].call = job[t].call /\ job'[t].reg = job[t].reg /\ job'[t].child = job[t].child
        /\ \A u \in Users : u # t => job'[u] = job[u]
        /\ job' \in [Users -> Jobs]
    BY <1>0, <2>1, <2>2 DEF VMTypes, Jobs
  <2>5. /\ upc'[t] = IF e.to = Zfod THEN "free_clear" ELSE "free_frame"
        /\ \A u \in Users : u # t => upc'[u] = upc[u]
        /\ upc' \in [Users -> UserPCs]
    BY <2>1, GotoOthers DEF UserPCs
  <2>6. OthersSame(t) /\ space'[t] = space[t]
    BY <1>1, <2>4, <2>5 DEF OthersSame, Same
  <2>7. \A r \in Spaces, p \in Pages :
            Pushed(r, p)' <=> Pushed(r, p) \/ (e.to = Zfod /\ r = s /\ p = q)
    <3>1. Min(job'[t].todo) = q
      BY <2>4 DEF q, Page
    <3>2. \A r \in Spaces, p \in Pages : pte'[r][p].to = pte[r][p].to
      BY <2>2, <2>3
    <3>3. \A r \in Spaces, p \in Pages : Pushed(r, p)' <=> Pushed(r, p) \/
             /\ upc'[t] = "free_clear" /\ space'[t] = r /\ Min(job'[t].todo) = p
             /\ job'[t].seen.to = pte'[r][p].to
      BY <1>1, <2>6, <3>2, PushedBy
    <3> HIDE DEF Pushed
    <3>4. upc'[t] = "free_clear" <=> e.to = Zfod
      BY <2>5
    <3>5. job'[t].seen.to = pte'[s][q].to
      BY <2>3, <2>4
    <3> QED BY <1>1, <2>6, <3>1, <3>3, <3>4, <3>5
  <2> HIDE DEF Pushed
  <2>8. FrameInv'
    <3>1. \A r \in Spaces, p \in Pages : PageFrame(r, p)' = PageFrame(r, p)
                \/ (PageFrame(r, p) \notin Frames /\ PageFrame(r, p)' \notin Frames)
      BY <2>2, <2>3, <2>7, VMSizes DEF PageFrame
    <3>2. ASSUME NEW u \in Users PROVE CopiedFrame(u)' = CopiedFrame(u)
      BY <1>1, <2>5, <2>6, CopiesStay DEF OthersSame
    <3>3. UNCHANGED listVars /\ tbl' = tbl /\ rest' = rest
      BY <1>1 DEF frameVars
    <3>4. \A r \in Spaces, k \in Tomes : TableFrame(r, k)' = TableFrame(r, k)
      BY <1>1, <2>5, <2>6, <3>3, TablesKeepFrames DEF OthersSame
    <3> HIDE DEF PageFrame, TableFrame, CopiedFrame
    <3> QED BY <3>1, <3>2, <3>3, <3>4, FramesStay
  <2>9. VMTypes'
    BY <1>1, <2>3, <2>4, <2>5, <2>8, TypesStep DEF VMTypes, frameVars, listVars
  <2>10. UserInv(t)'
    <3>1. Entry(t)' = e
      BY <1>1, <2>3, <2>4 DEF Entry, Page, q
    <3>2. \A p \in Pages : p \in job[t].todo \ job'[t].todo \/ pte[space[t]][p] = Absent =>
              pte'[space[t]][p] = Absent
      BY <1>1, <1>2, <1>4, <2>3, <2>4
    <3> QED BY <1>1, <2>2, <2>4, <2>5, <2>6, <3>1, <3>2, FreeGoesOn DEF FreePCs
  <2>11. ZfodInv'
    <3>1. ASSUME NEW r \in Spaces, NEW p \in Pages, pte'[r][p].to = Zfod, pte'[r][p].rw
          PROVE  Pushed(r, p)'
      <4>1. CASE r = s /\ p = q
        BY <2>3, <2>7, <3>1, <4>1
      <4>2. CASE ~(r = s /\ p = q)
        BY <1>0, <2>3, <2>7, <3>1, <4>2 DEF ZfodInv
      <4> QED BY <4>1, <4>2
    <3> QED BY <3>1 DEF ZfodInv
  <2>12. RegionInv'
    <3>1. \A r \in Spaces, p \in Pages : pte'[r][p] = Absent <=> pte[r][p] = Absent
      BY <1>2, <1>4, <2>2, <2>3
    <3>2. \A r \in Spaces, p \in Pages : Excused(t, r, p) => Excused(t, r, p)'
      BY <1>1, <2>4, <2>6 DEF Excused
    <3> HIDE DEF Excused
    <3> QED BY <1>0, <1>1, <2>6, <3>1, <3>2, RegionsKept
  <2>13. SpaceInv'
    <3>1. \A r \in Spaces, p \in Pages : pte'[r][p] = pte[r][p]
               \/ (r = space[t] /\ (p \in Works(t) \/ job[t].call = "exit"))
      <4>1. q \in Works(t) \/ job[t].call = "exit"
        BY <1>1, <1>2, FreedAlone
      <4> QED BY <2>3, <4>1
    <3>2. Works(t)' \subseteq Works(t)
      BY <2>4 DEF Works
    <3>3. \A u \in Users \ {t} : space[u] = space[t] => Works(t)' \cap Works(u) = {}
      BY <1>1, <3>2, TouchesLess
    <3>4. regions' = regions /\ lock' = lock /\ upc'[t] # "nascent" /\ upc[t] # "nascent"
      BY <1>1, <2>5
    <3> HIDE DEF Works, UserInv
    <3> QED BY <2>4, <2>6, <2>10, <2>11, <2>12, <3>1, <3>3, <3>4, OwnStep
  <2> QED BY <2>8, <2>9, <2>13
<1> QED BY <1>3, <1>4

(* A frame goes back to the list. *)
LEMMA PageLeaves ==
    ASSUME VMTypes, FrameInv,
           \A r \in Spaces, k \in Tomes : TableFrame(r, k)' = TableFrame(r, k),
           NEW s \in Spaces, NEW p \in Pages, NEW f \in Frames,
           PageFrame(s, p) = f, Push(f), PageFrame(s, p)' \notin Frames,
           \A r \in Spaces, q \in Pages : <<r, q>> # <<s, p>> => PageFrame(r, q)' = PageFrame(r, q),
           \A t \in Users : CopiedFrame(t)' = CopiedFrame(t)
    PROVE  FrameInv'
<1>1. PICK F \in SUBSET Frames :
          /\ Shared(PageHolds, TableHolds, CopyHolds, F)
          /\ ListOf(F, head, next, avail)
          /\ \A g \in F \cup {Zfod} : rest[g] = 0
  BY DEF FrameInv
<1>2. next \in [Frames -> Frames \cup {Nil}] /\ rest \in [Frames \cup {Zfod} -> Users \cup {0}]
  BY DEF VMTypes
<1> DEFINE ph == PageHolds
           th == TableHolds
           ch == CopyHolds
           ph2 == PageHolds'
           ch2 == CopyHolds'
<1>3. /\ \A r \in Spaces, q \in Pages : ph[r][q] = PageFrame(r, q) /\ ph2[r][q] = PageFrame(r, q)'
      /\ \A t \in Users : ch[t] = CopiedFrame(t) /\ ch2[t] = CopiedFrame(t)'
  BY DEF PageHolds, CopyHolds
<1>3a. TableHolds' = th
  BY DEF TableHolds
<1> HIDE DEF ph, th, ch, ph2, ch2, PageFrame, CopiedFrame
<1>4. Shared(ph, th, ch, F)
  BY <1>1 DEF ph, th, ch
<1>5. Shared(ph2, th, ch2, F \cup {f}) /\ f \notin F
  BY <1>3, <1>4, PageGives
<1>6. Shared(PageHolds', TableHolds', CopyHolds', F \cup {f})
  BY <1>3a, <1>5 DEF ph2, ch2
<1>7. ListOf(F \cup {f}, head', next', avail')
  BY <1>1, <1>2, <1>5, ListPushes DEF Push
<1>8. \A g \in (F \cup {f}) \cup {Zfod} : rest'[g] = 0
  BY <1>1, <1>2 DEF Push
<1> QED BY <1>6, <1>7, <1>8 DEF FrameInv

LEMMA TableLeaves ==
    ASSUME VMTypes, FrameInv,
           NEW s \in Spaces, NEW k \in Tomes, NEW f \in Frames,
           TableFrame(s, k) = f, Push(f), TableFrame(s, k)' \notin Frames,
           \A r \in Spaces, l \in Tomes : <<r, l>> # <<s, k>> => TableFrame(r, l)' = TableFrame(r, l),
           \A r \in Spaces, q \in Pages : PageFrame(r, q)' = PageFrame(r, q),
           \A t \in Users : CopiedFrame(t)' = CopiedFrame(t)
    PROVE  FrameInv'
<1>1. PICK F \in SUBSET Frames :
          /\ Shared(PageHolds, TableHolds, CopyHolds, F)
          /\ ListOf(F, head, next, avail)
          /\ \A g \in F \cup {Zfod} : rest[g] = 0
  BY DEF FrameInv
<1>2. next \in [Frames -> Frames \cup {Nil}] /\ rest \in [Frames \cup {Zfod} -> Users \cup {0}]
  BY DEF VMTypes
<1> DEFINE ph == PageHolds
           th == TableHolds
           ch == CopyHolds
           th2 == TableHolds'
<1>3. \A r \in Spaces, l \in Tomes : th[r][l] = TableFrame(r, l) /\ th2[r][l] = TableFrame(r, l)'
  BY DEF TableHolds
<1>4. PageHolds' = ph /\ CopyHolds' = ch
  BY DEF PageHolds, CopyHolds
<1> HIDE DEF ph, th, ch, th2, TableFrame
<1>5. Shared(ph, th, ch, F)
  BY <1>1 DEF ph, th, ch
<1>6. Shared(ph, th2, ch, F \cup {f}) /\ f \notin F
  BY <1>3, <1>5, TableGives
<1>7. Shared(PageHolds', TableHolds', CopyHolds', F \cup {f})
  BY <1>4, <1>6 DEF th2
<1>8. ListOf(F \cup {f}, head', next', avail')
  BY <1>1, <1>2, <1>6, ListPushes DEF Push
<1>9. \A g \in (F \cup {f}) \cup {Zfod} : rest'[g] = 0
  BY <1>1, <1>2 DEF Push
<1> QED BY <1>7, <1>8, <1>9 DEF FrameInv

LEMMA PushTypes ==
    ASSUME VMTypes, NEW f \in Frames, Push(f)
    PROVE  /\ next' \in [Frames -> Frames \cup {Nil}]
           /\ rest' \in [Frames \cup {Zfod} -> Users \cup {0}]
BY DEF VMTypes, Push

LEMMA FreeFrameKeeps ==
    ASSUME VMTypes, FrameInv, SpaceInv, NEW t \in Users, FreeFrame(t)
    PROVE  VMTypes' /\ FrameInv' /\ SpaceInv'
<1> DEFINE s == space[t]
           q == Page(t)
           f == job[t].seen.to
<1>0. UserInv(t) /\ CallOf(t) /\ Progress(t) /\ RegionInv /\ ZfodInv
  BY DEF SpaceInv, UserInv
<1>1. /\ upc[t] = "free_frame" /\ job[t].todo # {} /\ s \in Spaces
      /\ Push(f) /\ UserGoto(t, "free_clear")
      /\ UNCHANGED <<spaceVars, space, job>>
  BY <1>0, InSpace DEF FreeFrame, CallOf
<1>2. q \in job[t].todo /\ q \in Pages /\ Entry(t) = pte[s][q]
  BY <1>1, EntryIs
<1>3. pte[s][q].to = f /\ f \in Frames /\ Entry(t) = job[t].seen
  BY <1>0, <1>1, <1>2 DEF Progress
<1>4. ~Pushed(s, q) /\ (q \in Works(t) \/ job[t].call = "exit")
  BY <1>1, <1>2, FreedAlone
<1>5. Min(job'[t].todo) = q
  BY <1>1 DEF Page
<1> HIDE DEF f, q, Entry
<1>6. /\ upc'[t] = "free_clear" /\ \A u \in Users : u # t => upc'[u] = upc[u]
      /\ upc' \in [Users -> UserPCs]
  BY <1>1, GotoOthers DEF UserPCs
<1>7. OthersSame(t) /\ space'[t] = space[t] /\ job' = job
  BY <1>1, <1>6 DEF OthersSame, Same
<1>9. pte' = pte /\ tbl' = tbl /\ regions' = regions /\ lock' = lock
  BY <1>1 DEF spaceVars
<1>8. \A r, p : Pushed(r, p)' <=> Pushed(r, p) \/ (r = s /\ p = q)
  <2>1. job'[t].seen.to = pte'[s][q].to
    BY <1>3, <1>7, <1>9 DEF f
  <2>2. \A r, p : Pushed(r, p)' <=> Pushed(r, p) \/
            /\ upc'[t] = "free_clear" /\ space'[t] = r /\ Min(job'[t].todo) = p
            /\ job'[t].seen.to = pte'[r][p].to
    BY <1>1, <1>7, <1>9, PushedBy
  <2> HIDE DEF Pushed
  <2> QED BY <1>1, <1>5, <1>6, <1>7, <2>1, <2>2
<1> HIDE DEF Pushed
<1>10. FrameInv'
  <2>1. PICK r \in Spaces, p \in Pages, g \in Frames : r = s /\ p = q /\ g = f
    BY <1>1, <1>2, <1>3
  <2>2. PageFrame(r, p) = g
    BY <1>3, <1>4, <2>1 DEF PageFrame
  <2>3. PageFrame(r, p)' = Nil
    BY <1>8, <2>1 DEF PageFrame
  <2>4. \A v \in Spaces, w \in Pages :
           <<v, w>> # <<r, p>> => PageFrame(v, w)' = PageFrame(v, w)
    BY <1>8, <1>9, <2>1 DEF PageFrame
  <2>5. ASSUME NEW u \in Users PROVE CopiedFrame(u)' = CopiedFrame(u)
    BY <1>1, <1>6, <1>7, CopiesStay DEF OthersSame
  <2>6. Push(g) /\ PageFrame(r, p)' \notin Frames
    BY <1>1, <2>1, <2>3, VMSizes
  <2>7. \A v \in Spaces, k \in Tomes : TableFrame(v, k)' = TableFrame(v, k)
    BY <1>1, <1>6, <1>7, <1>9, TablesKeepFrames DEF OthersSame
  <2> HIDE DEF PageFrame, TableFrame, CopiedFrame, Push
  <2> QED BY <2>7, <2>2, <2>4, <2>5, <2>6, PageLeaves
<1>11. VMTypes'
  <2>1. /\ next' \in [Frames -> Frames \cup {Nil}]
        /\ rest' \in [Frames \cup {Zfod} -> Users \cup {0}]
    BY <1>1, <1>3, PushTypes
  <2> QED BY <1>1, <1>6, <1>9, <1>10, <2>1, TypesStep DEF VMTypes
<1>12. UserInv(t)'
  <2>1. Entry(t)' = job'[t].seen
    BY <1>3, <1>7, <1>9 DEF Entry, Page
  <2> QED BY <2>1, <1>1, <1>6, <1>7, <1>9, FreeGoesOn DEF FreePCs
<1>13. ZfodInv'
  BY <1>0, <1>8, <1>9 DEF ZfodInv
<1>14. RegionInv'
  <2>1. \A r \in Spaces, p \in Pages : Excused(t, r, p) => Excused(t, r, p)'
    BY <1>1, <1>6, <1>7 DEF Excused
  <2> HIDE DEF Excused
  <2> QED BY <1>0, <1>7, <1>9, <2>1, RegionsKept
<1>15. SpaceInv'
  <2>1. Works(t)' \subseteq Works(t)
    BY <1>7 DEF Works
  <2>2. \A u \in Users \ {t} : space[u] = space[t] => Works(t)' \cap Works(u) = {}
    BY <1>1, <2>1, TouchesLess
  <2> HIDE DEF Works, UserInv
  <2> QED BY <1>1, <1>6, <1>7, <1>9, <1>12, <1>13, <1>14, <2>2, OwnStep
<1> QED BY <1>10, <1>11, <1>15

LEMMA FreeClearKeeps ==
    ASSUME VMTypes, FrameInv, SpaceInv, NEW t \in Users, FreeClear(t)
    PROVE  VMTypes' /\ FrameInv' /\ SpaceInv'
<1> DEFINE s == space[t]
           q == Page(t)
           j == [job[t] EXCEPT !.todo = @ \ {q}, !.seen = Absent]
<1>0. UserInv(t) /\ CallOf(t) /\ Progress(t) /\ RegionInv /\ ZfodInv /\ job[t] \in Jobs
  BY DEF SpaceInv, UserInv, VMTypes
<1>1. /\ upc[t] = "free_clear" /\ job[t].todo # {} /\ s \in Spaces
      /\ pte' = [pte EXCEPT ![s][q] = Absent]
      /\ job' = [job EXCEPT ![t] = j]
      /\ UserGoto(t, "free_look")
      /\ UNCHANGED <<frameVars, tbl, regions, lock, space>>
  BY <1>0, InSpace DEF FreeClear, CallOf
<1>2. q \in job[t].todo /\ q \in Pages /\ Min(job[t].todo) = q
  BY <1>1, EntryIs DEF Page
<1>3. job[t].call \in {"new", "remove", "exit"}
  BY <1>0, <1>1 DEF CallOf, FreePCs
<1>4. q \in Works(t) \/ job[t].call = "exit"
  BY <1>0, <1>2, <1>3 DEF CallOf, Works
<1>5. /\ j \in Jobs /\ j.todo = job[t].todo \ {q} /\ j.call = job[t].call
      /\ j.reg = job[t].reg /\ j.child = job[t].child
  BY <1>0, JobNone DEF Jobs
<1> HIDE DEF j, q
<1>6. /\ pte'[s][q] = Absent
      /\ \A r \in Spaces, p \in Pages : <<r, p>> # <<s, q>> => pte'[r][p] = pte[r][p]
      /\ pte' \in [Spaces -> [Pages -> Entries]]
  <2>1. Absent \in Entries
    BY JobNone
  <2>2. s \in Spaces /\ q \in Pages /\ pte' = [pte EXCEPT ![s][q] = Absent]
    BY <1>1, <1>2
  <2>3. pte \in [Spaces -> [Pages -> Entries]]
    BY DEF VMTypes
  <2> QED BY <2>1, <2>2, <2>3
<1>7. job'[t] = j /\ job' \in [Users -> Jobs] /\ \A u \in Users : u # t => job'[u] = job[u]
  BY <1>1, <1>5 DEF VMTypes
<1>8. /\ upc'[t] = "free_look" /\ \A u \in Users : u # t => upc'[u] = upc[u]
      /\ upc' \in [Users -> UserPCs]
  BY <1>1, GotoOthers DEF UserPCs
<1>9. OthersSame(t) /\ space'[t] = space[t]
  BY <1>1, <1>7, <1>8 DEF OthersSame, Same
<1>10. /\ Pushed(s, q)
       /\ \A r \in Spaces, p \in Pages : ~(r = s /\ p = q) => (Pushed(r, p)' <=> Pushed(r, p))
  <2>1. job[t].seen.to = pte[s][q].to
    BY <1>0, <1>1 DEF Progress, Entry, q
  <2>2. \A u \in Users \ {t} : upc'[u] = upc[u] /\ space'[u] = space[u] /\ job'[u] = job[u]
    BY <1>9 DEF OthersSame, Same
  <2>3. Pushed(s, q)
    BY <1>1, <1>2, <2>1 DEF Pushed, Page
  <2>4. ASSUME NEW r \in Spaces, NEW p \in Pages, ~(r = s /\ p = q) PROVE Pushed(r, p)' <=> Pushed(r, p)
    <3>1. pte'[r][p] = pte[r][p]
      BY <1>6, <2>4
    <3>2. ~(upc'[t] = "free_clear") /\ ~(space[t] = r /\ Page(t) = p)
      BY <1>2, <1>8, <2>4 DEF Page
    <3>3. \A u \in Users \ {t} : Page(u)' = Page(u)
      BY <2>2 DEF Page
    <3> HIDE DEF Page
    <3> QED BY <2>2, <3>1, <3>2, <3>3 DEF Pushed
  <2> QED BY <2>3, <2>4
<1> HIDE DEF Pushed
<1>11. FrameInv'
  <2>1. \A r \in Spaces, p \in Pages : PageFrame(r, p)' = PageFrame(r, p)
                \/ (PageFrame(r, p) \notin Frames /\ PageFrame(r, p)' \notin Frames)
    BY <1>6, <1>10, AbsentIs, VMSizes DEF PageFrame
  <2>2. ASSUME NEW u \in Users PROVE CopiedFrame(u)' = CopiedFrame(u)
    BY <1>1, <1>8, <1>9, CopiesStay DEF OthersSame
  <2>3. UNCHANGED listVars /\ tbl' = tbl /\ rest' = rest
    BY <1>1 DEF frameVars
  <2>4. \A r \in Spaces, k \in Tomes : TableFrame(r, k)' = TableFrame(r, k)
    BY <1>1, <1>8, <1>9, <2>3, TablesKeepFrames DEF OthersSame
  <2> HIDE DEF PageFrame, TableFrame, CopiedFrame
  <2> QED BY <2>1, <2>2, <2>3, <2>4, FramesStay
<1>12. VMTypes'
  BY <1>1, <1>6, <1>7, <1>8, <1>11, TypesStep DEF VMTypes, frameVars, listVars
<1>13. UserInv(t)'
  <2>1. \A p \in Pages : p \in job[t].todo \ job'[t].todo \/ pte[space[t]][p] = Absent =>
              pte'[space[t]][p] = Absent
    BY <1>1, <1>5, <1>6, <1>7
  <2> QED BY <1>1, <1>5, <1>7, <1>8, <1>9, <2>1, FreeGoesOn DEF FreePCs
<1>14. ZfodInv'
  <2>1. ASSUME NEW r \in Spaces, NEW p \in Pages, pte'[r][p].to = Zfod, pte'[r][p].rw
        PROVE  Pushed(r, p)'
    <3>1. ~(r = s /\ p = q)
      BY <1>6, <2>1, AbsentIs
    <3> QED BY <1>0, <1>6, <1>10, <2>1, <3>1 DEF ZfodInv
  <2> QED BY <2>1 DEF ZfodInv
<1>15. RegionInv'
  <2>1. \A r \in Spaces, p \in Pages : pte'[r][p] # Absent => pte[r][p] # Absent
    BY <1>6
  <2>2. \A r \in Spaces, p \in Pages : r = s /\ p = q => Excused(t, r, p)'
    BY <1>0, <1>2, <1>3, <1>5, <1>7, <1>9 DEF Excused, CallOf
  <2>3. \A r \in Spaces, p \in Pages : Excused(t, r, p) => Excused(t, r, p)'
    BY <1>1, <1>5, <1>7, <1>9 DEF Excused
  <2> HIDE DEF Excused
  <2>4. \A r \in Spaces, p \in Pages :
           pte[r][p] # Absent \/ Excused(t, r, p) => pte'[r][p] # Absent \/ Excused(t, r, p)'
    BY <1>1, <1>2, <1>6, <2>2, <2>3
  <2> QED BY <1>0, <1>1, <1>9, <2>1, <2>4, RegionsKept
<1>16. SpaceInv'
  <2>1. Works(t)' \subseteq Works(t)
    BY <1>3, <1>5, <1>7 DEF Works
  <2>2. \A u \in Users \ {t} : space[u] = space[t] => Works(t)' \cap Works(u) = {}
    BY <1>1, <2>1, TouchesLess
  <2>3. \A r \in Spaces, p \in Pages : pte'[r][p] = pte[r][p]
               \/ (r = space[t] /\ (p \in Works(t) \/ job[t].call = "exit"))
    BY <1>4, <1>6
  <2>4. /\ job'[t].call = job[t].call /\ job'[t].child = job[t].child /\ regions' = regions
        /\ lock' = lock /\ upc[t] # "nascent" /\ upc'[t] # "nascent"
    BY <1>1, <1>5, <1>7, <1>8
  <2> HIDE DEF Works, UserInv
  <2> QED BY <1>9, <1>13, <1>14, <1>15, <2>2, <2>3, <2>4, OwnStep
<1> QED BY <1>11, <1>12, <1>16

LEMMA PagesFreedKeeps ==
    ASSUME VMTypes, FrameInv, SpaceInv, NEW t \in Users, PagesFreed(t)
    PROVE  VMTypes' /\ FrameInv' /\ SpaceInv'
<1>0. UserInv(t) /\ CallOf(t) /\ job[t] \in Jobs
  BY DEF SpaceInv, UserInv, VMTypes
<1>1. PICK q \in Tables(t) : job' = [job EXCEPT ![t].tabs = q]
  BY DEF PagesFreed
<1>2. /\ upc[t] = "free_look" /\ job[t].todo = {} /\ space[t] \in Spaces
      /\ UserGoto(t, "tables") /\ UNCHANGED <<frameVars, spaceVars, space>>
  BY InSpace DEF PagesFreed
<1>3. q \in Seq(Tomes)
  <2>1. CASE job[t].call = "exit"
    BY <1>1, <2>1, AllTablesAre DEF Tables
  <2>2. CASE job[t].call # "exit"
    <3>1. job[t].reg \in Regions
      BY <1>0, <1>2, <2>2 DEF CallOf, FreePCs
    <3> QED BY <1>1, <2>2, <3>1, OwnTablesAre DEF Tables
  <2> QED BY <2>1, <2>2
<1>4. /\ job'[t].call = job[t].call /\ job'[t].reg = job[t].reg /\ job'[t].child = job[t].child
      /\ job'[t].todo = job[t].todo
      /\ \A u \in Users : u # t => job'[u] = job[u]
      /\ job' \in [Users -> Jobs]
  <2>1. [job[t] EXCEPT !.tabs = q] \in Jobs
    BY <1>0, <1>3 DEF Jobs
  <2>2. job'[t] = [job[t] EXCEPT !.tabs = q] /\ job \in [Users -> Jobs]
    BY <1>1 DEF VMTypes
  <2> QED BY <1>0, <1>1, <2>1, <2>2 DEF Jobs
<1>5. /\ upc'[t] = "tables" /\ \A u \in Users : u # t => upc'[u] = upc[u]
      /\ upc' \in [Users -> UserPCs]
  BY <1>2, GotoOthers DEF UserPCs
<1>6. OthersSame(t) /\ space'[t] = space[t] /\ UNCHANGED <<frameVars, pte, tbl, regions, lock>>
  BY <1>2, <1>4, <1>5 DEF OthersSame, Same, spaceVars
<1>7. UserInv(t)'
  BY <1>2, <1>4, <1>5, <1>6, FreeGoesOn DEF FreePCs
<1>8. FrameInv' /\ SpaceInv'
  BY <1>2, <1>4, <1>5, <1>6, <1>7, QuietStep DEF HoldPCs
<1>9. VMTypes'
  BY <1>2, <1>4, <1>5, <1>8, TypesStep DEF VMTypes, spaceVars, frameVars, listVars
<1> QED BY <1>8, <1>9

(* A step that a panic ends, or what memory holds in its place.            *)
LEMMA EndsHere ==
    ASSUME NEW t \in Users, upc'[t] \in {"panic", "wild", "astray", "copy_failed"}
    PROVE  Stopped'
BY DEF Stopped

LEMMA FreeTableKeeps ==
    ASSUME VMTypes, FrameInv, SpaceInv, NEW t \in Users, FreeTable(t)
    PROVE  VMTypes' /\ FrameInv' /\ (~Stopped' => SpaceInv')
<1> DEFINE s == space[t]
           k == Head(job[t].tabs)
           f == tbl[s][k]
<1>0. UserInv(t) /\ CallOf(t) /\ RegionInv /\ ZfodInv /\ job[t] \in Jobs
  BY DEF SpaceInv, UserInv, VMTypes
<1>1. /\ upc[t] = "tables" /\ job[t].tabs # <<>> /\ s \in Spaces
      /\ UNCHANGED <<pte, tbl, regions, lock, space, job>>
  BY InSpace DEF FreeTable, spaceVars
<1>2. k \in Tomes
  BY <1>0, <1>1 DEF Jobs
<1>3. CASE /\ UserGoto(t, IF f = Nil THEN "wild" ELSE "panic")
           /\ UNCHANGED frameVars
  <2>1. /\ upc'[t] = (IF f = Nil THEN "wild" ELSE "panic") /\ upc' \in [Users -> UserPCs]
        /\ \A u \in Users : u # t => upc'[u] = upc[u]
    BY <1>3, GotoOthers DEF UserPCs
  <2>2. OthersSame(t)
    BY <1>1, <1>3, <2>1 DEF OthersSame, Same
  <2>3. \A u \in Users : Same(u) \/ (upc[u] \notin HoldPCs /\ upc'[u] \notin HoldPCs)
    BY <1>1, <2>1, <2>2 DEF OthersSame, HoldPCs
  <2>4. FrameInv'
    BY <1>1, <1>3, <2>3, FramesAside
  <2>5. VMTypes'
    BY <1>1, <1>3, <2>1, <2>4, TypesStep DEF VMTypes, frameVars, listVars
  <2>6. Stopped'
    BY <2>1, EndsHere
  <2> QED BY <2>4, <2>5, <2>6
<1>4. CASE f # Nil /\ Push(f) /\ UserGoto(t, "table_clear")
  <2>1. f \in Frames
    BY <1>1, <1>2, <1>4 DEF VMTypes
  <2> HIDE DEF k
  <2>2. /\ upc'[t] = "table_clear" /\ upc' \in [Users -> UserPCs]
        /\ \A u \in Users : u # t => upc'[u] = upc[u]
    BY <1>4, GotoOthers DEF UserPCs
  <2>3. OthersSame(t) /\ space'[t] = space[t] /\ job' = job
    BY <1>1, <2>2 DEF OthersSame, Same
  <2>4. /\ \A r, l : TablePushed(r, l)' <=> TablePushed(r, l) \/ (r = s /\ l = k)
        /\ ~TablePushed(s, k)
    <3>1. \A r, l : TablePushed(r, l)' <=> TablePushed(r, l) \/
             (upc'[t] = "table_clear" /\ space'[t] = r /\ Head(job'[t].tabs) = l)
      BY <1>1, <2>3, TablePushedBy
    <3>2. job[t].call \in {"new", "remove", "exit"}
      BY <1>0, <1>1 DEF CallOf, FreePCs
    <3>3. ~TablePushed(s, k)
      BY <1>1, <3>2, TableNotPushed
    <3> HIDE DEF TablePushed
    <3> QED BY <2>2, <2>3, <3>1, <3>3 DEF k
  <2>5. \A u \in Users : Same(u) \/ (upc[u] # "free_clear" /\ upc'[u] # "free_clear")
    BY <1>1, <2>2, <2>3 DEF OthersSame
  <2>6. FrameInv'
    <3>1. \A r \in Spaces, p \in Pages : PageFrame(r, p)' = PageFrame(r, p)
      BY <1>1, <2>5, PagesStay
    <3>2. ASSUME NEW u \in Users PROVE CopiedFrame(u)' = CopiedFrame(u)
      BY <1>1, <2>2, <2>3, CopiesStay DEF OthersSame
    <3>3. PICK r \in Spaces, l \in Tomes, g \in Frames : r = s /\ l = k /\ g = f
      BY <1>1, <1>2, <2>1 DEF k
    <3> HIDE DEF TablePushed, Push
    <3>4. TableFrame(r, l) = g /\ Push(g) /\ TableFrame(r, l)' \notin Frames
      BY <1>4, <2>4, <3>3, VMSizes DEF TableFrame
    <3>5. \A v \in Spaces, m \in Tomes : <<v, m>> # <<r, l>> => TableFrame(v, m)' = TableFrame(v, m)
      BY <1>1, <2>4, <3>3 DEF TableFrame
    <3> HIDE DEF PageFrame, TableFrame, CopiedFrame
    <3> QED BY <3>1, <3>2, <3>4, <3>5, TableLeaves
  <2>7. VMTypes'
    <3>1. /\ next' \in [Frames -> Frames \cup {Nil}]
          /\ rest' \in [Frames \cup {Zfod} -> Users \cup {0}]
      BY <1>4, <2>1, PushTypes
    <3> QED BY <1>1, <2>2, <2>3, <2>6, <3>1, TypesStep DEF VMTypes
  <2>8. UserInv(t)'
    <3>1. job[t].todo = {}
      BY <1>0, <1>1 DEF CallOf
    <3> QED BY <1>1, <2>2, <2>3, <3>1, FreeGoesOn DEF FreePCs
  <2>9. ZfodInv'
    BY <1>0, <1>1, <2>5, ZfodKept
  <2>10. RegionInv'
    <3>1. \A r \in Spaces, p \in Pages : Excused(t, r, p) => Excused(t, r, p)'
      BY <1>1, <2>2, <2>3 DEF Excused
    <3> HIDE DEF Excused
    <3> QED BY <1>0, <1>1, <2>3, <3>1, RegionsKept
  <2>11. SpaceInv'
    <3>1. Works(t)' \subseteq Works(t)
      BY <2>3 DEF Works
    <3>2. \A u \in Users \ {t} : space[u] = space[t] => Works(t)' \cap Works(u) = {}
      BY <1>1, <3>1, TouchesLess
    <3> HIDE DEF Works, UserInv
    <3> QED BY <1>1, <2>2, <2>3, <2>8, <2>9, <2>10, <3>2, OwnStep
  <2> QED BY <2>6, <2>7, <2>11
<1> QED BY <1>3, <1>4 DEF FreeTable

LEMMA ClearTableKeeps ==
    ASSUME VMTypes, FrameInv, SpaceInv, NEW t \in Users, ClearTable(t)
    PROVE  VMTypes' /\ FrameInv' /\ SpaceInv'
<1> DEFINE s == space[t]
           k == Head(job[t].tabs)
           w == Tail(job[t].tabs)
<1>0. UserInv(t) /\ CallOf(t) /\ Progress(t) /\ RegionInv /\ ZfodInv /\ job[t] \in Jobs
  BY DEF SpaceInv, UserInv, VMTypes
<1>1. /\ upc[t] = "table_clear" /\ job[t].tabs # <<>> /\ job[t].todo = {} /\ s \in Spaces
      /\ tbl' = [tbl EXCEPT ![s][k] = Nil]
      /\ job' = [job EXCEPT ![t].tabs = w]
      /\ UserGoto(t, "tables")
      /\ UNCHANGED <<frameVars, pte, regions, lock, space>>
  BY <1>0, InSpace DEF ClearTable, Progress, CallOf
<1>2. k \in Tomes /\ w \in Seq(Tomes)
  BY <1>0, <1>1 DEF Jobs
<1>3. TablePushed(s, k)
  BY <1>1 DEF TablePushed
<1> HIDE DEF w
<1>4. /\ job'[t].call = job[t].call /\ job'[t].reg = job[t].reg /\ job'[t].child = job[t].child
      /\ job'[t].todo = job[t].todo
      /\ \A u \in Users : u # t => job'[u] = job[u]
      /\ job' \in [Users -> Jobs]
  <2>1. [job[t] EXCEPT !.tabs = w] \in Jobs
    BY <1>0, <1>2 DEF Jobs
  <2>2. job'[t] = [job[t] EXCEPT !.tabs = w] /\ job \in [Users -> Jobs]
    BY <1>1 DEF VMTypes
  <2> QED BY <1>0, <1>1, <2>1, <2>2 DEF Jobs
<1>5. /\ upc'[t] = "tables" /\ upc' \in [Users -> UserPCs]
      /\ \A u \in Users : u # t => upc'[u] = upc[u]
  BY <1>1, GotoOthers DEF UserPCs
<1>6. OthersSame(t) /\ space'[t] = space[t]
  BY <1>1, <1>4, <1>5 DEF OthersSame, Same
<1>7. \A u \in Users : Same(u) \/ (upc[u] # "free_clear" /\ upc'[u] # "free_clear")
  BY <1>1, <1>5, <1>6 DEF OthersSame
<1>8. \A r, l : ~(r = s /\ l = k) => (TablePushed(r, l)' <=> TablePushed(r, l))
  BY <1>1, <1>5, <1>6 DEF TablePushed, OthersSame, Same
<1> HIDE DEF k, TablePushed
<1>9. /\ tbl'[s][k] = Nil
      /\ \A r \in Spaces, l \in Tomes : <<r, l>> # <<s, k>> => tbl'[r][l] = tbl[r][l]
      /\ tbl' \in [Spaces -> [Tomes -> Frames \cup {Nil}]]
  BY <1>1, <1>2 DEF VMTypes
<1>10. FrameInv'
  <2>1. \A r \in Spaces, p \in Pages : PageFrame(r, p)' = PageFrame(r, p)
    BY <1>1, <1>7, PagesStay
  <2>2. ASSUME NEW u \in Users PROVE CopiedFrame(u)' = CopiedFrame(u)
    BY <1>1, <1>5, <1>6, CopiesStay DEF OthersSame
  <2>3. \A r \in Spaces, l \in Tomes : TableFrame(r, l)' = TableFrame(r, l)
              \/ (TableFrame(r, l) \notin Frames /\ TableFrame(r, l)' \notin Frames)
    BY <1>3, <1>8, <1>9, VMSizes DEF TableFrame
  <2>4. UNCHANGED listVars /\ rest' = rest
    BY <1>1 DEF frameVars
  <2> HIDE DEF PageFrame, TableFrame, CopiedFrame
  <2> QED BY <2>1, <2>2, <2>3, <2>4, FramesStay
<1>11. VMTypes'
  BY <1>1, <1>4, <1>5, <1>9, <1>10, TypesStep DEF VMTypes, frameVars, listVars
<1>12. UserInv(t)'
  BY <1>1, <1>4, <1>5, <1>6, FreeGoesOn DEF FreePCs
<1>13. ZfodInv'
  BY <1>0, <1>1, <1>7, ZfodKept
<1>14. RegionInv'
  <2>1. \A r \in Spaces, p \in Pages : Excused(t, r, p) => Excused(t, r, p)'
    BY <1>1, <1>4, <1>5, <1>6 DEF Excused
  <2> HIDE DEF Excused
  <2> QED BY <1>0, <1>1, <1>6, <2>1, RegionsKept
<1>15. SpaceInv'
  <2>1. Works(t)' \subseteq Works(t)
    BY <1>4 DEF Works
  <2>2. \A u \in Users \ {t} : space[u] = space[t] => Works(t)' \cap Works(u) = {}
    BY <1>1, <2>1, TouchesLess
  <2> HIDE DEF Works, UserInv
  <2> QED BY <1>1, <1>4, <1>5, <1>6, <1>12, <1>13, <1>14, <2>2, OwnStep
<1> QED BY <1>10, <1>11, <1>15

LEMMA RemovedApart ==
    ASSUME NEW rs \in Seq(Regions), NEW r, Disjoint(rs)
    PROVE  /\ RemoveFirst(rs, r) \in Seq(Regions)
           /\ Disjoint(RemoveFirst(rs, r))
           /\ \A i \in DOMAIN rs : rs[i] = r \/ \E j \in DOMAIN RemoveFirst(rs, r) :
                 RemoveFirst(rs, r)[j] = rs[i]
           /\ \A j \in DOMAIN RemoveFirst(rs, r) : \E i \in DOMAIN rs : RemoveFirst(rs, r)[j] = rs[i]
           /\ (\E i \in DOMAIN rs : rs[i] = r) =>
                 \A j \in DOMAIN RemoveFirst(rs, r) : PagesOf(RemoveFirst(rs, r)[j]) \cap PagesOf(r) = {}
<1>1. Len(rs) \in Nat /\ DOMAIN rs = 1 .. Len(rs)
  OBVIOUS
<1>2. CASE ~\E i \in DOMAIN rs : rs[i] = r
  <2>1. RemoveFirst(rs, r) = rs
    BY <1>1, <1>2 DEF RemoveFirst
  <2> QED BY <1>2, <2>1
<1>3. CASE \E i \in DOMAIN rs : rs[i] = r
  <2> DEFINE R == RemoveFirst(rs, r)
  <2>1. r \in ToSet(rs)
    BY <1>3 DEF ToSet
  <2>2. PICK k \in 1 .. Len(rs) :
            /\ rs[k] = r /\ R \in Seq(Regions) /\ Len(R) = Len(rs) - 1
            /\ \A i \in 1 .. Len(rs) - 1 : R[i] = rs[IF i < k THEN i ELSE i + 1]
    BY <2>1, RemoveShifts
  <2> HIDE DEF R
  <2>3. DOMAIN R = 1 .. Len(rs) - 1
    BY <2>2
  <2>4. ASSUME NEW j \in DOMAIN R
        PROVE  \E i \in DOMAIN rs : R[j] = rs[i] /\ i # k /\ i = (IF j < k THEN j ELSE j + 1)
    <3>1. R[j] = rs[IF j < k THEN j ELSE j + 1]
      BY <2>2, <2>3
    <3>2. (IF j < k THEN j ELSE j + 1) \in DOMAIN rs /\ (IF j < k THEN j ELSE j + 1) # k
      BY <1>1, <2>3
    <3> QED BY <3>1, <3>2
  <2>5. ASSUME NEW i \in DOMAIN rs, rs[i] # r PROVE \E j \in DOMAIN R : R[j] = rs[i]
    <3>1. CASE i < k
      <4>1. i \in 1 .. Len(rs) - 1 /\ R[i] = rs[i]
        BY <1>1, <2>2, <3>1
      <4> QED BY <2>3, <4>1
    <3>2. CASE ~(i < k)
      <4>1. i # k
        BY <2>2, <2>5
      <4>2. i - 1 \in 1 .. Len(rs) - 1 /\ ~(i - 1 < k) /\ i - 1 + 1 = i
        BY <1>1, <2>2, <3>2, <4>1
      <4>3. R[i - 1] = rs[i]
        BY <2>2, <4>2
      <4> QED BY <2>3, <4>2, <4>3
    <3> QED BY <3>1, <3>2
  <2>6. ASSUME NEW j \in DOMAIN R PROVE PagesOf(R[j]) \cap PagesOf(r) = {}
    <3>1. PICK i \in DOMAIN rs : R[j] = rs[i] /\ i # k
      BY <2>4
    <3> QED BY <1>1, <2>2, <3>1 DEF Disjoint
  <2>7. ASSUME NEW i \in DOMAIN R, NEW j \in DOMAIN R, i # j
        PROVE  PagesOf(R[i]) \cap PagesOf(R[j]) = {}
    <3>1. PICK x \in DOMAIN rs : R[i] = rs[x] /\ x = (IF i < k THEN i ELSE i + 1)
      BY <2>4
    <3>2. PICK y \in DOMAIN rs : R[j] = rs[y] /\ y = (IF j < k THEN j ELSE j + 1)
      BY <2>4
    <3>3. x # y
      BY <1>1, <2>3, <2>7, <3>1, <3>2
    <3> QED BY <3>1, <3>2, <3>3 DEF Disjoint
  <2>8. Disjoint(R)
    BY <2>7 DEF Disjoint
  <2>9. \A j \in DOMAIN R : \E i \in DOMAIN rs : R[j] = rs[i]
    BY <2>4
  <2> QED BY <2>2, <2>5, <2>6, <2>8, <2>9 DEF R
<1> QED BY <1>2, <1>3

LEMMA RegionFreedKeeps ==
    ASSUME VMTypes, FrameInv, SpaceInv, NEW t \in Users, RegionFreed(t)
    PROVE  VMTypes' /\ FrameInv' /\ (~Stopped' => SpaceInv')
<1>0. UserInv(t) /\ CallOf(t) /\ Held(t) /\ Progress(t) /\ RegionInv /\ ZfodInv /\ job[t] \in Jobs
  BY DEF SpaceInv, UserInv, VMTypes
<1>1. PICK s \in Spaces : s = space[t]
  BY InSpace DEF RegionFreed
<1>a. PICK r : r = job[t].reg
  OBVIOUS
<1>b. PICK rs : rs = regions[s]
  OBVIOUS
<1> DEFINE R == RemoveFirst(rs, r)
           label == IF job[t].call = "remove" /\ EmptyTable(s) THEN "panic" ELSE "out"
<1>2. /\ upc[t] = "tables" /\ job[t].call \in {"new", "remove"}
      /\ regions' = [regions EXCEPT ![s] = R]
      /\ lock' = [lock EXCEPT ![s] = Nil]
      /\ job' = [job EXCEPT ![t] = NoJob]
      /\ UserGoto(t, label)
      /\ UNCHANGED <<frameVars, pte, tbl, space>>
  BY <1>1, <1>a, <1>b DEF RegionFreed
<1>3. /\ job[t].todo = {} /\ r \in Regions
      /\ PagesOf(r) \subseteq Pages
      /\ \A p \in PagesOf(r) : pte[s][p] = Absent
      /\ job[t].child = Nil
  BY <1>0, <1>1, <1>2, <1>a, PagesOfAre DEF CallOf, Progress, FreePCs, CopyPCs
<1>4. rs \in Seq(Regions) /\ Disjoint(rs)
  BY <1>0, <1>b DEF VMTypes, RegionInv, Disjoint
<1>5. /\ R \in Seq(Regions) /\ Disjoint(R)
      /\ \A i \in DOMAIN rs : rs[i] = r \/ \E j \in DOMAIN R : R[j] = rs[i]
      /\ \A j \in DOMAIN R : \E i \in DOMAIN rs : R[j] = rs[i]
      /\ (\E i \in DOMAIN rs : rs[i] = r) =>
            \A j \in DOMAIN R : PagesOf(R[j]) \cap PagesOf(r) = {}
  <2>1. R \in Seq(Regions) /\ Disjoint(R)
    BY <1>4, RemovedApart
  <2>2. \A i \in DOMAIN rs : rs[i] = r \/ \E j \in DOMAIN R : R[j] = rs[i]
    BY <1>4, RemovedApart
  <2>3. \A j \in DOMAIN R : \E i \in DOMAIN rs : R[j] = rs[i]
    BY <1>4, RemovedApart
  <2>4. (\E i \in DOMAIN rs : rs[i] = r) =>
            \A j \in DOMAIN R : PagesOf(R[j]) \cap PagesOf(r) = {}
    BY <1>4, RemovedApart
  <2> QED BY <2>1, <2>2, <2>3, <2>4
<1>6. \A j \in DOMAIN R : PagesOf(R[j]) \cap PagesOf(r) = {}
  <2>1. CASE PagesOf(r) = {}
    BY <2>1
  <2>2. CASE PagesOf(r) # {}
    <3>1. \E i \in DOMAIN rs : rs[i] = r
      BY <1>0, <1>1, <1>2, <1>a, <1>b, <2>2 DEF Held
    <3> QED BY <1>5, <3>1
  <2> QED BY <2>1, <2>2
<1> HIDE DEF R
<1>7. /\ regions'[s] = R /\ \A v \in Spaces : v # s => regions'[v] = regions[v]
      /\ regions' \in [Spaces -> Seq(Regions)] /\ lock' \in [Spaces -> Users \cup {Nil}]
  BY <1>2, <1>5 DEF VMTypes
<1>8. /\ upc'[t] = label /\ \A u \in Users : u # t => upc'[u] = upc[u] /\ job'[u] = job[u]
      /\ job'[t] = NoJob /\ job' \in [Users -> Jobs] /\ upc' \in [Users -> UserPCs]
  <2>1. label \in UserPCs
    BY DEF UserPCs
  <2> HIDE DEF label
  <2> QED BY <1>2, <2>1, JobNone, GotoOthers DEF VMTypes
<1>9. OthersSame(t) /\ space'[t] = s
  BY <1>1, <1>2, <1>8 DEF OthersSame, Same
<1>10. \A u \in Users : Same(u) \/ (upc[u] \notin HoldPCs /\ upc'[u] \notin HoldPCs)
  BY <1>2, <1>8, <1>9 DEF OthersSame, HoldPCs
<1>11. FrameInv'
  BY <1>2, <1>10, FramesAside
<1>12. VMTypes'
  BY <1>2, <1>7, <1>8, <1>11, TypesStep DEF VMTypes, frameVars, listVars
<1>13. ZfodInv'
  <2>1. \A u \in Users : Same(u) \/ (upc[u] # "free_clear" /\ upc'[u] # "free_clear")
    BY <1>10 DEF HoldPCs
  <2> QED BY <1>0, <1>2, <2>1, ZfodKept
<1>14. RegionInv'
  <2>1. \A v \in Spaces, p \in Pages : \A u \in Users \ {t} : Excused(u, v, p) => Excused(u, v, p)'
    BY <1>9 DEF Excused, OthersSame, Same
  <2>2. \A v \in Spaces, p \in Pages : Excused(t, v, p) => v = s /\ p \in PagesOf(r)
    BY <1>1, <1>2, <1>3, <1>a, VMSizes DEF Excused
  <2> HIDE DEF Excused
  <2>3. ASSUME NEW v \in Spaces
        PROVE  \A i, k \in DOMAIN regions'[v] :
                  i # k => PagesOf(regions'[v][i]) \cap PagesOf(regions'[v][k]) = {}
    BY <1>0, <1>5, <1>7, <1>b DEF RegionInv, Disjoint
  <2>4. ASSUME NEW v \in Spaces, NEW p \in Pages, pte'[v][p] # Absent
        PROVE  \E i \in DOMAIN regions'[v] : p \in PagesOf(regions'[v][i])
    <3>1. PICK i \in DOMAIN regions[v] : p \in PagesOf(regions[v][i])
      BY <1>0, <1>2, <2>4 DEF RegionInv
    <3>2. CASE v = s
      <4>1. rs[i] # r
        BY <1>2, <1>3, <1>b, <2>4, <3>1, <3>2
      <4>2. PICK k \in DOMAIN R : R[k] = rs[i]
        BY <1>5, <1>b, <3>1, <3>2, <4>1
      <4> QED BY <1>7, <1>b, <3>1, <3>2, <4>2
    <3>3. CASE v # s
      BY <1>7, <3>1, <3>3
    <3> QED BY <3>2, <3>3
  <2>5. ASSUME NEW v \in Spaces, NEW i \in DOMAIN regions'[v], NEW p \in PagesOf(regions'[v][i])
        PROVE  pte'[v][p] # Absent \/ \E u \in Users : Excused(u, v, p)'
    <3>1. regions'[v][i] \in Regions
      BY <1>7
    <3>2. p \in Pages
      BY <3>1, PagesOfAre
    <3>3. PICK k \in DOMAIN regions[v] : regions'[v][i] = regions[v][k]
      BY <1>5, <1>7, <1>b
    <3>4. ~Excused(t, v, p)
      BY <1>6, <1>7, <2>2, <3>2
    <3>5. pte[v][p] # Absent \/ \E u \in Users : Excused(u, v, p)
      BY <1>0, <3>3 DEF RegionInv
    <3> QED BY <1>2, <2>1, <3>2, <3>4, <3>5
  <2> QED BY <2>3, <2>4, <2>5 DEF RegionInv
<1>15. ASSUME upc'[t] # "panic" PROVE SpaceInv'
  <2>1. upc'[t] = "out"
    BY <1>8, <1>15
  <2>2. /\ UserInv(t)' /\ Works(t)' = {}
        /\ job'[t].call = "none" /\ job'[t].child = Nil /\ job'[t].todo = {}
    BY <1>8, <1>9, <2>1, OutIs
  <2>3. \A i \in DOMAIN regions[space[t]] :
           \/ PagesOf(regions[space[t]][i]) \subseteq Works(t)
           \/ \E k \in DOMAIN regions'[space[t]] : regions'[space[t]][k] = regions[space[t]][i]
    <3>1. Works(t) = PagesOf(r)
      BY <1>2, <1>a DEF Works
    <3> HIDE DEF Works
    <3> QED BY <1>1, <1>5, <1>7, <1>b, <3>1
  <2> HIDE DEF Works, UserInv
  <2>4. \A v \in Spaces : regions'[v] = regions[v] \/ v = space[t]
    BY <1>1, <1>7
  <2>5. space'[t] = space[t] /\ pte' = pte /\ upc[t] # "nascent" /\ upc'[t] # "nascent"
    BY <1>2, <2>1
  <2>6. \A v \in Spaces : lock'[v] = lock[v] \/ (v = space[t] /\ lock[v] \in {t, Nil})
    <3>1. lock[s] = t
      BY <1>0, <1>1, <1>2 DEF UserInv, Owner
    <3>2. \A v \in Spaces : v # s => lock'[v] = lock[v]
      BY <1>2 DEF VMTypes
    <3> QED BY <1>1, <3>1, <3>2
  <2> QED BY <1>9, <1>13, <1>14, <2>2, <2>3, <2>4, <2>5, <2>6, OwnStep
<1> QED BY <1>11, <1>12, <1>15 DEF Stopped

-----------------------------------------------------------------------------
(* Threads and spaces that come and go *)

(* A thread that leaves its space with nothing left to do. *)
LEMMA LeaveKeeps ==
    ASSUME VMTypes, FrameInv, SpaceInv, NEW t \in Users, Leave(t),
           UNCHANGED <<frameVars, pte, tbl, lock>>,
           upc[t] \notin HoldPCs \cup CopyPCs \cup {"absent", "nascent"},
           \A s \in Spaces : regions'[s] = regions[s] \/ s = space[t],
           regions' \in [Spaces -> Seq(Regions)],
           regions' = regions \/ job[t].call = "exit",
           RegionInv'
    PROVE  VMTypes' /\ FrameInv' /\ SpaceInv'
<1>0. UserInv(t) /\ CallOf(t) /\ ZfodInv /\ space[t] \in Spaces
  BY InSpace DEF SpaceInv, UserInv
<1>1. /\ upc'[t] = "absent" /\ job'[t] = NoJob /\ space'[t] = Nil
      /\ \A u \in Users : u # t => upc'[u] = upc[u] /\ job'[u] = job[u] /\ space'[u] = space[u]
      /\ upc' \in [Users -> UserPCs] /\ job' \in [Users -> Jobs]
      /\ space' \in [Users -> Spaces \cup {Nil}]
  <2>1. UserGoto(t, "absent") /\ space' = [space EXCEPT ![t] = Nil] /\ job' = [job EXCEPT ![t] = NoJob]
    BY DEF Leave
  <2> QED BY <2>1, JobNone, GotoOthers DEF VMTypes, UserPCs
<1>2. OthersSame(t)
  BY <1>1 DEF OthersSame, Same
<1>3. \A u \in Users : Same(u) \/ (upc[u] \notin HoldPCs /\ upc'[u] \notin HoldPCs)
  BY <1>1, <1>2 DEF OthersSame, HoldPCs
<1>4. FrameInv'
  BY <1>3, FramesAside
<1>5. VMTypes'
  BY <1>1, <1>4, TypesStep DEF VMTypes, frameVars, listVars
<1>6. ZfodInv'
  <2>1. \A u \in Users : Same(u) \/ (upc[u] # "free_clear" /\ upc'[u] # "free_clear")
    BY <1>3 DEF HoldPCs
  <2> QED BY <1>0, <2>1, ZfodKept
<1>7. NoJob.call = "none" /\ NoJob.child = Nil /\ NoJob.todo = {}
  BY DEF NoJob
<1>8. UserInv(t)'
  <2>1. CallOf(t)'
    BY <1>1, <1>7, VMSizes DEF CallOf, FaultPCs, FreePCs, CopyPCs
  <2>2. Held(t)' /\ Owner(t)' /\ Progress(t)' /\ CopyProgress(t)'
    BY <1>1, <1>7 DEF Held, Owner, Progress, CopyProgress, FreePCs, CopyPCs
  <2> QED BY <2>1, <2>2 DEF UserInv
<1>9. ASSUME NEW u \in Users, u # t PROVE Apart(t, u)' /\ Apart(u, t)'
  <2>1. upc'[u] = upc[u] /\ space'[u] = space[u] /\ job'[u] = job[u] /\ job'[t].child = Nil
    BY <1>1, <1>7, <1>9
  <2>2. job[u].child \in Spaces \cup {Nil}
    BY DEF VMTypes, Jobs
  <2>3. Apart(t, u)'
    BY <1>1, <2>1 DEF Apart
  <2>4. Apart(u, t)'
    BY <1>1, <2>1, <2>2 DEF Apart
  <2> QED BY <2>3, <2>4
<1>10. ASSUME NEW u \in Users, u # t PROVE UserInv(u)'
  <2>1. /\ \A s \in Spaces : regions'[s] = regions[s] \/ s = space[t]
        /\ regions' = regions \/ job[t].call = "exit"
        /\ \A s \in Spaces, p \in Pages : pte'[s][p] = pte[s][p]
    OBVIOUS
  <2> HIDE DEF UserInv, Works
  <2> QED BY <1>2, <1>10, <2>1, OthersKept
<1> HIDE DEF UserInv, Apart
<1> QED BY <1>2, <1>4, <1>5, <1>6, <1>8, <1>9, <1>10, SpaceKept

LEMMA VanishKeeps ==
    ASSUME VMTypes, FrameInv, SpaceInv, NEW t \in Users, Vanish(t)
    PROVE  VMTypes' /\ FrameInv' /\ SpaceInv'
<1>0. UserInv(t) /\ CallOf(t) /\ RegionInv /\ job[t] \in Jobs
  BY DEF SpaceInv, UserInv, VMTypes
<1>1. upc[t] \in {"out", "killed"} /\ UNCHANGED <<frameVars, spaceVars>> /\ space[t] \in Spaces
  BY InSpace DEF Vanish
<1>2. job[t].call \in {"none", "fault"} /\ job[t].child = Nil
  BY <1>0, <1>1 DEF CallOf, NoJob, FaultPCs, CopyPCs
<1>3. CASE Peers(t) # {} /\ Leave(t)
  <2>1. RegionInv'
    <3>1. \A s \in Spaces, p \in Pages : ~Excused(t, s, p)
      BY <1>1, <1>2 DEF Excused
    <3>2. OthersSame(t)
      BY <1>3 DEF OthersSame, Same, Leave, UserGoto
    <3> HIDE DEF Excused
    <3> QED BY <1>0, <1>1, <3>1, <3>2, RegionsKept DEF spaceVars
  <2>2. upc[t] \notin HoldPCs \cup CopyPCs \cup {"absent", "nascent"}
    BY <1>1 DEF HoldPCs, CopyPCs
  <2>3. UNCHANGED <<frameVars, pte, tbl, lock>> /\ regions' = regions
    BY <1>1 DEF spaceVars
  <2>4. regions' \in [Spaces -> Seq(Regions)]
    BY <2>3 DEF VMTypes
  <2> QED BY <1>3, <2>1, <2>2, <2>3, <2>4, LeaveKeeps
<1>4. ASSUME Peers(t) = {}, space' = space, UserGoto(t, "free_look"),
             job' = [job EXCEPT ![t] = [NoJob EXCEPT !.call = "exit",
                        !.todo = UNION {PagesOf(r) : r \in ToSet(regions[space[t]])}]]
      PROVE  VMTypes' /\ FrameInv' /\ SpaceInv'
  <2> DEFINE P == UNION {PagesOf(r) : r \in ToSet(regions[space[t]])}
             j == [NoJob EXCEPT !.call = "exit", !.todo = P]
  <2>1. P \subseteq Pages
    <3>1. \A r \in ToSet(regions[space[t]]) : r \in Regions
      BY <1>1 DEF VMTypes, ToSet
    <3> QED BY <3>1, PagesOfAre
  <2>2. \A p \in Pages \ P : pte[space[t]][p] = Absent
    BY <1>0, <1>1 DEF RegionInv, ToSet
  <2> HIDE DEF P
  <2>3. /\ j \in Jobs /\ j.call = "exit" /\ j.todo = P /\ j.child = Nil /\ j.tabs = <<>>
    BY <2>1, JobNone DEF NoJob, Jobs
  <2>4. job' = [job EXCEPT ![t] = j]
    BY <1>4 DEF P
  <2> HIDE DEF j
  <2>5. /\ upc'[t] = "free_look" /\ \A u \in Users : u # t => upc'[u] = upc[u] /\ job'[u] = job[u]
        /\ upc' \in [Users -> UserPCs] /\ job'[t] = j /\ job' \in [Users -> Jobs]
    BY <1>4, <2>3, <2>4, GotoOthers DEF VMTypes, UserPCs
  <2>6. OthersSame(t) /\ space'[t] = space[t]
    BY <1>4, <2>5 DEF OthersSame, Same
  <2>7. \A u \in Users : Same(u) \/ (upc[u] \notin HoldPCs /\ upc'[u] \notin HoldPCs)
    BY <1>1, <2>5, <2>6 DEF OthersSame, HoldPCs
  <2>8. FrameInv'
    BY <1>1, <2>7, FramesAside DEF spaceVars
  <2>9. VMTypes'
    BY <1>1, <1>4, <2>5, <2>8, TypesStep DEF VMTypes, spaceVars, frameVars, listVars
  <2>10. ZfodInv'
    <3>1. \A u \in Users : Same(u) \/ (upc[u] # "free_clear" /\ upc'[u] # "free_clear")
      BY <2>7 DEF HoldPCs
    <3>2. ZfodInv /\ pte' = pte
      BY <1>1 DEF SpaceInv, spaceVars
    <3> QED BY <3>1, <3>2, ZfodKept
  <2>11. RegionInv'
    <3>1. \A s \in Spaces, p \in Pages : ~Excused(t, s, p)
      BY <1>1, <1>2 DEF Excused
    <3> HIDE DEF Excused
    <3> QED BY <1>0, <1>1, <2>6, <3>1, RegionsKept DEF spaceVars
  <2>12. UserInv(t)'
    <3>1. CallOf(t)'
      BY <1>1, <2>3, <2>5, <2>6, VMSizes DEF CallOf, FaultPCs, FreePCs, CopyPCs
    <3>2. Held(t)' /\ Owner(t)' /\ CopyProgress(t)'
      BY <2>3, <2>5 DEF Held, Owner, CopyProgress, CopyPCs
    <3>3. pte' = pte
      BY <1>1 DEF spaceVars
    <3>4. Progress(t)'
      BY <2>2, <2>3, <2>5, <2>6, <3>3 DEF Progress, FreePCs
    <3> QED BY <3>1, <3>2, <3>4 DEF UserInv
  <2>13. ASSUME NEW u \in Users, u # t PROVE Apart(t, u)' /\ Apart(u, t)'
    <3>1. /\ upc'[u] = upc[u] /\ space'[u] = space[u] /\ job'[u] = job[u]
          /\ space[u] # space[t] /\ Apart(u, t) /\ job'[t].child = Nil
      BY <1>4, <2>3, <2>5, <2>6, <2>13 DEF Peers, OthersSame, Same, SpaceInv
    <3>2. job[u].child # Nil => job[u].child # space[t]
      BY <3>1 DEF Apart
    <3>3. job[u].child \in Spaces \cup {Nil}
      BY DEF VMTypes, Jobs
    <3>4. Apart(t, u)'
      BY <2>6, <3>1 DEF Apart
    <3>5. Apart(u, t)'
      BY <2>6, <3>1, <3>2, <3>3 DEF Apart
    <3> QED BY <3>4, <3>5
  <2>14. ASSUME NEW u \in Users, u # t PROVE UserInv(u)'
    <3>1. regions' = regions /\ pte' = pte /\ lock' = lock
      BY <1>1 DEF spaceVars
    <3> HIDE DEF UserInv, Works
    <3> QED BY <2>6, <2>14, <3>1, OthersKept
  <2> HIDE DEF UserInv, Apart
  <2> QED BY <2>6, <2>8, <2>9, <2>10, <2>11, <2>12, <2>13, <2>14, SpaceKept
<1> QED BY <1>3, <1>4 DEF Vanish

LEMMA SpaceFreedKeeps ==
    ASSUME VMTypes, FrameInv, SpaceInv, NEW t \in Users, SpaceFreed(t)
    PROVE  VMTypes' /\ FrameInv' /\ (~Stopped' => SpaceInv')
<1>0. UserInv(t) /\ CallOf(t) /\ Progress(t) /\ RegionInv
  BY DEF SpaceInv, UserInv
<1>1. PICK s \in Spaces : s = space[t]
  BY InSpace DEF SpaceFreed
<1>2. /\ upc[t] = "tables" /\ job[t].call = "exit"
      /\ regions' = [regions EXCEPT ![s] = <<>>]
      /\ IF EmptyTable(s) THEN UserGoto(t, "panic") /\ UNCHANGED <<space, job>> ELSE Leave(t)
      /\ UNCHANGED <<frameVars, pte, tbl, lock>>
  BY <1>1 DEF SpaceFreed
<1>3. /\ regions'[s] = <<>> /\ \A v \in Spaces : v # s => regions'[v] = regions[v]
      /\ regions' \in [Spaces -> Seq(Regions)]
  <2>1. <<>> \in Seq(Regions)
    OBVIOUS
  <2> QED BY <1>2, <2>1 DEF VMTypes
<1>4. job[t].todo = {} /\ job[t].child = Nil /\ \A p \in Pages : pte[s][p] = Absent
  BY <1>0, <1>1, <1>2 DEF CallOf, Progress, FreePCs, CopyPCs
<1>5. CASE EmptyTable(s)
  <2>1. upc'[t] = "panic" /\ upc' \in [Users -> UserPCs]
    BY <1>2, <1>5, GotoOthers DEF UserPCs
  <2>2. \A u \in Users : Same(u) \/ (upc[u] \notin HoldPCs /\ upc'[u] \notin HoldPCs)
    BY <1>2, <1>5, <2>1, GotoOthers DEF Same, HoldPCs
  <2>3. FrameInv'
    BY <1>2, <2>2, FramesAside
  <2>4. VMTypes'
    BY <1>2, <1>3, <1>5, <2>1, <2>3, TypesStep DEF VMTypes, frameVars, listVars
  <2> QED BY <2>1, <2>3, <2>4, EndsHere
<1>6. CASE ~EmptyTable(s)
  <2>1. Leave(t)
    BY <1>2, <1>6
  <2>2. OthersSame(t)
    BY <2>1 DEF OthersSame, Same, Leave, UserGoto
  <2>3. RegionInv'
    <3>1. \A v \in Spaces, p \in Pages : \A u \in Users \ {t} : Excused(u, v, p) => Excused(u, v, p)'
      BY <2>2 DEF Excused, OthersSame, Same
    <3>2. \A v \in Spaces, p \in Pages : Excused(t, v, p) => v = s
      BY <1>1, <1>2, <1>4, VMSizes DEF Excused
    <3> HIDE DEF Excused
    <3>3. DOMAIN regions'[s] = {}
      BY <1>3
    <3>4. ASSUME NEW v \in Spaces
          PROVE  \A i, k \in DOMAIN regions'[v] :
                    i # k => PagesOf(regions'[v][i]) \cap PagesOf(regions'[v][k]) = {}
      BY <1>0, <1>3, <3>3 DEF RegionInv
    <3>5. ASSUME NEW v \in Spaces, NEW p \in Pages, pte'[v][p] # Absent
          PROVE  \E i \in DOMAIN regions'[v] : p \in PagesOf(regions'[v][i])
      BY <1>0, <1>2, <1>3, <1>4, <3>5 DEF RegionInv
    <3>6. ASSUME NEW v \in Spaces, NEW i \in DOMAIN regions'[v], NEW p \in PagesOf(regions'[v][i])
          PROVE  pte'[v][p] # Absent \/ \E u \in Users : Excused(u, v, p)'
      <4>1. v # s
        BY <3>3
      <4>2. regions'[v][i] \in Regions
        BY <1>3
      <4>3. p \in Pages
        BY <4>2, PagesOfAre
      <4>4. pte[v][p] # Absent \/ \E u \in Users : Excused(u, v, p)
        BY <1>0, <1>3, <4>1 DEF RegionInv
      <4> QED BY <1>2, <3>1, <3>2, <4>1, <4>3, <4>4
    <3> QED BY <3>4, <3>5, <3>6 DEF RegionInv
  <2>4. upc[t] \notin HoldPCs \cup CopyPCs \cup {"absent", "nascent"}
    BY <1>2 DEF HoldPCs, CopyPCs
  <2>5. \A v \in Spaces : regions'[v] = regions[v] \/ v = space[t]
    BY <1>1, <1>3
  <2> QED BY <1>2, <1>3, <2>1, <2>3, <2>4, <2>5, LeaveKeeps
<1> QED BY <1>5, <1>6

LEMMA ThreadForkKeeps ==
    ASSUME VMTypes, FrameInv, SpaceInv, NEW t \in Users, NEW u \in Users, ThreadFork(t, u)
    PROVE  VMTypes' /\ FrameInv' /\ SpaceInv'
<1>0. UserInv(u) /\ CallOf(u) /\ UserInv(t) /\ CallOf(t) /\ RegionInv /\ ZfodInv
  BY DEF SpaceInv, UserInv
<1>1. PICK s \in Spaces : s = space[t]
  BY InSpace DEF ThreadFork
<1>2. /\ upc[t] = "out" /\ upc[u] = "absent" /\ u # t
      /\ space' = [space EXCEPT ![u] = s] /\ UserGoto(u, "out")
      /\ UNCHANGED <<frameVars, spaceVars, job>>
      /\ job[u] = NoJob /\ job[t] = NoJob /\ space[u] = Nil
  BY <1>0, <1>1 DEF ThreadFork, CallOf
<1>3. /\ upc'[u] = "out" /\ space'[u] = s
      /\ \A v \in Users : v # u => upc'[v] = upc[v] /\ space'[v] = space[v]
      /\ upc' \in [Users -> UserPCs] /\ space' \in [Users -> Spaces \cup {Nil}]
  BY <1>2, GotoOthers DEF UserPCs, VMTypes
<1>4. OthersSame(u)
  BY <1>2, <1>3 DEF OthersSame, Same
<1>5. \A v \in Users : Same(v) \/ (upc[v] \notin HoldPCs /\ upc'[v] \notin HoldPCs)
  BY <1>2, <1>3, <1>4 DEF OthersSame, HoldPCs
<1>6. FrameInv'
  BY <1>2, <1>5, FramesAside DEF spaceVars
<1>7. VMTypes'
  BY <1>2, <1>3, <1>6, TypesStep DEF VMTypes, spaceVars, frameVars, listVars
<1>8. ZfodInv'
  <2>1. \A v \in Users : Same(v) \/ (upc[v] # "free_clear" /\ upc'[v] # "free_clear")
    BY <1>5 DEF HoldPCs
  <2>2. pte' = pte
    BY <1>2 DEF spaceVars
  <2> QED BY <1>0, <2>1, <2>2, ZfodKept
<1>9. NoJob.call = "none" /\ NoJob.child = Nil /\ NoJob.todo = {}
  BY DEF NoJob
<1>10. RegionInv'
  <2>1. \A r \in Spaces, p \in Pages : ~Excused(u, r, p)
    BY <1>2, <1>9 DEF Excused
  <2> HIDE DEF Excused
  <2> QED BY <1>0, <1>2, <1>4, <2>1, RegionsKept DEF spaceVars
<1>11. /\ UserInv(u)' /\ Works(u)' = {}
       /\ job'[u].call = "none" /\ job'[u].child = Nil /\ job'[u].todo = {}
  BY <1>2, <1>3, OutIs
<1>12. ASSUME NEW v \in Users, v # u PROVE UserInv(v)'
  <2>1. regions' = regions /\ pte' = pte /\ lock' = lock
    BY <1>2 DEF spaceVars
  <2> HIDE DEF UserInv, Works
  <2> QED BY <1>4, <1>12, <2>1, OthersKept
<1>13. ASSUME NEW v \in Users, v # u PROVE Apart(u, v)' /\ Apart(v, u)'
  <2>1. upc'[v] = upc[v] /\ space'[v] = space[v] /\ job'[v] = job[v]
    BY <1>2, <1>3, <1>13
  <2>2. space[v] = s => job[v].call \notin {"exit", "fork"}
    <3>1. CASE v = t
      BY <1>2, <1>9, <3>1
    <3>2. CASE v # t
      BY <1>1, <3>2, VMSizes DEF SpaceInv, Apart
    <3> QED BY <3>1, <3>2
  <2>3. job[v].child # Nil => job[v].child # s
    <3>1. CASE v = t
      BY <1>2, <1>9, <3>1
    <3>2. CASE v # t
      BY <1>1, <3>2, VMSizes DEF SpaceInv, Apart
    <3> QED BY <3>1, <3>2
  <2> HIDE DEF Works
  <2>4. Apart(u, v)'
    BY <1>2, <1>3, <1>11, <2>1 DEF Apart
  <2>5. Apart(v, u)'
    BY <1>2, <1>3, <1>11, <2>1, <2>2, <2>3 DEF Apart
  <2> QED BY <2>4, <2>5
<1> HIDE DEF UserInv, Apart
<1> QED BY <1>4, <1>6, <1>7, <1>8, <1>10, <1>11, <1>12, <1>13, SpaceKept

-----------------------------------------------------------------------------
(* fork *)

(* Nobody else is about in the space that is copied, nor in the copy.      *)
LEMMA ForkAlone ==
    ASSUME VMTypes, SpaceInv, NEW t \in Users, upc[t] \in CopyPCs
    PROVE  /\ space[t] \in Spaces /\ job[t].child \in Spaces /\ job[t].child # space[t]
           /\ job[t].call = "fork" /\ Works(t) = {}
           /\ \A u \in Users \ {t} : space[u] # space[t] /\ space[u] # job[t].child
           /\ \A p : ~Pushed(space[t], p) /\ ~Pushed(job[t].child, p)
           /\ \A u \in Users, p \in Pages : ~Excused(u, space[t], p)
           /\ \A r \in Spaces, p \in Pages :
                 Excused(t, r, p) => r = job[t].child /\ p \in job[t].todo /\ upc[t] # "c_region"
<1>1. UserInv(t) /\ CallOf(t) /\ space[t] \in Spaces
  BY InSpace DEF SpaceInv, UserInv, CopyPCs
<1>2. job[t].child \in Spaces /\ job[t].child # space[t] /\ job[t].call = "fork"
  BY <1>1, VMSizes DEF CallOf
<1>3. ASSUME NEW u \in Users \ {t}
      PROVE  space[u] # space[t] /\ space[u] # job[t].child /\ job[u].child # space[t]
  <2>1. Apart(t, u) /\ Apart(u, t)
    BY DEF SpaceInv
  <2> QED BY <1>1, <1>2, <2>1, VMSizes DEF Apart
<1>4. Works(t) = {}
  BY <1>2 DEF Works
<1>5. ASSUME NEW p PROVE ~Pushed(space[t], p) /\ ~Pushed(job[t].child, p)
  BY <1>2, <1>3 DEF Pushed, CopyPCs
<1>6. ASSUME NEW u \in Users, NEW p \in Pages PROVE ~Excused(u, space[t], p)
  BY <1>2, <1>3 DEF Excused
<1>7. ASSUME NEW r \in Spaces, NEW p \in Pages, Excused(t, r, p)
      PROVE  r = job[t].child /\ p \in job[t].todo /\ upc[t] # "c_region"
  BY <1>2, <1>7 DEF Excused
<1> QED BY <1>1, <1>2, <1>3, <1>4, <1>5, <1>6, <1>7

(* The page to be copied is there. *)
LEMMA CopyFinds ==
    ASSUME VMTypes, SpaceInv, NEW t \in Users, upc[t] \in {"c_frame", "c_map"}, job[t].todo # {}
    PROVE  /\ Page(t) \in job[t].todo /\ Page(t) \in Pages
           /\ Entry(t) = pte[space[t]][Page(t)] /\ Entry(t) \in Entries /\ Entry(t) # Absent
           /\ pte[job[t].child][Page(t)] = Absent
           /\ \E i \in DOMAIN regions[job[t].child] : Page(t) \in PagesOf(regions[job[t].child][i])
<1>1. UserInv(t) /\ CopyProgress(t) /\ RegionInv
  BY DEF SpaceInv, UserInv
<1>2. /\ space[t] \in Spaces /\ job[t].child \in Spaces
      /\ \A u \in Users, p \in Pages : ~Excused(u, space[t], p)
  BY ForkAlone DEF CopyPCs
<1>3. PICK q \in Pages : q = Page(t) /\ q \in job[t].todo /\ Entry(t) = pte[space[t]][q] /\ Entry(t) \in Entries
  BY <1>2, EntryIs
<1>4. PICK src \in Seq(Regions) : src = regions[space[t]]
  BY <1>2 DEF VMTypes
<1>5. PICK dst \in Seq(Regions) : dst = regions[job[t].child]
  BY <1>2 DEF VMTypes
<1>6. /\ Len(dst) <= Len(src) /\ \A i \in DOMAIN dst : dst[i] = src[i]
      /\ Len(dst) > 0 /\ q \in PagesOf(dst[Len(dst)]) /\ pte[job[t].child][q] = Absent
  BY <1>1, <1>3, <1>4, <1>5 DEF CopyProgress, CopyPCs
<1>7. Len(dst) \in DOMAIN dst /\ Len(dst) \in DOMAIN src
  BY <1>6
<1>8. pte[space[t]][q] # Absent
  <2>1. Len(dst) \in DOMAIN regions[space[t]] /\ q \in PagesOf(regions[space[t]][Len(dst)])
    BY <1>4, <1>6, <1>7
  <2> HIDE DEF Excused
  <2> QED BY <1>1, <1>2, <2>1 DEF RegionInv
<1> QED BY <1>3, <1>5, <1>6, <1>7, <1>8

(* A copy that cannot go on. *)
LEMMA CopyFails ==
    ASSUME VMTypes, FrameInv, SpaceInv, NEW t \in Users, upc[t] \in CopyPCs,
           UserGoto(t, "copy_failed"), UNCHANGED <<frameVars, spaceVars, space, job>>
    PROVE  VMTypes' /\ FrameInv' /\ Stopped'
<1>1. /\ upc'[t] = "copy_failed" /\ \A u \in Users : u # t => upc'[u] = upc[u]
      /\ upc' \in [Users -> UserPCs]
  BY GotoOthers DEF UserPCs
<1>2. CopyProgress(t)
  BY DEF SpaceInv, UserInv
<1>3. \A u \in Users : Same(u) \/ (upc[u] # "free_clear" /\ upc'[u] # "free_clear")
  BY <1>1 DEF Same, CopyPCs
<1>4. \A s \in Spaces, p \in Pages : PageFrame(s, p)' = PageFrame(s, p)
  BY <1>3, PagesStay DEF spaceVars
<1>5. \A u \in Users \ {t} : CopiedFrame(u)' = CopiedFrame(u)
  BY <1>1 DEF CopiedFrame
<1>6. CopiedFrame(t)' = CopiedFrame(t) \/ (CopiedFrame(t) \notin Frames /\ CopiedFrame(t)' \notin Frames)
  <2>1. CASE upc[t] = "c_map"
    BY <1>1, <2>1 DEF CopiedFrame
  <2>2. CASE upc[t] # "c_map"
    <3>1. job[t].seen.to = Nil
      BY <1>2, <2>2, AbsentIs DEF CopyProgress
    <3> QED BY <1>1, <2>2, <3>1, VMSizes DEF CopiedFrame, CopyPCs
  <2> QED BY <2>1, <2>2
<1>7. UNCHANGED listVars /\ tbl' = tbl /\ rest' = rest
  BY DEF frameVars, spaceVars
<1>8. FrameInv'
  <2>1. \A u \in Users : CopiedFrame(u)' = CopiedFrame(u)
              \/ (CopiedFrame(u) \notin Frames /\ CopiedFrame(u)' \notin Frames)
    BY <1>5, <1>6
  <2>2. \A u \in Users : Same(u) \/ (upc[u] # "table_clear" /\ upc'[u] # "table_clear")
    BY <1>1 DEF Same, CopyPCs
  <2>3. \A s \in Spaces, k \in Tomes : TableFrame(s, k)' = TableFrame(s, k)
    BY <1>7, <2>2, TablesKeepFrames
  <2> HIDE DEF PageFrame, TableFrame, CopiedFrame
  <2> QED BY <1>4, <1>7, <2>1, <2>3, FramesStay
<1>9. VMTypes'
  BY <1>1, <1>8, TypesStep DEF VMTypes, spaceVars, frameVars, listVars
<1> QED BY <1>1, <1>8, <1>9, EndsHere

LEMMA RegionCopiedKeeps ==
    ASSUME VMTypes, FrameInv, SpaceInv, NEW t \in Users, RegionCopied(t)
    PROVE  VMTypes' /\ FrameInv' /\ SpaceInv'
<1>0. UserInv(t) /\ CallOf(t) /\ CopyProgress(t)
  BY DEF SpaceInv, UserInv
<1>1. /\ upc[t] = "c_frame" /\ job[t].todo = {} /\ UserGoto(t, "c_region")
      /\ UNCHANGED <<frameVars, spaceVars, space, job>>
  BY DEF RegionCopied
<1>2. /\ upc'[t] = "c_region" /\ \A u \in Users : u # t => upc'[u] = upc[u]
      /\ upc' \in [Users -> UserPCs]
  BY <1>1, GotoOthers DEF UserPCs
<1>3. OthersSame(t) /\ UNCHANGED <<frameVars, pte, tbl, regions, lock>>
  BY <1>1, <1>2 DEF OthersSame, Same, spaceVars
<1>4. job[t].call = "fork"
  BY <1>0, <1>1 DEF CallOf, CopyPCs
<1>5. UserInv(t)'
  <2>1. CallOf(t)'
    BY <1>0, <1>1, <1>2 DEF CallOf, FaultPCs, FreePCs, CopyPCs
  <2>2. Held(t)' /\ Owner(t)' /\ Progress(t)'
    BY <1>1, <1>2, <1>4 DEF Held, Owner, Progress, FreePCs
  <2>3. CopyProgress(t)'
    BY <1>0, <1>1, <1>2, <1>3 DEF CopyProgress, CopyPCs
  <2> QED BY <2>1, <2>2, <2>3 DEF UserInv
<1>6. FrameInv' /\ SpaceInv'
  BY <1>1, <1>2, <1>3, <1>4, <1>5, QuietStep DEF HoldPCs
<1>7. VMTypes'
  BY <1>1, <1>2, <1>6, TypesStep DEF VMTypes, spaceVars, frameVars, listVars
<1> QED BY <1>6, <1>7

LEMMA CopyRegionKeeps ==
    ASSUME VMTypes, FrameInv, SpaceInv, NEW t \in Users, CopyRegion(t)
    PROVE  VMTypes' /\ FrameInv' /\ (~Stopped' => SpaceInv')
<1>0. UserInv(t) /\ CallOf(t) /\ CopyProgress(t) /\ RegionInv /\ ZfodInv /\ job[t] \in Jobs
  BY DEF SpaceInv, UserInv, VMTypes
<1>1. upc[t] = "c_region" /\ UNCHANGED <<frameVars, pte, tbl, lock, space>>
  BY DEF CopyRegion
<1>2. /\ space[t] \in Spaces /\ job[t].child \in Spaces /\ job[t].child # space[t]
      /\ job[t].call = "fork" /\ Works(t) = {}
      /\ \A r \in Spaces, p \in Pages : ~Excused(t, r, p)
  BY <1>1, ForkAlone DEF CopyPCs
<1>3. PICK s \in Spaces, c \in Spaces : s = space[t] /\ c = job[t].child /\ c # s
  BY <1>2
<1>4. PICK src \in Seq(Regions), dst \in Seq(Regions) : src = regions[s] /\ dst = regions[c]
  BY <1>3 DEF VMTypes
<1>5. PICK n : n = Len(dst) + 1
  OBVIOUS
<1>6. n \in DOMAIN src /\ src[n] \in Regions
  BY <1>3, <1>4, <1>5 DEF CopyRegion
<1>7. \/ UserGoto(t, "copy_failed") /\ UNCHANGED <<regions, job>>
      \/ /\ regions' = [regions EXCEPT ![c] = Append(dst, src[n])]
         /\ job' = [job EXCEPT ![t].todo = PagesOf(src[n])]
         /\ UserGoto(t, "c_frame")
  BY <1>3, <1>4, <1>5 DEF CopyRegion
<1>8. CASE UserGoto(t, "copy_failed") /\ UNCHANGED <<regions, job>>
  BY <1>1, <1>8, CopyFails DEF spaceVars, CopyPCs
<1>9. ASSUME regions' = [regions EXCEPT ![c] = Append(dst, src[n])],
             job' = [job EXCEPT ![t].todo = PagesOf(src[n])],
             UserGoto(t, "c_frame")
      PROVE  VMTypes' /\ FrameInv' /\ SpaceInv'
  <2>0. \A e \in Regions : Append(dst, e) \in Seq(Regions)
    OBVIOUS
  <2>1. PICK R \in Seq(Regions) : R = Append(dst, src[n])
    BY <1>6, <2>0
  <2>2. /\ Len(R) = n /\ DOMAIN R = 1 .. n /\ R[n] = src[n]
        /\ \A i \in DOMAIN dst : i \in DOMAIN R /\ i < n /\ R[i] = dst[i]
        /\ \A i \in DOMAIN R : i # n => i \in DOMAIN dst
        /\ n \in DOMAIN R /\ n \in Nat /\ n > 0
    BY <1>5, <1>6, <2>1
  <2>3. /\ regions'[c] = R /\ \A v \in Spaces : v # c => regions'[v] = regions[v]
        /\ regions' \in [Spaces -> Seq(Regions)]
    BY <1>9, <2>1 DEF VMTypes
  <2>4. PagesOf(src[n]) \subseteq Pages
    BY <1>6, PagesOfAre
  <2>5. /\ job'[t].call = job[t].call /\ job'[t].reg = job[t].reg /\ job'[t].child = c
        /\ job'[t].todo = PagesOf(src[n]) /\ job'[t].seen = job[t].seen
        /\ \A u \in Users : u # t => job'[u] = job[u]
        /\ job' \in [Users -> Jobs]
    BY <1>0, <1>3, <1>9, <2>4 DEF VMTypes, Jobs
  <2>6. /\ upc'[t] = "c_frame" /\ \A u \in Users : u # t => upc'[u] = upc[u]
        /\ upc' \in [Users -> UserPCs]
    BY <1>9, GotoOthers DEF UserPCs
  <2>7. OthersSame(t) /\ space'[t] = space[t] /\ pte' = pte
    BY <1>1, <2>5, <2>6 DEF OthersSame, Same
  <2>8. \A u \in Users : Same(u) \/ (upc[u] \notin HoldPCs /\ upc'[u] \notin HoldPCs)
    BY <1>1, <2>6, <2>7 DEF OthersSame, HoldPCs
  <2>9. FrameInv'
    BY <1>1, <2>8, FramesAside
  <2>10. VMTypes'
    BY <1>1, <2>3, <2>5, <2>6, <2>9, TypesStep DEF VMTypes, frameVars, listVars
  <2>11. ZfodInv'
    <3>1. \A u \in Users : Same(u) \/ (upc[u] # "free_clear" /\ upc'[u] # "free_clear")
      BY <2>8 DEF HoldPCs
    <3> QED BY <1>0, <2>7, <3>1, ZfodKept
  <2>12. /\ Len(dst) <= Len(src) /\ \A i \in DOMAIN dst : dst[i] = src[i]
         /\ job[t].seen = Absent
    BY <1>0, <1>1, <1>3, <1>4 DEF CopyProgress, CopyPCs
  <2>13. ASSUME NEW i \in DOMAIN dst PROVE PagesOf(dst[i]) \cap PagesOf(src[n]) = {}
    <3>1. i \in DOMAIN src /\ dst[i] = src[i] /\ i # n
      BY <2>2, <2>12
    <3> QED BY <1>0, <1>4, <1>6, <3>1 DEF RegionInv
  <2>14. \A p \in PagesOf(src[n]) : pte[c][p] = Absent
    BY <1>0, <1>4, <2>4, <2>13 DEF RegionInv
  <2>15. UserInv(t)'
    <3>1. CallOf(t)'
      BY <1>0, <1>1, <1>3, <2>5, <2>6, <2>7 DEF CallOf, FaultPCs, FreePCs, CopyPCs
    <3>2. Held(t)' /\ Owner(t)' /\ Progress(t)'
      BY <1>2, <2>5, <2>6 DEF Held, Owner, Progress, FreePCs
    <3>3. regions'[space'[t]] = src /\ regions'[job'[t].child] = R
      BY <1>3, <1>4, <2>3, <2>5, <2>7
    <3>4. Len(R) <= Len(src) /\ \A i \in DOMAIN R : R[i] = src[i]
      BY <1>6, <2>2, <2>12
    <3>5. CopyProgress(t)'
      BY <2>2, <2>5, <2>6, <2>7, <2>12, <2>14, <3>3, <3>4 DEF CopyProgress
    <3> QED BY <3>1, <3>2, <3>5 DEF UserInv
  <2>16. RegionInv'
    <3>1. \A v \in Spaces, p \in Pages : \A u \in Users \ {t} : Excused(u, v, p) => Excused(u, v, p)'
      BY <2>7 DEF Excused, OthersSame, Same
    <3>2. \A p \in PagesOf(src[n]) : Excused(t, c, p)'
      BY <2>5, <2>6 DEF Excused
    <3> HIDE DEF Excused
    <3>3. ASSUME NEW v \in Spaces, NEW i \in DOMAIN regions'[v], NEW k \in DOMAIN regions'[v], i # k
          PROVE  PagesOf(regions'[v][i]) \cap PagesOf(regions'[v][k]) = {}
      <4>1. CASE v # c
        BY <1>0, <2>3, <3>3, <4>1 DEF RegionInv
      <4>2. CASE v = c
        <5>1. \A x, y \in DOMAIN dst : x # y => PagesOf(dst[x]) \cap PagesOf(dst[y]) = {}
          BY <1>0, <1>4 DEF RegionInv
        <5> QED BY <2>2, <2>3, <2>13, <3>3, <4>2, <5>1
      <4> QED BY <4>1, <4>2
    <3>4. ASSUME NEW v \in Spaces, NEW p \in Pages, pte'[v][p] # Absent
          PROVE  \E i \in DOMAIN regions'[v] : p \in PagesOf(regions'[v][i])
      <4>1. PICK i \in DOMAIN regions[v] : p \in PagesOf(regions[v][i])
        BY <1>0, <2>7, <3>4 DEF RegionInv
      <4> QED BY <1>4, <2>2, <2>3, <4>1
    <3>5. ASSUME NEW v \in Spaces, NEW i \in DOMAIN regions'[v], NEW p \in PagesOf(regions'[v][i])
          PROVE  pte'[v][p] # Absent \/ \E u \in Users : Excused(u, v, p)'
      <4>1. regions'[v][i] \in Regions
        BY <2>3
      <4>2. p \in Pages
        BY <4>1, PagesOfAre
      <4>3. CASE i \in DOMAIN regions[v] /\ regions'[v][i] = regions[v][i]
        <5>1. pte[v][p] # Absent \/ \E u \in Users : Excused(u, v, p)
          BY <1>0, <4>3 DEF RegionInv
        <5> QED BY <1>2, <2>7, <3>1, <4>2, <5>1
      <4>4. CASE v = c /\ i = n
        BY <2>2, <2>3, <3>2, <4>4
      <4> QED BY <1>4, <2>2, <2>3, <4>3, <4>4
    <3> QED BY <3>3, <3>4, <3>5 DEF RegionInv
  <2>17. SpaceInv'
    <3>1. Works(t)' = {}
      BY <1>2, <2>5 DEF Works
    <3>2. \A u \in Users \ {t} : space[u] = space[t] => Works(t)' \cap Works(u) = {}
      BY <3>1
    <3>3. /\ \A v \in Spaces : regions'[v] = regions[v] \/ (v = job[t].child /\ upc[t] \in CopyPCs)
          /\ \A i \in DOMAIN regions[space[t]] :
                \E k \in DOMAIN regions'[space[t]] : regions'[space[t]][k] = regions[space[t]][i]
      BY <1>1, <1>3, <2>3 DEF CopyPCs
    <3>4. /\ job'[t].call = job[t].call /\ job'[t].child = job[t].child
          /\ upc[t] # "nascent" /\ upc'[t] # "nascent"
      BY <1>1, <1>3, <2>5, <2>6
    <3> HIDE DEF Works, UserInv
    <3> QED BY <1>1, <2>7, <2>11, <2>15, <2>16, <3>2, <3>3, <3>4, OwnStep
  <2> QED BY <2>9, <2>10, <2>17
<1> QED BY <1>7, <1>8, <1>9

(* copy_frame takes a frame for its copy.                                  *)
LEMMA CopyTakes ==
    ASSUME VMTypes, FrameInv, head # Nil, Pop,
           NEW t \in Users, CopiedFrame(t) \notin Frames, CopiedFrame(t)' = head,
           \A g \in Frames \cup {Zfod} : g # head => rest'[g] = rest[g],
           \A u \in Users : u # t => CopiedFrame(u)' = CopiedFrame(u),
           \A r \in Spaces, q \in Pages : PageFrame(r, q)' = PageFrame(r, q),
           \A r \in Spaces, k \in Tomes : TableFrame(r, k)' = TableFrame(r, k)
    PROVE  FrameInv'
<1>1. PICK F \in SUBSET Frames :
          /\ Shared(PageHolds, TableHolds, CopyHolds, F)
          /\ ListOf(F, head, next, avail)
          /\ \A f \in F \cup {Zfod} : rest[f] = 0
  BY DEF FrameInv
<1>2. next \in [Frames -> Frames \cup {Nil}] /\ head \in Frames
  BY DEF VMTypes
<1>3. head \in F /\ ListOf(F \ {head}, next[head], [next EXCEPT ![head] = Nil], avail - 1)
  BY <1>1, <1>2, ListPops
<1>4. ListOf(F \ {head}, head', next', avail')
  BY <1>3 DEF Pop
<1> DEFINE ph == PageHolds
           ch == CopyHolds
           ph2 == PageHolds'
           ch2 == CopyHolds'
<1>5. /\ \A r \in Spaces, q \in Pages : ph[r][q] = PageFrame(r, q) /\ ph2[r][q] = PageFrame(r, q)'
      /\ \A u \in Users : ch[u] = CopiedFrame(u) /\ ch2[u] = CopiedFrame(u)'
  BY DEF PageHolds, CopyHolds
<1>5a. TableHolds' = TableHolds
  BY DEF TableHolds
<1>5b. PICK th : th = TableHolds
  OBVIOUS
<1> HIDE DEF ph, ch, ph2, ch2
<1>6. Shared(ph, th, ch, F)
  BY <1>1, <1>5b DEF ph, ch
<1>7. Shared(ph2, th, ch2, F \ {head})
  <2>1. ch[t] \notin Frames /\ ch2[t] = head
    BY <1>5
  <2>2. \A u \in Users : u # t => ch2[u] = ch[u]
    BY <1>5
  <2>3. \A r \in Spaces, q \in Pages : ph2[r][q] = ph[r][q]
    BY <1>5
  <2> QED BY <1>3, <1>6, <2>1, <2>2, <2>3, CopyGets
<1>8. Shared(PageHolds', TableHolds', CopyHolds', F \ {head})
  BY <1>5a, <1>5b, <1>7 DEF ph2, ch2
<1>9. \A f \in (F \ {head}) \cup {Zfod} : rest'[f] = 0
  BY <1>1, <1>2, VMSizes
<1> QED BY <1>1, <1>4, <1>8, <1>9 DEF FrameInv

(* The thread has an entry to put into the child's table. *)
LEMMA CopyGoesOn ==
    ASSUME VMTypes, SpaceInv, NEW t \in Users, upc[t] = "c_frame", job[t].todo # {},
           UNCHANGED <<spaceVars, space>>, NEW e \in Entries, e # Absent,
           e.to = Zfod => ~e.rw,
           UserGoto(t, "c_map"), job' = [job EXCEPT ![t].seen = e]
    PROVE  /\ upc' \in [Users -> UserPCs] /\ job' \in [Users -> Jobs]
           /\ upc'[t] = "c_map" /\ job'[t].seen = e
           /\ OthersSame(t) /\ SpaceInv'
<1>0. UserInv(t) /\ CallOf(t) /\ CopyProgress(t) /\ RegionInv /\ ZfodInv /\ job[t] \in Jobs
  BY DEF SpaceInv, UserInv, VMTypes
<1>1. /\ space[t] \in Spaces /\ job[t].child \in Spaces /\ job[t].child # space[t]
      /\ job[t].call = "fork" /\ Works(t) = {}
  BY ForkAlone DEF CopyPCs
<1>2. /\ upc'[t] = "c_map" /\ \A u \in Users : u # t => upc'[u] = upc[u]
      /\ upc' \in [Users -> UserPCs]
  BY GotoOthers DEF UserPCs
<1>3. /\ job'[t].call = job[t].call /\ job'[t].reg = job[t].reg /\ job'[t].child = job[t].child
      /\ job'[t].todo = job[t].todo /\ job'[t].seen = e
      /\ \A u \in Users : u # t => job'[u] = job[u]
      /\ job' \in [Users -> Jobs]
  BY <1>0 DEF VMTypes, Jobs
<1>4. OthersSame(t) /\ space'[t] = space[t] /\ pte' = pte /\ regions' = regions /\ lock' = lock
  BY <1>2, <1>3 DEF OthersSame, Same, spaceVars
<1>5. ZfodInv'
  <2>1. \A u \in Users : Same(u) \/ (upc[u] # "free_clear" /\ upc'[u] # "free_clear")
    BY <1>2, <1>4 DEF OthersSame
  <2> QED BY <1>0, <1>4, <2>1, ZfodKept
<1>6. UserInv(t)'
  <2>1. CallOf(t)'
    BY <1>0, <1>2, <1>3, <1>4 DEF CallOf, FaultPCs, FreePCs, CopyPCs
  <2>2. Held(t)' /\ Owner(t)' /\ Progress(t)'
    BY <1>1, <1>2, <1>3 DEF Held, Owner, Progress, FreePCs
  <2>3. CopyProgress(t)'
    BY <1>0, <1>2, <1>3, <1>4 DEF CopyProgress, CopyPCs
  <2> QED BY <2>1, <2>2, <2>3 DEF UserInv
<1>7. RegionInv'
  <2>1. \A r \in Spaces, p \in Pages : Excused(t, r, p) => Excused(t, r, p)'
    BY <1>2, <1>3, <1>4, StillExcused
  <2> HIDE DEF Excused
  <2> QED BY <1>0, <1>4, <2>1, RegionsKept
<1>8. SpaceInv'
  <2>1. Works(t)' = {}
    BY <1>1, <1>3 DEF Works
  <2>2. \A u \in Users \ {t} : space[u] = space[t] => Works(t)' \cap Works(u) = {}
    BY <2>1
  <2> HIDE DEF Works, UserInv
  <2> QED BY <1>2, <1>3, <1>4, <1>5, <1>6, <1>7, <2>2, OwnStep
<1> QED BY <1>2, <1>3, <1>4, <1>8

LEMMA CopyFrameKeeps ==
    ASSUME VMTypes, FrameInv, SpaceInv, NEW t \in Users, CopyFrame(t)
    PROVE  VMTypes' /\ FrameInv' /\ (~Stopped' => SpaceInv')
<1>1. upc[t] = "c_frame" /\ job[t].todo # {} /\ Entry(t).to # Zfod /\ UNCHANGED <<spaceVars, space>>
  BY DEF CopyFrame
<1>2. Entry(t) \in Entries /\ Entry(t) # Absent
  BY <1>1, CopyFinds
<1>3. CASE head = Nil
  BY <1>1, <1>3, CopyFails DEF CopyFrame, CopyPCs
<1>4. CASE head # Nil
  <2> DEFINE e == [Entry(t) EXCEPT !.to = head]
  <2>1. /\ Pop /\ UserGoto(t, "c_map") /\ job' = [job EXCEPT ![t].seen = e]
        /\ rest' = [rest EXCEPT ![head] = rest[Entry(t).to]]
    BY <1>4 DEF CopyFrame
  <2>2. head \in Frames /\ next' \in [Frames -> Frames \cup {Nil}]
    BY <1>4, <2>1, PopTypes
  <2>3. Entry(t) \in [to : Frames \cup {Zfod}, rw : BOOLEAN]
    BY <1>2 DEF Entries
  <2> HIDE DEF Entry
  <2>4. e.to = head /\ e \in Entries
    BY <2>2, <2>3 DEF Entries
  <2>5. e # Absent /\ e.to # Zfod
    BY <2>2, <2>4, AbsentIs, VMSizes
  <2>6. /\ rest' \in [Frames \cup {Zfod} -> Users \cup {0}]
        /\ \A g \in Frames \cup {Zfod} : g # head => rest'[g] = rest[g]
    BY <2>1, <2>2, <2>3 DEF VMTypes
  <2> HIDE DEF e
  <2>7. /\ upc' \in [Users -> UserPCs] /\ job' \in [Users -> Jobs]
        /\ upc'[t] = "c_map" /\ job'[t].seen = e
        /\ OthersSame(t) /\ SpaceInv'
    BY <1>1, <2>1, <2>4, <2>5, CopyGoesOn
  <2>8. \A r \in Spaces, q \in Pages : PageFrame(r, q)' = PageFrame(r, q)
    <3>1. \A u \in Users : Same(u) \/ (upc[u] # "free_clear" /\ upc'[u] # "free_clear")
      BY <1>1, <2>7 DEF OthersSame
    <3> QED BY <1>1, <3>1, PagesStay DEF spaceVars
  <2>9. /\ \A u \in Users : u # t => CopiedFrame(u)' = CopiedFrame(u)
        /\ CopiedFrame(t) \notin Frames /\ CopiedFrame(t)' = head
    BY <1>1, <2>4, <2>7, VMSizes DEF CopiedFrame, OthersSame, Same
  <2>10. FrameInv'
    <3>1. \A u \in Users : Same(u) \/ (upc[u] # "table_clear" /\ upc'[u] # "table_clear")
      BY <1>1, <2>7 DEF OthersSame
    <3>2. \A r \in Spaces, k \in Tomes : TableFrame(r, k)' = TableFrame(r, k)
      BY <1>1, <3>1, TablesKeepFrames DEF spaceVars
    <3> HIDE DEF PageFrame, TableFrame, CopiedFrame
    <3> QED BY <1>4, <2>1, <2>6, <2>8, <2>9, <3>2, CopyTakes
  <2>11. VMTypes'
    BY <1>1, <2>2, <2>6, <2>7, <2>10, TypesStep DEF VMTypes, spaceVars
  <2> QED BY <2>7, <2>10, <2>11
<1> QED BY <1>3, <1>4

LEMMA CopyZfodKeeps ==
    ASSUME VMTypes, FrameInv, SpaceInv, NEW t \in Users, CopyZfod(t)
    PROVE  VMTypes' /\ FrameInv' /\ SpaceInv'
<1> DEFINE e == Entry(t)
<1>1. /\ upc[t] = "c_frame" /\ job[t].todo # {} /\ e.to = Zfod
      /\ UserGoto(t, "c_map") /\ job' = [job EXCEPT ![t].seen = e]
      /\ UNCHANGED <<frameVars, spaceVars, space>>
  BY DEF CopyZfod
<1>2. Page(t) \in Pages /\ e = pte[space[t]][Page(t)] /\ e \in Entries /\ e # Absent
  BY <1>1, CopyFinds
<1>3. ~e.rw
  <2>1. space[t] \in Spaces /\ ~Pushed(space[t], Page(t)) /\ ZfodInv
    BY <1>1, ForkAlone DEF CopyPCs, SpaceInv
  <2> HIDE DEF e, Pushed
  <2> QED BY <1>1, <1>2, <2>1 DEF ZfodInv
<1> HIDE DEF e
<1>4. /\ upc' \in [Users -> UserPCs] /\ job' \in [Users -> Jobs]
      /\ upc'[t] = "c_map" /\ job'[t].seen = e
      /\ OthersSame(t) /\ SpaceInv'
  BY <1>1, <1>2, <1>3, CopyGoesOn
<1>5. \A r \in Spaces, q \in Pages : PageFrame(r, q)' = PageFrame(r, q)
  <2>1. \A u \in Users : Same(u) \/ (upc[u] # "free_clear" /\ upc'[u] # "free_clear")
    BY <1>1, <1>4 DEF OthersSame
  <2> QED BY <1>1, <2>1, PagesStay DEF spaceVars
<1>6. \A u \in Users : CopiedFrame(u)' = CopiedFrame(u)
            \/ (CopiedFrame(u) \notin Frames /\ CopiedFrame(u)' \notin Frames)
  BY <1>1, <1>4, VMSizes DEF CopiedFrame, OthersSame, Same
<1>7. UNCHANGED listVars /\ tbl' = tbl /\ rest' = rest
  BY <1>1 DEF frameVars, spaceVars
<1>8. FrameInv'
  <2>1. \A u \in Users : Same(u) \/ (upc[u] # "table_clear" /\ upc'[u] # "table_clear")
    BY <1>1, <1>4 DEF OthersSame
  <2>2. \A r \in Spaces, k \in Tomes : TableFrame(r, k)' = TableFrame(r, k)
    BY <1>7, <2>1, TablesKeepFrames
  <2> HIDE DEF PageFrame, TableFrame, CopiedFrame
  <2> QED BY <1>5, <1>6, <1>7, <2>2, FramesStay
<1>9. VMTypes'
  BY <1>1, <1>4, <1>8, TypesStep DEF VMTypes, spaceVars, frameVars, listVars
<1> QED BY <1>4, <1>8, <1>9

(* The frame of a copy becomes a page of the child. *)
LEMMA CopyMapKeeps ==
    ASSUME VMTypes, FrameInv, SpaceInv, NEW t \in Users, CopyMap(t)
    PROVE  VMTypes' /\ FrameInv' /\ (~Stopped' => SpaceInv')
<1>0. UserInv(t) /\ CallOf(t) /\ CopyProgress(t) /\ RegionInv /\ ZfodInv /\ job[t] \in Jobs
  BY DEF SpaceInv, UserInv, VMTypes
<1>1. /\ upc[t] = "c_map" /\ job[t].todo # {} /\ UNCHANGED <<rest, regions, lock, space>>
      /\ job[t].seen # Absent /\ (job[t].seen.to = Zfod => ~job[t].seen.rw)
  BY <1>0 DEF CopyMap, CallOf, CopyProgress, CopyPCs
<1>2. /\ space[t] \in Spaces /\ job[t].child \in Spaces /\ job[t].child # space[t]
      /\ job[t].call = "fork" /\ Works(t) = {}
      /\ \A p : ~Pushed(job[t].child, p)
      /\ \A u \in Users \ {t} : space[u] # space[t] /\ space[u] # job[t].child
      /\ \A r \in Spaces, p \in Pages :
            Excused(t, r, p) => r = job[t].child /\ p \in job[t].todo
  BY <1>1, ForkAlone DEF CopyPCs
<1>3. PICK c \in Spaces : c = job[t].child
  BY <1>2
<1>4. PICK q \in Pages :
          /\ q = Page(t) /\ q \in job[t].todo /\ pte[c][q] = Absent
          /\ \E i \in DOMAIN regions[c] : q \in PagesOf(regions[c][i])
  BY <1>1, <1>3, CopyFinds
<1>5. PICK k \in Tomes : k = Tome(q)
  BY TomeIn
<1>6. PICK e \in Entries : e = job[t].seen
  BY <1>0 DEF Jobs
<1> DEFINE new == tbl[c][k] = Nil
           j == [job[t] EXCEPT !.todo = @ \ {q}, !.seen = Absent]
           label == IF new /\ rest[head] # 0 THEN "wild" ELSE "c_frame"
<1>7. CASE new /\ head = Nil
  BY <1>1, <1>3, <1>4, <1>5, <1>7, CopyFails DEF CopyMap, frameVars, spaceVars, CopyPCs
<1>8. CASE ~(new /\ head = Nil)
  <2>1. /\ IF new THEN tbl' = [tbl EXCEPT ![c][k] = head] /\ Pop ELSE UNCHANGED <<listVars, tbl>>
        /\ pte' = [pte EXCEPT ![c][q] = e]
        /\ job' = [job EXCEPT ![t].todo = @ \ {q}, ![t].seen = Absent]
        /\ UserGoto(t, label)
    BY <1>3, <1>4, <1>5, <1>6, <1>8 DEF CopyMap
  <2>2. /\ pte'[c][q] = e
        /\ \A r \in Spaces, p \in Pages : <<r, p>> # <<c, q>> => pte'[r][p] = pte[r][p]
        /\ pte' \in [Spaces -> [Pages -> Entries]]
    BY <2>1, PteUpdate
  <2>3. /\ job'[t].call = job[t].call /\ job'[t].reg = job[t].reg /\ job'[t].child = c
        /\ job'[t].todo = job[t].todo \ {q} /\ job'[t].seen = Absent
        /\ \A u \in Users : u # t => job'[u] = job[u]
        /\ job' \in [Users -> Jobs]
    BY <1>0, <1>3, <2>1, JobNone DEF VMTypes, Jobs
  <2>4. /\ upc'[t] = label /\ \A u \in Users : u # t => upc'[u] = upc[u]
        /\ upc' \in [Users -> UserPCs]
    <3>1. label \in UserPCs
      BY DEF UserPCs
    <3> HIDE DEF label
    <3> QED BY <2>1, <3>1, GotoOthers
  <2>5. OthersSame(t) /\ space'[t] = space[t]
    BY <1>1, <2>3, <2>4 DEF OthersSame, Same
  <2>6. \A u \in Users : Same(u) \/ (upc[u] # "free_clear" /\ upc'[u] # "free_clear")
    BY <1>1, <2>4, <2>5 DEF OthersSame
  <2>7. /\ \A r \in Spaces, p \in Pages : <<r, p>> # <<c, q>> => PageFrame(r, p)' = PageFrame(r, p)
        /\ PageFrame(c, q) = Nil /\ PageFrame(c, q)' = e.to
    <3>1. \A r \in Spaces, p \in Pages : pte'[r][p] = pte[r][p] => (Pushed(r, p)' <=> Pushed(r, p))
      BY <2>6, PushedKept
    <3>2. ~Pushed(c, q) /\ ~Pushed(c, q)'
      BY <1>2, <1>3, <2>5 DEF Pushed, OthersSame, Same
    <3> HIDE DEF Pushed
    <3> QED BY <1>4, <2>2, <3>1, <3>2, AbsentIs DEF PageFrame
  <2>8. /\ \A u \in Users : u # t => CopiedFrame(u)' = CopiedFrame(u)
        /\ CopiedFrame(t) = e.to /\ CopiedFrame(t)' = Nil
    BY <1>1, <1>6, <2>4, <2>5 DEF CopiedFrame, OthersSame, Same
  <2>8a. /\ \A r \in Spaces, l \in Tomes : tbl'[r][l] = tbl[r][l] => TableFrame(r, l)' = TableFrame(r, l)
         /\ TableFrame(c, k) = tbl[c][k] /\ TableFrame(c, k)' = tbl'[c][k]
    <3>1. \A u \in Users : Same(u) \/ (upc[u] # "table_clear" /\ upc'[u] # "table_clear")
      BY <1>1, <2>4, <2>5 DEF OthersSame
    <3>2. \A r \in Spaces, l \in Tomes : TablePushed(r, l)' <=> TablePushed(r, l)
      BY <3>1, TablePushedKept
    <3>3. ~TablePushed(c, k)
      BY <1>1, <1>2, <1>3 DEF TablePushed
    <3> HIDE DEF TablePushed
    <3> QED BY <3>2, <3>3 DEF TableFrame
  <2>9. FrameInv' /\ next' \in [Frames -> Frames \cup {Nil}]
        /\ tbl' \in [Spaces -> [Tomes -> Frames \cup {Nil}]]
    <3>1. PICK F \in SUBSET Frames :
              /\ Shared(PageHolds, TableHolds, CopyHolds, F)
              /\ ListOf(F, head, next, avail)
              /\ \A f \in F \cup {Zfod} : rest[f] = 0
      BY DEF FrameInv
    <3> DEFINE ph == PageHolds
               ch == CopyHolds
               th == TableHolds
               th2 == TableHolds'
               ph2 == PageHolds'
               ch2 == CopyHolds'
    <3>2. /\ \A r \in Spaces, p \in Pages : ph[r][p] = PageFrame(r, p) /\ ph2[r][p] = PageFrame(r, p)'
          /\ \A u \in Users : ch[u] = CopiedFrame(u) /\ ch2[u] = CopiedFrame(u)'
          /\ \A r \in Spaces, l \in Tomes : th[r][l] = TableFrame(r, l) /\ th2[r][l] = TableFrame(r, l)'
      BY DEF PageHolds, CopyHolds, TableHolds
    <3> HIDE DEF ph, ch, ph2, ch2, th, th2
    <3>3. Shared(ph, th, ch, F)
      BY <3>1 DEF ph, ch, th
    <3>4. Shared(ph2, th, ch2, F)
      <4>1. ph[c][q] \notin Frames /\ ch2[t] \notin Frames /\ ph2[c][q] = ch[t]
        BY <2>7, <2>8, <3>2, VMSizes
      <4>2. \A u \in Users : u # t => ch2[u] = ch[u]
        BY <2>8, <3>2
      <4>3. \A r \in Spaces, p \in Pages : <<r, p>> # <<c, q>> => ph2[r][p] = ph[r][p]
        BY <2>7, <3>2
      <4> QED BY <3>3, <4>1, <4>2, <4>3, CopyBecomesPage
    <3>5. CASE new
      <4>1. Pop /\ head # Nil /\ tbl' = [tbl EXCEPT ![c][k] = head]
        BY <1>8, <2>1, <3>5
      <4>2. next \in [Frames -> Frames \cup {Nil}] /\ head \in Frames
        BY <4>1 DEF VMTypes
      <4>3. head \in F /\ ListOf(F \ {head}, head', next', avail')
        BY <3>1, <4>1, <4>2, ListPops DEF Pop
      <4>4. PICK h \in F : h = head
        BY <4>3
      <4>10. /\ tbl'[c][k] = head
             /\ \A r \in Spaces, l \in Tomes : <<r, l>> # <<c, k>> => tbl'[r][l] = tbl[r][l]
        BY <4>1, <4>2 DEF VMTypes
      <4>11. th[c][k] \notin Frames /\ th2[c][k] = h
        BY <2>8a, <3>2, <3>5, <4>4, <4>10, VMSizes
      <4>12. \A r \in Spaces, l \in Tomes : <<r, l>> # <<c, k>> => th2[r][l] = th[r][l]
        BY <2>8a, <3>2, <4>10
      <4>5. Shared(ph2, th2, ch2, F \ {h})
        BY <3>4, <4>11, <4>12, TableGets
      <4>6. Shared(PageHolds', TableHolds', CopyHolds', F \ {head})
        BY <4>4, <4>5 DEF ph2, ch2, th2
      <4>7. \A f \in (F \ {head}) \cup {Zfod} : rest'[f] = 0
        BY <1>1, <3>1
      <4>8. FrameInv'
        BY <4>3, <4>6, <4>7 DEF FrameInv
      <4>9. tbl' \in [Spaces -> [Tomes -> Frames \cup {Nil}]]
        BY <4>1, <4>2, TblUpdate
      <4> QED BY <4>1, <4>8, <4>9, PopTypes
    <3>6. CASE ~new
      <4>1. UNCHANGED <<listVars, tbl>>
        BY <2>1, <3>6
      <4>5. \A r \in Spaces, l \in Tomes : th2[r][l] = th[r][l]
        BY <2>8a, <3>2, <4>1
      <4>6. Shared(ph2, th2, ch2, F)
        BY <3>4, <4>5, SharedStays
      <4>2. Shared(PageHolds', TableHolds', CopyHolds', F)
        BY <4>6 DEF ph2, ch2, th2
      <4>3. ListOf(F, head', next', avail')
        BY <3>1, <4>1 DEF listVars
      <4>4. FrameInv'
        BY <1>1, <3>1, <4>2, <4>3 DEF FrameInv
      <4> QED BY <4>1, <4>4 DEF VMTypes, listVars
    <3> QED BY <3>5, <3>6
  <2>10. VMTypes'
    BY <1>1, <2>2, <2>3, <2>4, <2>9, TypesStep DEF VMTypes
  <2>11. ASSUME upc'[t] = "c_frame" PROVE SpaceInv'
    <3>1. ZfodInv'
      <4>1. \A r \in Spaces, p \in Pages : pte'[r][p] = pte[r][p]
                \/ (pte'[r][p].to = Zfod => ~pte'[r][p].rw)
        BY <1>1, <1>6, <2>2
      <4> QED BY <1>0, <2>6, <4>1, ZfodKept
    <3>2. UserInv(t)'
      <4>1. CallOf(t)'
        BY <1>0, <1>1, <1>3, <2>3, <2>5, <2>11 DEF CallOf, FaultPCs, FreePCs, CopyPCs
      <4>2. Held(t)' /\ Owner(t)' /\ Progress(t)'
        BY <1>2, <2>3, <2>11 DEF Held, Owner, Progress, FreePCs
      <4>3. job[t].todo \subseteq Pages
        BY <1>0 DEF Jobs
      <4>4. \A p \in job'[t].todo : pte'[c][p] = Absent
        BY <1>0, <1>1, <1>3, <2>2, <2>3, <4>3 DEF CopyProgress, CopyPCs
      <4>5. CopyProgress(t)'
        BY <1>0, <1>1, <1>3, <2>3, <2>5, <2>11, <4>4 DEF CopyProgress, CopyPCs
      <4> QED BY <4>1, <4>2, <4>5 DEF UserInv
    <3>3. RegionInv'
      <4>1. \A r \in Spaces, p \in Pages : pte'[r][p] # Absent => pte[r][p] # Absent \/
                \E i \in DOMAIN regions[r] : p \in PagesOf(regions[r][i])
        BY <1>4, <2>2
      <4>2. \A p \in job'[t].todo : Excused(t, c, p)'
        BY <2>3, <2>11 DEF Excused
      <4>3. \A r \in Spaces, p \in Pages :
               pte[r][p] # Absent \/ Excused(t, r, p) => pte'[r][p] # Absent \/ Excused(t, r, p)'
        <5> HIDE DEF Excused
        <5> QED BY <1>1, <1>2, <1>3, <1>4, <1>6, <2>2, <2>3, <4>2
      <4> HIDE DEF Excused
      <4> QED BY <1>0, <1>1, <2>5, <4>1, <4>3, RegionsKept
    <3>4. Works(t)' = {}
      BY <1>2, <2>3 DEF Works
    <3>5. \A u \in Users \ {t} : space[u] = space[t] => Works(t)' \cap Works(u) = {}
      BY <3>4
    <3>6. \A r \in Spaces, p \in Pages :
             pte'[r][p] = pte[r][p] \/ (r = job[t].child /\ upc[t] \in CopyPCs)
      BY <1>1, <1>3, <2>2 DEF CopyPCs
    <3>7. /\ job'[t].call = job[t].call /\ job'[t].child = job[t].child
          /\ upc[t] # "nascent" /\ upc'[t] # "nascent" /\ regions' = regions
      BY <1>1, <1>3, <2>3, <2>11
    <3> HIDE DEF Works, UserInv
    <3> QED BY <1>1, <2>5, <3>1, <3>2, <3>3, <3>5, <3>6, <3>7, OwnStep
  <2>12. CASE upc'[t] = "wild"
    BY <2>9, <2>10, <2>12, EndsHere
  <2> QED BY <2>4, <2>9, <2>10, <2>11, <2>12
<1> QED BY <1>7, <1>8

(* A thread that a step has no part in. *)
LEMMA AsideKept ==
    ASSUME SpaceInv, UNCHANGED spaceVars, NEW v \in Users, Same(v)
    PROVE  UserInv(v)' /\ \A s, p : Excused(v, s, p)' <=> Excused(v, s, p)
<1>1. UserInv(v)
  BY DEF SpaceInv
<1>2. upc'[v] = upc[v] /\ space'[v] = space[v] /\ job'[v] = job[v]
  BY DEF Same
<1>3. pte' = pte /\ regions' = regions /\ lock' = lock
  BY DEF spaceVars
<1>4. CallOf(v)' /\ Held(v)' /\ Owner(v)'
  BY <1>1, <1>2, <1>3 DEF UserInv, CallOf, Held, Owner
<1>5. Entry(v)' = Entry(v)
  BY <1>2, <1>3 DEF Entry, Page
<1>6. Progress(v)'
  <2> HIDE DEF Entry
  <2> QED BY <1>1, <1>2, <1>3, <1>5 DEF UserInv, Progress
<1>7. CopyProgress(v)'
  BY <1>1, <1>2, <1>3 DEF UserInv, CopyProgress
<1>8. ASSUME NEW s, NEW p PROVE Excused(v, s, p)' <=> Excused(v, s, p)
  BY <1>2 DEF Excused
<1> QED BY <1>4, <1>6, <1>7, <1>8 DEF UserInv

LEMMA RegionsAside ==
    ASSUME VMTypes, RegionInv, UNCHANGED spaceVars,
           \A u \in Users, s \in Spaces, p \in Pages : Excused(u, s, p) => Excused(u, s, p)'
    PROVE  RegionInv'
<1>1. pte' = pte /\ regions' = regions
  BY DEF spaceVars
<1>2. \A s \in Spaces : \A i \in DOMAIN regions[s] : PagesOf(regions[s][i]) \subseteq Pages
  <2>1. \A s \in Spaces : \A i \in DOMAIN regions[s] : regions[s][i] \in Regions
    BY DEF VMTypes
  <2> QED BY <2>1, PagesOfAre
<1> HIDE DEF Excused
<1>3. \A s \in Spaces : \A i \in DOMAIN regions[s] : \A p \in PagesOf(regions[s][i]) :
         pte[s][p] # Absent \/ \E u \in Users : Excused(u, s, p)'
  BY <1>2 DEF RegionInv
<1>4. /\ \A s \in Spaces : \A i, j \in DOMAIN regions[s] :
            i # j => PagesOf(regions[s][i]) \cap PagesOf(regions[s][j]) = {}
      /\ \A s \in Spaces, p \in Pages :
            pte[s][p] # Absent => \E i \in DOMAIN regions[s] : p \in PagesOf(regions[s][i])
  BY DEF RegionInv
<1> QED BY <1>1, <1>3, <1>4 DEF RegionInv

LEMMA CallForkKeeps ==
    ASSUME VMTypes, FrameInv, SpaceInv, NEW t \in Users, NEW c \in Spaces, NEW u \in Users, CallFork(t, c, u)
    PROVE  VMTypes' /\ FrameInv' /\ SpaceInv'
<1>0. /\ UserInv(t) /\ CallOf(t) /\ UserInv(u) /\ CallOf(u) /\ RegionInv /\ ZfodInv
      /\ job[t] \in Jobs /\ job[u] \in Jobs
  BY DEF SpaceInv, UserInv, VMTypes
<1>1. PICK s \in Spaces : s = space[t]
  BY InSpace DEF CallFork
<1>2. /\ upc[t] = "out" /\ upc[u] = "absent" /\ u # t
      /\ regions[c] = <<>> /\ \A v \in Users : space[v] # c /\ job[v].child # c
      /\ \A v \in Users : v # t => space[v] # s
      /\ upc' = [upc EXCEPT ![t] = "c_region", ![u] = "nascent"]
      /\ job' = [job EXCEPT ![t].call = "fork", ![t].child = c, ![u].child = c]
      /\ UNCHANGED <<frameVars, spaceVars, space>>
  BY <1>1 DEF CallFork, Peers, Unused
<1>3. job[t] = NoJob /\ job[u] = NoJob /\ space[u] = Nil /\ s # c
  BY <1>0, <1>1, <1>2 DEF CallOf
<1>4. /\ upc'[t] = "c_region" /\ upc'[u] = "nascent"
      /\ \A v \in Users : v # t /\ v # u => upc'[v] = upc[v]
      /\ upc' \in [Users -> UserPCs]
  BY <1>2 DEF VMTypes, UserPCs
<1>5. /\ NoJob.call = "none" /\ NoJob.child = Nil /\ NoJob.todo = {} /\ NoJob.seen = Absent
      /\ NoJob \in Jobs
  BY JobNone DEF NoJob
<1>6. /\ job'[t].call = "fork" /\ job'[t].child = c /\ job'[t].todo = {} /\ job'[t].seen = Absent
      /\ job'[u].call = "none" /\ job'[u].child = c
      /\ \A v \in Users : v # t /\ v # u => job'[v] = job[v]
      /\ job' \in [Users -> Jobs]
  BY <1>0, <1>2, <1>3, <1>5 DEF VMTypes, Jobs
<1>7. \A v \in Users : v # t /\ v # u => Same(v)
  BY <1>2, <1>4, <1>6 DEF Same
<1>8. \A v \in Users : Same(v) \/ (upc[v] \notin HoldPCs /\ upc'[v] \notin HoldPCs)
  BY <1>2, <1>4, <1>7 DEF HoldPCs
<1>9. UNCHANGED <<frameVars, pte, tbl, regions>>
  BY <1>2 DEF spaceVars
<1>10. FrameInv'
  BY <1>8, <1>9, FramesAside
<1>11. VMTypes'
  BY <1>2, <1>4, <1>6, <1>10, TypesStep DEF VMTypes, spaceVars, frameVars, listVars
<1>12. ZfodInv'
  <2>1. \A v \in Users : Same(v) \/ (upc[v] # "free_clear" /\ upc'[v] # "free_clear")
    BY <1>8 DEF HoldPCs
  <2> QED BY <1>0, <1>9, <2>1, ZfodKept
<1>13. \A v \in Users : v # t /\ v # u =>
          UserInv(v)' /\ \A r, p : Excused(v, r, p)' <=> Excused(v, r, p)
  BY <1>2, <1>7, AsideKept
<1>14. RegionInv'
  <2>1. \A r \in Spaces, p \in Pages : ~Excused(t, r, p) /\ ~Excused(u, r, p)
    BY <1>2, <1>3, <1>5 DEF Excused
  <2> HIDE DEF Excused
  <2>2. \A v \in Users, r \in Spaces, p \in Pages : Excused(v, r, p) => Excused(v, r, p)'
    BY <1>13, <2>1
  <2> QED BY <1>0, <1>2, <2>2, RegionsAside
<1>15. UserInv(t)'
  <2>1. CallOf(t)'
    BY <1>1, <1>2, <1>3, <1>4, <1>6, VMSizes DEF CallOf, FaultPCs, FreePCs, CopyPCs
  <2>2. Held(t)' /\ Owner(t)' /\ Progress(t)'
    BY <1>4, <1>6 DEF Held, Owner, Progress, FreePCs
  <2>3. PICK src \in Seq(Regions) : src = regions[s]
    BY DEF VMTypes
  <2>4. Len(<<>>) <= Len(src) /\ DOMAIN <<>> = {}
    OBVIOUS
  <2>5. regions'[job'[t].child] = <<>> /\ regions'[space'[t]] = src
    BY <1>1, <1>2, <1>6, <1>9, <2>3
  <2>6. CopyProgress(t)'
    BY <1>4, <1>6, <2>4, <2>5 DEF CopyProgress
  <2> QED BY <2>1, <2>2, <2>6 DEF UserInv
<1>16. UserInv(u)'
  <2>1. CallOf(u)'
    BY <1>2, <1>3, <1>4, <1>6, VMSizes DEF CallOf, FaultPCs, FreePCs, CopyPCs
  <2>2. Held(u)' /\ Owner(u)' /\ Progress(u)' /\ CopyProgress(u)'
    BY <1>4, <1>6 DEF Held, Owner, Progress, CopyProgress, FreePCs, CopyPCs
  <2> QED BY <2>1, <2>2 DEF UserInv
<1>17. ASSUME NEW v \in Users, NEW w \in Users, v # w PROVE Apart(v, w)'
  <2>1. /\ space'[v] = space[v] /\ space'[w] = space[w] /\ Apart(v, w)
        /\ space'[t] = s /\ space'[u] = Nil
    BY <1>1, <1>2, <1>3, <1>17 DEF SpaceInv
  <2>2. job[v].child \in Spaces \cup {Nil} /\ job[w].child \in Spaces \cup {Nil}
    BY DEF VMTypes, Jobs
  <2>3. CASE v = t
    <3>1. space[w] # s /\ space[w] # c /\ job[w].child # c
      BY <1>2, <1>17, <2>3
    <3>2. w # u => job'[w] = job[w]
      BY <1>6, <1>17, <2>3
    <3>3. w = u => upc'[w] = "nascent"
      BY <1>4
    <3> QED BY <1>4, <1>6, <2>1, <2>3, <3>1, <3>2, <3>3 DEF Apart
  <2>4. CASE v = u
    <3>1. space[w] # c /\ job[w].child # c
      BY <1>2
    <3>2. w # t => job'[w] = job[w]
      BY <1>6, <1>17, <2>4
    <3>3. w = t => upc'[w] # "nascent"
      BY <1>4
    <3> QED BY <1>4, <1>6, <2>1, <2>4, <3>1, <3>2, <3>3 DEF Apart
  <2>5. CASE v # t /\ v # u
    <3>1. job'[v] = job[v] /\ upc'[v] = upc[v] /\ job[v].child # c
      BY <1>2, <1>4, <1>6, <2>5
    <3>2. CASE w = t \/ w = u
      <4>1. ~(space[v] # Nil /\ space[v] = space[w])
        BY <1>1, <1>2, <1>3, <2>5, <3>2
      <4>2. job'[w].child = c
        BY <1>6, <3>2
      <4> QED BY <2>1, <3>1, <4>1, <4>2 DEF Apart
    <3>3. CASE w # t /\ w # u
      <4>1. job'[w] = job[w] /\ upc'[w] = upc[w]
        BY <1>4, <1>6, <3>3
      <4>2. Works(v)' = Works(v) /\ Works(w)' = Works(w)
        BY <3>1, <4>1 DEF Works
      <4> HIDE DEF Works
      <4> QED BY <2>1, <3>1, <4>1, <4>2 DEF Apart
    <3> QED BY <3>2, <3>3
  <2> QED BY <2>3, <2>4, <2>5
<1>18. \A v \in Users : UserInv(v)'
  <2> HIDE DEF UserInv
  <2> QED BY <1>13, <1>15, <1>16
<1>19. SpaceInv'
  BY <1>12, <1>14, <1>17, <1>18 DEF SpaceInv
<1> QED BY <1>10, <1>11, <1>19

LEMMA ForkReturnsKeeps ==
    ASSUME VMTypes, FrameInv, SpaceInv, NEW t \in Users, ForkReturns(t)
    PROVE  VMTypes' /\ FrameInv' /\ SpaceInv'
<1>0. /\ UserInv(t) /\ CallOf(t) /\ RegionInv /\ ZfodInv
  BY DEF SpaceInv, UserInv
<1>1. upc[t] = "c_region" /\ UNCHANGED <<frameVars, spaceVars>>
  BY DEF ForkReturns
<1>2. PICK s \in Spaces, c \in Spaces : s = space[t] /\ c = job[t].child /\ s # c
  BY <1>1, ForkAlone DEF CopyPCs
<1>3. PICK u \in Users \ {t} :
        /\ job[u].child = c
        /\ space' = [space EXCEPT ![u] = c]
        /\ upc' = [upc EXCEPT ![t] = "out", ![u] = "out"]
        /\ job' = [job EXCEPT ![t] = NoJob, ![u] = NoJob]
  BY <1>2 DEF ForkReturns
<1>4. /\ upc'[t] = "out" /\ upc'[u] = "out" /\ job'[t] = NoJob /\ job'[u] = NoJob
      /\ space'[t] = s /\ space'[u] = c
      /\ \A v \in Users : v # t /\ v # u =>
            upc'[v] = upc[v] /\ job'[v] = job[v] /\ space'[v] = space[v]
      /\ upc' \in [Users -> UserPCs] /\ job' \in [Users -> Jobs]
      /\ space' \in [Users -> Spaces \cup {Nil}]
  BY <1>2, <1>3, JobNone DEF VMTypes, UserPCs
<1>5. upc[u] = "nascent"
  <2>1. Apart(t, u)
    BY <1>3 DEF SpaceInv
  <2> QED BY <1>1, <1>2, <1>3, <2>1, VMSizes DEF Apart
<1>6. \A v \in Users : v # t /\ v # u => Same(v)
  BY <1>4 DEF Same
<1>7. /\ \A v \in Users : v # t => space[v] # c /\ space[v] # s
      /\ \A v \in Users : v # t /\ v # u => job[v].child # c /\ job[v].child # s
  <2>1. \A v \in Users : v # t => Apart(t, v) /\ Apart(v, t)
    BY DEF SpaceInv
  <2>2. \A v \in Users : v # t => space[v] # c /\ space[v] # s
    BY <1>1, <1>2, ForkAlone DEF CopyPCs
  <2>3. ASSUME NEW v \in Users, v # t, v # u PROVE job[v].child # c /\ job[v].child # s
    <3>1. job[v].child # s
      BY <1>2, <2>1, <2>3, VMSizes DEF Apart
    <3>2. job[v].child = c => upc[v] = "nascent"
      BY <1>1, <1>2, <2>1, <2>3, VMSizes DEF Apart
    <3>3. Apart(u, v)
      BY <1>3, <2>3 DEF SpaceInv
    <3>4. job[v].child # c
      BY <1>2, <1>3, <1>5, <3>2, <3>3, VMSizes DEF Apart
    <3> QED BY <3>1, <3>4
  <2> QED BY <2>2, <2>3
<1>8. \A v \in Users : Same(v) \/ (upc[v] \notin HoldPCs /\ upc'[v] \notin HoldPCs)
  BY <1>1, <1>4, <1>5, <1>6 DEF HoldPCs
<1>9. UNCHANGED <<frameVars, pte, tbl, regions>>
  BY <1>1 DEF spaceVars
<1>10. FrameInv'
  BY <1>8, <1>9, FramesAside
<1>11. VMTypes'
  BY <1>1, <1>4, <1>10, TypesStep DEF VMTypes, spaceVars, frameVars, listVars
<1>12. ZfodInv'
  <2>1. \A v \in Users : Same(v) \/ (upc[v] # "free_clear" /\ upc'[v] # "free_clear")
    BY <1>8 DEF HoldPCs
  <2> QED BY <1>0, <1>9, <2>1, ZfodKept
<1>13. \A v \in Users : v # t /\ v # u =>
          UserInv(v)' /\ \A r, p : Excused(v, r, p)' <=> Excused(v, r, p)
  BY <1>1, <1>6, AsideKept
<1>14. RegionInv'
  <2>1. job[t].call = "fork" /\ job[u].call = "none"
    BY <1>0, <1>1, <1>3, <1>5 DEF CallOf, CopyPCs, SpaceInv, UserInv
  <2>2. \A r \in Spaces, p \in Pages : ~Excused(t, r, p) /\ ~Excused(u, r, p)
    BY <1>1, <1>5, <2>1 DEF Excused
  <2> HIDE DEF Excused
  <2>3. \A v \in Users, r \in Spaces, p \in Pages : Excused(v, r, p) => Excused(v, r, p)'
    BY <1>13, <2>2
  <2> QED BY <1>0, <1>1, <2>3, RegionsAside
<1>15. /\ UserInv(t)' /\ Works(t)' = {} /\ job'[t].call = "none" /\ job'[t].child = Nil
       /\ UserInv(u)' /\ Works(u)' = {} /\ job'[u].call = "none" /\ job'[u].child = Nil
  BY <1>4, OutIs
<1>16. ASSUME NEW v \in Users, NEW w \in Users, v # w PROVE Apart(v, w)'
  <2>1. Apart(v, w) /\ job[v].child \in Spaces \cup {Nil}
    BY <1>16 DEF SpaceInv, VMTypes, Jobs
  <2>2. CASE v = t \/ v = u
    <3>1. /\ Works(v)' = {} /\ job'[v].call = "none" /\ job'[v].child = Nil
      BY <1>15, <2>2
    <3> HIDE DEF Works
    <3> QED BY <3>1 DEF Apart
  <2>3. CASE v # t /\ v # u
    <3>1. job'[v] = job[v] /\ upc'[v] = upc[v] /\ space'[v] = space[v]
      BY <1>4, <2>3
    <3>2. CASE w = t \/ w = u
      <4>1. space[v] # s /\ space[v] # c /\ job[v].child # s /\ job[v].child # c
        BY <1>7, <2>3
      <4>2. (space'[w] = s \/ space'[w] = c) /\ job'[w].child = Nil
        BY <1>4, <1>15, <3>2
      <4> QED BY <3>1, <4>1, <4>2 DEF Apart
    <3>3. CASE w # t /\ w # u
      <4>1. job'[w] = job[w] /\ upc'[w] = upc[w] /\ space'[w] = space[w]
        BY <1>4, <3>3
      <4>2. Works(v)' = Works(v) /\ Works(w)' = Works(w)
        BY <3>1, <4>1 DEF Works
      <4> HIDE DEF Works
      <4> QED BY <2>1, <3>1, <4>1, <4>2 DEF Apart
    <3> QED BY <3>2, <3>3
  <2> QED BY <2>2, <2>3
<1>17. \A v \in Users : UserInv(v)'
  <2> HIDE DEF UserInv
  <2> QED BY <1>13, <1>15
<1>18. SpaceInv'
  BY <1>12, <1>14, <1>16, <1>17 DEF SpaceInv
<1> QED BY <1>10, <1>11, <1>18

-----------------------------------------------------------------------------
(* The start *)

LEMMA AllInSeq ==
    ASSUME NEW f \in SetToSeqs(Frames)
    PROVE  /\ f \in Seq(Frames) /\ Len(f) = Cardinality(Frames) /\ Len(f) \in Nat
           /\ DOMAIN f = 1 .. Len(f)
           /\ \A i, j \in DOMAIN f : i # j => f[i] # f[j]
           /\ \A g \in Frames : \E i \in DOMAIN f : f[i] = g
<1> DEFINE n == Cardinality(Frames)
<1>1. n \in Nat /\ IsFiniteSet(Frames)
  BY VMSizes, FS_CardinalityType
<1>2. f \in [1 .. n -> Frames] /\ \A i, j \in 1 .. n : i # j => f[i] # f[j]
  BY DEF SetToSeqs
<1>3. IsFiniteSet(1 .. n) /\ Cardinality(1 .. n) = n
  BY <1>1, FS_Interval
<1>4. f \in Injection(1 .. n, Frames)
  BY <1>2 DEF Injection, IsInjective
<1>5. f \in Surjection(1 .. n, Frames)
  BY <1>1, <1>3, <1>4, FS_Injection
<1>6. \A g \in Frames : \E i \in 1 .. n : f[i] = g
  BY <1>5 DEF Surjection
<1> HIDE DEF n
<1>7. f \in Seq(Frames) /\ Len(f) = n /\ DOMAIN f = 1 .. n
  BY <1>1, <1>2
<1> QED BY <1>1, <1>2, <1>6, <1>7 DEF n

LEMMA VMInitHolds == VMInit => VMIInv
<1> SUFFICES ASSUME VMInit PROVE VMIInv
  OBVIOUS
<1>1. PICK s0 \in Spaces, t0 \in Users, f \in SetToSeqs(Frames), text \in BOOLEAN :
        LET first == IF text THEN 3 ELSE 2
            page0 == [to |-> IF text THEN f[2] ELSE Zfod, rw |-> FALSE]
        IN
          /\ head = f[first]
          /\ next = [g \in Frames |->
                       LET i == CHOOSE i \in DOMAIN f : f[i] = g
                       IN  IF i \in first .. Len(f) - 1 THEN f[i + 1] ELSE Nil]
          /\ avail = Len(f) - first
          /\ rest = [g \in Frames \cup {Zfod} |-> IF text /\ g = f[2] THEN t0 ELSE 0]
          /\ pte = [s \in Spaces |-> [p \in Pages |->
                      IF s = s0 /\ p = 0 THEN page0 ELSE Absent]]
          /\ tbl = [s \in Spaces |-> [k \in Tomes |->
                      IF s = s0 /\ k = 0 THEN f[1] ELSE Nil]]
          /\ regions = [s \in Spaces |->
                      IF s = s0 THEN <<[start |-> 0, end |-> 1, new |-> FALSE]>> ELSE <<>>]
          /\ lock = [s \in Spaces |-> Nil]
          /\ space = [t \in Users |-> IF t = t0 THEN s0 ELSE Nil]
          /\ upc = [t \in Users |-> IF t = t0 THEN "out" ELSE "absent"]
          /\ job = [t \in Users |-> NoJob]
  BY DEF VMInit
<1>2. PICK first \in {2, 3} : first = IF text THEN 3 ELSE 2
  OBVIOUS
<1>3. PICK to \in Frames \cup {Zfod} : to = IF text THEN f[2] ELSE Zfod
  BY AllInSeq, VMSizes
<1> DEFINE page0 == [to |-> to, rw |-> FALSE]
           reg0 == [start |-> 0, end |-> 1, new |-> FALSE]
<1>4. /\ f \in Seq(Frames) /\ Len(f) = Cardinality(Frames) /\ Len(f) \in Nat /\ Len(f) >= 3
      /\ DOMAIN f = 1 .. Len(f)
      /\ \A i, j \in DOMAIN f : i # j => f[i] # f[j]
      /\ \A g \in Frames : \E i \in DOMAIN f : f[i] = g
  BY AllInSeq, VMSizes
<1>5. /\ head = f[first] /\ avail = Len(f) - first
      /\ rest = [g \in Frames \cup {Zfod} |-> IF text /\ g = f[2] THEN t0 ELSE 0]
      /\ pte = [s \in Spaces |-> [p \in Pages |-> IF s = s0 /\ p = 0 THEN page0 ELSE Absent]]
      /\ tbl = [s \in Spaces |-> [k \in Tomes |-> IF s = s0 /\ k = 0 THEN f[1] ELSE Nil]]
      /\ regions = [s \in Spaces |-> IF s = s0 THEN <<reg0>> ELSE <<>>]
      /\ lock = [s \in Spaces |-> Nil]
      /\ space = [t \in Users |-> IF t = t0 THEN s0 ELSE Nil]
      /\ upc = [t \in Users |-> IF t = t0 THEN "out" ELSE "absent"]
      /\ job = [t \in Users |-> NoJob]
  BY <1>1, <1>2, <1>3
<1>6. /\ next \in [Frames -> Frames \cup {Nil}]
      /\ \A i \in DOMAIN f : next[f[i]] = IF i \in first .. Len(f) - 1 THEN f[i + 1] ELSE Nil
  <2> DEFINE at(g) == CHOOSE i \in DOMAIN f : f[i] = g
  <2>1. next = [g \in Frames |-> IF at(g) \in first .. Len(f) - 1 THEN f[at(g) + 1] ELSE Nil]
    BY <1>1, <1>2
  <2>2. \A g \in Frames : at(g) \in DOMAIN f /\ f[at(g)] = g
    BY <1>4
  <2>3. \A i \in DOMAIN f : f[i] \in Frames /\ at(f[i]) = i
    BY <1>4, <2>2
  <2> HIDE DEF at
  <2>4. ASSUME NEW g \in Frames
        PROVE  (IF at(g) \in first .. Len(f) - 1 THEN f[at(g) + 1] ELSE Nil) \in Frames \cup {Nil}
    <3>1. CASE at(g) \in first .. Len(f) - 1
      <4>1. at(g) + 1 \in DOMAIN f
        BY <1>4, <3>1
      <4> QED BY <1>4, <3>1, <4>1
    <3> QED BY <3>1
  <2> QED BY <2>1, <2>3, <2>4
<1>7. 0 \in Pages /\ 0 \in Tomes /\ reg0 \in Regions /\ PagesOf(reg0) = {0}
  <2>1. NumPages \in Nat \ {0} /\ TomeSize \in Nat \ {0} /\ NumPages - 1 \in Nat
    BY VMSizes
  <2>2. Tome(NumPages - 1) \in Nat
    BY <2>1, DivOfNat DEF Tome
  <2>3. PagesOf(reg0) = 0 .. 0
    BY DEF PagesOf
  <2> QED BY <2>1, <2>2, <2>3 DEF Pages, Tomes, Regions
<1>8. /\ page0 \in Entries /\ page0 # Absent /\ page0.to = to /\ ~page0.rw
      /\ Absent \in Entries /\ NoJob \in Jobs
  BY JobNone, AbsentIs, VMSizes DEF Entries
<1> HIDE DEF page0, reg0
<1>9. VMTypes
  <2>1. /\ head \in Frames \cup {Nil} /\ avail \in -1 .. Cardinality(Frames) - 1
        /\ f[1] \in Frames
    BY <1>4, <1>5
  <2>2. rest \in [Frames \cup {Zfod} -> Users \cup {0}] /\ lock \in [Spaces -> Users \cup {Nil}]
    BY <1>5
  <2>3. pte \in [Spaces -> [Pages -> Entries]]
    BY <1>5, <1>8
  <2>4. tbl \in [Spaces -> [Tomes -> Frames \cup {Nil}]]
    BY <1>5, <2>1
  <2>5. regions \in [Spaces -> Seq(Regions)]
    <3>1. <<reg0>> \in Seq(Regions) /\ <<>> \in Seq(Regions)
      BY <1>7
    <3> QED BY <1>5, <3>1
  <2>6. space \in [Users -> Spaces \cup {Nil}] /\ upc \in [Users -> UserPCs]
    BY <1>5 DEF UserPCs
  <2>7. job \in [Users -> Jobs]
    BY <1>5, <1>8
  <2> QED BY <1>6, <2>1, <2>2, <2>3, <2>4, <2>5, <2>6, <2>7 DEF VMTypes
<1>10. /\ \A t \in Users : upc[t] \in {"out", "absent"} /\ job[t] = NoJob
       /\ \A s \in Spaces, p \in Pages : pte[s][p] = IF s = s0 /\ p = 0 THEN page0 ELSE Absent
       /\ \A s \in Spaces, k \in Tomes : tbl[s][k] = IF s = s0 /\ k = 0 THEN f[1] ELSE Nil
       /\ NoJob.call = "none" /\ NoJob.child = Nil /\ NoJob.todo = {}
  BY <1>5 DEF NoJob
<1>11. FrameInv
  <2> DEFINE n == Len(f) - first + 1
             q == [i \in 1 .. n |-> f[i + first - 1]]
             F == {f[i] : i \in first .. Len(f)}
             ph == PageHolds
             ch == CopyHolds
  <2>1. n \in Nat /\ n >= 1 /\ n = Len(f) - first + 1
    BY <1>4
  <2>2. /\ \A s \in Spaces, p \in Pages : ph[s][p] = IF s = s0 /\ p = 0 THEN to ELSE Nil
        /\ \A t \in Users : ch[t] = Nil
    <3>1. \A s \in Spaces, p \in Pages : ~Pushed(s, p)
      BY <1>10 DEF Pushed
    <3>2. \A s \in Spaces, p \in Pages : PageFrame(s, p) = pte[s][p].to
      <4> HIDE DEF Pushed
      <4> QED BY <3>1 DEF PageFrame
    <3> QED BY <1>8, <1>10, <3>2, AbsentIs DEF PageHolds, CopyHolds, CopiedFrame
  <2>2a. TableHolds = tbl
    <3>1. \A s, k : ~TablePushed(s, k)
      BY <1>10 DEF TablePushed
    <3>2. \A s \in Spaces, k \in Tomes : TableFrame(s, k) = tbl[s][k]
      <4> HIDE DEF TablePushed
      <4> QED BY <3>1 DEF TableFrame
    <3>3. tbl \in [Spaces -> [Tomes -> Frames \cup {Nil}]]
      BY <1>9 DEF VMTypes
    <3> HIDE DEF TableFrame
    <3> QED BY <3>2, <3>3 DEF TableHolds
  <2> HIDE DEF ph, ch
  <2>3. F \in SUBSET Frames
    BY <1>4
  <2>4. \A i \in DOMAIN f : f[i] \in F <=> i \in first .. Len(f)
    BY <1>4
  <2> HIDE DEF n, F
  <2>5. /\ f[1] \in Frames /\ f[2] \in Frames /\ f[1] # f[2]
        /\ \A g \in Frames : g \in F <=> g # f[1] /\ (text => g # f[2])
    <3>1. 1 \in DOMAIN f /\ 2 \in DOMAIN f
      BY <1>4
    <3>2. ASSUME NEW g \in Frames PROVE g \in F <=> g # f[1] /\ (text => g # f[2])
      <4>1. PICK i \in DOMAIN f : f[i] = g
        BY <1>4
      <4>2. g = f[1] <=> i = 1
        BY <1>4, <3>1, <4>1
      <4>3. g = f[2] <=> i = 2
        BY <1>4, <3>1, <4>1
      <4>4. i \in first .. Len(f) <=> i # 1 /\ (text => i # 2)
        BY <1>2, <1>4
      <4> QED BY <2>4, <4>1, <4>2, <4>3, <4>4
    <3> QED BY <1>4, <3>1, <3>2
  <2>6. Shared(ph, tbl, ch, F)
    <3>1. to = IF text THEN f[2] ELSE Zfod
      BY <1>3
    <3>2. /\ \A s, r \in Spaces, p, x \in Pages :
               ph[s][p] \in Frames /\ ph[s][p] = ph[r][x] => s = r /\ p = x
          /\ \A s, r \in Spaces, k, l \in Tomes :
               tbl[s][k] \in Frames /\ tbl[s][k] = tbl[r][l] => s = r /\ k = l
          /\ \A s, r \in Spaces, p \in Pages, k \in Tomes :
               ph[s][p] \in Frames => ph[s][p] # tbl[r][k]
      BY <1>10, <2>2, <2>5, <3>1, VMSizes
    <3>3. \A g \in Frames :
             g \in F <=> /\ \A s \in Spaces, p \in Pages : ph[s][p] # g
                         /\ \A s \in Spaces, k \in Tomes : tbl[s][k] # g
                         /\ \A t \in Users : ch[t] # g
      BY <1>7, <1>10, <2>2, <2>5, <3>1, VMSizes
    <3> QED BY <2>2, <2>3, <3>2, <3>3, VMSizes DEF Shared
  <2>7. ListOf(F, head, next, avail)
    <3>1. \A i \in 1 .. n : i + first - 1 \in DOMAIN f
      BY <1>4, <2>1
    <3>2. q \in [1 .. n -> Frames]
      BY <1>4, <3>1
    <3>4. \A i \in 1 .. n : q[i] = f[i + first - 1]
      OBVIOUS
    <3> HIDE DEF q
    <3>3. q \in Seq(Frames) /\ Len(q) = n /\ DOMAIN q = 1 .. n
      BY <2>1, <3>2
    <3>5. \A i, j \in DOMAIN q : q[i] = q[j] => i = j
      <4> SUFFICES ASSUME NEW i \in 1 .. n, NEW j \in 1 .. n, q[i] = q[j] PROVE i = j
        BY <3>3
      <4>1. f[i + first - 1] = f[j + first - 1]
        BY <3>4
      <4>2. i + first - 1 = j + first - 1
        BY <1>4, <3>1, <4>1
      <4> QED BY <2>1, <4>2
    <3>6. q # <<>> /\ head = q[1]
      BY <1>5, <2>1, <3>3, <3>4
    <3>7. ASSUME NEW i \in DOMAIN q PROVE next[q[i]] = IF i = Len(q) THEN Nil ELSE q[i + 1]
      <4>1. i \in 1 .. n /\ q[i] = f[i + first - 1] /\ i + first - 1 \in DOMAIN f
        BY <3>1, <3>3, <3>4
      <4>2. i + first - 1 \in first .. Len(f) - 1 <=> i # n
        BY <1>4, <2>1, <4>1
      <4>3. i # n => i + 1 \in 1 .. n /\ q[i + 1] = f[i + first - 1 + 1]
        <5>1. i # n => i + 1 \in 1 .. n /\ (i + 1) + first - 1 = i + first - 1 + 1
          BY <2>1, <4>1
        <5> QED BY <3>4, <5>1
      <4> QED BY <1>6, <3>3, <4>1, <4>2, <4>3
    <3>8. IsFreeList(q, head, next)
      BY <3>3, <3>5, <3>6, <3>7 DEF IsFreeList
    <3>9. ToSet(q) = F
      <4>1. ToSet(q) = {q[i] : i \in 1 .. n}
        BY <3>3 DEF ToSet
      <4>2. \A i \in 1 .. n : q[i] \in F
        <5> SUFFICES ASSUME NEW i \in 1 .. n PROVE f[i + first - 1] \in F
          BY <3>4
        <5>1. i + first - 1 \in first .. Len(f)
          BY <1>4, <2>1
        <5> QED BY <2>4, <3>1, <5>1
      <4>3. ASSUME NEW g \in F PROVE \E i \in 1 .. n : q[i] = g
        <5>1. PICK i \in first .. Len(f) : f[i] = g
          BY DEF F
        <5>2. i - first + 1 \in 1 .. n /\ (i - first + 1) + first - 1 = i
          BY <1>4, <2>1, <5>1
        <5> QED BY <3>4, <5>1, <5>2
      <4> QED BY <4>1, <4>2, <4>3
    <3>10. avail = Len(q) - 1
      BY <1>4, <1>5, <2>1, <3>3
    <3> QED BY <3>3, <3>8, <3>9, <3>10 DEF ListOf
  <2>8. \A g \in F \cup {Zfod} : rest[g] = 0
    BY <1>5, <2>3, <2>5, VMSizes
  <2> QED BY <2>2a, <2>3, <2>6, <2>7, <2>8 DEF FrameInv, ph, ch
<1>12. SpaceInv
  <2>1. ASSUME NEW t \in Users PROVE UserInv(t)
    <3>1. CallOf(t)
      BY <1>5, <1>10, VMSizes DEF CallOf, FaultPCs, FreePCs, CopyPCs
    <3>2. Held(t) /\ Owner(t) /\ Progress(t) /\ CopyProgress(t)
      BY <1>10 DEF Held, Owner, Progress, CopyProgress, FreePCs, CopyPCs
    <3> QED BY <3>1, <3>2 DEF UserInv
  <2>2. \A t, u \in Users : t # u => Apart(t, u)
    BY <1>10 DEF Apart, Works
  <2>3. RegionInv
    <3>1. /\ DOMAIN <<reg0>> = {1} /\ <<reg0>>[1] = reg0 /\ DOMAIN <<>> = {}
      OBVIOUS
    <3>2. \A s \in Spaces : \A i \in DOMAIN regions[s] : s = s0 /\ i = 1 /\ regions[s][i] = reg0
      BY <1>5, <3>1
    <3>3. 1 \in DOMAIN regions[s0] /\ regions[s0][1] = reg0
      BY <1>5, <3>1
    <3> QED BY <1>7, <1>8, <1>10, <3>2, <3>3 DEF RegionInv
  <2>4. ZfodInv
    BY <1>8, <1>10, AbsentIs DEF ZfodInv
  <2> QED BY <2>1, <2>2, <2>3, <2>4 DEF SpaceInv
<1> QED BY <1>9, <1>11, <1>12 DEF VMIInv

-----------------------------------------------------------------------------
(* Every step *)

LEMMA VMStepHolds ==
    ASSUME ~SharePages, VMIInv, [VMNext]_vmVars
    PROVE  VMIInv'
<1>1. CASE UNCHANGED vmVars
  <2>1. UNCHANGED <<frameVars, spaceVars, space, upc, job>> /\ \A u \in Users : Same(u)
    BY <1>1 DEF vmVars, Same
  <2>2. VMTypes /\ FrameInv /\ (~Stopped => SpaceInv) /\ (Stopped <=> Stopped')
    BY <2>1 DEF VMIInv, Stopped
  <2>3. FrameInv'
    BY <2>1, <2>2, FramesAside DEF spaceVars
  <2>4. VMTypes'
    BY <2>1, <2>2 DEF VMTypes, spaceVars, frameVars, listVars
  <2>5. ASSUME SpaceInv PROVE SpaceInv'
    <3>1. /\ \A u \in Users : UserInv(u)'
          /\ \A u \in Users, s \in Spaces, p \in Pages : Excused(u, s, p) => Excused(u, s, p)'
      BY <2>1, <2>5, AsideKept
    <3>2. \A t, u \in Users : t # u => Apart(t, u)'
      BY <2>1, <2>5 DEF SpaceInv, Apart, Works
    <3>3. RegionInv /\ ZfodInv /\ pte' = pte
      BY <2>1, <2>5 DEF SpaceInv, spaceVars
    <3>4. RegionInv'
      <4> HIDE DEF Excused
      <4> QED BY <2>1, <2>2, <3>1, <3>3, RegionsAside
    <3>5. ZfodInv'
      BY <2>1, <3>3, ZfodKept
    <3> HIDE DEF UserInv, Apart
    <3> QED BY <3>1, <3>2, <3>4, <3>5 DEF SpaceInv
  <2> QED BY <2>2, <2>3, <2>4, <2>5 DEF VMIInv
<1>2. CASE VMNext
  <2>1. VMTypes /\ FrameInv /\ SpaceInv
    BY <1>2 DEF VMNext, VMIInv
  <2>2. PICK t \in Users :
          CallStep(t) \/ FaultStep(t) \/ NewPage(t) \/ NewPageFails(t) \/ FreeStep(t) \/ CopyStep(t)
    BY <1>2 DEF VMNext
  <2>3. CASE CallStep(t)
    <3>1. CASE \E p \in Pages : Write(t, p) \/ CallRemove(t, p)
      BY <2>1, <3>1, WriteKeeps, CallRemoveKeeps DEF VMIInv
    <3>2. CASE \E r \in NewRegions : CallNew(t, r)
      BY <2>1, <3>2, CallNewKeeps DEF VMIInv
    <3>3. CASE \E u \in Users : ThreadFork(t, u) \/ \E c \in Spaces : CallFork(t, c, u)
      BY <2>1, <3>3, ThreadForkKeeps, CallForkKeeps DEF VMIInv
    <3>4. CASE Vanish(t)
      BY <2>1, <3>4, VanishKeeps DEF VMIInv
    <3> QED BY <2>3, <3>1, <3>2, <3>3, <3>4 DEF CallStep
  <2>4. CASE FaultStep(t)
    BY <2>1, <2>4, FaultLookKeeps, FaultCheckKeeps, FaultBackKeeps, FaultNoFrameKeeps,
       FaultAttrsKeeps DEF FaultStep, VMIInv
  <2>5. CASE NewPage(t) \/ NewPageFails(t)
    BY <2>1, <2>5, NewPageKeeps, NewPageFailsKeeps DEF VMIInv
  <2>6. CASE FreeStep(t)
    BY <2>1, <2>6, FreeLookKeeps, FreeFrameKeeps, FreeClearKeeps, PagesFreedKeeps,
       FreeTableKeeps, ClearTableKeeps, RegionFreedKeeps, SpaceFreedKeeps DEF FreeStep, VMIInv
  <2>7. CASE CopyStep(t)
    BY <2>1, <2>7, CopyRegionKeeps, RegionCopiedKeeps, CopyFrameKeeps, CopyZfodKeeps,
       CopyMapKeeps, ForkReturnsKeeps DEF CopyStep, VMIInv
  <2> QED BY <2>2, <2>3, <2>4, <2>5, <2>6, <2>7
<1> QED BY <1>1, <1>2

(* What virtual memory rests on, for any number of spaces, threads, frames *)
(* and pages, as long as threads do not share pages: who works on a page   *)
(* works on it alone, the entries of a space are those of its regions, and *)
(* no frame has two uses.                                                  *)
THEOREM VMAlwaysHolds == ~SharePages => (VMSpec => []VMIInv)
<1> SUFFICES ASSUME ~SharePages PROVE VMSpec => []VMIInv
  OBVIOUS
<1>1. VMInit => VMIInv
  BY VMInitHolds
<1>2. VMIInv /\ [VMNext]_vmVars => VMIInv'
  BY VMStepHolds
<1> QED BY <1>1, <1>2, PTL DEF VMSpec

-----------------------------------------------------------------------------
(* What the free list says of the frames *)

LEMMA PathIs ==
    ASSUME NEW q \in Seq(Frames), IsFreeList(q, head, next), Len(q) <= Cardinality(Frames)
    PROVE  /\ DOMAIN Path = 0 .. Cardinality(Frames)
           /\ \A i \in 0 .. Cardinality(Frames) : Path[i] = IF i < Len(q) THEN q[i + 1] ELSE Nil
<1>1. PICK n \in Nat : n = Cardinality(Frames)
  BY VMSizes, FS_CardinalityType
<1> DEFINE Links(at, i) == IF i = 0 THEN head
                           ELSE IF at[i - 1] = Nil THEN Nil ELSE next[at[i - 1]]
           w == [i \in 0 .. n |-> IF i < Len(q) THEN q[i + 1] ELSE Nil]
<1>2. /\ Len(q) \in Nat /\ DOMAIN q = 1 .. Len(q)
      /\ \A i \in 1 .. Len(q) : q[i] \in Frames /\ q[i] # Nil
      /\ (q = <<>> <=> Len(q) = 0)
  BY VMSizes, EmptySeq
<1>3. \A i \in 0 .. n : w[i] = IF i < Len(q) THEN q[i + 1] ELSE Nil
  OBVIOUS
<1>4. ASSUME NEW i \in 0 .. n PROVE w[i] = Links(w, i)
  <2>1. CASE i = 0
    <3>1. w[i] = IF q = <<>> THEN Nil ELSE q[1]
      BY <1>2, <1>3, <2>1
    <3> QED BY <2>1, <3>1 DEF IsFreeList
  <2>2. CASE i # 0
    <3>1. i - 1 \in 0 .. n /\ i - 1 + 1 = i /\ i \in Nat /\ i >= 1
      BY <1>1, <2>2
    <3>2. w[i - 1] = IF i - 1 < Len(q) THEN q[i] ELSE Nil
      BY <1>3, <3>1
    <3>3. CASE i - 1 < Len(q)
      <4>1. i \in 1 .. Len(q) /\ (i < Len(q) <=> i # Len(q))
        <5>1. PICK m \in Nat : m = Len(q)
          BY <1>2
        <5>2. i \in Nat /\ i >= 1 /\ i - 1 < m
          BY <3>1, <3>3, <5>1
        <5>3. i \in 1 .. m /\ (i < m <=> i # m)
          BY <5>1, <5>2
        <5> QED BY <5>1, <5>3
      <4>2. w[i - 1] = q[i] /\ q[i] # Nil
        BY <1>2, <3>2, <3>3, <4>1
      <4>3. next[q[i]] = IF i = Len(q) THEN Nil ELSE q[i + 1]
        BY <1>2, <4>1 DEF IsFreeList
      <4> QED BY <1>3, <2>2, <4>1, <4>2, <4>3
    <3>4. CASE ~(i - 1 < Len(q))
      <4>1. ~(i < Len(q))
        BY <1>2, <3>1, <3>4
      <4> QED BY <1>3, <2>2, <3>2, <3>4, <4>1
    <3> QED BY <3>3, <3>4
  <2> QED BY <2>1, <2>2
<1>5. w = [i \in 0 .. n |-> Links(w, i)]
  <2>1. w = [i \in 0 .. n |-> w[i]]
    OBVIOUS
  <2> HIDE DEF w, Links
  <2> QED BY <1>4, <2>1
<1> HIDE DEF w
<1>6. Path = CHOOSE at : at = [i \in 0 .. n |-> Links(at, i)]
  BY <1>1 DEF Path
<1>7. Path = [i \in 0 .. n |-> Links(Path, i)]
  <2> HIDE DEF Links
  <2> QED BY <1>5, <1>6, Zenon
<1>8. DOMAIN Path = 0 .. n /\ \A i \in 0 .. n : Path[i] = Links(Path, i)
  BY <1>7
<1>9. \A i \in 0 .. n : Path[i] = w[i]
  <2> DEFINE Bad == {i \in 0 .. n : Path[i] # w[i]}
  <2>1. SUFFICES ASSUME Bad # {} PROVE FALSE
    OBVIOUS
  <2>2. PICK i \in Bad : \A j \in Bad : i <= j
    <3>1. Bad \subseteq Nat
      BY <1>1
    <3> QED BY <2>1, <3>1, LeastOfNats
  <2>3. i \in 0 .. n /\ Path[i] # w[i]
    OBVIOUS
  <2>4. CASE i = 0
    BY <1>4, <1>8, <2>3, <2>4
  <2>5. CASE i # 0
    <3>1. i - 1 \in 0 .. n /\ ~(i <= i - 1)
      BY <1>1, <2>3, <2>5
    <3>2. Path[i - 1] = w[i - 1]
      BY <2>2, <3>1
    <3> QED BY <1>4, <1>8, <2>3, <2>5, <3>2
  <2> QED BY <2>4, <2>5
<1> QED BY <1>1, <1>3, <1>8, <1>9

LEMMA FreeFramesAre ==
    ASSUME NEW F \in SUBSET Frames, ListOf(F, head, next, avail)
    PROVE  FreeFrames = F /\ Path[Cardinality(Frames)] = Nil /\ avail = Cardinality(F) - 1
<1>1. PICK q \in Seq(Frames) : IsFreeList(q, head, next) /\ ToSet(q) = F /\ avail = Len(q) - 1
  BY DEF ListOf
<1>2. PICK n \in Nat : n = Cardinality(Frames)
  BY VMSizes, FS_CardinalityType
<1>3. /\ Len(q) \in Nat /\ DOMAIN q = 1 .. Len(q)
      /\ \A i \in 1 .. Len(q) : q[i] \in Frames /\ q[i] # Nil
  BY VMSizes
<1>4. avail \in -1 .. n - 1
  BY <1>2, ListBound
<1>5. Len(q) <= n
  BY <1>1, <1>2, <1>3, <1>4
<1>6. DOMAIN Path = 0 .. n /\ \A i \in 0 .. n : Path[i] = IF i < Len(q) THEN q[i + 1] ELSE Nil
  BY <1>1, <1>2, <1>5, PathIs
<1>7. Path[n] = Nil
  BY <1>2, <1>3, <1>5, <1>6
<1>8. F = {q[i] : i \in 1 .. Len(q)}
  BY <1>1, <1>3 DEF ToSet
<1>9. FreeFrames = F
  <2>1. ASSUME NEW f \in F PROVE f \in FreeFrames
    <3>1. PICK i \in 1 .. Len(q) : f = q[i]
      BY <1>8
    <3>2. i - 1 \in 0 .. n /\ i - 1 < Len(q) /\ i - 1 + 1 = i
      BY <1>2, <1>3, <1>5
    <3>3. Path[i - 1] = q[i] /\ q[i] # Nil
      BY <1>3, <1>6, <3>2
    <3> QED BY <1>6, <3>1, <3>2, <3>3 DEF FreeFrames
  <2>2. ASSUME NEW f \in FreeFrames PROVE f \in F
    <3>1. PICK i \in 0 .. n : f = Path[i] /\ f # Nil
      BY <1>6 DEF FreeFrames
    <3>2. i < Len(q) /\ f = q[i + 1]
      BY <1>6, <3>1
    <3>3. i + 1 \in 1 .. Len(q)
      BY <1>2, <1>3, <3>2
    <3> QED BY <1>8, <3>2, <3>3
  <2> QED BY <2>1, <2>2
<1>10. Cardinality(F) = Len(q)
  <2>1. q \in [1 .. Len(q) -> F]
    BY <1>3, <1>8
  <2>2. \A i, j \in 1 .. Len(q) : q[i] = q[j] => i = j
    BY <1>1, <1>3 DEF IsFreeList
  <2>3. q \in Bijection(1 .. Len(q), F)
    BY <1>8, <2>1, <2>2 DEF Bijection, Injection, Surjection, IsInjective
  <2>4. ExistsBijection(1 .. Len(q), F)
    BY <2>3 DEF ExistsBijection
  <2>5. IsFiniteSet(1 .. Len(q)) /\ Cardinality(1 .. Len(q)) = Len(q)
    BY <1>3, FS_Interval
  <2> QED BY <2>4, <2>5, FS_Bijection
<1> QED BY <1>1, <1>2, <1>7, <1>9, <1>10

(* A frame that is not free has one use, and a free frame none.            *)
LEMMA OneUse ==
    ASSUME NEW F \in SUBSET Frames, Shared(PageHolds, TableHolds, CopyHolds, F), NEW f \in Frames
    PROVE  Cardinality(UsesOf(f)) = IF f \in F THEN 0 ELSE 1
<1> DEFINE ph == PageHolds
           ch == CopyHolds
           th == TableHolds
           P == {<<"page", x>> : x \in {x \in Spaces \X Pages : PageFrame(x[1], x[2]) = f}}
           T == {<<"table", x>> : x \in {x \in Spaces \X Tomes : TableFrame(x[1], x[2]) = f}}
           C == {<<"copy", t>> : t \in {t \in Users : CopiedFrame(t) = f}}
<1>1. /\ \A s \in Spaces, p \in Pages : ph[s][p] = PageFrame(s, p)
      /\ \A s \in Spaces, k \in Tomes : th[s][k] = TableFrame(s, k)
      /\ \A t \in Users : ch[t] = CopiedFrame(t)
  BY DEF PageHolds, TableHolds, CopyHolds
<1>2. UsesOf(f) = P \cup T \cup C
  BY DEF UsesOf
<1>3. /\ \A s \in Spaces, p \in Pages : PageFrame(s, p) = f => <<"page", <<s, p>>>> \in P
      /\ \A s \in Spaces, k \in Tomes : TableFrame(s, k) = f => <<"table", <<s, k>>>> \in T
      /\ \A t \in Users : CopiedFrame(t) = f => <<"copy", t>> \in C
  OBVIOUS
<1>4. /\ \A x \in P : \E s \in Spaces, p \in Pages : PageFrame(s, p) = f /\ x = <<"page", <<s, p>>>>
      /\ \A x \in T : \E s \in Spaces, k \in Tomes : TableFrame(s, k) = f /\ x = <<"table", <<s, k>>>>
      /\ \A x \in C : \E t \in Users : CopiedFrame(t) = f /\ x = <<"copy", t>>
  OBVIOUS
<1> HIDE DEF P, T, C, ph, th, ch, PageFrame, TableFrame, CopiedFrame
<1>5. Shared(ph, th, ch, F)
  BY DEF ph, th, ch
<1>6. CASE f \in F
  <2>1. /\ \A s \in Spaces, p \in Pages : ph[s][p] # f
        /\ \A s \in Spaces, k \in Tomes : th[s][k] # f
        /\ \A t \in Users : ch[t] # f
    BY <1>5, <1>6 DEF Shared
  <2>2. UsesOf(f) = {}
    BY <1>1, <1>2, <1>4, <2>1
  <2>3. Cardinality({}) = 0
    BY FS_EmptySet
  <2> QED BY <1>6, <2>2, <2>3
<1>7. CASE f \notin F
  <2>1. \E x : x \in P \cup T \cup C
    <3>1. \/ \E s \in Spaces, p \in Pages : ph[s][p] = f
          \/ \E s \in Spaces, k \in Tomes : th[s][k] = f
          \/ \E t \in Users : ch[t] = f
      BY <1>5, <1>7 DEF Shared
    <3> QED BY <1>1, <1>3, <3>1
  <2>2. ASSUME NEW x \in P \cup T \cup C, NEW y \in P \cup T \cup C PROVE x = y
    <3>1. CASE x \in P
      <4>1. PICK s \in Spaces, p \in Pages : ph[s][p] = f /\ x = <<"page", <<s, p>>>>
        BY <1>1, <1>4, <3>1
      <4>2. y \notin T
        BY <1>1, <1>4, <1>5, <4>1 DEF Shared
      <4>3. y \notin C
        BY <1>1, <1>4, <1>5, <4>1 DEF Shared
      <4>4. PICK r \in Spaces, q \in Pages : ph[r][q] = f /\ y = <<"page", <<r, q>>>>
        BY <1>1, <1>4, <4>2, <4>3
      <4>5. s = r /\ p = q
        BY <1>5, <4>1, <4>4 DEF Shared
      <4> QED BY <4>1, <4>4, <4>5
    <3>2. CASE x \in T
      <4>1. PICK s \in Spaces, k \in Tomes : th[s][k] = f /\ x = <<"table", <<s, k>>>>
        BY <1>1, <1>4, <3>2
      <4>2. y \notin P
        BY <1>1, <1>4, <1>5, <4>1 DEF Shared
      <4>3. y \notin C
        BY <1>1, <1>4, <1>5, <4>1 DEF Shared
      <4>4. PICK r \in Spaces, l \in Tomes : th[r][l] = f /\ y = <<"table", <<r, l>>>>
        BY <1>1, <1>4, <4>2, <4>3
      <4>5. s = r /\ k = l
        BY <1>5, <4>1, <4>4 DEF Shared
      <4> QED BY <4>1, <4>4, <4>5
    <3>3. CASE x \in C
      <4>1. PICK t \in Users : ch[t] = f /\ x = <<"copy", t>>
        BY <1>1, <1>4, <3>3
      <4>2. y \notin P
        BY <1>1, <1>4, <1>5, <4>1 DEF Shared
      <4>3. y \notin T
        BY <1>1, <1>4, <1>5, <4>1 DEF Shared
      <4>4. PICK u \in Users : ch[u] = f /\ y = <<"copy", u>>
        BY <1>1, <1>4, <4>2, <4>3
      <4>5. t = u
        BY <1>5, <4>1, <4>4 DEF Shared
      <4> QED BY <4>1, <4>4, <4>5
    <3> QED BY <3>1, <3>2, <3>3
  <2>3. PICK x : x \in P \cup T \cup C
    BY <2>1
  <2>4. UsesOf(f) = {x}
    BY <1>2, <2>2, <2>3
  <2>5. Cardinality({x}) = 1
    BY FS_Singleton
  <2> QED BY <1>7, <2>4, <2>5
<1> QED BY <1>6, <1>7

(* Every frame has one use or is free, and the list of the free frames is  *)
(* as long as fr_avail says (frame_alloc.c, page_alloc.c).                 *)
THEOREM VMFramesAccounted == ~SharePages => (VMSpec => []FramesAccounted)
<1> SUFFICES ASSUME ~SharePages PROVE VMSpec => []FramesAccounted
  OBVIOUS
<1>1. VMIInv => FramesAccounted
  <2> SUFFICES ASSUME VMIInv PROVE FramesAccounted
    OBVIOUS
  <2>1. PICK F \in SUBSET Frames :
          /\ Shared(PageHolds, TableHolds, CopyHolds, F)
          /\ ListOf(F, head, next, avail)
          /\ \A f \in F \cup {Zfod} : rest[f] = 0
    BY DEF VMIInv, FrameInv
  <2>2. FreeFrames = F /\ Path[Cardinality(Frames)] = Nil /\ avail = Cardinality(F) - 1
    BY <2>1, FreeFramesAre
  <2>3. \A f \in Frames : Cardinality(UsesOf(f)) = IF f \in F THEN 0 ELSE 1
    BY <2>1, OneUse
  <2> QED BY <2>1, <2>2, <2>3 DEF FramesAccounted
<1>2. VMSpec => []VMIInv
  BY VMAlwaysHolds
<1> QED BY <1>1, <1>2, PTL

-----------------------------------------------------------------------------
(***************************************************************************)
(* No access leaves its space.  A page fault is not about pages that a     *)
(* call of another thread works on, nor about unmapped pages of tables     *)
(* that the call may free; and these are the only tables that it frees,    *)
(* with no page in them.                                                   *)
(***************************************************************************)
FaultsAside(t, u) ==
    space[t] # Nil /\ space[t] = space[u]
      /\ job[t].call = "fault" /\ job[u].call \in {"new", "remove"} =>
          job[t].todo \cap RegionPages(space[u], job[u].reg) = {}

TablePCs == {"tables", "table_clear"}

TabsIn(t) ==
    upc[t] \in TablePCs /\ job[t].call # "exit" =>
        \A n \in DOMAIN job[t].tabs : job[t].tabs[n] \in TomesOf(job[t].reg)

ClearsEmpty(t) ==
    upc[t] = "table_clear" =>
        \A p \in Pages : Tome(p) = Head(job[t].tabs) => pte[space[t]][p] = Absent

AsideInv ==
    /\ \A t, u \in Users : t # u => FaultsAside(t, u)
    /\ \A t \in Users : TabsIn(t) /\ ClearsEmpty(t)

(* A thread in a call has a space.                                         *)
LEMMA CallsInSpace ==
    ASSUME VMTypes, SpaceInv, NEW t \in Users, job[t].call # "none"
    PROVE  space[t] \in Spaces
<1>1. upc[t] \notin {"absent", "nascent"}
  BY DEF SpaceInv, UserInv, CallOf, NoJob
<1> QED BY <1>1, InSpace

LEMMA TabsTypes ==
    ASSUME VMTypes, NEW t \in Users
    PROVE  /\ job[t].tabs \in Seq(Tomes)
           /\ job[t].tabs # <<>> => /\ 1 \in DOMAIN job[t].tabs
                                    /\ Head(job[t].tabs) = job[t].tabs[1]
                                    /\ Head(job[t].tabs) \in Tomes
BY DEF VMTypes, Jobs

(* A thread that uses no page of a call that is about finds its table.     *)
LEMMA NoTablePushed ==
    ASSUME VMTypes, SpaceInv, AsideInv,
           NEW t \in Users, upc[t] \notin {"absent", "nascent", "table_clear"}, NEW p \in Pages,
           \A u \in Users \ {t} : space[u] = space[t] /\ job[u].call \in {"new", "remove"} =>
               p \notin RegionPages(space[u], job[u].reg)
    PROVE  ~TablePushed(space[t], Tome(p))
<1>1. SUFFICES ASSUME NEW u \in Users, upc[u] = "table_clear", space[u] = space[t],
                      Head(job[u].tabs) = Tome(p)
               PROVE  FALSE
  BY DEF TablePushed
<1>2. space[t] \in Spaces /\ u # t
  BY <1>1, InSpace
<1>3. Apart(u, t) /\ CallOf(u) /\ job[u].tabs # <<>>
  BY <1>1, <1>2 DEF SpaceInv, UserInv, Progress
<1>4. job[u].call \in {"new", "remove"}
  BY <1>1, <1>2, <1>3, VMSizes DEF Apart, CallOf, FreePCs
<1>5. Tome(p) \in TomesOf(job[u].reg) /\ pte[space[t]][p] = Absent
  BY <1>1, <1>3, <1>4, TabsTypes DEF AsideInv, TabsIn, ClearsEmpty, TablePCs
<1> QED BY <1>1, <1>2, <1>4, <1>5 DEF RegionPages

LEMMA FaultInSpace ==
    ASSUME VMTypes, SpaceInv, AsideInv, NEW t \in Users, upc[t] \in FaultPCs
    PROVE  /\ ~TablePushed(space[t], Tome(Page(t))) /\ ~LostTable(space[t], Tome(Page(t)))
           /\ \A label : FaultGoto(t, label) => UserGoto(t, label)
<1>1. CallOf(t) /\ space[t] \in Spaces
  BY InSpace DEF SpaceInv, UserInv, FaultPCs
<1>2. job[t].call = "fault" /\ Page(t) \in job[t].todo /\ Page(t) \in Pages
  BY <1>1, EntryIs DEF CallOf, FaultPCs
<1> DEFINE p == Page(t)
<1>3. \A u \in Users \ {t} : space[u] = space[t] /\ job[u].call \in {"new", "remove"} =>
         p \notin RegionPages(space[u], job[u].reg)
  BY <1>1, <1>2, VMSizes DEF AsideInv, FaultsAside
<1> HIDE DEF p
<1>4. p \in Pages
  BY <1>2 DEF p
<1>5. ~TablePushed(space[t], Tome(p))
  BY <1>3, <1>4, NoTablePushed DEF FaultPCs
<1>6. ~LostTable(space[t], Tome(Page(t)))
  BY <1>5 DEF LostTable, p
<1> QED BY <1>5, <1>6 DEF p, FaultGoto

(* A write reaches a page of its space, that no other uses.                *)
LEMMA WriteInSpace ==
    ASSUME ~SharePages, VMTypes, SpaceInv, AsideInv, NEW t \in Users, NEW p \in Pages, Write(t, p)
    PROVE  ~LeadsAstray(space[t], p)
<1>1. upc[t] = "out" /\ MayTouch(t, {p})
  BY DEF Write
<1>2. \A u \in Users \ {t} : space[u] = space[t] => p \notin Works(u)
  BY <1>1, MayWork
<1>3. ~Pushed(space[t], p)
  BY <1>1, <1>2, NotPushed
<1>4. space[t] \in Spaces
  BY <1>1, InSpace
<1>5. ~(pte[space[t]][p].rw /\ (Pushed(space[t], p) \/ pte[space[t]][p].to = Zfod))
  BY <1>3, <1>4 DEF SpaceInv, ZfodInv
<1>6. \A u \in Users \ {t} : space[u] = space[t] /\ job[u].call \in {"new", "remove"} =>
         p \notin RegionPages(space[u], job[u].reg)
  BY <1>1 DEF MayTouch, Peers, Touches
<1>7. ~TablePushed(space[t], Tome(p))
  BY <1>1, <1>6, NoTablePushed
<1> QED BY <1>5, <1>7 DEF LeadsAstray, LostTable

LEMMA DivTimes ==
    ASSUME NEW a \in Nat, NEW d \in Nat \ {0}
    PROVE  (a \div d) * d <= a /\ a < ((a \div d) + 1) * d
OBVIOUS

LEMMA TimesMonotone ==
    ASSUME NEW a \in Nat, NEW b \in Nat, a <= b, NEW d \in Nat \ {0}
    PROVE  a * d <= b * d /\ a * d \in Nat
OBVIOUS

LEMMA TimesDiv ==
    ASSUME NEW a \in Nat, NEW d \in Nat \ {0}
    PROVE  (a * d) \div d = a
OBVIOUS

(* A region has a page in every table from its first to its last.          *)
LEMMA TomeBetween ==
    ASSUME NEW r \in Regions, r.start < r.end,
           NEW k \in Int, Tome(r.start) <= k, k <= Tome(r.end - 1)
    PROVE  \E p \in PagesOf(r) : Tome(p) = k
<1>1. r.start \in Nat /\ r.end \in Nat /\ r.end - 1 \in Nat /\ TomeSize \in Nat \ {0}
  BY VMSizes DEF Regions, Pages
<1> DEFINE lo == Tome(r.start)
           hi == Tome(r.end - 1)
<1>2. lo \in Nat /\ hi \in Nat
  BY <1>1, DivOfNat DEF Tome
<1>3. hi * TomeSize <= r.end - 1 /\ r.start < (lo + 1) * TomeSize
  BY <1>1, DivTimes DEF Tome
<1>4. lo <= k /\ k <= hi /\ k \in Nat
  BY <1>2
<1> HIDE DEF lo, hi
<1>5. CASE k = lo
  <2>1. r.start \in PagesOf(r)
    BY <1>1 DEF PagesOf
  <2> QED BY <1>5, <2>1 DEF lo
<1>6. CASE k # lo
  <2>1. lo + 1 \in Nat /\ lo + 1 <= k
    BY <1>2, <1>4, <1>6
  <2>2. (lo + 1) * TomeSize <= k * TomeSize /\ (lo + 1) * TomeSize \in Nat
    BY <1>1, <1>4, <2>1, TimesMonotone
  <2>3. k * TomeSize <= hi * TomeSize /\ k * TomeSize \in Nat
    BY <1>1, <1>2, <1>4, TimesMonotone
  <2>3a. hi * TomeSize \in Nat
    BY <1>1, <1>2, TimesMonotone
  <2> DEFINE p == k * TomeSize
             a == (lo + 1) * TomeSize
             b == hi * TomeSize
  <2>4. p \in Nat /\ a \in Nat /\ b \in Nat /\ a <= p /\ p <= b /\ b <= r.end - 1 /\ r.start < a
    BY <1>3, <2>2, <2>3, <2>3a
  <2>5. p \div TomeSize = k
    BY <1>1, <1>4, TimesDiv
  <2> HIDE DEF p, a, b
  <2>6. p \in PagesOf(r)
    BY <1>1, <2>4 DEF PagesOf
  <2> QED BY <2>5, <2>6 DEF Tome
<1> QED BY <1>5, <1>6

(* destroy_mem_region names only tables of the region.                     *)
LEMMA OwnTablesIn ==
    ASSUME NEW rs, NEW r \in Regions, NEW n \in DOMAIN OwnTables(rs, r)
    PROVE  OwnTables(rs, r)[n] \in TomesOf(r)
<1> DEFINE lo == Tome(r.start)
           hi == Tome(r.end - 1)
           between == [m \in 1 .. hi - lo - 2 |-> lo + m]
           shareLo == LET i == CHOOSE i \in DOMAIN rs : rs[i] = r
                      IN  i > 1 /\ Tome(rs[i - 1].end - 1) = Tome(r.start)
           shareHi == LET i == CHOOSE i \in DOMAIN rs : rs[i] = r
                      IN  i < Len(rs) /\ Tome(rs[i + 1].start) = Tome(r.end - 1)
           a == IF shareLo THEN <<>> ELSE <<lo>>
           b == IF shareHi THEN <<>> ELSE <<lo>>
<1>1. OwnTables(rs, r) = IF lo = hi THEN IF shareLo \/ shareHi THEN <<>> ELSE <<lo>>
                         ELSE a \o b \o between
  BY Zenon DEF OwnTables, lo, hi, between, a, b
<1>2. lo \in TomesOf(r)
  BY DEF TomesOf
<1>3. lo \in Int /\ hi \in Int /\ r.start \in Int /\ r.end \in Int
  BY VMSizes, DivMonotone DEF Regions, Pages, Tome
<1>4. ASSUME NEW m \in 1 .. hi - lo - 2 PROVE lo + m \in TomesOf(r)
  <2>0. m \in Int /\ 1 <= m /\ m <= hi - lo - 2
    BY <1>3
  <2>1. lo + m \in Int /\ lo <= lo + m /\ lo + m <= hi /\ lo < hi
    BY <1>3, <2>0
  <2>2. r.start < r.end
    <3>1. CASE r.end - 1 <= r.start
      <4>1. hi <= lo
        BY <1>3, <3>1, VMSizes, DivMonotone DEF Tome
      <4> QED BY <1>3, <2>1, <4>1
    <3> QED BY <1>3, <3>1
  <2>3. \E p \in PagesOf(r) : Tome(p) = lo + m
    BY <2>1, <2>2, TomeBetween
  <2> QED BY <2>3 DEF TomesOf
<1> HIDE DEF shareLo, shareHi, lo, hi
<1>5. \A m \in DOMAIN a : a[m] = lo
  OBVIOUS
<1>6. \A m \in DOMAIN b : b[m] = lo
  OBVIOUS
<1>7. a \in Seq(Int) /\ b \in Seq(Int) /\ between \in Seq(Int)
  BY <1>3
<1>8. \A m \in DOMAIN between : between[m] \in TomesOf(r)
  BY <1>4
<1> HIDE DEF a, b, between
<1>9. CASE OwnTables(rs, r) = a \o b \o between
  <2>1. \A m \in DOMAIN (a \o b) : (a \o b)[m] = lo
    BY <1>5, <1>6, <1>7
  <2>2. a \o b \in Seq(Int)
    BY <1>7
  <2> DEFINE ab == a \o b
  <2> HIDE DEF ab
  <2>3. \A m \in DOMAIN (ab \o between) : (ab \o between)[m] = lo \/
            \E l \in DOMAIN between : (ab \o between)[m] = between[l]
    BY <1>7, <2>1, <2>2 DEF ab
  <2> QED BY <1>2, <1>8, <1>9, <2>3 DEF ab
<1>10. CASE OwnTables(rs, r) = <<>> \/ OwnTables(rs, r) = <<lo>>
  BY <1>2, <1>10
<1> QED BY <1>1, <1>9, <1>10

(* What the step of a thread leaves of that: pages of a space go only with *)
(* the call that has them, and come only with new_pages and in a copy.     *)
Idle(t) == job[t].call \notin {"fault", "new", "remove"} /\ upc[t] \notin TablePCs

GoesOn(t) ==
    /\ space'[t] = space[t]
    /\ job'[t].call = job[t].call /\ job'[t].reg = job[t].reg
    /\ job[t].call = "fault" => job'[t].todo \subseteq job[t].todo

LEMMA AsideStep ==
    ASSUME VMTypes, SpaceInv, AsideInv, NEW t \in Users,
           \A u \in Users : Same(u) \/ Idle(u)' \/ (u = t /\ GoesOn(u)),
           \A s \in Spaces, p \in Pages : pte'[s][p] = Absent =>
              \/ pte[s][p] = Absent
              \/ /\ s = space[t]
                 /\ job[t].call = "exit" \/ (job[t].call \in {"new", "remove"} /\ p \in Works(t)),
           \A s \in Spaces, p \in Pages : pte'[s][p] # Absent =>
              \/ pte[s][p] # Absent
              \/ s = space[t] /\ job[t].call \in {"new", "remove"}
              \/ s = job[t].child,
           Idle(t)' \/ (TabsIn(t)' /\ ClearsEmpty(t)')
    PROVE  AsideInv'
<1>1. ASSUME NEW u \in Users, ~Idle(u)' PROVE GoesOn(u)
  BY <1>1 DEF Same, GoesOn
<1>2. ASSUME NEW v \in Users, ~Idle(v)', job'[v].call \in {"new", "remove"}, space'[v] \in Spaces
      PROVE  RegionPages(space[v], job[v].reg)' \subseteq RegionPages(space[v], job[v].reg)
  <2>1. space'[v] = space[v] /\ job'[v].reg = job[v].reg /\ job[v].call \in {"new", "remove"}
    BY <1>1, <1>2 DEF GoesOn
  <2>2. ASSUME NEW p \in Pages, pte'[space[v]][p] = Absent, pte[space[v]][p] # Absent
        PROVE  p \in PagesOf(job[v].reg)
    <3>1. space[t] = space[v] /\ space[t] \in Spaces
      BY <1>2, <2>1, <2>2
    <3>2. job[t].call \in {"exit", "new", "remove"}
      BY <1>2, <2>1, <2>2
    <3>3. t = v
      BY <2>1, <3>1, <3>2, OneCall
    <3> QED BY <1>2, <2>1, <2>2, <3>3 DEF Works
  <2> QED BY <2>1, <2>2 DEF RegionPages
<1>3. ASSUME NEW u \in Users, NEW v \in Users, u # v PROVE FaultsAside(u, v)'
  <2>1. SUFFICES ASSUME space'[u] # Nil, space'[u] = space'[v], job'[u].call = "fault",
                        job'[v].call \in {"new", "remove"}
                 PROVE  job'[u].todo \cap RegionPages(space[v], job[v].reg)' = {}
    BY DEF FaultsAside
  <2>2. GoesOn(u) /\ GoesOn(v) /\ ~Idle(v)'
    BY <1>1, <2>1 DEF Idle
  <2>3. FaultsAside(u, v)
    BY <1>3 DEF AsideInv
  <2>4. job[u].todo \cap RegionPages(space[v], job[v].reg) = {} /\ job'[u].todo \subseteq job[u].todo
    BY <2>1, <2>2, <2>3 DEF FaultsAside, GoesOn
  <2>5. space'[v] \in Spaces
    BY <2>1, <2>2 DEF GoesOn, VMTypes
  <2>6. RegionPages(space[v], job[v].reg)' \subseteq RegionPages(space[v], job[v].reg)
    BY <1>2, <2>1, <2>2, <2>5
  <2> QED BY <2>4, <2>6
<1>4. ASSUME NEW u \in Users PROVE TabsIn(u)' /\ ClearsEmpty(u)'
  <2>1. CASE Idle(u)'
    BY <2>1 DEF Idle, TabsIn, ClearsEmpty, TablePCs
  <2>2. CASE u = t /\ ~Idle(u)'
    BY <2>2
  <2>3. CASE Same(u) /\ u # t
    <3>1. TabsIn(u) /\ ClearsEmpty(u) /\ CallOf(u)
      BY DEF AsideInv, SpaceInv, UserInv
    <3>2. TabsIn(u)'
      BY <2>3, <3>1 DEF Same, TabsIn
    <3>3. ASSUME upc[u] = "table_clear", NEW p \in Pages, Tome(p) = Head(job[u].tabs),
                 pte'[space[u]][p] # Absent
          PROVE  FALSE
      <4>1. job[u].call \in {"new", "remove", "exit"} /\ space[u] \in Spaces
        BY <3>1, <3>3, InSpace DEF CallOf, FreePCs
      <4>2. pte[space[u]][p] = Absent
        BY <3>1, <3>3 DEF ClearsEmpty
      <4>3. CASE space[u] = space[t] /\ job[t].call \in {"new", "remove"}
        BY <2>3, <4>1, <4>3, OneCall
      <4>4. CASE space[u] = job[t].child
        <5>1. Apart(t, u)
          BY <2>3 DEF SpaceInv
        <5> QED BY <4>1, <4>4, <5>1, VMSizes DEF Apart
      <4> QED BY <3>3, <4>1, <4>2, <4>3, <4>4
    <3> QED BY <2>3, <3>2, <3>3 DEF Same, ClearsEmpty
  <2> QED BY <2>1, <2>2, <2>3
<1> HIDE DEF FaultsAside, TabsIn, ClearsEmpty
<1> QED BY <1>3, <1>4 DEF AsideInv

LEMMA FaultMoves ==
    ASSUME VMTypes, SpaceInv, AsideInv, NEW t \in Users, FaultStep(t)
    PROVE  /\ upc'[t] \notin {"astray", "table_clear"} \cup TablePCs
           /\ job'[t].call \in {"none", "fault"}
           /\ \A u \in Users \ {t} : Same(u)
           /\ \A u \in Users : Same(u) \/ Idle(u)' \/ (u = t /\ GoesOn(u))
           /\ \A s \in Spaces, p \in Pages : pte'[s][p] = Absent <=> pte[s][p] = Absent
           /\ UNCHANGED <<regions, tbl>>
<1>0. UserInv(t) /\ CallOf(t) /\ Progress(t) /\ upc[t] \in FaultPCs
  BY DEF SpaceInv, UserInv, FaultPCs, FaultStep, FaultLook, FaultCheck, FaultBack, FaultNoFrame,
     FaultAttrs
<1>1. /\ space[t] \in Spaces /\ job[t].call = "fault" /\ job[t].todo # {} /\ job[t] \in Jobs
      /\ space' = space /\ regions' = regions
  BY <1>0, InSpace DEF CallOf, FaultPCs, VMTypes, spaceVars, FaultStep, FaultLook, FaultCheck,
     FaultBack, FaultNoFrame, FaultAttrs
<1>2. /\ Page(t) \in job[t].todo /\ Page(t) \in Pages
      /\ Entry(t) = pte[space[t]][Page(t)] /\ Entry(t) \in Entries
  BY <1>1, EntryIs
<1>3. PICK label \in {"f_check", "killed", "panic", "f_back", "f_attrs", "out"} : UserGoto(t, label)
  <2>1. ~TablePushed(space[t], Tome(Page(t)))
        /\ \A label : FaultGoto(t, label) => UserGoto(t, label)
    BY <1>0, FaultInSpace
  <2> HIDE DEF Entry
  <2>2. CASE FaultBack(t)
    <3>1. UserGoto(t, IF tbl[space[t]][Tome(Page(t))] = Nil THEN "panic" ELSE "f_attrs")
      BY <2>1, <2>2 DEF FaultBack, FaultBacked
    <3> QED BY <3>1
  <2>3. CASE ~FaultBack(t)
    BY <2>1, <2>3 DEF FaultStep, FaultLook, FaultCheck, FaultNoFrame, FaultAttrs
  <2> QED BY <2>2, <2>3
<1>4. upc'[t] = label /\ \A u \in Users : u # t => upc'[u] = upc[u]
  BY <1>3, GotoOthers
<1>6. /\ \A u \in Users \ {t} : job'[u] = job[u]
      /\ job'[t] = NoJob \/ (job'[t].call = job[t].call /\ job'[t].reg = job[t].reg
                              /\ job'[t].todo = job[t].todo)
  <2>1. CASE FaultCheck(t)
    BY <1>1, <2>1 DEF FaultCheck, VMTypes, Jobs
  <2>2. CASE FaultAttrs(t)
    BY <2>2 DEF FaultAttrs, VMTypes
  <2>3. CASE job' = job
    BY <2>3
  <2> QED BY <2>1, <2>2, <2>3 DEF FaultStep, FaultLook, FaultBack, FaultNoFrame
<1>7. \A u \in Users : Same(u) \/ Idle(u)' \/ (u = t /\ GoesOn(u))
  <2>1. \A u \in Users \ {t} : Same(u)
    BY <1>1, <1>4, <1>6 DEF Same
  <2>2. CASE job'[t] = NoJob
    BY <1>3, <1>4, <2>1, <2>2 DEF Idle, NoJob, TablePCs
  <2>3. CASE job'[t] # NoJob
    BY <1>1, <1>6, <2>1, <2>3 DEF GoesOn
  <2> QED BY <2>2, <2>3
<1>8. \A s \in Spaces, p \in Pages : pte'[s][p] = Absent <=> pte[s][p] = Absent
  <2>1. CASE FaultBack(t)
    <3>1. pte[space[t]][Page(t)] # Absent
      BY <1>0, <1>2, <2>1, AbsentIs, VMSizes DEF FaultBack, Progress
    <3>2. pte' = [pte EXCEPT ![space[t]][Page(t)] = [to |-> head, rw |-> job[t].seen.rw]]
          /\ head # Nil
      BY <2>1 DEF FaultBack, FaultBacked
    <3>3. [to |-> head, rw |-> job[t].seen.rw] # Absent
      BY <3>2, AbsentIs
    <3> QED BY <1>1, <1>2, <3>1, <3>2, <3>3 DEF VMTypes
  <2>2. CASE FaultAttrs(t)
    <3> DEFINE e == [pte[space[t]][Page(t)] EXCEPT !.rw = TRUE]
    <3>1. pte[space[t]][Page(t)] # Absent
      BY <1>0, <1>2, <2>2, AbsentIs, VMSizes DEF FaultAttrs, Progress
    <3>2. e # Absent
      BY <1>2, <3>1, MadeWritable
    <3>3. pte' = [pte EXCEPT ![space[t]][Page(t)] = e]
      BY <1>2, <2>2, <3>1 DEF FaultAttrs
    <3> HIDE DEF e
    <3> QED BY <1>1, <1>2, <3>1, <3>2, <3>3 DEF VMTypes
  <2>3. CASE pte' = pte
    BY <2>3
  <2> QED BY <2>1, <2>2, <2>3 DEF FaultStep, FaultLook, FaultCheck, FaultNoFrame, spaceVars
<1>9. \A u \in Users \ {t} : Same(u)
  BY <1>1, <1>4, <1>6 DEF Same
<1>10. job'[t].call \in {"none", "fault"}
  BY <1>1, <1>6 DEF NoJob
<1>11. UNCHANGED <<regions, tbl>>
  BY DEF FaultStep, FaultLook, FaultCheck, FaultBack, FaultNoFrame, FaultAttrs, spaceVars
<1> QED BY <1>3, <1>4, <1>7, <1>8, <1>9, <1>10, <1>11 DEF TablePCs

LEMMA FaultAside ==
    ASSUME VMTypes, SpaceInv, AsideInv, StaysInSpace, NEW t \in Users, FaultStep(t)
    PROVE  AsideInv' /\ StaysInSpace'
<1>1. /\ upc'[t] \notin {"astray", "table_clear"} \cup TablePCs
      /\ \A u \in Users \ {t} : Same(u)
      /\ \A u \in Users : Same(u) \/ Idle(u)' \/ (u = t /\ GoesOn(u))
      /\ \A s \in Spaces, p \in Pages : pte'[s][p] = Absent <=> pte[s][p] = Absent
  BY FaultMoves
<1>2. TabsIn(t)' /\ ClearsEmpty(t)'
  BY <1>1 DEF TabsIn, ClearsEmpty
<1>3. StaysInSpace'
  BY <1>1 DEF StaysInSpace, Same
<1> QED BY <1>1, <1>2, <1>3, AsideStep

LEMMA WriteAside ==
    ASSUME ~SharePages, VMTypes, SpaceInv, AsideInv, StaysInSpace,
           NEW t \in Users, NEW p \in Pages, Write(t, p)
    PROVE  AsideInv' /\ StaysInSpace'
<1>1. ~LeadsAstray(space[t], p)
  BY WriteInSpace
<1>2. /\ upc[t] = "out" /\ MayTouch(t, {p}) /\ UNCHANGED <<spaceVars, space>>
  BY DEF Write
<1>3. \/ UserGoto(t, "out") /\ UNCHANGED job
      \/ /\ UserGoto(t, "f_look")
         /\ job' = [job EXCEPT ![t] = [NoJob EXCEPT !.call = "fault", !.todo = {p}]]
  <2> HIDE DEF LeadsAstray
  <2> QED BY <1>1 DEF Write
<1>4. PICK label \in {"out", "f_look"} : UserGoto(t, label)
  BY <1>3
<1>5. upc'[t] = label /\ \A u \in Users : u # t => upc'[u] = upc[u]
  BY <1>4, GotoOthers
<1>6. StaysInSpace'
  BY <1>4, <1>5 DEF StaysInSpace
<1>7. /\ \A u \in Users \ {t} : job'[u] = job[u]
      /\ job'[t] = job[t] \/ (job'[t].call = "fault" /\ job'[t].todo = {p})
  BY <1>3 DEF VMTypes, NoJob
<1>8. ASSUME NEW u \in Users PROVE TabsIn(u)' /\ ClearsEmpty(u)'
  <2>1. CASE u = t
    BY <1>4, <1>5, <2>1 DEF TabsIn, ClearsEmpty, TablePCs
  <2>2. CASE u # t
    BY <1>2, <1>5, <1>7, <2>2 DEF AsideInv, TabsIn, ClearsEmpty, spaceVars
  <2> QED BY <2>1, <2>2
<1>9. ASSUME NEW u \in Users, NEW v \in Users, u # v PROVE FaultsAside(u, v)'
  <2>1. FaultsAside(u, v)
    BY <1>9 DEF AsideInv
  <2>2. CASE job'[u] = job[u] /\ job'[v] = job[v]
    BY <1>2, <2>1, <2>2 DEF FaultsAside, RegionPages, spaceVars
  <2>3. CASE v = t /\ job'[t].call = "fault"
    BY <2>3 DEF FaultsAside
  <2>4. CASE u = t /\ job'[t].todo = {p}
    <3>1. job'[v] = job[v]
      BY <1>7, <1>9, <2>4
    <3>2. space[v] = space[u] /\ job[v].call \in {"new", "remove"} =>
             p \notin RegionPages(space[v], job[v].reg)
      BY <1>2, <1>9, <2>4 DEF MayTouch, Peers, Touches
    <3> QED BY <1>2, <2>4, <3>1, <3>2 DEF FaultsAside, RegionPages, spaceVars
  <2> QED BY <1>7, <1>9, <2>2, <2>3, <2>4
<1> HIDE DEF FaultsAside, TabsIn, ClearsEmpty
<1> QED BY <1>6, <1>8, <1>9 DEF AsideInv

(* A call begins whose pages, and those of its tables, no thread uses.     *)
LEMMA CallAside ==
    ASSUME ~SharePages, AsideInv, NEW t \in Users, OthersSame(t), NEW r,
           MayTouch(t, RegionPages(space[t], r)), pte' = pte, space' = space,
           upc'[t] \notin TablePCs, job'[t].call \in {"new", "remove"}, job'[t].reg = r
    PROVE  AsideInv'
<1>1. ASSUME NEW u \in Users PROVE TabsIn(u)' /\ ClearsEmpty(u)'
  <2>1. CASE u = t
    BY <2>1 DEF TabsIn, ClearsEmpty, TablePCs
  <2>2. CASE u # t
    BY <2>2 DEF AsideInv, TabsIn, ClearsEmpty, OthersSame, Same
  <2> QED BY <2>1, <2>2
<1>2. ASSUME NEW u \in Users, NEW v \in Users, u # v PROVE FaultsAside(u, v)'
  <2>1. FaultsAside(u, v)
    BY <1>2 DEF AsideInv
  <2>2. CASE u # t /\ v # t
    BY <2>1, <2>2 DEF FaultsAside, RegionPages, OthersSame, Same
  <2>3. CASE u = t
    BY <2>3 DEF FaultsAside
  <2>4. CASE v = t /\ u # t
    <3>1. job'[u] = job[u] /\ space[u] = space[t] /\ job[u].call = "fault" =>
             job[u].todo \cap RegionPages(space[t], r) = {}
      BY <2>4 DEF MayTouch, Peers, Touches
    <3> QED BY <2>4, <3>1 DEF FaultsAside, RegionPages, OthersSame, Same
  <2> QED BY <2>2, <2>3, <2>4
<1> HIDE DEF FaultsAside, TabsIn, ClearsEmpty
<1> QED BY <1>1, <1>2 DEF AsideInv

LEMMA GotoStays ==
    ASSUME VMTypes, StaysInSpace, NEW t \in Users, NEW label, UserGoto(t, label), label # "astray"
    PROVE  StaysInSpace'
BY GotoOthers DEF StaysInSpace

LEMMA CallNewAside ==
    ASSUME ~SharePages, VMTypes, SpaceInv, AsideInv, StaysInSpace,
           NEW t \in Users, NEW r \in NewRegions, CallNew(t, r)
    PROVE  AsideInv' /\ StaysInSpace'
<1>1. /\ upc[t] = "out" /\ MayTouch(t, RegionPages(space[t], r))
      /\ UNCHANGED <<pte, space>>
  BY DEF CallNew
<1>2. CASE UNCHANGED <<upc, job>>
  <2>1. \A u \in Users : Same(u)
    BY <1>1, <1>2 DEF Same
  <2>2. TabsIn(t)' /\ ClearsEmpty(t)'
    BY <1>1, <1>2 DEF TabsIn, ClearsEmpty, TablePCs
  <2>3. AsideInv'
    BY <1>1, <2>1, <2>2, AsideStep
  <2> QED BY <1>2, <2>3 DEF StaysInSpace
<1>3. CASE /\ UserGoto(t, "n_page")
           /\ job' = [job EXCEPT ![t] = [NoJob EXCEPT !.call = "new", !.reg = r,
                                                      !.todo = PagesOf(r)]]
  <2>1. upc'[t] = "n_page" /\ \A u \in Users : u # t => upc'[u] = upc[u]
    BY <1>3, GotoOthers
  <2>2. /\ job'[t].call = "new" /\ job'[t].reg = r
        /\ \A u \in Users : u # t => job'[u] = job[u]
    BY <1>3 DEF VMTypes, NoJob
  <2>3. OthersSame(t)
    BY <1>1, <2>1, <2>2 DEF OthersSame, Same
  <2>4. AsideInv'
    BY <1>1, <2>1, <2>2, <2>3, CallAside DEF TablePCs
  <2> QED BY <1>3, <2>4, GotoStays
<1> QED BY <1>2, <1>3 DEF CallNew

LEMMA CallRemoveAside ==
    ASSUME ~SharePages, VMTypes, SpaceInv, AsideInv, StaysInSpace,
           NEW t \in Users, NEW a \in Pages, CallRemove(t, a)
    PROVE  AsideInv' /\ StaysInSpace'
<1> DEFINE r == regions[space[t]][LookupAt(regions[space[t]], a)]
<1>1. /\ upc[t] = "out" /\ MayTouch(t, RegionPages(space[t], r)) /\ UserGoto(t, "free_look")
      /\ job' = [job EXCEPT ![t] = [NoJob EXCEPT !.call = "remove", !.reg = r,
                                                      !.todo = PagesOf(r)]]
      /\ UNCHANGED <<pte, space>>
  BY DEF CallRemove
<1> HIDE DEF r
<1>2. upc'[t] = "free_look" /\ \A u \in Users : u # t => upc'[u] = upc[u]
  BY <1>1, GotoOthers
<1>3. /\ job'[t].call = "remove" /\ job'[t].reg = r
      /\ \A u \in Users : u # t => job'[u] = job[u]
  BY <1>1 DEF VMTypes, NoJob
<1>4. OthersSame(t)
  BY <1>1, <1>2, <1>3 DEF OthersSame, Same
<1>5. AsideInv'
  BY <1>1, <1>2, <1>3, <1>4, CallAside DEF TablePCs
<1> QED BY <1>1, <1>5, GotoStays

LEMMA NewPageAside ==
    ASSUME VMTypes, FrameInv, SpaceInv, AsideInv, StaysInSpace, NEW t \in Users,
           NewPage(t) \/ NewPageFails(t)
    PROVE  AsideInv' /\ StaysInSpace'
<1>1. /\ upc[t] = "n_page" /\ space' = space /\ CallOf(t) /\ space[t] \in Spaces
  BY InSpace DEF NewPage, NewPageFails, SpaceInv, UserInv
<1>2. job[t].call = "new" /\ job[t].todo # {} /\ job[t] \in Jobs
  BY <1>1 DEF CallOf, VMTypes
<1>3. PICK label \in {"out", "n_page", "wild", "free_look"} : UserGoto(t, label)
  BY DEF NewPage, NewPageFails
<1>4. upc'[t] = label /\ \A u \in Users : u # t => upc'[u] = upc[u]
  BY <1>3, GotoOthers
<1>5. /\ \A u \in Users \ {t} : job'[u] = job[u]
      /\ \/ job'[t] = NoJob
         \/ job'[t].call = job[t].call /\ job'[t].reg = job[t].reg
  BY <1>2 DEF NewPage, NewPageFails, VMTypes, Jobs
<1>6. \A u \in Users : Same(u) \/ Idle(u)' \/ (u = t /\ GoesOn(u))
  <2>1. \A u \in Users \ {t} : Same(u)
    BY <1>1, <1>4, <1>5 DEF Same
  <2>2. CASE job'[t] = NoJob
    BY <1>3, <1>4, <2>1, <2>2 DEF Idle, NoJob, TablePCs
  <2>3. CASE job'[t] # NoJob
    BY <1>1, <1>2, <1>5, <2>1, <2>3 DEF GoesOn
  <2> QED BY <2>2, <2>3
<1>7. /\ \A s \in Spaces, p \in Pages : pte'[s][p] = Absent => pte[s][p] = Absent
      /\ \A s \in Spaces, p \in Pages : pte'[s][p] # Absent => pte[s][p] # Absent \/ s = space[t]
  <2>1. CASE pte' = pte
    BY <2>1
  <2>2. CASE NewPage(t)
    <3> DEFINE e == [to |-> Zfod, rw |-> FALSE]
    <3>1. Page(t) \in Pages
      BY <1>1, <1>2, EntryIs
    <3>2. pte' = [pte EXCEPT ![space[t]][Page(t)] = e]
      BY <2>2 DEF NewPage
    <3>3. e # Absent
      BY AbsentIs, VMSizes
    <3> HIDE DEF e
    <3> QED BY <1>1, <3>1, <3>2, <3>3 DEF VMTypes
  <2> QED BY <2>1, <2>2 DEF NewPageFails, spaceVars
<1>8. TabsIn(t)' /\ ClearsEmpty(t)'
  BY <1>3, <1>4 DEF TabsIn, ClearsEmpty, TablePCs
<1>9. AsideInv'
  BY <1>2, <1>6, <1>7, <1>8, AsideStep
<1> QED BY <1>3, <1>9, GotoStays

(* A thread that frees pages goes on, or is done with its call.            *)
LEMMA FreeCalls ==
    ASSUME VMTypes, SpaceInv, NEW t \in Users, FreeStep(t)
    PROVE  /\ upc[t] \in FreePCs /\ space[t] \in Spaces /\ CallOf(t)
           /\ job[t].call \in {"new", "remove", "exit"}
           /\ \A u \in Users \ {t} : Same(u)
           /\ upc'[t] \in FreePCs \cup {"out", "absent", "panic", "wild"}
           /\ upc'[t] # "out" \/ job'[t] = NoJob
           /\ upc'[t] # "absent" \/ job'[t] = NoJob
           /\ \/ job'[t] = NoJob /\ upc'[t] \in {"out", "absent", "panic"}
              \/ space' = space /\ job'[t].call = job[t].call /\ job'[t].reg = job[t].reg
<1>1. upc[t] \in FreePCs
  BY DEF FreeStep, FreeLook, FreeFrame, FreeClear, PagesFreed, FreeTable, ClearTable, RegionFreed,
     SpaceFreed, FreePCs
<1>2. CallOf(t) /\ space[t] \in Spaces /\ job[t] \in Jobs
  BY <1>1, InSpace DEF SpaceInv, UserInv, VMTypes, FreePCs
<1>3. job[t].call \in {"new", "remove", "exit"}
  BY <1>1, <1>2 DEF CallOf
<1>4. PICK label \in FreePCs \cup {"out", "absent", "panic", "wild"} :
        /\ UserGoto(t, label)
        /\ \/ /\ job'[t] = NoJob /\ label \in {"out", "absent", "panic"}
              /\ space' = space \/ space' = [space EXCEPT ![t] = Nil]
           \/ /\ space' = space /\ job'[t].call = job[t].call /\ job'[t].reg = job[t].reg
              /\ label \notin {"out", "absent"}
        /\ \A u \in Users \ {t} : job'[u] = job[u]
  <2>1. CASE FreeLook(t) \/ FreeFrame(t) \/ FreeClear(t)
    <3>1. PICK label \in FreePCs : UserGoto(t, label)
      <4>1. CASE upc' = upc
        <5>1. UserGoto(t, upc[t])
          BY <4>1 DEF UserGoto, VMTypes
        <5> QED BY <1>1, <5>1
      <4> QED BY <2>1, <4>1 DEF FreeLook, FreeFrame, FreeClear, FreePCs
    <3>2. /\ space' = space /\ job'[t].call = job[t].call /\ job'[t].reg = job[t].reg
          /\ \A u \in Users \ {t} : job'[u] = job[u]
      BY <1>2, <2>1 DEF FreeLook, FreeFrame, FreeClear, VMTypes, Jobs
    <3> QED BY <3>1, <3>2 DEF FreePCs
  <2>2. CASE PagesFreed(t) \/ FreeTable(t) \/ ClearTable(t)
    <3>1. PICK label \in {"tables", "table_clear", "panic", "wild"} : UserGoto(t, label)
      BY <2>2 DEF PagesFreed, FreeTable, ClearTable
    <3>2. /\ space' = space /\ job'[t].call = job[t].call /\ job'[t].reg = job[t].reg
          /\ \A u \in Users \ {t} : job'[u] = job[u]
      BY <1>2, <2>2 DEF PagesFreed, FreeTable, ClearTable, VMTypes, Jobs
    <3> QED BY <3>1, <3>2 DEF FreePCs
  <2>3. CASE RegionFreed(t)
    BY <2>3 DEF RegionFreed, VMTypes, FreePCs
  <2>4. CASE SpaceFreed(t)
    BY <2>4 DEF SpaceFreed, Leave, VMTypes, FreePCs
  <2> QED BY <2>1, <2>2, <2>3, <2>4 DEF FreeStep
<1>5. upc'[t] = label /\ \A u \in Users : u # t => upc'[u] = upc[u]
  BY <1>4, GotoOthers
<1>6. \A u \in Users \ {t} : Same(u)
  BY <1>4, <1>5 DEF Same, VMTypes
<1> QED BY <1>1, <1>2, <1>3, <1>4, <1>5, <1>6

(* Its pages go, and none come.                                            *)
LEMMA FreePages ==
    ASSUME VMTypes, SpaceInv, NEW t \in Users, FreeStep(t)
    PROVE  /\ \A s \in Spaces, p \in Pages : pte'[s][p] # Absent => pte[s][p] # Absent
           /\ \A s \in Spaces, p \in Pages : pte'[s][p] = Absent =>
                 \/ pte[s][p] = Absent
                 \/ /\ s = space[t]
                    /\ job[t].call = "exit" \/ (job[t].call \in {"new", "remove"} /\ p \in Works(t))
<1>0. /\ upc[t] \in FreePCs /\ space[t] \in Spaces /\ CallOf(t)
      /\ job[t].call \in {"new", "remove", "exit"}
  BY FreeCalls
<1>1. CASE pte' = pte
  BY <1>1
<1>2. CASE FreeLook(t) /\ pte' # pte
  <2> DEFINE e == [Entry(t) EXCEPT !.rw = TRUE]
  <2>1. job[t].todo # {} /\ Entry(t) # Absent /\ pte' = [pte EXCEPT ![space[t]][Page(t)] = e]
    BY <1>2 DEF FreeLook
  <2>2. Page(t) \in Pages /\ Entry(t) = pte[space[t]][Page(t)] /\ Entry(t) \in Entries
    BY <1>0, <2>1, EntryIs
  <2>3. e # Absent
    BY <2>1, <2>2, MadeWritable
  <2> HIDE DEF e, Entry, Page
  <2> QED BY <1>0, <2>1, <2>2, <2>3 DEF VMTypes
<1>3. CASE FreeClear(t)
  <2>1. job[t].todo # {} /\ pte' = [pte EXCEPT ![space[t]][Page(t)] = Absent]
    BY <1>0, <1>3 DEF FreeClear, CallOf
  <2>2. Page(t) \in Pages /\ Page(t) \in job[t].todo
    BY <1>0, <2>1, EntryIs
  <2>3. job[t].call = "exit" \/ (job[t].call \in {"new", "remove"} /\ Page(t) \in Works(t))
    BY <1>0, <2>2 DEF CallOf, Works
  <2> HIDE DEF Page, Works
  <2> QED BY <1>0, <2>1, <2>2, <2>3 DEF VMTypes
<1> QED BY <1>1, <1>2, <1>3 DEF FreeStep, FreeFrame, PagesFreed, FreeTable, ClearTable,
          RegionFreed, SpaceFreed, spaceVars

LEMMA FreeAside ==
    ASSUME VMTypes, SpaceInv, AsideInv, StaysInSpace, NEW t \in Users, FreeStep(t)
    PROVE  AsideInv' /\ StaysInSpace'
<1>1. /\ upc[t] \in FreePCs /\ space[t] \in Spaces /\ CallOf(t)
      /\ job[t].call \in {"new", "remove", "exit"}
      /\ \A u \in Users \ {t} : Same(u)
      /\ upc'[t] \in FreePCs \cup {"out", "absent", "panic", "wild"}
      /\ \/ job'[t] = NoJob /\ upc'[t] \in {"out", "absent", "panic"}
         \/ space' = space /\ job'[t].call = job[t].call /\ job'[t].reg = job[t].reg
  BY FreeCalls
<1>2. StaysInSpace'
  BY <1>1 DEF StaysInSpace, Same, FreePCs
<1>3. \A u \in Users : Same(u) \/ Idle(u)' \/ (u = t /\ GoesOn(u))
  BY <1>1 DEF Idle, GoesOn, NoJob, TablePCs
<1>4. /\ \A s \in Spaces, p \in Pages : pte'[s][p] # Absent => pte[s][p] # Absent
      /\ \A s \in Spaces, p \in Pages : pte'[s][p] = Absent =>
              \/ pte[s][p] = Absent
              \/ /\ s = space[t]
                 /\ job[t].call = "exit" \/ (job[t].call \in {"new", "remove"} /\ p \in Works(t))
  BY FreePages
<1>5. TabsIn(t)' /\ ClearsEmpty(t)'
  <2>1. CASE upc'[t] \notin TablePCs
    BY <2>1 DEF TabsIn, ClearsEmpty, TablePCs
  <2>2. CASE PagesFreed(t)
    <3>1. PICK q \in Tables(t) : job' = [job EXCEPT ![t].tabs = q]
      BY <2>2 DEF PagesFreed
    <3>2. job'[t].tabs = q /\ job'[t].call = job[t].call /\ job'[t].reg = job[t].reg /\ upc'[t] = "tables"
      BY <2>2, <3>1 DEF PagesFreed, UserGoto, VMTypes, Jobs
    <3>3. job[t].call # "exit" => q = OwnTables(regions[space[t]], job[t].reg) /\ job[t].reg \in Regions
      BY <1>1, <3>1 DEF Tables, CallOf
    <3> QED BY <3>2, <3>3, OwnTablesIn DEF TabsIn, ClearsEmpty
  <2>3. CASE FreeTable(t)
    <3>1. UNCHANGED <<pte, space, job>> /\ TabsIn(t) /\ upc[t] = "tables"
      BY <2>3 DEF FreeTable, spaceVars, AsideInv
    <3>2. TabsIn(t)'
      BY <3>1 DEF TabsIn, TablePCs
    <3>3. ASSUME upc'[t] = "table_clear"
          PROVE  \A p \in Pages : Tome(p) = Head(job[t].tabs) => pte[space[t]][p] = Absent
      BY <2>3, <3>3 DEF FreeTable, UserGoto, VMTypes
    <3> QED BY <3>1, <3>2, <3>3 DEF ClearsEmpty
  <2>4. CASE ClearTable(t)
    <3>1. /\ upc[t] = "table_clear" /\ upc'[t] = "tables" /\ job'[t].tabs = Tail(job[t].tabs)
          /\ job'[t].call = job[t].call /\ job'[t].reg = job[t].reg
      BY <2>4 DEF ClearTable, UserGoto, VMTypes, Jobs
    <3>2. TabsIn(t) /\ job[t].tabs # <<>> /\ job[t].tabs \in Seq(Tomes)
      BY <3>1, TabsTypes DEF AsideInv, SpaceInv, UserInv, Progress
    <3>3. \A n \in DOMAIN Tail(job[t].tabs) :
             n + 1 \in DOMAIN job[t].tabs /\ Tail(job[t].tabs)[n] = job[t].tabs[n + 1]
      BY <3>2
    <3>4. TabsIn(t)'
      BY <3>1, <3>2, <3>3 DEF TabsIn, TablePCs
    <3> QED BY <3>1, <3>4 DEF ClearsEmpty
  <2> QED BY <1>1, <2>1, <2>2, <2>3, <2>4 DEF FreeStep, FreeLook, FreeFrame, FreeClear, RegionFreed,
            SpaceFreed, Leave, UserGoto, VMTypes, TablePCs
<1> QED BY <1>2, <1>3, <1>4, <1>5, AsideStep

(* Threads and spaces that come and go, and fork.                          *)
LEMMA GoMoves ==
    ASSUME VMTypes, SpaceInv, NEW t \in Users,
           \/ Vanish(t) \/ CopyStep(t)
           \/ \E u \in Users : ThreadFork(t, u) \/ \E c \in Spaces : CallFork(t, c, u)
    PROVE  /\ \A u \in Users : Same(u) \/ (Idle(u)' /\ upc'[u] # "astray")
           /\ \A s \in Spaces, p \in Pages : pte'[s][p] = Absent => pte[s][p] = Absent
           /\ \A s \in Spaces, p \in Pages :
                 pte'[s][p] # Absent => pte[s][p] # Absent \/ s = job[t].child
           /\ upc'[t] \notin TablePCs
<1> DEFINE Fine ==
           /\ \A u \in Users : Same(u) \/ (Idle(u)' /\ upc'[u] # "astray")
           /\ \A s \in Spaces, p \in Pages : pte'[s][p] = Absent => pte[s][p] = Absent
           /\ \A s \in Spaces, p \in Pages :
                 pte'[s][p] # Absent => pte[s][p] # Absent \/ s = job[t].child
           /\ upc'[t] \notin TablePCs
<1>1. ASSUME \A u \in Users : Same(u) \/ (Idle(u)' /\ upc'[u] # "astray"),
             \A s \in Spaces, p \in Pages : pte'[s][p] = Absent => pte[s][p] = Absent,
             \A s \in Spaces, p \in Pages :
                pte'[s][p] # Absent => pte[s][p] # Absent \/ s = job[t].child,
             upc'[t] \notin TablePCs
      PROVE  Fine
  BY <1>1
<1> SUFFICES Fine
  OBVIOUS
<1> HIDE DEF Fine
<1>2. CASE Vanish(t)
  <2>1. /\ upc'[t] \in {"absent", "free_look"} /\ job'[t].call \in {"none", "exit"}
        /\ \A u \in Users \ {t} : Same(u)
    <3>1. CASE Leave(t)
      BY <3>1 DEF Leave, UserGoto, VMTypes, Same, NoJob
    <3>2. CASE ~Leave(t)
      <4> DEFINE P == UNION {PagesOf(r) : r \in ToSet(regions[space[t]])}
      <4>1. /\ job' = [job EXCEPT ![t] = [NoJob EXCEPT !.call = "exit", !.todo = P]]
            /\ UserGoto(t, "free_look") /\ space' = space
        BY <1>2, <3>2 DEF Vanish
      <4> HIDE DEF P
      <4> QED BY <4>1 DEF UserGoto, VMTypes, Same, NoJob
    <3> QED BY <3>1, <3>2
  <2>2. pte' = pte
    BY <1>2 DEF Vanish, spaceVars
  <2>3. Idle(t)' /\ upc'[t] # "astray" /\ upc'[t] \notin TablePCs
    BY <2>1 DEF Idle, TablePCs
  <2> HIDE DEF Idle
  <2> QED BY <1>1, <2>1, <2>2, <2>3
<1>3. CASE \E u \in Users : ThreadFork(t, u)
  <2>1. PICK u \in Users : ThreadFork(t, u)
    BY <1>3
  <2>2. /\ upc[t] = "out" /\ upc[u] = "absent" /\ upc'[u] = "out" /\ job'[u] = job[u] /\ pte' = pte
        /\ \A v \in Users \ {u} : Same(v)
    BY <2>1 DEF ThreadFork, UserGoto, VMTypes, Same, spaceVars
  <2>3. job[u] = NoJob
    BY <2>2 DEF SpaceInv, UserInv, CallOf
  <2>4. t # u /\ upc'[t] = "out"
    BY <2>2 DEF Same
  <2> QED BY <1>1, <2>2, <2>3, <2>4 DEF Idle, TablePCs, NoJob
<1>4. CASE \E u \in Users : \E c \in Spaces : CallFork(t, c, u)
  <2>1. PICK u \in Users, c \in Spaces : CallFork(t, c, u)
    BY <1>4
  <2>2. upc[t] = "out" /\ upc[u] = "absent" /\ t # u
    BY <2>1 DEF CallFork
  <2>3. job[u] = NoJob
    BY <2>2 DEF SpaceInv, UserInv, CallOf
  <2>4. /\ job'[t].call = "fork" /\ job'[u].call = "none"
        /\ \A v \in Users \ {t, u} : job'[v] = job[v]
    <3>1. job' = [job EXCEPT ![t].call = "fork", ![t].child = c, ![u].child = c]
      BY <2>1 DEF CallFork
    <3>2. job[t] \in Jobs /\ job[u] \in Jobs /\ NoJob.call = "none"
      BY DEF VMTypes, NoJob
    <3> QED BY <2>2, <2>3, <3>1, <3>2 DEF VMTypes, Jobs
  <2>5. /\ upc'[t] = "c_region" /\ upc'[u] = "nascent" /\ pte' = pte
        /\ \A v \in Users \ {t, u} : Same(v)
    BY <2>1, <2>2, <2>4 DEF CallFork, VMTypes, Same, spaceVars
  <2>6. /\ Idle(t)' /\ upc'[t] # "astray" /\ Idle(u)' /\ upc'[u] # "astray"
        /\ upc'[t] \notin TablePCs
    BY <2>4, <2>5 DEF Idle, TablePCs
  <2> HIDE DEF Idle
  <2> QED BY <1>1, <2>5, <2>6
<1>5. CASE ForkReturns(t)
  <2>1. PICK u \in Users \ {t} :
          /\ upc' = [upc EXCEPT ![t] = "out", ![u] = "out"]
          /\ job' = [job EXCEPT ![t] = NoJob, ![u] = NoJob]
          /\ space' = [space EXCEPT ![u] = job[t].child]
    BY <1>5 DEF ForkReturns
  <2>2. /\ upc'[t] = "out" /\ upc'[u] = "out" /\ job'[t] = NoJob /\ job'[u] = NoJob
        /\ \A v \in Users \ {t, u} : Same(v)
    BY <2>1 DEF VMTypes, Same
  <2>3. pte' = pte
    BY <1>5 DEF ForkReturns, spaceVars
  <2> QED BY <1>1, <2>2, <2>3 DEF Idle, TablePCs, NoJob
<1>6. CASE CopyStep(t) /\ ~ForkReturns(t)
  <2>1. upc[t] \in CopyPCs /\ space' = space
    BY <1>6 DEF CopyStep, CopyRegion, RegionCopied, CopyFrame, CopyZfod, CopyMap, CopyPCs
  <2>2. UserInv(t) /\ CallOf(t) /\ CopyProgress(t) /\ job[t] \in Jobs
    BY DEF SpaceInv, UserInv, VMTypes
  <2>3. job[t].call = "fork" /\ job[t].child \in Spaces
    BY <2>1, <2>2 DEF CallOf
  <2>4. PICK label \in {"copy_failed", "c_frame", "c_region", "c_map", "wild"} : UserGoto(t, label)
    BY <1>6 DEF CopyStep, CopyRegion, RegionCopied, CopyFrame, CopyZfod, CopyMap
  <2>5. job'[t].call = "fork" /\ \A v \in Users \ {t} : job'[v] = job[v]
    BY <1>6, <2>2, <2>3 DEF CopyStep, CopyRegion, RegionCopied, CopyFrame, CopyZfod, CopyMap, VMTypes, Jobs
  <2>6. upc'[t] = label /\ \A v \in Users \ {t} : Same(v)
    BY <2>1, <2>4, <2>5, GotoOthers DEF Same
  <2>7. \/ pte' = pte
        \/ /\ upc[t] = "c_map" /\ job[t].todo # {}
           /\ pte' = [pte EXCEPT ![job[t].child][Page(t)] = job[t].seen]
    BY <1>6, <2>2 DEF CopyStep, CopyRegion, RegionCopied, CopyFrame, CopyZfod, CopyMap, spaceVars,
       CallOf
  <2>8. CASE pte' = pte
    BY <1>1, <2>4, <2>5, <2>6, <2>8 DEF Idle, TablePCs
  <2>9. CASE /\ upc[t] = "c_map" /\ job[t].todo # {}
             /\ pte' = [pte EXCEPT ![job[t].child][Page(t)] = job[t].seen]
    <3>1. job[t].seen # Absent /\ space[t] \in Spaces
      BY <2>2, <2>3, <2>9, CallsInSpace DEF CopyProgress, CopyPCs
    <3>2. Page(t) \in Pages
      BY <2>9, <3>1, EntryIs
    <3> HIDE DEF Page
    <3>3. /\ \A s \in Spaces, p \in Pages : pte'[s][p] = Absent => pte[s][p] = Absent
          /\ \A s \in Spaces, p \in Pages :
                pte'[s][p] # Absent => pte[s][p] # Absent \/ s = job[t].child
      BY <2>3, <2>9, <3>1, <3>2 DEF VMTypes
    <3> QED BY <1>1, <2>4, <2>5, <2>6, <3>3 DEF Idle, TablePCs
  <2> QED BY <2>7, <2>8, <2>9
<1> QED BY <1>2, <1>3, <1>4, <1>5, <1>6

LEMMA GoAside ==
    ASSUME VMTypes, SpaceInv, AsideInv, StaysInSpace, NEW t \in Users,
           \/ Vanish(t) \/ CopyStep(t)
           \/ \E u \in Users : ThreadFork(t, u) \/ \E c \in Spaces : CallFork(t, c, u)
    PROVE  AsideInv' /\ StaysInSpace'
<1>1. /\ \A u \in Users : Same(u) \/ (Idle(u)' /\ upc'[u] # "astray")
      /\ \A s \in Spaces, p \in Pages : pte'[s][p] = Absent => pte[s][p] = Absent
      /\ \A s \in Spaces, p \in Pages :
            pte'[s][p] # Absent => pte[s][p] # Absent \/ s = job[t].child
      /\ upc'[t] \notin TablePCs
  BY GoMoves
<1>2. TabsIn(t)' /\ ClearsEmpty(t)'
  BY <1>1 DEF TabsIn, ClearsEmpty, TablePCs
<1>3. StaysInSpace'
  BY <1>1 DEF StaysInSpace, Same
<1> HIDE DEF Idle
<1> QED BY <1>1, <1>2, <1>3, AsideStep

LEMMA VMStepAside ==
    ASSUME ~SharePages, VMIInv, AsideInv, StaysInSpace, VMNext
    PROVE  AsideInv' /\ StaysInSpace'
<1>1. VMTypes /\ FrameInv /\ SpaceInv
  BY DEF VMNext, VMIInv
<1>2. PICK t \in Users :
        CallStep(t) \/ FaultStep(t) \/ NewPage(t) \/ NewPageFails(t) \/ FreeStep(t) \/ CopyStep(t)
  BY DEF VMNext
<1>3. CASE CallStep(t)
  <2>1. CASE \E p \in Pages : Write(t, p) \/ CallRemove(t, p)
    BY <1>1, <2>1, WriteAside, CallRemoveAside
  <2>2. CASE \E r \in NewRegions : CallNew(t, r)
    BY <1>1, <2>2, CallNewAside
  <2>3. CASE Vanish(t) \/ \E u \in Users : ThreadFork(t, u) \/ \E c \in Spaces : CallFork(t, c, u)
    BY <1>1, <2>3, GoAside
  <2> QED BY <1>3, <2>1, <2>2, <2>3 DEF CallStep
<1> QED BY <1>1, <1>2, <1>3, FaultAside, NewPageAside, FreeAside, GoAside

LEMMA VMAside == ~SharePages => (VMSpec => [](StaysInSpace /\ (~Stopped => AsideInv)))
<1> DEFINE Inv == StaysInSpace /\ (~Stopped => AsideInv)
<1> SUFFICES ASSUME ~SharePages PROVE VMSpec => []Inv
  OBVIOUS
<1>1. VMInit => Inv
  <2> SUFFICES ASSUME VMInit PROVE Inv
    OBVIOUS
  <2>1. \A t \in Users : job[t] = NoJob /\ upc[t] \in {"out", "absent"}
    BY DEF VMInit
  <2> QED BY <2>1 DEF StaysInSpace, AsideInv, FaultsAside, TabsIn, ClearsEmpty, TablePCs, NoJob
<1>2. VMIInv /\ Inv /\ [VMNext]_vmVars => Inv'
  <2> SUFFICES ASSUME VMIInv, Inv, [VMNext]_vmVars PROVE Inv'
    OBVIOUS
  <2>1. CASE VMNext
    BY <2>1, VMStepAside DEF VMNext
  <2>2. CASE UNCHANGED vmVars
    <3>1. UNCHANGED <<pte, space, upc, job>>
      BY <2>2 DEF vmVars, spaceVars
    <3>2. AsideInv <=> AsideInv'
      BY <3>1 DEF AsideInv, FaultsAside, RegionPages, TabsIn, ClearsEmpty
    <3> QED BY <3>1, <3>2 DEF StaysInSpace, Stopped
  <2> QED BY <2>1, <2>2
<1>3. VMSpec => []VMIInv
  BY VMAlwaysHolds
<1> QED BY <1>1, <1>2, <1>3, PTL DEF VMSpec

(* No access of a thread goes through a page table, or to a frame, that    *)
(* its space has given back, while threads do not touch what others of     *)
(* their task unmap (page_alloc.c:102,340-345).                            *)
THEOREM VMStaysInSpace == ~SharePages => (VMSpec => []StaysInSpace)
BY VMAside, PTL

-----------------------------------------------------------------------------
(***************************************************************************)
(* Page tables and regions.  A table is there for every page that is       *)
(* mapped, and each table reaches into a region.  What new_pages leaves    *)
(* behind when it finds no frame for a table needs an argument of its own: *)
(* destroy_mem_region may name the wrong tables, but then it names one     *)
(* that is not there, one with a neighbour's pages, or one twice, and the  *)
(* code stops at that one (Doomed).                                        *)
(***************************************************************************)
NonEmpty == \A r \in NewRegions : r.start < r.end

Ascends(rs) == \A i, j \in DOMAIN rs : i < j => rs[i].end <= rs[j].start

Solid(rs) == \A i \in DOMAIN rs : rs[i].start < rs[i].end

Reaches(r, k) == \E p \in PagesOf(r) : Tome(p) = k

OtherIn(rs, r, k) == \E i \in DOMAIN rs : rs[i] # r /\ Reaches(rs[i], k)

HasTable(s) == \A p \in Pages : pte[s][p] # Absent => tbl[s][Tome(p)] # Nil

HasRegion(s) == \A k \in Tomes :
    tbl[s][k] # Nil => \E i \in DOMAIN regions[s] : Reaches(regions[s][i], k)

TablesOf(s) == Ascends(regions[s]) /\ Solid(regions[s]) /\ HasTable(s) /\ HasRegion(s)

(* T are the tables of a space with regions rs; q are to be freed for r.   *)
Doomed(rs, r, q, T) == \E m \in DOMAIN q :
    T[q[m]] = Nil \/ OtherIn(rs, r, q[m]) \/ \E l \in DOMAIN q : l < m /\ q[l] = q[m]

Covers(rs, r, q, T) == \A k \in TomesOf(r) :
    T[k] # Nil => OtherIn(rs, r, k) \/ \E m \in DOMAIN q : q[m] = k

(* new_pages has no frame for a table, and takes back what it has done.    *)
Starved(t) ==
    job[t].call = "new" /\ upc[t] \in {"free_look", "free_frame", "free_clear"} =>
        \E k \in TomesOf(job[t].reg) : tbl[space[t]][k] = Nil

Frees(t) ==
    job[t].call = "new" /\ upc[t] \in TablePCs =>
        \/ Doomed(regions[space[t]], job[t].reg, job[t].tabs, tbl[space[t]])
        \/ Covers(regions[space[t]], job[t].reg, job[t].tabs, tbl[space[t]])

Clears(t) == upc[t] = "table_clear" => tbl[space[t]][Head(job[t].tabs)] # Nil

Calls(t) == Starved(t) /\ Frees(t) /\ Clears(t)

TableInv == (\A s \in Spaces : TablesOf(s)) /\ \A t \in Users : Calls(t)

Rests(t) == job[t].call # "new" /\ upc[t] # "table_clear"

LEMMA RestsCalls == ASSUME NEW t PROVE Rests(t)' => Calls(t)'
BY DEF Rests, Calls, Starved, Frees, Clears

(* What a step does to one space, where no other thread has a call that    *)
(* changes regions or tables.                                              *)
LEMMA TablesKept ==
    ASSUME VMTypes, SpaceInv, TableInv, NEW t \in Users, NEW c,
           \A u \in Users : u = t \/ Same(u) \/ Rests(u)',
           \A s \in Spaces : s = c \/
              /\ regions'[s] = regions[s] /\ tbl'[s] = tbl[s]
              /\ \A p \in Pages : pte'[s][p] # Absent => pte[s][p] # Absent,
           \A u \in Users \ {t} : c \in Spaces /\ space[u] = c =>
              job[u].call \notin {"new", "remove", "exit"},
           c \in Spaces => TablesOf(c)', Calls(t)'
    PROVE  TableInv'
<1>1. ASSUME NEW s \in Spaces PROVE TablesOf(s)'
  <2>1. CASE s = c
    BY <2>1
  <2>2. CASE s # c
    BY <2>2 DEF TableInv, TablesOf, HasTable, HasRegion
  <2> QED BY <2>1, <2>2
<1>2. ASSUME NEW u \in Users PROVE Calls(u)'
  <2>1. CASE u = t \/ Rests(u)'
    BY <2>1, RestsCalls
  <2>2. CASE u # t /\ ~Rests(u)'
    <3>1. Same(u) /\ ~Rests(u) /\ CallOf(u) /\ Calls(u)
      BY <2>2 DEF Rests, Same, SpaceInv, UserInv, TableInv
    <3>2. job[u].call \in {"new", "remove", "exit"}
      BY <3>1 DEF Rests, CallOf, FreePCs
    <3>3. space[u] \in Spaces /\ space[u] # c
      BY <2>2, <3>2, CallsInSpace
    <3>4. regions'[space[u]] = regions[space[u]] /\ tbl'[space[u]] = tbl[space[u]]
      BY <3>3
    <3> QED BY <3>1, <3>4 DEF Calls, Starved, Frees, Clears, Same
  <2> QED BY <2>1, <2>2
<1> QED BY <1>1, <1>2 DEF TableInv

LEMMA TablesAside ==
    ASSUME VMTypes, SpaceInv, TableInv, NEW t \in Users,
           \A u \in Users : u = t \/ Same(u) \/ Rests(u)', UNCHANGED <<regions, tbl>>,
           \A s \in Spaces, p \in Pages : pte'[s][p] # Absent => pte[s][p] # Absent,
           Calls(t)'
    PROVE  TableInv'
BY TablesKept, VMSizes

LEMMA RegionNats ==
    ASSUME NEW r \in Regions
    PROVE  r.start \in Pages /\ r.start \in Nat /\ r.end \in Nat
<1>1. r.start \in Pages /\ r.end \in 0 .. NumPages
  BY DEF Regions
<1>2. \A x \in 0 .. NumPages : x \in Nat
  BY VMSizes
<1> QED BY <1>1, <1>2, PagesAreNats

(* A new region that overlaps none goes to its place.                      *)
LEMMA InsertedInOrder ==
    ASSUME NEW rs \in Seq(Regions), NEW r \in Regions, Ascends(rs), Solid(rs),
           r.start < r.end, ~Overlaps(rs, r)
    PROVE  Ascends(InsertRegion(rs, r))
<1> DEFINE R == InsertRegion(rs, r)
<1>1. PICK k \in 1 .. Len(rs) + 1 :
          /\ R \in Seq(Regions) /\ Len(R) = Len(rs) + 1
          /\ \A i \in 1 .. Len(rs) + 1 :
                 R[i] = IF i < k THEN rs[i] ELSE IF i = k THEN r ELSE rs[i - 1]
          /\ \A i \in DOMAIN rs : i < k => Above(r, rs[i])
          /\ k \in DOMAIN rs => ~Above(r, rs[k])
  BY RegionInserted
<1>2. Len(rs) \in Nat /\ DOMAIN rs = 1 .. Len(rs)
  OBVIOUS
<1>3. /\ r.start \in Nat /\ r.end \in Nat
      /\ \A i \in DOMAIN rs : rs[i].start \in Nat /\ rs[i].end \in Nat /\ rs[i].start < rs[i].end
  <2>1. \A q \in Regions : q.start \in Nat /\ q.end \in Nat
    <3>1. ASSUME NEW q \in Regions PROVE q.start \in Nat /\ q.end \in Nat
      <4>1. q.start \in Pages /\ q.end \in 0 .. NumPages
        BY DEF Regions
      <4>2. \A x \in 0 .. NumPages : x \in Nat
        BY VMSizes
      <4> QED BY <4>1, <4>2, PagesAreNats
    <3> QED BY <3>1
  <2>2. \A i \in DOMAIN rs : rs[i] \in Regions /\ rs[i].start < rs[i].end
    BY <1>2 DEF Solid
  <2> QED BY <2>1, <2>2
<1> HIDE DEF R
<1>4. \A i \in DOMAIN rs : i < k => rs[i].end <= r.start
  BY <1>1 DEF Above
<1>5. k \in DOMAIN rs => r.end <= rs[k].start
  <2>1. SUFFICES ASSUME k \in DOMAIN rs PROVE r.end <= rs[k].start
    OBVIOUS
  <2>2. Below(rs[k], r) \/ Above(rs[k], r)
    BY <2>1 DEF Overlaps, ToSet
  <2> QED BY <1>1, <1>3, <2>1, <2>2 DEF Below, Above
<1>6. \A i \in DOMAIN rs : k <= i => r.end <= rs[i].start
  <2>1. ASSUME NEW i \in DOMAIN rs, k < i PROVE r.end <= rs[i].start
    <3>1. k \in DOMAIN rs
      BY <1>2, <2>1
    <3>2. rs[k].end <= rs[i].start
      BY <2>1, <3>1 DEF Ascends
    <3> QED BY <1>3, <1>5, <3>1, <3>2
  <2>2. \A i \in DOMAIN rs : k <= i => k = i \/ k < i
    BY <1>2
  <2> QED BY <1>5, <2>1, <2>2
<1>7. ASSUME NEW i \in 1 .. Len(rs) + 1, NEW j \in 1 .. Len(rs) + 1, i < j
      PROVE  R[i].end <= R[j].start
  <2>1. CASE j < k
    <3>1. R[i] = rs[i] /\ R[j] = rs[j] /\ i \in DOMAIN rs /\ j \in DOMAIN rs
      BY <1>1, <1>2, <1>7, <2>1
    <3> QED BY <1>7, <3>1 DEF Ascends
  <2>2. CASE j = k
    <3>1. R[i] = rs[i] /\ R[j] = r /\ i \in DOMAIN rs /\ i < k
      BY <1>1, <1>2, <1>7, <2>2
    <3> QED BY <1>4, <3>1
  <2>3. CASE k < j /\ i = k
    <3>1. R[i] = r /\ R[j] = rs[j - 1] /\ j - 1 \in DOMAIN rs /\ k <= j - 1
      BY <1>1, <1>2, <1>7, <2>3
    <3> QED BY <1>6, <3>1
  <2>4. CASE k < j /\ i < k
    <3>1. R[i] = rs[i] /\ R[j] = rs[j - 1] /\ i \in DOMAIN rs /\ j - 1 \in DOMAIN rs /\ i < j - 1
      BY <1>1, <1>2, <1>7, <2>4
    <3> QED BY <3>1 DEF Ascends
  <2>5. CASE k < j /\ k < i
    <3>1. R[i] = rs[i - 1] /\ R[j] = rs[j - 1] /\ i - 1 \in DOMAIN rs /\ j - 1 \in DOMAIN rs
          /\ i - 1 < j - 1
      BY <1>1, <1>2, <1>7, <2>5
    <3> QED BY <3>1 DEF Ascends
  <2> QED BY <1>2, <2>1, <2>2, <2>3, <2>4, <2>5
<1> QED BY <1>1, <1>7 DEF Ascends, R

(* The page tables of a space whose list of regions gets a member.         *)
LEMMA MoreRegions ==
    ASSUME NEW s, HasTable(s), HasRegion(s), tbl'[s] = tbl[s], pte'[s] = pte[s],
           \A i \in DOMAIN regions[s] : \E k \in DOMAIN regions'[s] :
              regions'[s][k] = regions[s][i]
    PROVE  HasTable(s)' /\ HasRegion(s)'
<1>1. HasTable(s)'
  BY DEF HasTable
<1>2. ASSUME NEW k \in Tomes, tbl'[s][k] # Nil
      PROVE  \E j \in DOMAIN regions'[s] : Reaches(regions'[s][j], k)
  <2>1. PICK i \in DOMAIN regions[s] : Reaches(regions[s][i], k)
    BY <1>2 DEF HasRegion
  <2>2. PICK j \in DOMAIN regions'[s] : regions'[s][j] = regions[s][i]
    OBVIOUS
  <2> QED BY <2>1, <2>2
<1> QED BY <1>1, <1>2 DEF HasRegion

LEMMA RemovedInOrder ==
    ASSUME NEW rs \in Seq(Regions), Ascends(rs), Solid(rs), NEW x \in DOMAIN rs
    PROVE  Ascends(RemoveFirst(rs, rs[x])) /\ Solid(RemoveFirst(rs, rs[x]))
<1> DEFINE R == RemoveFirst(rs, rs[x])
<1>1. rs[x] \in ToSet(rs) /\ Len(rs) \in Nat /\ DOMAIN rs = 1 .. Len(rs)
  BY DEF ToSet
<1>2. PICK k \in 1 .. Len(rs) :
          /\ R \in Seq(Regions) /\ Len(R) = Len(rs) - 1
          /\ \A i \in 1 .. Len(rs) - 1 : R[i] = rs[IF i < k THEN i ELSE i + 1]
  BY <1>1, RemoveShifts
<1> HIDE DEF R
<1> DEFINE at(i) == IF i < k THEN i ELSE i + 1
<1>3. DOMAIN R = 1 .. Len(rs) - 1
  BY <1>2
<1>4. ASSUME NEW i \in DOMAIN R PROVE at(i) \in DOMAIN rs /\ R[i] = rs[at(i)]
  BY <1>1, <1>2, <1>3
<1>5. ASSUME NEW i \in DOMAIN R, NEW j \in DOMAIN R, i < j PROVE at(i) < at(j)
  BY <1>1, <1>3, <1>5
<1> HIDE DEF at
<1> QED BY <1>4, <1>5 DEF Ascends, Solid, R

(* A page of a region that is not r in table k.                            *)
LEMMA NeighbourIn ==
    ASSUME NEW rs \in Seq(Regions), Ascends(rs), Solid(rs), NEW i \in DOMAIN rs, NEW j \in DOMAIN rs,
           i < j
    PROVE  /\ rs[i] # rs[j]
           /\ Reaches(rs[i], Tome(rs[i].end - 1)) /\ Reaches(rs[j], Tome(rs[j].start))
<1>1. /\ rs[i].start \in Nat /\ rs[i].end \in Nat /\ rs[j].start \in Nat /\ rs[j].end \in Nat
  BY RegionNats
<1>2. rs[i].start < rs[i].end /\ rs[i].end <= rs[j].start /\ rs[j].start < rs[j].end
  BY DEF Ascends, Solid
<1>3. rs[i].end - 1 \in PagesOf(rs[i]) /\ rs[j].start \in PagesOf(rs[j])
  BY <1>1, <1>2 DEF PagesOf
<1>4. rs[i] # rs[j]
  BY <1>1, <1>2
<1> QED BY <1>3, <1>4 DEF Reaches

(* The tables of a region lie from its first to its last.                  *)
LEMMA TomesBetween ==
    ASSUME NEW r \in Regions, r.start < r.end, NEW k \in TomesOf(r)
    PROVE  /\ k \in Int /\ Tome(r.start) \in Int /\ Tome(r.end - 1) \in Int
           /\ Tome(r.start) <= k /\ k <= Tome(r.end - 1)
<1>1. r.start \in Int /\ r.end \in Int /\ r.end - 1 \in Int /\ TomeSize \in Nat \ {0}
  BY RegionNats, VMSizes
<1>2. PICK p \in Int : k = Tome(p) /\ r.start <= p /\ p <= r.end - 1
  BY <1>1 DEF TomesOf, PagesOf
<1>3. Tome(r.start) \in Int /\ k \in Int /\ Tome(r.start) <= k
  BY <1>1, <1>2, DivMonotone DEF Tome
<1>4. Tome(r.end - 1) \in Int /\ k <= Tome(r.end - 1)
  BY <1>1, <1>2, DivMonotone DEF Tome
<1> QED BY <1>3, <1>4

(* If a table of the region is missing, then destroy_mem_region names the  *)
(* rest of them, or what it names dooms it.                                *)
LEMMA OwnTablesEnough ==
    ASSUME NEW rs \in Seq(Regions), Ascends(rs), Solid(rs), NEW x \in DOMAIN rs,
           NEW T, NEW kf \in TomesOf(rs[x]), T[kf] = Nil, ~OtherIn(rs, rs[x], kf)
    PROVE  \/ Doomed(rs, rs[x], OwnTables(rs, rs[x]), T)
           \/ Covers(rs, rs[x], OwnTables(rs, rs[x]), T)
<1> DEFINE r == rs[x]
           lo == Tome(r.start)
           hi == Tome(r.end - 1)
           c == CHOOSE i \in DOMAIN rs : rs[i] = r
           between == [m \in 1 .. hi - lo - 2 |-> lo + m]
           shareLo == c > 1 /\ Tome(rs[c - 1].end - 1) = lo
           shareHi == c < Len(rs) /\ Tome(rs[c + 1].start) = hi
           a == IF shareLo THEN <<>> ELSE <<lo>>
           b == IF shareHi THEN <<>> ELSE <<lo>>
           q == OwnTables(rs, r)
<1>1. /\ r \in Regions /\ r.start < r.end /\ c \in DOMAIN rs /\ rs[c] = r
      /\ Len(rs) \in Nat /\ DOMAIN rs = 1 .. Len(rs)
  BY DEF Solid
<1>2. q = IF lo = hi THEN IF shareLo \/ shareHi THEN <<>> ELSE <<lo>> ELSE a \o b \o between
  BY Zenon DEF OwnTables
<1> HIDE DEF c
<1>3. shareLo => OtherIn(rs, r, lo)
  <2>1. SUFFICES ASSUME shareLo PROVE OtherIn(rs, r, lo)
    OBVIOUS
  <2>2. c - 1 \in DOMAIN rs /\ c - 1 < c
    BY <1>1, <2>1
  <2>3. rs[c - 1] # rs[c] /\ Reaches(rs[c - 1], lo)
    BY <1>1, <2>1, <2>2, NeighbourIn
  <2> HIDE DEF r, lo
  <2> QED BY <1>1, <2>2, <2>3 DEF OtherIn
<1>4. shareHi => OtherIn(rs, r, hi)
  <2>1. SUFFICES ASSUME shareHi PROVE OtherIn(rs, r, hi)
    OBVIOUS
  <2>2. c + 1 \in DOMAIN rs /\ c < c + 1
    BY <1>1, <2>1
  <2>3. rs[c] # rs[c + 1] /\ Reaches(rs[c + 1], hi)
    BY <1>1, <2>1, <2>2, NeighbourIn
  <2> HIDE DEF r, hi
  <2> QED BY <1>1, <2>2, <2>3 DEF OtherIn
<1>5. /\ lo \in Int /\ hi \in Int
      /\ \A k \in TomesOf(r) : k \in Int /\ lo <= k /\ k <= hi
  BY <1>1, TomesBetween
<1> SUFFICES ASSUME NEW k \in TomesOf(r), T[k] # Nil, ~OtherIn(rs, r, k),
                    \A m \in DOMAIN q : q[m] # k
             PROVE  Doomed(rs, r, q, T)
  BY DEF Covers
<1>6. kf \in TomesOf(r) /\ ~OtherIn(rs, r, kf) /\ T[kf] = Nil
  OBVIOUS
<1> HIDE DEF r, lo, hi, shareLo, shareHi, q
<1>7. k # kf /\ lo # hi
  BY <1>5, <1>6
<1>8. q = a \o b \o between
  BY <1>2, <1>7
<1>9. /\ a \in Seq(Int) /\ b \in Seq(Int) /\ between \in Seq(Int)
      /\ DOMAIN between = 1 .. hi - lo - 2 /\ \A m \in 1 .. hi - lo - 2 : between[m] = lo + m
  BY <1>5
<1>10. ASSUME NEW m \in 1 .. hi - lo - 2 PROVE \E l \in DOMAIN q : q[l] = lo + m
  <2>1. m + Len(a \o b) \in DOMAIN q /\ q[m + Len(a \o b)] = between[m]
    <3> HIDE DEF a, b, between
    <3> QED BY <1>5, <1>8, <1>9
  <2> QED BY <1>9, <2>1
<1>11. ~shareLo => 1 \in DOMAIN q /\ q[1] = lo
  <2>1. SUFFICES ASSUME a = <<lo>> PROVE 1 \in DOMAIN q /\ q[1] = lo
    OBVIOUS
  <2> HIDE DEF b, between
  <2> QED BY <1>5, <1>8, <1>9, <2>1
<1>12. ~shareLo /\ ~shareHi => 2 \in DOMAIN q /\ q[2] = lo
  <2>1. SUFFICES ASSUME a = <<lo>>, b = <<lo>> PROVE 2 \in DOMAIN q /\ q[2] = lo
    OBVIOUS
  <2> HIDE DEF between
  <2> QED BY <1>5, <1>8, <1>9, <2>1
<1> HIDE DEF a, b, between
<1>13. CASE ~shareLo /\ ~shareHi
  BY <1>11, <1>12, <1>13 DEF Doomed
<1>14. CASE ~shareLo /\ shareHi /\ kf = lo
  BY <1>6, <1>11, <1>14 DEF Doomed
<1>15. ASSUME NEW m \in 1 .. hi - lo - 2, kf = lo + m PROVE Doomed(rs, r, q, T)
  BY <1>6, <1>10, <1>15 DEF Doomed
<1>16. CASE shareHi /\ kf # lo /\ \A m \in 1 .. hi - lo - 2 : kf # lo + m
  <2>1. kf # hi /\ k # hi
    BY <1>4, <1>6, <1>16
  <2>2. kf - lo \in Int /\ k - lo \in Int /\ lo + (kf - lo) = kf /\ lo + (k - lo) = k
    BY <1>5, <1>6
  <2>3. kf = hi - 1
    <3>1. kf - lo \notin 1 .. hi - lo - 2
      BY <1>16, <2>2
    <3> QED BY <1>5, <1>6, <1>16, <2>1, <3>1
  <2>4. k # lo
    <3>1. CASE shareLo
      BY <1>3, <3>1
    <3>2. CASE ~shareLo
      BY <1>11, <3>2
    <3> QED BY <3>1, <3>2
  <2>5. k - lo \in 1 .. hi - lo - 2
    BY <1>5, <1>7, <2>1, <2>2, <2>3, <2>4
  <2> QED BY <1>10, <2>2, <2>5
<1>17. CASE shareLo /\ ~shareHi
  <2>1. SUFFICES 1 \in DOMAIN q /\ q[1] = lo
    BY <1>3, <1>17 DEF Doomed
  <2>2. a = <<>> /\ b = <<lo>>
    BY <1>17 DEF a, b
  <2> QED BY <1>5, <1>8, <1>9, <2>2
<1>18. shareLo => kf # lo
  BY <1>3, <1>6
<1> QED BY <1>13, <1>14, <1>15, <1>16, <1>17, <1>18

(* A table goes that was there and holds no neighbour's page.              *)
LEMMA TableGone ==
    ASSUME NEW rs, NEW r, NEW q \in Seq(Tomes), q # <<>>, NEW T, NEW U,
           T[Head(q)] # Nil, ~OtherIn(rs, r, Head(q)),
           U[Head(q)] = Nil, \A k \in Tomes : k # Head(q) => U[k] = T[k],
           TomesOf(r) \subseteq Tomes,
           Doomed(rs, r, q, T) \/ Covers(rs, r, q, T)
    PROVE  Doomed(rs, r, Tail(q), U) \/ Covers(rs, r, Tail(q), U)
<1> DEFINE w == Tail(q)
<1>1. /\ Len(q) \in Nat /\ DOMAIN q = 1 .. Len(q) /\ DOMAIN w = 1 .. Len(q) - 1
      /\ \A n \in DOMAIN w : n + 1 \in DOMAIN q /\ w[n] = q[n + 1]
      /\ Head(q) = q[1] /\ \A n \in DOMAIN q : q[n] \in Tomes
  OBVIOUS
<1> HIDE DEF w
<1>2. ASSUME NEW m \in DOMAIN q, m # 1 PROVE m - 1 \in DOMAIN w /\ w[m - 1] = q[m]
  <2>1. m - 1 \in DOMAIN w /\ m - 1 + 1 = m
    BY <1>1, <1>2
  <2> QED BY <1>1, <2>1
<1>3. ASSUME Doomed(rs, r, q, T) PROVE Doomed(rs, r, w, U)
  <2>1. PICK m \in DOMAIN q :
            T[q[m]] = Nil \/ OtherIn(rs, r, q[m]) \/ \E l \in DOMAIN q : l < m /\ q[l] = q[m]
    BY <1>3 DEF Doomed
  <2>2. m # 1
    BY <1>1, <2>1
  <2>3. m - 1 \in DOMAIN w /\ w[m - 1] = q[m]
    BY <1>2, <2>2
  <2>4. CASE T[q[m]] = Nil
    BY <1>1, <2>3, <2>4 DEF Doomed
  <2>5. CASE OtherIn(rs, r, q[m])
    BY <2>3, <2>5 DEF Doomed
  <2>6. ASSUME NEW l \in DOMAIN q, l < m, q[l] = q[m] PROVE Doomed(rs, r, w, U)
    <3>1. CASE l = 1
      BY <1>1, <2>3, <2>6, <3>1 DEF Doomed
    <3>2. CASE l # 1
      <4>1. l - 1 \in DOMAIN w /\ w[l - 1] = w[m - 1] /\ l - 1 < m - 1
        BY <1>1, <1>2, <2>3, <2>6, <3>2
      <4> QED BY <2>3, <4>1 DEF Doomed
    <3> QED BY <3>1, <3>2
  <2> QED BY <2>1, <2>4, <2>5, <2>6
<1>4. ASSUME Covers(rs, r, q, T) PROVE Covers(rs, r, w, U)
  <2>1. SUFFICES ASSUME NEW k \in TomesOf(r), U[k] # Nil, ~OtherIn(rs, r, k)
                 PROVE  \E m \in DOMAIN w : w[m] = k
    BY DEF Covers
  <2>2. k # Head(q) /\ T[k] # Nil
    BY <2>1
  <2>3. PICK m \in DOMAIN q : q[m] = k
    BY <1>4, <2>1, <2>2 DEF Covers
  <2> QED BY <1>1, <1>2, <2>2, <2>3
<1> QED BY <1>3, <1>4 DEF w

-----------------------------------------------------------------------------
(* Every step. *)

LEMMA CallNewTables ==
    ASSUME NonEmpty, VMTypes, SpaceInv, TableInv, NEW t \in Users,
           NEW r \in NewRegions, CallNew(t, r)
    PROVE  TableInv'
<1>0. RegionInv
  BY DEF SpaceInv
<1>1. PICK s \in Spaces : s = space[t]
  BY InSpace DEF CallNew
<1> DEFINE R == InsertRegion(regions[s], r)
           j == [NoJob EXCEPT !.call = "new", !.reg = r, !.todo = PagesOf(r)]
<1>2. r \in Regions /\ r.start < r.end
  BY NewRegionsAre DEF NonEmpty
<1>3. PagesOf(r) # {}
  <2>1. r.start \in PagesOf(r)
    BY <1>2, RegionNats DEF PagesOf
  <2> QED BY <2>1
<1>4. /\ upc[t] = "out" /\ ~Overlaps(regions[s], r) /\ lock[s] = Nil
      /\ regions' = [regions EXCEPT ![s] = R]
      /\ UserGoto(t, "n_page")
      /\ job' = [job EXCEPT ![t] = j]
      /\ UNCHANGED <<pte, tbl, space>>
  BY <1>1, <1>3 DEF CallNew
<1>5. /\ regions[s] \in Seq(Regions) /\ Disjoint(regions[s])
      /\ Ascends(regions[s]) /\ Solid(regions[s]) /\ HasTable(s) /\ HasRegion(s)
  BY <1>0 DEF VMTypes, RegionInv, Disjoint, TableInv, TablesOf
<1>6. /\ \A i \in DOMAIN regions[s] : \E k \in DOMAIN R : R[k] = regions[s][i]
      /\ \A k \in DOMAIN R : R[k] = r \/ \E i \in DOMAIN regions[s] : R[k] = regions[s][i]
  BY <1>2, <1>4, <1>5, InsertedApart
<1>7. Ascends(R) /\ Solid(R)
  <2>1. Ascends(R)
    BY <1>2, <1>4, <1>5, InsertedInOrder
  <2> QED BY <1>2, <1>5, <1>6, <2>1 DEF Solid
<1>8. j.call = "new"
  BY DEF NoJob
<1> HIDE DEF R, j
<1>9. /\ regions'[s] = R /\ \A v \in Spaces : v # s => regions'[v] = regions[v]
      /\ upc'[t] = "n_page" /\ \A u \in Users : u = t \/ Same(u)
  BY <1>4 DEF VMTypes, UserGoto, Same
<1>10. TablesOf(s)'
  <2>1. HasTable(s)' /\ HasRegion(s)'
    BY <1>4, <1>5, <1>6, <1>9, MoreRegions
  <2> QED BY <1>7, <1>9, <2>1 DEF TablesOf
<1>11. Calls(t)'
  BY <1>9 DEF Calls, Starved, Frees, Clears, TablePCs
<1>12. ASSUME NEW u \in Users \ {t}, space[u] = s
       PROVE  job[u].call \notin {"new", "remove", "exit"}
  <2>1. Apart(u, t) /\ Owner(u)
    BY DEF SpaceInv, UserInv
  <2> QED BY <1>1, <1>4, <1>12, <2>1, VMSizes DEF Apart, Owner
<1> QED BY <1>4, <1>9, <1>10, <1>11, <1>12, TablesKept

(* A page comes with its table.                                            *)
LEMMA PageComes ==
    ASSUME VMTypes, NEW s \in Spaces, NEW q \in Pages, NEW e \in Entries,
           TablesOf(s), UNCHANGED regions, pte' = [pte EXCEPT ![s][q] = e],
           \/ tbl[s][Tome(q)] # Nil /\ tbl' = tbl
           \/ head # Nil /\ tbl' = [tbl EXCEPT ![s][Tome(q)] = head],
           \E i \in DOMAIN regions[s] : q \in PagesOf(regions[s][i])
    PROVE  /\ TablesOf(s)'
           /\ \A r \in Spaces : r = s \/
                /\ regions'[r] = regions[r] /\ tbl'[r] = tbl[r]
                /\ \A p \in Pages : pte'[r][p] # Absent => pte[r][p] # Absent
<1>1. PICK k \in Tomes : k = Tome(q)
  BY TomeIn
<1>2. /\ tbl'[s][k] # Nil /\ \A l \in Tomes : l # k => tbl'[s][l] = tbl[s][l]
      /\ \A r \in Spaces : r # s => tbl'[r] = tbl[r]
  <2>1. CASE head # Nil /\ tbl' = [tbl EXCEPT ![s][Tome(q)] = head]
    BY <1>1, <2>1 DEF VMTypes
  <2>2. CASE tbl[s][Tome(q)] # Nil /\ tbl' = tbl
    BY <1>1, <2>2
  <2> QED BY <2>1, <2>2
<1>3. /\ \A p \in Pages : p # q => pte'[s][p] = pte[s][p]
      /\ \A r \in Spaces : r # s => pte'[r] = pte[r]
  BY DEF VMTypes
<1>4. HasTable(s)'
  BY <1>1, <1>2, <1>3, TomeIn DEF TablesOf, HasTable
<1>5. HasRegion(s)'
  <2>1. \E i \in DOMAIN regions[s] : Reaches(regions[s][i], k)
    BY <1>1 DEF Reaches
  <2>2. \A l \in Tomes : tbl'[s][l] # Nil => \E i \in DOMAIN regions[s] : Reaches(regions[s][i], l)
    <3> HIDE DEF Reaches
    <3> QED BY <1>2, <2>1 DEF TablesOf, HasRegion
  <2> QED BY <2>2 DEF HasRegion
<1>6. TablesOf(s)'
  BY <1>4, <1>5 DEF TablesOf
<1> QED BY <1>2, <1>3, <1>6

LEMMA NewPageTables ==
    ASSUME VMTypes, SpaceInv, TableInv, NEW t \in Users, NewPage(t) \/ NewPageFails(t)
    PROVE  TableInv'
<1>0. CallOf(t) /\ Held(t) /\ job[t] \in Jobs /\ Calls(t)
  BY DEF SpaceInv, UserInv, VMTypes, TableInv
<1>1. upc[t] = "n_page" /\ job[t].call = "new" /\ job[t].todo # {} /\ space' = space
  BY <1>0 DEF NewPage, NewPageFails, CallOf
<1>2. PICK s \in Spaces : s = space[t]
  BY <1>1, InSpace
<1>3. PICK q \in Pages : q = Page(t) /\ q \in job[t].todo
  BY <1>1, <1>2, EntryIs
<1>4. q \in PagesOf(job[t].reg) /\ \E i \in DOMAIN regions[s] : regions[s][i] = job[t].reg
  BY <1>0, <1>1, <1>2, <1>3 DEF CallOf, Held
<1>5. \A u \in Users : u = t \/ Same(u)
  BY <1>1 DEF NewPage, NewPageFails, UserGoto, VMTypes, Same
<1>6. CASE NewPage(t)
  <2> DEFINE e == [to |-> Zfod, rw |-> FALSE]
  <2>1. /\ pte' = [pte EXCEPT ![s][q] = e] /\ regions' = regions
        /\ \/ tbl[s][Tome(q)] # Nil /\ tbl' = tbl
           \/ head # Nil /\ tbl' = [tbl EXCEPT ![s][Tome(q)] = head]
    BY <1>2, <1>3, <1>6 DEF NewPage
  <2>2. e \in Entries
    BY DEF Entries
  <2>3. upc'[t] \in {"wild", "out", "n_page"}
    BY <1>6 DEF NewPage, UserGoto, VMTypes
  <2> HIDE DEF e
  <2>4. /\ TablesOf(s)'
        /\ \A r \in Spaces : r = s \/
             /\ regions'[r] = regions[r] /\ tbl'[r] = tbl[r]
             /\ \A p \in Pages : pte'[r][p] # Absent => pte[r][p] # Absent
    BY <1>4, <2>1, <2>2, PageComes DEF TableInv
  <2>5. Calls(t)'
    BY <2>3 DEF Calls, Starved, Frees, Clears, TablePCs
  <2>6. \A u \in Users \ {t} : space[u] = s => job[u].call \notin {"new", "remove", "exit"}
    BY <1>1, <1>2, OneCall
  <2> QED BY <1>5, <2>4, <2>5, <2>6, TablesKept
<1>7. CASE NewPageFails(t)
  <2>1. tbl[s][Tome(q)] = Nil /\ UNCHANGED <<pte, tbl, regions>> /\ upc'[t] = "free_look"
    BY <1>2, <1>3, <1>7 DEF NewPageFails, UserGoto, VMTypes, spaceVars
  <2>2. job'[t].reg = job[t].reg
    BY <1>0, <1>7 DEF NewPageFails, VMTypes, Jobs
  <2>3. Tome(q) \in TomesOf(job[t].reg)
    BY <1>4 DEF TomesOf
  <2>4. Calls(t)'
    BY <1>1, <1>2, <2>1, <2>2, <2>3 DEF Calls, Starved, Frees, Clears, TablePCs
  <2> QED BY <1>5, <2>1, <2>4, TablesAside
<1> QED BY <1>6, <1>7

(* The pages of a neighbour stay mapped while a region is taken down.      *)
LEMMA OthersMapped ==
    ASSUME VMTypes, SpaceInv, NEW t \in Users, upc[t] \in FreePCs, job[t].call \in {"new", "remove"},
           NEW i \in DOMAIN regions[space[t]], regions[space[t]][i] # job[t].reg,
           NEW p \in PagesOf(regions[space[t]][i])
    PROVE  p \in Pages /\ pte[space[t]][p] # Absent
<1>0. CallOf(t) /\ Held(t) /\ RegionInv
  BY DEF SpaceInv, UserInv
<1>1. PICK s \in Spaces : s = space[t]
  BY InSpace DEF FreePCs
<1>2. regions[s][i] \in Regions
  BY <1>1 DEF VMTypes
<1>3. p \in Pages
  BY <1>1, <1>2, VMSizes DEF PagesOf, Regions, Pages
<1>4. p \notin PagesOf(job[t].reg)
  BY <1>0, <1>1 DEF Held, RegionInv
<1>5. ASSUME NEW u \in Users, Excused(u, s, p) PROVE FALSE
  <2>1. CASE u = t
    <3>1. job[t].child = Nil
      BY <1>0 DEF CallOf, CopyPCs, FreePCs
    <3> QED BY <1>4, <1>5, <2>1, <3>1, VMSizes DEF Excused
  <2>2. CASE u # t
    <3>1. space[u] = s => job[u].call \notin {"new", "remove", "exit"}
      BY <1>1, <2>2, OneCall
    <3>2. Apart(u, t) /\ s # Nil
      BY <2>2, VMSizes DEF SpaceInv
    <3> QED BY <1>1, <1>5, <3>1, <3>2 DEF Excused, Apart
  <2> QED BY <2>1, <2>2
<1>6. pte[s][p] # Absent
  <2> HIDE DEF Excused
  <2> QED BY <1>0, <1>1, <1>3, <1>5 DEF RegionInv
<1> QED BY <1>1, <1>3, <1>6

LEMMA FreePageTables ==
    ASSUME VMTypes, SpaceInv, TableInv, NEW t \in Users, ~Stopped',
           FreeLook(t) \/ FreeFrame(t) \/ FreeClear(t) \/ FreeTable(t) \/ PagesFreed(t)
    PROVE  TableInv'
<1>1. /\ space[t] \in Spaces /\ CallOf(t) /\ Held(t) /\ job[t] \in Jobs /\ Calls(t) /\ FreeStep(t)
      /\ \A u \in Users \ {t} : Same(u)
      /\ UNCHANGED <<tbl, regions, space>>
  BY FreeCalls DEF FreeStep, SpaceInv, UserInv, VMTypes, TableInv, FreeLook, FreeFrame, FreeClear,
     FreeTable, PagesFreed, spaceVars
<1>2. Calls(t)'
  <2>1. CASE FreeLook(t) \/ FreeFrame(t) \/ FreeClear(t)
    <3>1. upc[t] \in {"free_look", "free_frame", "free_clear"}
      BY <2>1 DEF FreeLook, FreeFrame, FreeClear
    <3>2. upc'[t] \in {"free_look", "free_frame", "free_clear"}
      <4>1. CASE upc' = upc
        BY <3>1, <4>1
      <4>2. CASE upc' # upc
        BY <2>1, <4>2 DEF FreeLook, FreeFrame, FreeClear, UserGoto, VMTypes
      <4> QED BY <4>1, <4>2
    <3>3. job'[t].call = job[t].call /\ job'[t].reg = job[t].reg
      BY <1>1, <2>1 DEF FreeLook, FreeFrame, FreeClear, VMTypes, Jobs
    <3> QED BY <1>1, <3>1, <3>2, <3>3 DEF Calls, Starved, Frees, Clears, TablePCs
  <2>2. CASE FreeTable(t)
    <3>1. upc[t] = "tables" /\ job' = job
      BY <2>2 DEF FreeTable
    <3>2. upc'[t] = "table_clear" /\ tbl[space[t]][Head(job[t].tabs)] # Nil
      BY <2>2 DEF FreeTable, UserGoto, VMTypes, Stopped
    <3> QED BY <1>1, <3>1, <3>2 DEF Calls, Starved, Frees, Clears, TablePCs
  <2>3. CASE PagesFreed(t)
    <3>1. PICK q \in Tables(t) : job' = [job EXCEPT ![t].tabs = q]
      BY <2>3 DEF PagesFreed
    <3>2. /\ job'[t].call = job[t].call /\ job'[t].reg = job[t].reg /\ job'[t].tabs = q
          /\ upc[t] = "free_look" /\ upc'[t] = "tables" /\ job[t].todo = {}
      BY <1>1, <2>3, <3>1 DEF PagesFreed, UserGoto, VMTypes, Jobs
    <3>3. ASSUME job[t].call = "new"
          PROVE  \/ Doomed(regions[space[t]], job[t].reg, q, tbl[space[t]])
                 \/ Covers(regions[space[t]], job[t].reg, q, tbl[space[t]])
      <4>1. q = OwnTables(regions[space[t]], job[t].reg)
        BY <3>1, <3>3 DEF Tables
      <4>2. PICK kf \in TomesOf(job[t].reg) : tbl[space[t]][kf] = Nil
        BY <1>1, <3>2, <3>3 DEF Calls, Starved
      <4>3. /\ regions[space[t]] \in Seq(Regions) /\ Ascends(regions[space[t]])
            /\ Solid(regions[space[t]]) /\ HasTable(space[t])
        BY <1>1 DEF VMTypes, TableInv, TablesOf
      <4>4. ~OtherIn(regions[space[t]], job[t].reg, kf)
        BY <3>2, <3>3, <4>2, <4>3, OthersMapped DEF OtherIn, Reaches, HasTable, FreePCs
      <4>5. CASE PagesOf(job[t].reg) # {}
        <5>1. PICK x \in DOMAIN regions[space[t]] : regions[space[t]][x] = job[t].reg
          BY <1>1, <3>3, <4>5 DEF Held
        <5> HIDE DEF TomesOf, OwnTables
        <5> QED BY <4>1, <4>2, <4>3, <4>4, <5>1, OwnTablesEnough
      <4>6. CASE PagesOf(job[t].reg) = {}
        <5>1. TomesOf(job[t].reg) = {kf}
          BY <4>2, <4>6 DEF TomesOf
        <5> QED BY <4>2, <5>1 DEF Covers
      <4> QED BY <4>5, <4>6
    <3> QED BY <1>1, <3>2, <3>3 DEF Calls, Starved, Frees, Clears, TablePCs
  <2> QED BY <2>1, <2>2, <2>3
<1> QED BY <1>1, <1>2, FreePages, TablesAside

LEMMA ClearTableTables ==
    ASSUME VMTypes, SpaceInv, AsideInv, TableInv, NEW t \in Users, ClearTable(t)
    PROVE  TableInv'
<1>1. /\ space[t] \in Spaces /\ CallOf(t) /\ job[t] \in Jobs /\ Calls(t) /\ FreeStep(t)
      /\ \A u \in Users \ {t} : Same(u)
      /\ UNCHANGED <<pte, regions, space>> /\ Progress(t) /\ ClearsEmpty(t)
      /\ upc[t] = "table_clear" /\ upc'[t] = "tables" /\ upc[t] \in FreePCs
  BY FreeCalls DEF FreeStep, SpaceInv, UserInv, VMTypes, TableInv, AsideInv, ClearTable, UserGoto,
     FreePCs
<1>2. PICK s \in Spaces : s = space[t]
  BY <1>1
<1>3. PICK q \in Seq(Tomes) : q = job[t].tabs /\ q # <<>> /\ Head(q) \in Tomes
  BY <1>1, TabsTypes DEF Progress
<1>4. /\ tbl'[s][Head(q)] = Nil /\ \A k \in Tomes : k # Head(q) => tbl'[s][k] = tbl[s][k]
      /\ \A r \in Spaces : r # s => tbl'[r] = tbl[r]
  BY <1>2, <1>3 DEF ClearTable, VMTypes
<1>5. job'[t].call = job[t].call /\ job'[t].reg = job[t].reg /\ job'[t].tabs = Tail(q)
  BY <1>1, <1>3 DEF ClearTable, VMTypes, Jobs
<1>6. \A p \in Pages : Tome(p) = Head(q) => pte[s][p] = Absent
  BY <1>1, <1>2, <1>3 DEF ClearsEmpty
<1>7. TablesOf(s)'
  <2>1. HasTable(s)'
    BY <1>1, <1>4, <1>6, TomeIn DEF TableInv, TablesOf, HasTable
  <2>2. HasRegion(s)'
    BY <1>1, <1>4 DEF TableInv, TablesOf, HasRegion
  <2> QED BY <1>1, <2>1, <2>2 DEF TableInv, TablesOf
<1>8. ASSUME job[t].call = "new"
      PROVE  \/ Doomed(regions[s], job[t].reg, Tail(q), tbl'[s])
             \/ Covers(regions[s], job[t].reg, Tail(q), tbl'[s])
  <2>1. ~OtherIn(regions[s], job[t].reg, Head(q))
    BY <1>1, <1>2, <1>6, <1>8, OthersMapped DEF OtherIn, Reaches
  <2>2. tbl[s][Head(q)] # Nil
    BY <1>1, <1>2, <1>3 DEF Calls, Clears
  <2>3. TomesOf(job[t].reg) \subseteq Tomes
    <3>1. job[t].reg \in Regions
      BY <1>1, <1>8 DEF CallOf
    <3>2. PagesOf(job[t].reg) \subseteq Pages /\ job[t].reg.start \in Pages
      BY <3>1, VMSizes DEF PagesOf, Regions, Pages
    <3> QED BY <3>2, TomeIn DEF TomesOf
  <2>4. \/ Doomed(regions[s], job[t].reg, q, tbl[s])
        \/ Covers(regions[s], job[t].reg, q, tbl[s])
    BY <1>1, <1>2, <1>3, <1>8 DEF Calls, Frees, TablePCs
  <2> HIDE DEF TomesOf
  <2> QED BY <1>3, <1>4, <2>1, <2>2, <2>3, <2>4, TableGone
<1>9. Calls(t)'
  BY <1>1, <1>2, <1>5, <1>8 DEF Calls, Starved, Frees, Clears, TablePCs
<1>10. \A u \in Users \ {t} : space[u] = s => job[u].call \notin {"new", "remove", "exit"}
  BY <1>1, <1>2, OneCall DEF CallOf
<1> QED BY <1>1, <1>4, <1>7, <1>9, <1>10, TablesKept

LEMMA RegionFreedTables ==
    ASSUME VMTypes, SpaceInv, TableInv, NEW t \in Users, ~Stopped', RegionFreed(t)
    PROVE  TableInv'
<1>1. /\ space[t] \in Spaces /\ CallOf(t) /\ job[t] \in Jobs /\ Calls(t) /\ FreeStep(t)
      /\ \A u \in Users \ {t} : Same(u)
      /\ UNCHANGED <<pte, tbl>> /\ Held(t) /\ Progress(t) /\ RegionInv
      /\ upc[t] = "tables" /\ job[t].tabs = <<>> /\ job[t].call \in {"new", "remove"}
      /\ job'[t] = NoJob /\ upc[t] \in FreePCs /\ upc'[t] \in {"panic", "out"}
  BY FreeCalls DEF FreeStep, SpaceInv, UserInv, VMTypes, TableInv, RegionFreed, UserGoto, FreePCs
<1>2. PICK s \in Spaces : s = space[t]
  BY <1>1
<1>3. PICK r : r = job[t].reg
  OBVIOUS
<1>4. PICK rs \in Seq(Regions) : rs = regions[s]
  BY DEF VMTypes
<1> DEFINE R == RemoveFirst(rs, r)
<1>5. /\ regions' = [regions EXCEPT ![s] = R]
      /\ job[t].call = "remove" => ~EmptyTable(s)
  BY <1>1, <1>2, <1>3, <1>4 DEF RegionFreed, UserGoto, VMTypes, Stopped
<1>6. Ascends(rs) /\ Solid(rs) /\ HasRegion(s) /\ HasTable(s)
  BY <1>4 DEF TableInv, TablesOf
<1>7. ASSUME NEW k \in Tomes, tbl[s][k] # Nil
      PROVE  \E i \in DOMAIN rs : rs[i] # r /\ Reaches(rs[i], k)
  <2>1. CASE job[t].call = "remove"
    <3>1. PICK p \in Pages : Tome(p) = k /\ pte[s][p] # Absent
      BY <1>5, <1>7, <2>1 DEF EmptyTable
    <3>2. PICK i \in DOMAIN rs : p \in PagesOf(rs[i])
      BY <1>1, <1>4, <3>1 DEF RegionInv
    <3>3. p \notin PagesOf(r)
      BY <1>1, <1>2, <1>3, <2>1, <3>1 DEF Progress, CallOf
    <3> QED BY <3>1, <3>2, <3>3 DEF Reaches
  <2>2. CASE job[t].call = "new" /\ k \in TomesOf(r)
    <3>1. ~Doomed(rs, r, <<>>, tbl[s])
      BY DEF Doomed
    <3>2. Covers(rs, r, <<>>, tbl[s])
      BY <1>1, <1>2, <1>3, <1>4, <2>2, <3>1 DEF Calls, Frees, TablePCs
    <3> QED BY <1>7, <2>2, <3>2 DEF Covers, OtherIn
  <2>3. CASE k \notin TomesOf(r)
    <3>1. PICK i \in DOMAIN rs : Reaches(rs[i], k)
      BY <1>4, <1>6, <1>7 DEF HasRegion
    <3> QED BY <2>3, <3>1 DEF Reaches, TomesOf
  <2> QED BY <1>1, <2>1, <2>2, <2>3
<1>8. /\ R \in Seq(Regions) /\ Ascends(R) /\ Solid(R)
      /\ \A i \in DOMAIN rs : rs[i] = r \/ \E j \in DOMAIN R : R[j] = rs[i]
  <2>1. Disjoint(rs)
    BY <1>1, <1>4 DEF RegionInv, Disjoint
  <2>2. R \in Seq(Regions) /\ \A i \in DOMAIN rs : rs[i] = r \/ \E j \in DOMAIN R : R[j] = rs[i]
    BY <2>1, RemovedApart
  <2>3. CASE \E i \in DOMAIN rs : rs[i] = r
    <3>1. Ascends(R) /\ Solid(R)
      BY <1>6, <2>3, RemovedInOrder
    <3> QED BY <2>2, <3>1
  <2>4. CASE ~\E i \in DOMAIN rs : rs[i] = r
    <3>1. R = rs
      BY <2>4 DEF RemoveFirst
    <3> QED BY <1>6, <2>2, <3>1
  <2> QED BY <2>3, <2>4
<1> HIDE DEF R
<1>9. regions'[s] = R /\ \A v \in Spaces : v # s => regions'[v] = regions[v]
  BY <1>5 DEF VMTypes
<1>10. TablesOf(s)'
  <2>1. HasTable(s)'
    BY <1>1, <1>6 DEF HasTable
  <2>2. HasRegion(s)'
    <3> HIDE DEF Reaches
    <3> QED BY <1>1, <1>7, <1>8, <1>9 DEF HasRegion
  <2> QED BY <1>8, <1>9, <2>1, <2>2 DEF TablesOf
<1>11. Calls(t)'
  BY <1>1 DEF Calls, Starved, Frees, Clears, TablePCs, NoJob
<1>12. \A u \in Users \ {t} : space[u] = s => job[u].call \notin {"new", "remove", "exit"}
  BY <1>1, <1>2, OneCall
<1> QED BY <1>1, <1>9, <1>10, <1>11, <1>12, TablesKept

LEMMA SpaceFreedTables ==
    ASSUME VMTypes, SpaceInv, TableInv, NEW t \in Users, ~Stopped', SpaceFreed(t)
    PROVE  TableInv'
<1>1. /\ space[t] \in Spaces /\ CallOf(t) /\ Progress(t) /\ FreeStep(t)
      /\ \A u \in Users \ {t} : Same(u)
      /\ UNCHANGED <<pte, tbl>> /\ upc[t] = "tables" /\ job[t].call = "exit"
  BY FreeCalls DEF FreeStep, SpaceInv, UserInv, SpaceFreed
<1>2. PICK s \in Spaces : s = space[t]
  BY <1>1
<1>3. regions' = [regions EXCEPT ![s] = <<>>] /\ ~EmptyTable(s) /\ Leave(t)
  BY <1>2 DEF SpaceFreed, UserGoto, VMTypes, Stopped
<1>4. \A p \in Pages : pte[s][p] = Absent
  BY <1>1, <1>2 DEF Progress, CallOf, FreePCs
<1>5. \A k \in Tomes : tbl[s][k] = Nil
  BY <1>3, <1>4 DEF EmptyTable
<1>6. regions'[s] = <<>> /\ \A v \in Spaces : v # s => regions'[v] = regions[v]
  BY <1>3 DEF VMTypes
<1>7. TablesOf(s)'
  BY <1>1, <1>4, <1>5, <1>6 DEF TablesOf, Ascends, Solid, HasTable, HasRegion
<1>8. Calls(t)'
  <2>1. upc'[t] = "absent" /\ job'[t].call = "none"
    BY <1>3 DEF Leave, UserGoto, VMTypes, NoJob
  <2> QED BY <2>1 DEF Calls, Starved, Frees, Clears, TablePCs
<1>9. \A u \in Users \ {t} : space[u] = s => job[u].call \notin {"new", "remove", "exit"}
  BY <1>1, <1>2, OneCall
<1> QED BY <1>1, <1>6, <1>7, <1>8, <1>9, TablesKept

-----------------------------------------------------------------------------
(* The steps that free nothing. *)

LEMMA FaultTables ==
    ASSUME VMTypes, SpaceInv, AsideInv, TableInv, NEW t \in Users, FaultStep(t)
    PROVE  TableInv'
<1>1. /\ upc'[t] # "table_clear" /\ job'[t].call \in {"none", "fault"}
      /\ \A u \in Users \ {t} : Same(u)
      /\ \A s \in Spaces, p \in Pages : pte'[s][p] = Absent <=> pte[s][p] = Absent
      /\ UNCHANGED <<regions, tbl>>
  BY FaultMoves
<1>2. Calls(t)'
  BY <1>1, RestsCalls DEF Rests
<1> QED BY <1>1, <1>2, TablesAside

LEMMA WriteTables ==
    ASSUME VMTypes, SpaceInv, TableInv, NEW t \in Users, NEW p \in Pages,
           Write(t, p) \/ CallRemove(t, p)
    PROVE  TableInv'
<1>1. /\ upc'[t] \in {"astray", "out", "f_look", "free_look"}
      /\ \A u \in Users \ {t} : Same(u)
      /\ UNCHANGED <<regions, tbl, pte>>
      /\ upc[t] = "out" /\ job[t] = NoJob
      /\ job' = job \/ job'[t].call \in {"fault", "remove"}
  <2>1. upc[t] = "out" /\ job[t] = NoJob
    BY DEF Write, CallRemove, SpaceInv, UserInv, CallOf
  <2>2. CASE Write(t, p)
    BY <2>1, <2>2 DEF Write, UserGoto, VMTypes, Same, spaceVars, NoJob
  <2>3. CASE CallRemove(t, p)
    <3>1. \E r : job' = [job EXCEPT ![t] = [NoJob EXCEPT !.call = "remove", !.reg = r,
                                                      !.todo = PagesOf(r)]]
      BY <2>3 DEF CallRemove
    <3>2. /\ upc' = [upc EXCEPT ![t] = "free_look"] /\ UNCHANGED <<regions, tbl, pte, space>>
      BY <2>3 DEF CallRemove, UserGoto
    <3> QED BY <2>1, <3>1, <3>2 DEF VMTypes, Same, NoJob
  <2> QED BY <2>2, <2>3
<1>2. Calls(t)'
  BY <1>1, RestsCalls DEF Rests, NoJob
<1> QED BY <1>1, <1>2, TablesAside

(* The space that fork builds up gets a region of the parent's, in order.  *)
LEMMA CopyRegionTables ==
    ASSUME VMTypes, SpaceInv, TableInv, NEW t \in Users, CopyRegion(t)
    PROVE  TableInv'
<1>1. /\ upc[t] = "c_region" /\ UNCHANGED <<pte, tbl>>
      /\ UserInv(t) /\ CopyProgress(t) /\ job[t] \in Jobs
  BY DEF CopyRegion, SpaceInv, UserInv, VMTypes
<1>2. /\ space[t] \in Spaces /\ job[t].child \in Spaces
      /\ \A u \in Users \ {t} : space[u] # job[t].child
  BY <1>1, ForkAlone DEF CopyPCs
<1>3. PICK s \in Spaces, c \in Spaces : s = space[t] /\ c = job[t].child
  BY <1>2
<1>4. PICK src \in Seq(Regions), dst \in Seq(Regions) : src = regions[s] /\ dst = regions[c]
  BY <1>3 DEF VMTypes
<1>5. PICK n : n = Len(dst) + 1
  OBVIOUS
<1>6. n \in DOMAIN src /\ src[n] \in Regions
  BY <1>3, <1>4, <1>5 DEF CopyRegion
<1>7. regions' = regions \/ regions' = [regions EXCEPT ![c] = Append(dst, src[n])]
  BY <1>3, <1>4, <1>5 DEF CopyRegion
<1>8. /\ upc'[t] \in {"copy_failed", "c_frame"}
      /\ \A u \in Users \ {t} : Same(u)
  BY DEF CopyRegion, UserGoto, VMTypes, Same
<1>9. Calls(t)'
  BY <1>8 DEF Calls, Starved, Frees, Clears, TablePCs
<1>10. CASE regions' = regions
  BY <1>1, <1>8, <1>9, <1>10, TablesAside
<1>11. CASE regions' = [regions EXCEPT ![c] = Append(dst, src[n])]
  <2>0. \A e \in Regions : Append(dst, e) \in Seq(Regions)
    OBVIOUS
  <2>1. PICK R \in Seq(Regions) : R = Append(dst, src[n])
    BY <1>6, <2>0
  <2>2. /\ \A i \in DOMAIN dst : i \in DOMAIN R /\ R[i] = dst[i]
        /\ \A i \in DOMAIN R : (R[i] = src[n] /\ i = n) \/ i \in DOMAIN dst
    BY <1>5, <1>6, <2>1
  <2>3. regions'[c] = R /\ \A v \in Spaces : v # c => regions'[v] = regions[v]
    BY <1>11, <2>1 DEF VMTypes
  <2>4. \A i \in DOMAIN R : i \in DOMAIN src /\ R[i] = src[i]
    <3>1. Len(dst) <= Len(src) /\ \A i \in DOMAIN dst : dst[i] = src[i]
      BY <1>1, <1>3, <1>4 DEF CopyProgress, CopyPCs
    <3>2. \A i \in DOMAIN dst : i \in DOMAIN src
      BY <3>1
    <3> QED BY <1>6, <2>2, <3>1, <3>2
  <2>5. Ascends(src) /\ Solid(src) /\ HasTable(c) /\ HasRegion(c)
    BY <1>4 DEF TableInv, TablesOf
  <2>6. Ascends(R) /\ Solid(R)
    BY <2>4, <2>5 DEF Ascends, Solid
  <2>7. \A i \in DOMAIN regions[c] : \E k \in DOMAIN regions'[c] : regions'[c][k] = regions[c][i]
    BY <1>4, <2>2, <2>3
  <2>8. TablesOf(c)'
    BY <1>1, <2>3, <2>5, <2>6, <2>7, MoreRegions DEF TablesOf
  <2> QED BY <1>1, <1>2, <1>3, <1>8, <1>9, <2>3, <2>8, TablesKept
<1> QED BY <1>7, <1>10, <1>11

(* The page that fork enters into the child lies in its newest region.     *)
LEMMA CopyMapTables ==
    ASSUME VMTypes, SpaceInv, TableInv, NEW t \in Users, CopyMap(t)
    PROVE  TableInv'
<1>1. /\ upc[t] = "c_map" /\ job[t].todo # {} /\ UNCHANGED regions
      /\ job[t] \in Jobs
  BY DEF CopyMap, SpaceInv, UserInv, CallOf, VMTypes
<1>2. job[t].child \in Spaces /\ \A u \in Users \ {t} : space[u] # job[t].child
  BY <1>1, ForkAlone DEF CopyPCs
<1>3. PICK c \in Spaces : c = job[t].child
  BY <1>2
<1>4. PICK q \in Pages : q = Page(t) /\ \E i \in DOMAIN regions[c] : q \in PagesOf(regions[c][i])
  BY <1>1, <1>3, CopyFinds
<1>5. PICK e \in Entries : e = job[t].seen
  BY <1>1 DEF Jobs
<1>6. /\ upc'[t] \in {"copy_failed", "wild", "c_frame"}
      /\ \A u \in Users \ {t} : Same(u)
  BY DEF CopyMap, UserGoto, VMTypes, Same
<1>7. Calls(t)'
  BY <1>6 DEF Calls, Starved, Frees, Clears, TablePCs
<1>8. CASE UNCHANGED <<pte, tbl>>
  BY <1>1, <1>6, <1>7, <1>8, TablesAside
<1>9. CASE ~UNCHANGED <<pte, tbl>>
  <2>1. /\ pte' = [pte EXCEPT ![c][q] = e]
        /\ \/ tbl[c][Tome(q)] # Nil /\ tbl' = tbl
           \/ head # Nil /\ tbl' = [tbl EXCEPT ![c][Tome(q)] = head]
    BY <1>3, <1>4, <1>5, <1>9 DEF CopyMap
  <2>2. /\ TablesOf(c)'
        /\ \A r \in Spaces : r = c \/
             /\ regions'[r] = regions[r] /\ tbl'[r] = tbl[r]
             /\ \A p \in Pages : pte'[r][p] # Absent => pte[r][p] # Absent
    BY <1>1, <1>4, <2>1, PageComes DEF TableInv
  <2> QED BY <1>2, <1>3, <1>6, <1>7, <2>2, TablesKept
<1> QED BY <1>8, <1>9

LEMMA GoTables ==
    ASSUME VMTypes, SpaceInv, TableInv, NEW t \in Users,
           \/ Vanish(t) \/ RegionCopied(t) \/ CopyFrame(t) \/ CopyZfod(t) \/ ForkReturns(t)
           \/ \E u \in Users : ThreadFork(t, u) \/ \E c \in Spaces : CallFork(t, c, u)
    PROVE  TableInv'
<1>1. upc[t] \in {"out", "killed"} \cup CopyPCs /\ UNCHANGED <<pte, tbl, regions>>
  BY DEF Vanish, RegionCopied, CopyFrame, CopyZfod, ForkReturns, ThreadFork, CallFork, CopyPCs,
     spaceVars
<1>2. \A u \in Users : Same(u) \/ (Idle(u)' /\ upc'[u] # "astray")
  BY GoMoves DEF CopyStep
<1>3. \A u \in Users : Idle(u)' => Rests(u)'
  BY DEF Idle, Rests, TablePCs
<1>4. CASE Idle(t)'
  <2>1. \A u \in Users : u = t \/ Same(u) \/ Rests(u)'
    BY <1>2, <1>3
  <2>2. Calls(t)'
    <3>1. Rests(t)'
      BY <1>3, <1>4
    <3> QED BY <3>1, RestsCalls
  <2> QED BY <1>1, <2>1, <2>2, TablesAside
<1>5. CASE Same(t)
  <2>1. Calls(t)'
    BY <1>1, <1>5 DEF Calls, Starved, Frees, Clears, Same, TablePCs, CopyPCs
  <2>2. \A u \in Users : u = t \/ Same(u) \/ Rests(u)'
    BY <1>2, <1>3
  <2> QED BY <1>1, <2>1, <2>2, TablesAside
<1> QED BY <1>2, <1>4, <1>5

LEMMA TablesStep ==
    ASSUME NonEmpty, VMTypes, SpaceInv, AsideInv, TableInv, VMNext, ~Stopped'
    PROVE  TableInv'
<1>1. PICK t \in Users :
        CallStep(t) \/ FaultStep(t) \/ NewPage(t) \/ NewPageFails(t) \/ FreeStep(t) \/ CopyStep(t)
  BY DEF VMNext
<1>2. CASE CallStep(t)
  BY <1>2, WriteTables, CallNewTables, GoTables DEF CallStep
<1>3. CASE FreeStep(t)
  BY <1>3, FreePageTables, ClearTableTables, RegionFreedTables, SpaceFreedTables DEF FreeStep
<1>4. CASE CopyStep(t)
  BY <1>4, CopyRegionTables, CopyMapTables, GoTables DEF CopyStep
<1> QED BY <1>1, <1>2, <1>3, <1>4, FaultTables, NewPageTables

LEMMA TablesAtStart == VMInit => TableInv
<1> DEFINE reg0 == [start |-> 0, end |-> 1, new |-> FALSE]
<1> SUFFICES ASSUME VMInit PROVE TableInv
  OBVIOUS
<1>1. PICK s0 \in Spaces, t0 \in Users, f \in SetToSeqs(Frames), text \in BOOLEAN :
        LET first == IF text THEN 3 ELSE 2
            page0 == [to |-> IF text THEN f[2] ELSE Zfod, rw |-> FALSE]
        IN
          /\ head = f[first]
          /\ next = [g \in Frames |->
                       LET i == CHOOSE i \in DOMAIN f : f[i] = g
                       IN  IF i \in first .. Len(f) - 1 THEN f[i + 1] ELSE Nil]
          /\ avail = Len(f) - first
          /\ rest = [g \in Frames \cup {Zfod} |-> IF text /\ g = f[2] THEN t0 ELSE 0]
          /\ pte = [s \in Spaces |-> [p \in Pages |->
                      IF s = s0 /\ p = 0 THEN page0 ELSE Absent]]
          /\ tbl = [s \in Spaces |-> [k \in Tomes |->
                      IF s = s0 /\ k = 0 THEN f[1] ELSE Nil]]
          /\ regions = [s \in Spaces |->
                      IF s = s0 THEN <<[start |-> 0, end |-> 1, new |-> FALSE]>> ELSE <<>>]
          /\ lock = [s \in Spaces |-> Nil]
          /\ space = [t \in Users |-> IF t = t0 THEN s0 ELSE Nil]
          /\ upc = [t \in Users |-> IF t = t0 THEN "out" ELSE "absent"]
          /\ job = [t \in Users |-> NoJob]
  BY DEF VMInit
<1>a. PICK e : e = [to |-> IF text THEN f[2] ELSE Zfod, rw |-> FALSE]
  OBVIOUS
<1>b. /\ pte = [s \in Spaces |-> [p \in Pages |-> IF s = s0 /\ p = 0 THEN e ELSE Absent]]
      /\ tbl = [s \in Spaces |-> [k \in Tomes |-> IF s = s0 /\ k = 0 THEN f[1] ELSE Nil]]
      /\ regions = [s \in Spaces |-> IF s = s0 THEN <<reg0>> ELSE <<>>]
  BY <1>1, <1>a
<1> HIDE DEF reg0
<1>2. f[1] # Nil
  <2>1. 1 \in DOMAIN f /\ f \in Seq(Frames)
    BY AllInSeq, VMSizes
  <2> QED BY <2>1, VMSizes
<1>3. Tome(0) = 0 /\ 0 \in Pages
  BY VMSizes DEF Tome, Pages
<1>4. reg0.start = 0 /\ reg0.end = 1 /\ PagesOf(reg0) = {0}
  BY DEF PagesOf, reg0
<1>5. /\ regions[s0] = <<reg0>> /\ \A s \in Spaces : s # s0 => regions[s] = <<>>
      /\ DOMAIN <<reg0>> = {1} /\ <<reg0>>[1] = reg0
  BY <1>b
<1>6. ASSUME NEW s \in Spaces PROVE TablesOf(s)
  <2>1. Ascends(regions[s]) /\ Solid(regions[s])
    BY <1>4, <1>5 DEF Ascends, Solid
  <2>2. HasTable(s)
    <3>1. ASSUME NEW p \in Pages, pte[s][p] # Absent PROVE tbl[s][Tome(p)] # Nil
      <4>1. s = s0 /\ p = 0
        BY <1>b, <3>1
      <4>2. 0 \in Tomes /\ tbl[s0][0] = f[1]
        BY <1>b, <1>3, TomeIn
      <4> QED BY <1>2, <1>3, <4>1, <4>2
    <3> QED BY <3>1 DEF HasTable
  <2>3. HasRegion(s)
    <3>1. ASSUME NEW k \in Tomes, tbl[s][k] # Nil PROVE s = s0 /\ k = 0
      BY <1>b, <3>1
    <3>2. Reaches(reg0, 0)
      BY <1>3, <1>4 DEF Reaches
    <3> HIDE DEF Reaches
    <3> QED BY <1>5, <3>1, <3>2 DEF HasRegion
  <2> QED BY <2>1, <2>2, <2>3 DEF TablesOf
<1>7. ASSUME NEW t \in Users PROVE Calls(t)
  BY DEF VMInit, Calls, Starved, Frees, Clears, NoJob
<1> QED BY <1>6, <1>7 DEF TableInv

LEMMA TablesAreExact ==
    ASSUME VMTypes, SpaceInv, TableInv
    PROVE  TablesExact
<1>1. ASSUME NEW s \in Spaces
      PROVE  /\ Ascends(regions[s]) /\ HasTable(s) /\ HasRegion(s) /\ regions[s] \in Seq(Regions)
             /\ ToSet(regions[s]) = {regions[s][i] : i \in DOMAIN regions[s]}
  BY DEF TableInv, TablesOf, VMTypes, ToSet
<1>2. ASSUME NEW s \in Spaces, Settled(s), NEW p \in Pages
      PROVE  pte[s][p] # Absent <=> \E i \in DOMAIN regions[s] : p \in PagesOf(regions[s][i])
  <2>1. \A u \in Users : ~Excused(u, s, p)
    BY <1>2 DEF Settled, Excused
  <2> HIDE DEF Excused
  <2> QED BY <2>1 DEF SpaceInv, RegionInv
<1>3. ASSUME NEW s \in Spaces, Settled(s), NEW k \in Tomes
      PROVE  tbl[s][k] # Nil <=> \E p \in Pages : Tome(p) = k /\ pte[s][p] # Absent
  <2>1. ASSUME tbl[s][k] # Nil
        PROVE  \E p \in Pages : Tome(p) = k /\ pte[s][p] # Absent
    <3>1. PICK i \in DOMAIN regions[s] : Reaches(regions[s][i], k)
      BY <1>1, <2>1 DEF HasRegion
    <3>2. PICK p \in PagesOf(regions[s][i]) : Tome(p) = k
      BY <3>1 DEF Reaches
    <3>3. regions[s][i] \in Regions
      BY <1>1
    <3>4. p \in Pages
      BY <3>2, <3>3, PagesOfAre
    <3> QED BY <1>2, <1>3, <3>2, <3>4
  <2> QED BY <1>1, <2>1 DEF HasTable
<1>4. ASSUME NEW s \in Spaces, Settled(s), NEW p \in Pages
      PROVE  pte[s][p] # Absent <=> \E r \in ToSet(regions[s]) : p \in PagesOf(r)
  <2>1. \A r : r \in ToSet(regions[s]) <=> \E i \in DOMAIN regions[s] : r = regions[s][i]
    BY <1>1
  <2>2. pte[s][p] # Absent <=> \E i \in DOMAIN regions[s] : p \in PagesOf(regions[s][i])
    BY <1>2, <1>4
  <2> QED BY <2>1, <2>2
<1> QED BY <1>1, <1>3, <1>4 DEF TablesExact, Ascends

(* In a settled space the pages of the regions are mapped, and a table is  *)
(* there exactly where a page needs one, whatever tables the regions lie   *)
(* in, until the code stops at an assert or frees a table that is not      *)
(* there (vm.c:98-136,415-434).                                            *)
THEOREM VMTablesExact ==
    ~SharePages /\ NonEmpty => (VMSpec => [](~Stopped => TablesExact))
<1> SUFFICES ASSUME ~SharePages, NonEmpty PROVE VMSpec => [](~Stopped => TablesExact)
  OBVIOUS
<1> DEFINE Aside == StaysInSpace /\ (~Stopped => AsideInv)
           Inv == ~Stopped => TableInv
<1>1. VMInit => Inv
  BY TablesAtStart
<1>2. VMIInv /\ Aside /\ Inv /\ [VMNext]_vmVars => Inv'
  <2> SUFFICES ASSUME VMIInv, Aside, Inv, [VMNext]_vmVars PROVE Inv'
    OBVIOUS
  <2>1. CASE VMNext
    <3>1. VMTypes /\ SpaceInv /\ AsideInv /\ TableInv
      BY <2>1 DEF VMNext, VMIInv
    <3> QED BY <2>1, <3>1, TablesStep
  <2>2. CASE UNCHANGED vmVars
    <3>1. UNCHANGED <<pte, tbl, regions, space, upc, job>>
      BY <2>2 DEF vmVars, spaceVars
    <3>2. TableInv <=> TableInv'
      BY <3>1 DEF TableInv, TablesOf, HasTable, HasRegion, Calls, Starved, Frees, Clears
    <3> QED BY <3>1, <3>2 DEF Stopped
  <2> QED BY <2>1, <2>2
<1>3. VMIInv /\ Inv => (~Stopped => TablesExact)
  BY TablesAreExact DEF VMIInv
<1>4. VMSpec => []VMIInv /\ []Aside
  BY VMAlwaysHolds, VMAside, PTL
<1> QED BY <1>1, <1>2, <1>3, <1>4, PTL DEF VMSpec

-----------------------------------------------------------------------------
(***************************************************************************)
(* What programs see.  A page shows while its space has a thread that uses *)
(* it and no call is making or removing its region.  SeenInv says, beyond  *)
(* VMIInv, that new_pages maps fresh pages, and that what fork has copied  *)
(* reads as the original.                                                  *)
(***************************************************************************)
Open(s) == \E t \in Users : space[t] = s /\ job[t].call # "exit"

Busy(s, p) ==
    \E t \in Users : /\ space[t] = s /\ job[t].call \in {"new", "remove"}
                     /\ p \in PagesOf(job[t].reg)

Shows(s, p) == Open(s) /\ ~Busy(s, p)

Content(s, p) == IF pte[s][p] = Absent THEN Nil ELSE rest[pte[s][p].to]

Fresh(t) == upc[t] = "n_page" =>
    \A p \in PagesOf(job[t].reg) \ job[t].todo : pte[space[t]][p].to = Zfod

Copied(t) == upc[t] \in CopyPCs =>
    /\ \A p \in Pages : pte[job[t].child][p] # Absent => Content(job[t].child, p) = Content(space[t], p)
    /\ upc[t] = "c_map" => rest[job[t].seen.to] = Content(space[t], Page(t))

SeenInv == \A t \in Users : Fresh(t) /\ Copied(t)

LEMMA SeenIs ==
    ASSUME NEW s, NEW p
    PROVE  /\ Seen(s, p) = IF Shows(s, p) THEN Content(s, p) ELSE Nil
           /\ Seen(s, p)' = IF Shows(s, p)' THEN Content(s, p)' ELSE Nil
<1>1. Seen(s, p) = IF Shows(s, p) THEN Content(s, p) ELSE Nil
  BY DEF Seen, Shows, Open, Busy, Content
<1>2. Seen(s, p)' = IF Shows(s, p)' THEN Content(s, p)' ELSE Nil
  BY DEF Seen, Shows, Open, Busy, Content
<1> QED BY <1>1, <1>2

(* What decides which pages show. *)
SameView(u) ==
    /\ space'[u] = space[u]
    /\ job'[u].call = "exit" <=> job[u].call = "exit"
    /\ job'[u].call \in {"new", "remove"} <=> job[u].call \in {"new", "remove"}
    /\ job[u].call \in {"new", "remove"} => job'[u].reg = job[u].reg

LEMMA ShowsStays ==
    ASSUME \A u \in Users : SameView(u), NEW s, NEW p
    PROVE  Shows(s, p)' <=> Shows(s, p)
<1>1. Open(s)' <=> Open(s)
  BY DEF Open, SameView
<1>2. Busy(s, p)' <=> Busy(s, p)
  BY DEF Busy, SameView
<1> QED BY <1>1, <1>2 DEF Shows

SeenSame == \A s \in Spaces, p \in Pages : Seen(s, p)' = Seen(s, p)

LEMMA SeenKept ==
    ASSUME \A u \in Users : SameView(u),
           \A s \in Spaces, p \in Pages : Shows(s, p) => Content(s, p)' = Content(s, p)
    PROVE  SeenSame
<1>1. ASSUME NEW s \in Spaces, NEW p \in Pages PROVE Seen(s, p)' = Seen(s, p)
  <2>1. Shows(s, p)' <=> Shows(s, p)
    BY ShowsStays
  <2> HIDE DEF SameView
  <2>2. /\ Seen(s, p) = IF Shows(s, p) THEN Content(s, p) ELSE Nil
        /\ Seen(s, p)' = IF Shows(s, p)' THEN Content(s, p)' ELSE Nil
    BY SeenIs
  <2> QED BY <2>1, <2>2
<1> QED BY <1>1 DEF SeenSame

(* A page that shows has its frame: nobody has pushed it. *)
LEMMA ShownPage ==
    ASSUME VMTypes, SpaceInv, NEW s \in Spaces, NEW p \in Pages, Shows(s, p)
    PROVE  ~Pushed(s, p) /\ PageFrame(s, p) = pte[s][p].to
<1>1. PICK t \in Users : space[t] = s /\ job[t].call # "exit"
  BY DEF Shows, Open
<1>2. ASSUME NEW u \in Users, upc[u] = "free_clear", space[u] = s, Page(u) = p
      PROVE  FALSE
  <2>1. CallOf(u) /\ (u # t => Apart(u, t))
    BY DEF SpaceInv, UserInv
  <2>2. job[u].todo # {} /\ job[u].call \in {"new", "remove", "exit"}
    BY <1>2, <2>1 DEF CallOf, FreePCs
  <2>3. job[u].call \in {"new", "remove"}
    BY <1>1, <1>2, <2>1, <2>2, VMSizes DEF Apart
  <2>4. p \in job[u].todo /\ job[u].todo \subseteq PagesOf(job[u].reg)
    BY <1>2, <2>1, <2>2, <2>3, EntryIs DEF CallOf
  <2> QED BY <1>2, <2>3, <2>4 DEF Shows, Busy
<1>3. ~Pushed(s, p)
  BY <1>2 DEF Pushed
<1> QED BY <1>3 DEF PageFrame

LEMMA CopyPages ==
    ASSUME VMTypes, SpaceInv, NEW t \in Users, upc[t] \in CopyPCs, NEW p
    PROVE  /\ space[t] \in Spaces /\ job[t].child \in Spaces /\ space[t] # job[t].child
           /\ ~Pushed(space[t], p) /\ ~Pushed(job[t].child, p)
           /\ PageFrame(space[t], p) = pte[space[t]][p].to
           /\ PageFrame(job[t].child, p) = pte[job[t].child][p].to
<1>1. /\ CallOf(t) /\ \A u \in Users : u # t => Apart(t, u)
      /\ job[t].call = "fork" /\ job[t].child \in Spaces
  BY DEF SpaceInv, UserInv, CallOf
<1>2. space[t] \in Spaces /\ space[t] # job[t].child
  BY <1>1, InSpace, VMSizes DEF CallOf, CopyPCs
<1>3. \A u \in Users : u # t => space[u] # space[t] /\ space[u] # job[t].child
  BY <1>1, <1>2, VMSizes DEF Apart
<1>4. \A u \in Users : upc[u] = "free_clear" => u # t
  BY DEF CopyPCs
<1>5. ~Pushed(space[t], p) /\ ~Pushed(job[t].child, p)
  BY <1>3, <1>4 DEF Pushed
<1> QED BY <1>1, <1>2, <1>5 DEF PageFrame

LEMMA ContentKept ==
    ASSUME NEW s, NEW p, pte'[s][p] = pte[s][p],
           rest'[pte[s][p].to] = rest[pte[s][p].to]
    PROVE  Content(s, p)' = Content(s, p)
BY DEF Content

(* A frame that a page, or a table, or none has. *)
LEMMA FrameOfPage ==
    ASSUME FrameInv, NEW s \in Spaces, NEW p \in Pages, PageFrame(s, p) \in Frames
    PROVE  /\ \A r \in Spaces, q \in Pages : PageFrame(r, q) = PageFrame(s, p) => r = s /\ q = p
           /\ \A u \in Users : CopiedFrame(u) # PageFrame(s, p)
<1>1. PICK F \in SUBSET Frames : Shared(PageHolds, TableHolds, CopyHolds, F)
  BY DEF FrameInv
<1>2. /\ \A r \in Spaces, q \in Pages : PageHolds[r][q] = PageFrame(r, q)
      /\ \A u \in Users : CopyHolds[u] = CopiedFrame(u)
  BY DEF PageHolds, CopyHolds
<1> QED BY <1>1, <1>2 DEF Shared

LEMMA FrameOfTable ==
    ASSUME FrameInv, NEW s \in Spaces, NEW k \in Tomes, TableFrame(s, k) \in Frames
    PROVE  /\ \A r \in Spaces, q \in Pages : PageFrame(r, q) # TableFrame(s, k)
           /\ \A u \in Users : CopiedFrame(u) # TableFrame(s, k)
<1>1. PICK F \in SUBSET Frames : Shared(PageHolds, TableHolds, CopyHolds, F)
  BY DEF FrameInv
<1>2. /\ \A r \in Spaces, q \in Pages : PageHolds[r][q] = PageFrame(r, q)
      /\ \A u \in Users : CopyHolds[u] = CopiedFrame(u)
      /\ TableHolds[s][k] = TableFrame(s, k)
  BY DEF PageHolds, CopyHolds, TableHolds
<1> QED BY <1>1, <1>2 DEF Shared

LEMMA FrameOfNone ==
    ASSUME VMTypes, FrameInv, head # Nil
    PROVE  /\ head \in Frames /\ rest[head] = 0
           /\ \A r \in Spaces, q \in Pages : PageFrame(r, q) # head
           /\ \A u \in Users : CopiedFrame(u) # head
<1>1. PICK F \in SUBSET Frames : /\ Shared(PageHolds, TableHolds, CopyHolds, F)
                                 /\ ListOf(F, head, next, avail)
                                 /\ \A f \in F \cup {Zfod} : rest[f] = 0
  BY DEF FrameInv
<1>2. head \in F
  BY <1>1, ListPops DEF VMTypes
<1>3. /\ \A r \in Spaces, q \in Pages : PageHolds[r][q] = PageFrame(r, q)
      /\ \A u \in Users : CopyHolds[u] = CopiedFrame(u)
  BY DEF PageHolds, CopyHolds
<1> QED BY <1>1, <1>2, <1>3 DEF Shared

LEMMA ZfodIsClean == FrameInv => rest[Zfod] = 0
BY DEF FrameInv

-----------------------------------------------------------------------------
(* What a step leaves alone: contents change in one frame at most, which   *)
(* no other space has.                                                     *)
Aside(f, t) ==
    /\ f \in Frames
    /\ \A s \in Spaces, p \in Pages : PageFrame(s, p) = f => s = space[t]
    /\ \A u \in Users : CopiedFrame(u) # f

RestIn(f) == \A g \in Frames \cup {Zfod} : g = f \/ rest'[g] = rest[g]

RestAside(t) == rest' = rest \/ \E f \in Frames : Aside(f, t) /\ RestIn(f)

PteAside(t) == \A s \in Spaces, p \in Pages :
    \/ pte'[s][p] = pte[s][p]
    \/ s = space[t] /\ (p \in Works(t) \/ job[t].call = "exit")
    \/ s = job[t].child /\ upc[t] \in CopyPCs

LEMMA PageKept ==
    ASSUME VMTypes, NEW t \in Users, RestAside(t), NEW s \in Spaces, NEW p \in Pages,
           s # space[t], pte'[s][p] = pte[s][p], PageFrame(s, p) = pte[s][p].to
    PROVE  Content(s, p)' = Content(s, p)
<1>1. CASE rest' = rest
  BY <1>1, ContentKept
<1>2. ASSUME NEW f \in Frames, Aside(f, t), RestIn(f) PROVE Content(s, p)' = Content(s, p)
  <2>1. pte[s][p].to # f
    BY <1>2 DEF Aside
  <2>2. CASE pte[s][p] = Absent
    BY <2>2 DEF Content
  <2>3. CASE pte[s][p] # Absent
    <3>1. pte[s][p] \in Entries
      BY DEF VMTypes
    <3>2. pte[s][p].to \in Frames \cup {Zfod}
      BY <2>3, <3>1, EntriesAre
    <3>3. rest'[pte[s][p].to] = rest[pte[s][p].to]
      BY <1>2, <2>1, <3>2 DEF RestIn
    <3> QED BY <3>3, ContentKept
  <2> QED BY <2>2, <2>3
<1> QED BY <1>1, <1>2 DEF RestAside

LEMMA OthersFresh ==
    ASSUME VMTypes, SpaceInv, NEW t \in Users, OthersSame(t), PteAside(t),
           NEW u \in Users, u # t, Fresh(u)
    PROVE  Fresh(u)'
<1>1. upc'[u] = upc[u] /\ space'[u] = space[u] /\ job'[u] = job[u]
  BY DEF OthersSame, Same
<1>2. SUFFICES ASSUME upc[u] = "n_page", NEW p \in PagesOf(job[u].reg) \ job[u].todo
               PROVE  pte'[space[u]][p].to = Zfod
  BY <1>1 DEF Fresh
<1>3. CallOf(u) /\ Apart(u, t) /\ Apart(t, u) /\ space[u] \in Spaces
  BY <1>2, InSpace DEF SpaceInv, UserInv
<1>4. job[u].call = "new" /\ job[u].reg \in Regions
  BY <1>2, <1>3 DEF CallOf
<1>5. p \in Pages /\ p \in Works(u)
  BY <1>4, PagesOfAre DEF Works
<1>6. ~(space[u] = space[t] /\ (p \in Works(t) \/ job[t].call = "exit"))
  <2> HIDE DEF Works
  <2> QED BY <1>3, <1>5, VMSizes DEF Apart
<1>7. ~(space[u] = job[t].child /\ upc[t] \in CopyPCs)
  <2> HIDE DEF Works
  <2> QED BY <1>3, VMSizes DEF Apart
<1>8. pte'[space[u]][p] = pte[space[u]][p]
  BY <1>3, <1>5, <1>6, <1>7 DEF PteAside
<1> QED BY <1>2, <1>8 DEF Fresh

LEMMA OthersCopied ==
    ASSUME VMTypes, SpaceInv, NEW t \in Users, OthersSame(t), PteAside(t), RestAside(t),
           NEW u \in Users, u # t, Copied(u)
    PROVE  Copied(u)'
<1>1. upc'[u] = upc[u] /\ space'[u] = space[u] /\ job'[u] = job[u]
  BY DEF OthersSame, Same
<1>2. SUFFICES ASSUME upc[u] \in CopyPCs PROVE Copied(u)'
  BY <1>1 DEF Copied
<1>3. PICK s \in Spaces, c \in Spaces : s = space[u] /\ c = job[u].child /\ s # c
  BY <1>2, CopyPages
<1>4. /\ CallOf(u) /\ Apart(u, t) /\ Apart(t, u) /\ job[u].call = "fork" /\ upc[u] # "nascent"
      /\ CallOf(t)
  BY <1>2 DEF SpaceInv, UserInv, CallOf, CopyPCs
<1>5. s # space[t] /\ c # space[t] /\ s # job[t].child /\ ~(c = job[t].child /\ upc[t] \in CopyPCs)
  <2> HIDE DEF Works
  <2> QED BY <1>3, <1>4, VMSizes DEF Apart, CopyPCs
<1>6. ASSUME NEW p \in Pages
      PROVE  /\ pte'[s][p] = pte[s][p] /\ pte'[c][p] = pte[c][p]
             /\ Content(s, p)' = Content(s, p) /\ Content(c, p)' = Content(c, p)
  <2>1. pte'[s][p] = pte[s][p] /\ pte'[c][p] = pte[c][p]
    BY <1>5 DEF PteAside
  <2>2. PageFrame(s, p) = pte[s][p].to /\ PageFrame(c, p) = pte[c][p].to
    BY <1>2, <1>3, CopyPages
  <2>3. Content(s, p)' = Content(s, p)
    BY <1>5, <2>1, <2>2, PageKept
  <2>4. Content(c, p)' = Content(c, p)
    BY <1>5, <2>1, <2>2, PageKept
  <2> QED BY <2>1, <2>3, <2>4
<1>7. ASSUME upc[u] = "c_map"
      PROVE  rest'[job[u].seen.to] = rest[job[u].seen.to] /\ Page(u) \in Pages
  <2>1. Page(u) \in Pages
    BY <1>3, <1>4, <1>7, EntryIs DEF CallOf
  <2>2. job[u].seen \in Entries /\ job[u].seen # Absent
    BY <1>7 DEF SpaceInv, UserInv, CopyProgress, VMTypes, Jobs, CopyPCs
  <2>3. job[u].seen.to \in Frames \cup {Zfod}
    BY <2>2, EntriesAre
  <2>4. CopiedFrame(u) = job[u].seen.to
    BY <1>7 DEF CopiedFrame
  <2>5. rest' = rest \/ \E f \in Frames : job[u].seen.to # f /\ RestIn(f)
    BY <2>4 DEF RestAside, Aside
  <2> QED BY <2>1, <2>3, <2>5 DEF RestIn
<1>8. Page(u)' = Page(u)
  BY <1>1 DEF Page
<1> HIDE DEF Content, Page
<1>9. \A p \in Pages : pte'[c][p] # Absent => Content(c, p)' = Content(s, p)'
  BY <1>2, <1>3, <1>6 DEF Copied
<1>10. upc[u] = "c_map" => rest'[job[u].seen.to] = Content(s, Page(u))'
  <2>1. ASSUME upc[u] = "c_map" PROVE rest'[job[u].seen.to] = Content(s, Page(u))'
    <3>1. PICK q \in Pages : q = Page(u)
      BY <1>7, <2>1
    <3>2. rest[job[u].seen.to] = Content(s, q)
      BY <1>2, <1>3, <2>1, <3>1 DEF Copied
    <3>3. Content(s, q)' = Content(s, Page(u))'
      BY <1>8, <3>1 DEF Content
    <3> QED BY <1>6, <1>7, <2>1, <3>2, <3>3
  <2> QED BY <2>1
<1>11. /\ Content(space[u], Page(u))' = Content(s, Page(u))'
       /\ \A p : /\ Content(space[u], p)' = Content(s, p)'
                 /\ Content(job[u].child, p)' = Content(c, p)'
  BY <1>1, <1>3 DEF Content
<1> QED BY <1>1, <1>3, <1>9, <1>10, <1>11 DEF Copied

LEMMA SeenInvKept ==
    ASSUME VMTypes, SpaceInv, SeenInv, NEW t \in Users, OthersSame(t), PteAside(t), RestAside(t),
           Fresh(t)', Copied(t)'
    PROVE  SeenInv'
<1>1. ASSUME NEW u \in Users PROVE Fresh(u)' /\ Copied(u)'
  <2>1. Fresh(u) /\ Copied(u)
    BY DEF SeenInv
  <2>2. CASE u = t
    BY <2>2
  <2>3. CASE u # t
    BY <2>1, <2>3, OthersFresh, OthersCopied
  <2> QED BY <2>2, <2>3
<1> QED BY <1>1 DEF SeenInv

(* The step of a thread in its own space, or of fork in the child's, that  *)
(* changes nothing that shows.                                             *)
LEMMA NothingShows ==
    ASSUME VMTypes, SpaceInv, NEW t \in Users, OthersSame(t), PteAside(t), RestAside(t), SameView(t),
           \A s \in Spaces, p \in Pages : s = space[t] /\ Shows(s, p) =>
                                           Content(s, p)' = Content(s, p)
    PROVE  SeenSame
<1>1. \A u \in Users : SameView(u)
  BY DEF OthersSame, Same, SameView
<1>2. ASSUME NEW s \in Spaces, NEW p \in Pages, Shows(s, p)
      PROVE  Content(s, p)' = Content(s, p)
  <2>1. CASE s = space[t]
    BY <1>2, <2>1
  <2>2. CASE s # space[t]
    <3>1. PICK u \in Users : space[u] = s
      BY <1>2 DEF Shows, Open
    <3>2. u # t /\ Apart(t, u)
      BY <2>2, <3>1 DEF SpaceInv
    <3>3. s # job[t].child
      BY <3>1, <3>2, VMSizes DEF Apart
    <3>4. pte'[s][p] = pte[s][p]
      BY <2>2, <3>3 DEF PteAside
    <3> QED BY <1>2, <2>2, <3>4, PageKept, ShownPage
  <2> QED BY <2>1, <2>2
<1> HIDE DEF SameView, Content, Shows
<1> QED BY <1>1, <1>2, SeenKept

-----------------------------------------------------------------------------
(* The page fault *)

LEMMA IdleSeen ==
    ASSUME NEW t, upc'[t] \notin CopyPCs \cup {"n_page"}
    PROVE  Fresh(t)' /\ Copied(t)'
BY DEF Fresh, Copied

LEMMA NoJobIs == NoJob.call = "none" /\ NoJob.child = Nil /\ NoJob.todo = {} /\ NoJob.reg = Nil
BY DEF NoJob

(* A step that touches no page. *)
LEMMA NoPageSeen ==
    ASSUME VMTypes, SpaceInv, SeenInv, NEW t \in Users, OthersSame(t), SameView(t),
           UNCHANGED <<pte, rest>>, Fresh(t)', Copied(t)'
    PROVE  SeenSame /\ SeenInv'
<1>1. PteAside(t) /\ RestAside(t)
  BY DEF PteAside, RestAside
<1>2. \A s \in Spaces, p \in Pages : Content(s, p)' = Content(s, p)
  BY DEF Content
<1> QED BY <1>1, <1>2, NothingShows, SeenInvKept

LEMMA FaultSeen ==
    ASSUME VMTypes, FrameInv, SpaceInv, SeenInv, NEW t \in Users, FaultStep(t)
    PROVE  SeenSame /\ SeenInv'
<1>0. CallOf(t) /\ Progress(t)
  BY DEF SpaceInv, UserInv
<1>1. upc[t] \in FaultPCs /\ space' = space
  BY DEF FaultStep, FaultLook, FaultCheck, FaultBack, FaultNoFrame, FaultAttrs, FaultPCs
<1>2. job[t].call = "fault" /\ job[t].todo # {} /\ space[t] \in Spaces /\ job[t] \in Jobs
  BY <1>0, <1>1, InSpace DEF CallOf, FaultPCs, VMTypes
<1>3. PICK s \in Spaces, q \in Pages : s = space[t] /\ q = Page(t) /\ q \in job[t].todo
  BY <1>2, EntryIs
<1>4. q \in Works(t) /\ Entry(t) = pte[s][q] /\ pte[s][q] \in Entries
  BY <1>2, <1>3, EntryIs DEF Works
<1>5. CASE FaultLook(t) \/ FaultNoFrame(t)
  <2>1. /\ UNCHANGED <<pte, rest, job>>
        /\ FaultGoto(t, "f_check") \/ FaultGoto(t, "killed") \/ UserGoto(t, "killed")
    BY <1>5 DEF FaultLook, FaultNoFrame, frameVars, spaceVars
  <2>2. upc'[t] \in {"f_check", "killed", "astray"} /\ \A u \in Users : u # t => upc'[u] = upc[u]
    BY <2>1, GotoOthers, FaultGotoIs DEF UserPCs
  <2>3. OthersSame(t) /\ SameView(t)
    BY <1>1, <2>1, <2>2 DEF OthersSame, Same, SameView
  <2>4. Fresh(t)' /\ Copied(t)'
    BY <2>2, IdleSeen DEF CopyPCs
  <2> QED BY <2>1, <2>3, <2>4, NoPageSeen
<1>6. CASE FaultCheck(t)
  <2>1. /\ UNCHANGED <<pte, rest>> /\ job' = [job EXCEPT ![t].seen = Entry(t)]
        /\ FaultGoto(t, "f_back") \/ FaultGoto(t, "panic")
    BY <1>6 DEF FaultCheck, frameVars, spaceVars
  <2>2. upc'[t] \in {"f_back", "panic", "astray"} /\ \A u \in Users : u # t => upc'[u] = upc[u]
    BY <2>1, FaultGotoIs DEF UserPCs
  <2>3. job'[t] = [job[t] EXCEPT !.seen = Entry(t)] /\ \A u \in Users : u # t => job'[u] = job[u]
    BY <2>1 DEF VMTypes
  <2>4. job'[t].call = job[t].call /\ job'[t].reg = job[t].reg
    BY <1>2, <2>3 DEF Jobs
  <2>5. OthersSame(t) /\ SameView(t)
    BY <1>1, <2>2, <2>3, <2>4 DEF OthersSame, Same, SameView
  <2>6. Fresh(t)' /\ Copied(t)'
    BY <2>2, IdleSeen DEF CopyPCs
  <2> QED BY <2>1, <2>5, <2>6, NoPageSeen
<1>7. CASE FaultBack(t)
  <2>1. PICK e : e = [to |-> head, rw |-> job[t].seen.rw]
    OBVIOUS
  <2>2. /\ upc[t] = "f_back" /\ head # Nil
        /\ pte' = [pte EXCEPT ![s][q] = e]
        /\ UserGoto(t, "f_attrs") \/ UserGoto(t, "panic") \/ UserGoto(t, "astray")
        /\ UNCHANGED <<rest, space, job>>
    BY <1>3, <1>7, <2>1 DEF FaultBack, FaultBacked
  <2>3. upc'[t] \in {"f_attrs", "panic", "astray"} /\ \A u \in Users : u # t => upc'[u] = upc[u]
    BY <2>2, GotoOthers
  <2>4. OthersSame(t) /\ SameView(t)
    BY <2>2, <2>3 DEF OthersSame, Same, SameView
  <2>5. head \in Frames /\ rest[head] = 0 /\ rest[Zfod] = 0
    BY <2>2, FrameOfNone, ZfodIsClean
  <2>6. pte[s][q].to = Zfod /\ pte[s][q] # Absent
    BY <1>0, <1>4, <2>2, AbsentIs, VMSizes DEF Progress
  <2>7. e \in Entries /\ e.to = head /\ e # Absent
    <3>1. job[t].seen.rw \in BOOLEAN
      BY <1>2, EntriesAre DEF Jobs
    <3> QED BY <2>1, <2>5, <3>1, AbsentIs, VMSizes DEF Entries
  <2>8. /\ pte'[s][q] = e
        /\ \A r \in Spaces, p \in Pages : <<r, p>> # <<s, q>> => pte'[r][p] = pte[r][p]
        /\ pte' \in [Spaces -> [Pages -> Entries]]
    BY <2>2, <2>7, PteUpdate
  <2>9. PteAside(t) /\ RestAside(t)
    BY <1>3, <1>4, <2>2, <2>8 DEF PteAside, RestAside
  <2>10. \A r \in Spaces, p \in Pages : Content(r, p)' = Content(r, p)
    BY <2>2, <2>5, <2>6, <2>7, <2>8 DEF Content
  <2>11. Fresh(t)' /\ Copied(t)'
    BY <2>3, IdleSeen DEF CopyPCs
  <2> QED BY <2>4, <2>9, <2>10, <2>11, NothingShows, SeenInvKept
<1>8. CASE FaultAttrs(t)
  <2>1. /\ upc[t] = "f_attrs" /\ FaultGoto(t, "out") /\ rest' = rest
        /\ job' = [job EXCEPT ![t] = NoJob]
    BY <1>8 DEF FaultAttrs, frameVars
  <2>2. pte[s][q].to \in Frames /\ pte[s][q] # Absent
    BY <1>0, <1>4, <2>1, AbsentIs, VMSizes DEF Progress
  <2>3. PICK e \in Entries : e = [pte[s][q] EXCEPT !.rw = TRUE] /\ e.to = pte[s][q].to /\ e # Absent
    BY <1>4, <2>2, MadeWritable
  <2>4. pte' = [pte EXCEPT ![s][q] = e]
    BY <1>3, <1>4, <1>8, <2>2, <2>3 DEF FaultAttrs
  <2>5. /\ pte'[s][q] = e
        /\ \A r \in Spaces, p \in Pages : <<r, p>> # <<s, q>> => pte'[r][p] = pte[r][p]
        /\ pte' \in [Spaces -> [Pages -> Entries]]
    BY <2>4, PteUpdate
  <2>6. /\ upc'[t] \in {"out", "astray"} /\ job'[t] = NoJob
        /\ \A u \in Users : u # t => upc'[u] = upc[u] /\ job'[u] = job[u]
    <3>1. upc'[t] \in {"out", "astray"} /\ \A u \in Users : u # t => upc'[u] = upc[u]
      BY <2>1, FaultGotoIs DEF UserPCs
    <3> QED BY <2>1, <3>1 DEF VMTypes
  <2>7. OthersSame(t) /\ SameView(t)
    BY <1>1, <1>2, <2>6, NoJobIs DEF OthersSame, Same, SameView
  <2>8. PteAside(t) /\ RestAside(t)
    BY <1>3, <1>4, <2>1, <2>5 DEF PteAside, RestAside
  <2>9. \A r \in Spaces, p \in Pages : Content(r, p)' = Content(r, p)
    BY <2>1, <2>2, <2>3, <2>5 DEF Content
  <2>10. Fresh(t)' /\ Copied(t)'
    BY <2>6, IdleSeen DEF CopyPCs
  <2> QED BY <2>7, <2>8, <2>9, <2>10, NothingShows, SeenInvKept
<1> QED BY <1>5, <1>6, <1>7, <1>8 DEF FaultStep

-----------------------------------------------------------------------------
(* The steps of Memory *)

View == [s \in Spaces |-> [p \in Pages |-> Seen(s, p)]]

LEMMA MemStays == SeenSame => View' = View
BY DEF SeenSame, View

LEMMA MemWrites ==
    ASSUME NEW s \in Spaces, NEW p \in Pages, NEW v \in Users, Seen(s, p) # Nil, Seen(s, p)' = v,
           \A r \in Spaces, q \in Pages : r # s \/ q # p => Seen(r, q)' = Seen(r, q)
    PROVE  Mem!Next
<1> HIDE DEF Seen
<1>1. View' = [View EXCEPT ![s][p] = v]
  BY DEF View
<1>2. View[s][p] # Nil
  BY DEF View
<1>3. Mem!Write(s, p, v)
  BY <1>1, <1>2 DEF Mem!Write, View
<1> QED BY <1>3 DEF Mem!Next

LEMMA MemMakes ==
    ASSUME NEW s \in Spaces, NEW P \in SUBSET Pages,
           \A p \in P : Seen(s, p) = Nil /\ Seen(s, p)' = 0,
           \A r \in Spaces, q \in Pages : r # s \/ q \notin P => Seen(r, q)' = Seen(r, q)
    PROVE  Mem!Next
<1> HIDE DEF Seen
<1>1. View' = [View EXCEPT ![s] = [p \in Pages |-> IF p \in P THEN 0 ELSE View[s][p]]]
  BY DEF View
<1>2. \A p \in P : View[s][p] = Nil
  BY DEF View
<1>3. Mem!NewPages(s, P)
  BY <1>1, <1>2 DEF Mem!NewPages, View
<1> QED BY <1>3 DEF Mem!Next

LEMMA MemRemoves ==
    ASSUME NEW s \in Spaces, NEW P \in SUBSET Pages,
           \A p \in P : Seen(s, p)' = Nil,
           \A r \in Spaces, q \in Pages : r # s \/ q \notin P => Seen(r, q)' = Seen(r, q)
    PROVE  Mem!Next
<1> HIDE DEF Seen
<1>1. View' = [View EXCEPT ![s] = [p \in Pages |-> IF p \in P THEN Nil ELSE View[s][p]]]
  BY DEF View
<1>2. Mem!RemovePages(s, P)
  BY <1>1 DEF Mem!RemovePages, View
<1> QED BY <1>2 DEF Mem!Next

LEMMA MemForks ==
    ASSUME NEW s \in Spaces, NEW c \in Spaces, s # c,
           \A p \in Pages : Seen(c, p) = Nil /\ Seen(c, p)' = Seen(s, p),
           \A r \in Spaces, q \in Pages : r # c => Seen(r, q)' = Seen(r, q)
    PROVE  Mem!Next
<1> HIDE DEF Seen
<1>1. View' = [View EXCEPT ![c] = View[s]]
  BY DEF View
<1>2. View[c] = [p \in Pages |-> Nil]
  BY DEF View
<1>3. Mem!Fork(s, c)
  BY <1>1, <1>2 DEF Mem!Fork, Mem!Blank, View
<1> QED BY <1>3 DEF Mem!Next

-----------------------------------------------------------------------------
(* Writes, new_pages and remove_pages *)

BusyIn(t, p) == job[t].call \in {"new", "remove"} /\ p \in PagesOf(job[t].reg)

(* One thread's call begins or ends. *)
LEMMA ShowsElsewhere ==
    ASSUME NEW t \in Users, OthersSame(t), space'[t] = space[t],
           job'[t].call = "exit" <=> job[t].call = "exit",
           NEW s, NEW p, s # space[t] \/ (BusyIn(t, p)' <=> BusyIn(t, p))
    PROVE  Shows(s, p)' <=> Shows(s, p)
<1>1. \A u \in Users : u # t => space'[u] = space[u] /\ job'[u] = job[u]
  BY DEF OthersSame, Same
<1>2. Open(s)' <=> Open(s)
  BY <1>1 DEF Open
<1>3. Busy(s, p)' <=> Busy(s, p)
  BY <1>1 DEF Busy, BusyIn
<1> QED BY <1>2, <1>3 DEF Shows

LEMMA SeenElsewhere ==
    ASSUME NEW s, NEW p, Shows(s, p)' <=> Shows(s, p), Shows(s, p) => Content(s, p)' = Content(s, p)
    PROVE  Seen(s, p)' = Seen(s, p)
<1>1. /\ Seen(s, p) = IF Shows(s, p) THEN Content(s, p) ELSE Nil
      /\ Seen(s, p)' = IF Shows(s, p)' THEN Content(s, p)' ELSE Nil
  BY SeenIs
<1> HIDE DEF Seen, Shows, Content
<1> QED BY <1>1

LEMMA WriteSeen ==
    ASSUME ~SharePages, VMTypes, FrameInv, SpaceInv, SeenInv,
           NEW t \in Users, NEW p \in Pages, Write(t, p)
    PROVE  (SeenSame \/ Mem!Next) /\ SeenInv'
<1>0. CallOf(t) /\ ZfodInv
  BY DEF SpaceInv, UserInv
<1>1. /\ upc[t] = "out" /\ UNCHANGED <<listVars, spaceVars, space>>
      /\ space[t] \in Spaces /\ job[t] = NoJob
  BY <1>0, InSpace DEF Write, CallOf
<1>2. PICK s \in Spaces : s = space[t]
  BY <1>1
<1>3. PICK e \in Entries : e = pte[s][p]
  BY DEF VMTypes
<1>4. \A u \in Users \ {t} : space[u] = s => p \notin Works(u)
  <2>1. MayTouch(t, {p})
    BY DEF Write
  <2> QED BY <1>2, <2>1, MayWork
<1>5. ~Pushed(s, p)
  BY <1>1, <1>2, <1>4, NotPushed
<1>5a. PICK away \in BOOLEAN : away <=> LeadsAstray(s, p)
  <2> HIDE DEF LeadsAstray
  <2> QED OBVIOUS
<1>6. CASE /\ e.rw /\ rest' = [rest EXCEPT ![e.to] = t]
           /\ UserGoto(t, IF away THEN "astray" ELSE "out") /\ UNCHANGED job
  <2>1. e.to \in Frames /\ e # Absent
    BY <1>0, <1>3, <1>5, <1>6, EntriesAre, AbsentIs DEF ZfodInv
  <2>2. PICK f \in Frames : f = e.to
    BY <2>1
  <2>3. PageFrame(s, p) = f /\ pte[s][p].to = f
    BY <1>3, <1>5, <2>2 DEF PageFrame
  <2>4. rest'[f] = t /\ RestIn(f)
    BY <1>6, <2>2 DEF VMTypes, RestIn
  <2>5. Aside(f, t)
    BY <1>2, <2>3, FrameOfPage DEF Aside
  <2>5a. upc'[t] \in {"astray", "out"} /\ \A u \in Users : u # t => upc'[u] = upc[u]
    BY <1>6, GotoOthers
  <2>6. OthersSame(t) /\ PteAside(t) /\ RestAside(t) /\ \A u \in Users : SameView(u)
    BY <1>1, <1>6, <2>4, <2>5, <2>5a DEF OthersSame, Same, PteAside, RestAside, SameView, spaceVars
  <2>7. Fresh(t)' /\ Copied(t)'
    BY <2>5a, IdleSeen DEF CopyPCs
  <2>8. SeenInv'
    BY <2>6, <2>7, SeenInvKept
  <2>9. Shows(s, p)
    <3>1. Open(s)
      BY <1>1, <1>2, NoJobIs DEF Open
    <3>2. ~Busy(s, p)
      BY <1>1, <1>4, NoJobIs DEF Busy, Works
    <3> QED BY <3>1, <3>2 DEF Shows
  <2>10. \A r \in Spaces, q \in Pages : Shows(r, q)' <=> Shows(r, q)
    BY <2>6, ShowsStays
  <2>11. pte' = pte
    BY <1>1 DEF spaceVars
  <2>12. Content(s, p) = rest[f] /\ Content(s, p)' = t
    BY <1>3, <2>1, <2>3, <2>4, <2>11 DEF Content
  <2>13. rest[f] # Nil
    BY VMAssumption DEF VMTypes
  <2>14. Seen(s, p) # Nil /\ Seen(s, p)' = t
    BY <2>9, <2>10, <2>12, <2>13, SeenIs
  <2>15. ASSUME NEW r \in Spaces, NEW q \in Pages, r # s \/ q # p
         PROVE  Seen(r, q)' = Seen(r, q)
    <3>1. ASSUME Shows(r, q) PROVE Content(r, q)' = Content(r, q)
      <4>1. PageFrame(r, q) = pte[r][q].to
        BY <3>1, ShownPage
      <4>2. pte[r][q].to # f
        BY <2>3, <2>15, <4>1, FrameOfPage
      <4>3. pte[r][q] \in Entries
        BY DEF VMTypes
      <4>4. pte[r][q] = Absent \/ pte[r][q].to \in Frames \cup {Zfod}
        BY <4>3, EntriesAre
      <4> QED BY <2>4, <2>11, <4>2, <4>4 DEF Content, RestIn
    <3> QED BY <2>10, <3>1, SeenElsewhere
  <2> QED BY <2>8, <2>14, <2>15, MemWrites
<1>7. CASE /\ UserGoto(t, IF away THEN "astray" ELSE "f_look")
           /\ job' = [job EXCEPT ![t] = [NoJob EXCEPT !.call = "fault", !.todo = {p}]]
           /\ UNCHANGED rest
  <2>1. PICK j : j = [NoJob EXCEPT !.call = "fault", !.todo = {p}]
    OBVIOUS
  <2>2. j.call = "fault"
    BY <2>1 DEF NoJob
  <2>3. job'[t] = j /\ \A u \in Users : u # t => job'[u] = job[u]
    BY <1>7, <2>1 DEF VMTypes
  <2>4. upc'[t] \in {"astray", "f_look"} /\ \A u \in Users : u # t => upc'[u] = upc[u]
    BY <1>7, GotoOthers
  <2>5. OthersSame(t) /\ SameView(t) /\ UNCHANGED <<pte, rest>>
    BY <1>1, <1>7, <2>2, <2>3, <2>4, NoJobIs DEF OthersSame, Same, SameView, spaceVars
  <2>6. Fresh(t)' /\ Copied(t)'
    BY <2>4, IdleSeen DEF CopyPCs
  <2> QED BY <2>5, <2>6, NoPageSeen
<1> HIDE DEF LeadsAstray
<1> QED BY <1>2, <1>3, <1>5a, <1>6, <1>7 DEF Write

LEMMA CallNewSeen ==
    ASSUME ~SharePages, VMTypes, FrameInv, SpaceInv, SeenInv,
           NEW t \in Users, NEW r \in NewRegions, CallNew(t, r)
    PROVE  SeenSame /\ SeenInv'
<1>0. CallOf(t) /\ RegionInv
  BY DEF SpaceInv, UserInv
<1>1. PICK s \in Spaces : s = space[t]
  BY InSpace DEF CallNew
<1> DEFINE P == PagesOf(r)
           j == [NoJob EXCEPT !.call = "new", !.reg = r, !.todo = P]
<1>2. /\ upc[t] = "out" /\ ~Overlaps(regions[s], r)
      /\ IF P = {} THEN UNCHANGED <<lock, upc, job>>
         ELSE UserGoto(t, "n_page") /\ job' = [job EXCEPT ![t] = j]
      /\ UNCHANGED <<rest, pte, space>>
  BY <1>1 DEF CallNew, frameVars
<1>3. job[t] = NoJob /\ r \in Regions /\ P \subseteq Pages
  BY <1>0, <1>2, NewRegionsAre, PagesOfAre DEF CallOf
<1>4. j.call = "new" /\ j.reg = r /\ j.todo = P
  BY DEF NoJob
<1> HIDE DEF j
<1>5. CASE P = {}
  <2>1. OthersSame(t) /\ SameView(t) /\ upc'[t] = "out"
    BY <1>2, <1>5 DEF OthersSame, Same, SameView
  <2>2. Fresh(t)' /\ Copied(t)'
    BY <2>1, IdleSeen DEF CopyPCs
  <2> QED BY <1>2, <2>1, <2>2, NoPageSeen
<1>6. CASE P # {}
  <2>1. job'[t] = j /\ \A u \in Users : u # t => job'[u] = job[u]
    BY <1>2, <1>6 DEF VMTypes
  <2>2. upc'[t] = "n_page" /\ \A u \in Users : u # t => upc'[u] = upc[u]
    BY <1>2, <1>6, GotoOthers
  <2>3. OthersSame(t) /\ PteAside(t) /\ RestAside(t)
    BY <1>2, <2>1, <2>2 DEF OthersSame, Same, PteAside, RestAside
  <2>4. Fresh(t)' /\ Copied(t)'
    BY <1>4, <2>1, <2>2 DEF Fresh, Copied, CopyPCs
  <2>5. SeenInv'
    BY <2>3, <2>4, SeenInvKept
  <2>6. \A p \in P : pte[s][p] = Absent
    <3>1. regions[s] \in Seq(Regions) /\ Disjoint(regions[s])
      BY <1>0 DEF VMTypes, RegionInv, Disjoint
    <3>2. \A i \in DOMAIN regions[s] : PagesOf(regions[s][i]) \cap P = {}
      BY <1>2, <1>3, <3>1, InsertedApart
    <3> QED BY <1>0, <1>3, <3>2 DEF RegionInv
  <2>7. \A v \in Spaces, p \in Pages : Content(v, p)' = Content(v, p)
    BY <1>2 DEF Content
  <2>8. ASSUME NEW v \in Spaces, NEW p \in Pages, v # s \/ p \notin P
        PROVE  Seen(v, p)' = Seen(v, p)
    <3>1. ~BusyIn(t, p)
      BY <1>3, NoJobIs DEF BusyIn
    <3>2. p \notin P => ~BusyIn(t, p)'
      BY <1>4, <2>1 DEF BusyIn
    <3>3. Shows(v, p)' <=> Shows(v, p)
      BY <1>1, <1>2, <1>3, <1>4, <2>1, <2>3, <2>8, <3>1, <3>2, NoJobIs, ShowsElsewhere
    <3> QED BY <2>7, <3>3, SeenElsewhere
  <2>9. ASSUME NEW p \in P PROVE Seen(s, p)' = Seen(s, p)
    <3>1. Content(s, p) = Nil /\ Content(s, p)' = Nil
      BY <1>3, <2>6, <2>7 DEF Content
    <3> QED BY <3>1, SeenIs
  <2>10. SeenSame
    BY <2>8, <2>9 DEF SeenSame
  <2> QED BY <2>5, <2>10
<1> QED BY <1>5, <1>6

LEMMA CallRemoveSeen ==
    ASSUME ~SharePages, VMTypes, FrameInv, SpaceInv, SeenInv,
           NEW t \in Users, NEW a \in Pages, CallRemove(t, a)
    PROVE  Mem!Next /\ SeenInv'
<1>0. CallOf(t)
  BY DEF SpaceInv, UserInv
<1>1. PICK s \in Spaces : s = space[t]
  BY InSpace DEF CallRemove
<1>2. LookupAt(regions[s], a) # 0
  BY <1>1 DEF CallRemove
<1>3. regions[s] \in Seq(Regions)
  BY DEF VMTypes
<1>4. PICK r \in Regions : r = regions[s][LookupAt(regions[s], a)]
  <2>1. LookupAt(regions[s], a) \in DOMAIN regions[s]
    BY <1>2, <1>3, LookupFinds
  <2> QED BY <1>3, <2>1
<1> DEFINE P == PagesOf(r)
           j == [NoJob EXCEPT !.call = "remove", !.reg = r, !.todo = P]
<1>5. /\ upc[t] = "out" /\ UserGoto(t, "free_look") /\ job' = [job EXCEPT ![t] = j]
      /\ UNCHANGED <<rest, pte, space>>
  BY <1>1, <1>4 DEF CallRemove, frameVars
<1>6. job[t] = NoJob /\ P \in SUBSET Pages
  BY <1>0, <1>5, PagesOfAre DEF CallOf
<1>7. j.call = "remove" /\ j.reg = r
  BY DEF NoJob
<1> HIDE DEF j
<1>8. job'[t] = j /\ \A u \in Users : u # t => job'[u] = job[u]
  BY <1>5 DEF VMTypes
<1>9. upc'[t] = "free_look" /\ \A u \in Users : u # t => upc'[u] = upc[u]
  BY <1>5, GotoOthers
<1>10. OthersSame(t) /\ PteAside(t) /\ RestAside(t)
  BY <1>5, <1>8, <1>9 DEF OthersSame, Same, PteAside, RestAside
<1>11. Fresh(t)' /\ Copied(t)'
  BY <1>9, IdleSeen DEF CopyPCs
<1>12. SeenInv'
  BY <1>10, <1>11, SeenInvKept
<1>13. \A v \in Spaces, p \in Pages : Content(v, p)' = Content(v, p)
  BY <1>5 DEF Content
<1>14. ASSUME NEW v \in Spaces, NEW p \in Pages, v # s \/ p \notin P
       PROVE  Seen(v, p)' = Seen(v, p)
  <2>1. ~BusyIn(t, p) /\ (p \notin P => ~BusyIn(t, p)')
    BY <1>6, <1>7, <1>8, NoJobIs DEF BusyIn
  <2>2. Shows(v, p)' <=> Shows(v, p)
    BY <1>1, <1>5, <1>6, <1>7, <1>8, <1>10, <1>14, <2>1, NoJobIs, ShowsElsewhere
  <2> QED BY <1>13, <2>2, SeenElsewhere
<1>15. ASSUME NEW p \in P PROVE Seen(s, p)' = Nil
  <2>1. ~Shows(s, p)'
    BY <1>1, <1>5, <1>7, <1>8 DEF Shows, Busy
  <2> HIDE DEF Shows, Content, P
  <2> QED BY <2>1, SeenIs
<1> HIDE DEF P, Seen
<1>16. Mem!Next
  BY <1>6, <1>14, <1>15, MemRemoves
<1> QED BY <1>12, <1>16

LEMMA NewPageFailsSeen ==
    ASSUME VMTypes, FrameInv, SpaceInv, SeenInv, NEW t \in Users, NewPageFails(t)
    PROVE  SeenSame /\ SeenInv'
<1>1. /\ UserGoto(t, "free_look") /\ UNCHANGED <<pte, rest, space>> /\ job[t] \in Jobs
      /\ job' = [job EXCEPT ![t].todo = PagesOf(job[t].reg) \ job[t].todo]
  BY DEF NewPageFails, frameVars, spaceVars, VMTypes
<1>2. job'[t].call = job[t].call /\ job'[t].reg = job[t].reg /\ \A u \in Users : u # t => job'[u] = job[u]
  BY <1>1 DEF VMTypes, Jobs
<1>3. upc'[t] = "free_look" /\ \A u \in Users : u # t => upc'[u] = upc[u]
  BY <1>1, GotoOthers
<1>4. OthersSame(t) /\ SameView(t)
  BY <1>1, <1>2, <1>3 DEF OthersSame, Same, SameView
<1>5. Fresh(t)' /\ Copied(t)'
  BY <1>3, IdleSeen DEF CopyPCs
<1> QED BY <1>1, <1>4, <1>5, NoPageSeen

-----------------------------------------------------------------------------
(* The pages that a call makes or frees *)

LEMMA OwnHidden ==
    ASSUME VMTypes, SpaceInv, NEW t \in Users, upc[t] \in FreePCs \cup {"n_page"},
           NEW p \in job[t].todo
    PROVE  /\ space[t] \in Spaces /\ p \in Pages /\ ~Shows(space[t], p)
           /\ p \in Works(t) \/ job[t].call = "exit"
<1>1. CallOf(t) /\ space[t] \in Spaces /\ job[t].call \in {"new", "remove", "exit"} /\ p \in Pages
  BY InSpace DEF SpaceInv, UserInv, CallOf, FreePCs, VMTypes, Jobs
<1>2. CASE job[t].call = "exit"
  <2>1. \A u \in Users : u # t => space[u] # space[t]
    BY <1>1, <1>2, VMSizes DEF SpaceInv, Apart
  <2> QED BY <1>1, <1>2, <2>1 DEF Shows, Open
<1>3. CASE job[t].call # "exit"
  <2>1. job[t].call \in {"new", "remove"} /\ p \in PagesOf(job[t].reg)
    BY <1>1, <1>3 DEF CallOf
  <2> QED BY <1>1, <2>1 DEF Shows, Busy, Works
<1> QED BY <1>2, <1>3

(* What a call changes at its own pages does not show. *)
RestHidden(t) == rest' = rest \/ \E f \in Frames :
    /\ Aside(f, t) /\ RestIn(f)
    /\ \A p \in Pages : Shows(space[t], p) => pte[space[t]][p].to # f

LEMMA HiddenStep ==
    ASSUME VMTypes, SpaceInv, SeenInv, NEW t \in Users, OthersSame(t), SameView(t), RestHidden(t),
           upc[t] \in FreePCs \cup {"n_page"}, upc'[t] \notin CopyPCs, Fresh(t)',
           \A s \in Spaces, p \in Pages :
              pte'[s][p] = pte[s][p] \/ (s = space[t] /\ p \in job[t].todo)
    PROVE  SeenSame /\ SeenInv'
<1>1. PteAside(t)
  <2>1. ASSUME NEW s \in Spaces, NEW p \in Pages, pte'[s][p] # pte[s][p]
        PROVE  s = space[t] /\ (p \in Works(t) \/ job[t].call = "exit")
    BY <2>1, OwnHidden
  <2> QED BY <2>1 DEF PteAside
<1>2. RestAside(t)
  BY DEF RestAside, RestHidden
<1>3. ASSUME NEW s \in Spaces, NEW p \in Pages, s = space[t], Shows(s, p)
      PROVE  Content(s, p)' = Content(s, p)
  <2>1. pte'[s][p] = pte[s][p]
    <3>1. p \notin job[t].todo
      BY <1>3, OwnHidden
    <3> QED BY <3>1
  <2>2. pte[s][p] = Absent \/ pte[s][p].to \in Frames \cup {Zfod}
    <3>1. pte[s][p] \in Entries
      BY DEF VMTypes
    <3> QED BY <3>1, EntriesAre
  <2>3. pte[s][p] = Absent \/ rest'[pte[s][p].to] = rest[pte[s][p].to]
    BY <1>3, <2>2 DEF RestHidden, RestIn
  <2> QED BY <2>1, <2>3 DEF Content
<1>4. Copied(t)'
  BY DEF Copied
<1> HIDE DEF Shows, Content
<1>5. SeenSame
  BY <1>1, <1>2, <1>3, NothingShows
<1> QED BY <1>1, <1>2, <1>4, <1>5, SeenInvKept

LEMMA NewPageSeen ==
    ASSUME VMTypes, FrameInv, SpaceInv, SeenInv, NEW t \in Users, NewPage(t)
    PROVE  (SeenSame \/ Mem!Next) /\ SeenInv'
<1>0. CallOf(t) /\ Progress(t) /\ Fresh(t)
  BY DEF SpaceInv, UserInv, SeenInv
<1>1. upc[t] = "n_page" /\ job[t].call = "new" /\ job[t].todo # {} /\ job[t] \in Jobs
  BY <1>0 DEF NewPage, CallOf, VMTypes
<1>2. PICK s \in Spaces, q \in Pages : s = space[t] /\ q = Page(t) /\ q \in job[t].todo
  <2>1. space[t] \in Spaces
    BY <1>0, <1>1, InSpace DEF CallOf
  <2> QED BY <1>1, <2>1, EntryIs
<1>3. PICK P \in SUBSET Pages : P = PagesOf(job[t].reg)
  BY <1>0, <1>1, PagesOfAre DEF CallOf
<1>4. q \in P /\ job[t].todo \subseteq P
  BY <1>0, <1>1, <1>2, <1>3 DEF CallOf
<1> DEFINE last == job[t].todo = {q}
           e == [to |-> Zfod, rw |-> FALSE]
           j == [job[t] EXCEPT !.todo = @ \ {q}]
<1>5. /\ pte' = [pte EXCEPT ![s][q] = e]
      /\ job' = [job EXCEPT ![t] = IF last THEN NoJob ELSE j]
      /\ \/ UserGoto(t, "wild")
         \/ last /\ UserGoto(t, "out")
         \/ ~last /\ UserGoto(t, "n_page")
      /\ UNCHANGED <<rest, space>>
  BY <1>2 DEF NewPage
<1>6. e \in Entries /\ e.to = Zfod /\ e # Absent
  BY AbsentIs, VMSizes DEF Entries
<1>7. j.call = "new" /\ j.reg = job[t].reg /\ j.todo = job[t].todo \ {q}
  BY <1>1 DEF Jobs
<1> HIDE DEF e, j
<1>8. /\ pte'[s][q] = e
      /\ \A r \in Spaces, p \in Pages : <<r, p>> # <<s, q>> => pte'[r][p] = pte[r][p]
      /\ pte' \in [Spaces -> [Pages -> Entries]]
  BY <1>5, <1>6, PteUpdate
<1>9. (job'[t] = IF last THEN NoJob ELSE j) /\ \A u \in Users : u # t => job'[u] = job[u]
  BY <1>5 DEF VMTypes
<1>10. /\ upc'[t] \in {"wild", "out", "n_page"} /\ (last => upc'[t] # "n_page")
       /\ \A u \in Users : u # t => upc'[u] = upc[u]
  BY <1>5, GotoOthers
<1>11. OthersSame(t)
  BY <1>5, <1>9, <1>10 DEF OthersSame, Same
<1>12. \A p \in P \ (job[t].todo \ {q}) : pte'[s][p].to = Zfod
  BY <1>0, <1>1, <1>2, <1>3, <1>6, <1>8 DEF Fresh
<1>13. Fresh(t)' /\ Copied(t)' /\ upc'[t] \notin CopyPCs
  <2>1. Fresh(t)'
    <3>1. CASE last
      BY <1>10, <3>1 DEF Fresh
    <3>2. CASE ~last
      BY <1>2, <1>3, <1>5, <1>7, <1>9, <1>12, <3>2 DEF Fresh
    <3> QED BY <3>1, <3>2
  <2> QED BY <1>10, <2>1 DEF Copied, CopyPCs
<1>14. CASE ~last
  <2>1. SameView(t)
    BY <1>1, <1>5, <1>7, <1>9, <1>14 DEF SameView
  <2>2. \A r \in Spaces, p \in Pages : pte'[r][p] = pte[r][p] \/ (r = space[t] /\ p \in job[t].todo)
    BY <1>2, <1>8
  <2>3. RestHidden(t) /\ upc[t] \in FreePCs \cup {"n_page"}
    BY <1>1, <1>5 DEF RestHidden
  <2> HIDE DEF last
  <2> QED BY <1>11, <1>13, <2>1, <2>2, <2>3, HiddenStep
<1>15. CASE last
  <2>1. job'[t] = NoJob
    BY <1>9, <1>15
  <2>2. PteAside(t) /\ RestAside(t)
    <3>1. q \in Works(t)
      BY <1>1, <1>3, <1>4 DEF Works
    <3> QED BY <1>2, <1>5, <1>8, <3>1 DEF PteAside, RestAside
  <2>3. SeenInv'
    BY <1>11, <1>13, <2>2, SeenInvKept
  <2>4. ASSUME NEW v \in Spaces, NEW p \in Pages, v # s \/ p \notin P
        PROVE  Seen(v, p)' = Seen(v, p)
    <3>1. v # s \/ (BusyIn(t, p)' <=> BusyIn(t, p))
      BY <1>1, <1>3, <2>1, <2>4, NoJobIs DEF BusyIn
    <3>2. Shows(v, p)' <=> Shows(v, p)
      BY <1>1, <1>2, <1>5, <1>11, <2>1, <3>1, NoJobIs, ShowsElsewhere
    <3>3. pte'[v][p] = pte[v][p] /\ rest' = rest
      BY <1>4, <1>5, <1>8, <2>4
    <3>4. Content(v, p)' = Content(v, p)
      BY <3>3 DEF Content
    <3> QED BY <3>2, <3>4, SeenElsewhere
  <2>5. ASSUME NEW p \in P PROVE Seen(s, p) = Nil /\ Seen(s, p)' = 0
    <3>1. ~Shows(s, p)
      BY <1>1, <1>2, <1>3 DEF Shows, Busy
    <3>2. Shows(s, p)'
      <4>1. Open(s)'
        BY <1>2, <1>5, <2>1, NoJobIs DEF Open
      <4>2. \A u \in Users \ {t} : space[u] = s => p \notin Works(u)
        BY <1>0, <1>1, <1>2, <1>3, VMSizes DEF SpaceInv, Apart, Works
      <4>3. ASSUME NEW u \in Users, space'[u] = s, job'[u].call \in {"new", "remove"},
                   p \in PagesOf(job'[u].reg)
            PROVE  FALSE
        <5>1. u # t /\ job'[u] = job[u] /\ space[u] = s
          BY <1>5, <1>9, <2>1, <4>3, NoJobIs
        <5>2. p \in Works(u)
          BY <4>3, <5>1 DEF Works
        <5> QED BY <4>2, <5>1, <5>2
      <4> QED BY <4>1, <4>3 DEF Shows, Busy
    <3>3. Content(s, p)' = 0
      <4>1. pte'[s][p].to = Zfod /\ pte'[s][p] # Absent
        BY <1>12, <1>15, AbsentIs, VMSizes
      <4>2. rest'[Zfod] = 0
        BY <1>5, ZfodIsClean
      <4> QED BY <4>1, <4>2 DEF Content
    <3> HIDE DEF Seen, Shows, Content
    <3> QED BY <3>1, <3>2, <3>3, SeenIs
  <2> HIDE DEF Seen
  <2>6. Mem!Next
    BY <2>4, <2>5, MemMakes
  <2> QED BY <2>3, <2>6
<1> QED BY <1>14, <1>15

LEMMA FreeLookSeen ==
    ASSUME VMTypes, FrameInv, SpaceInv, SeenInv, NEW t \in Users, FreeLook(t)
    PROVE  SeenSame /\ SeenInv'
<1>1. /\ upc[t] = "free_look" /\ job[t].todo # {} /\ job[t] \in Jobs
      /\ UNCHANGED <<rest, space>>
  BY DEF FreeLook, frameVars, VMTypes
<1>2. PICK s \in Spaces, q \in Pages : s = space[t] /\ q = Page(t) /\ q \in job[t].todo
                                       /\ Entry(t) = pte[s][q] /\ pte[s][q] \in Entries
  BY <1>1, InSpace, EntryIs
<1>3. CASE Entry(t) = Absent
  <2>1. job' = [job EXCEPT ![t].todo = job[t].todo \ {q}] /\ UNCHANGED <<upc, pte>>
    BY <1>2, <1>3 DEF FreeLook
  <2>2. job'[t].call = job[t].call /\ job'[t].reg = job[t].reg /\ \A u \in Users : u # t => job'[u] = job[u]
    BY <1>1, <2>1 DEF VMTypes, Jobs
  <2>3. OthersSame(t) /\ SameView(t)
    BY <1>1, <2>1, <2>2 DEF OthersSame, Same, SameView
  <2>4. Fresh(t)' /\ Copied(t)'
    BY <1>1, <2>1, IdleSeen DEF CopyPCs
  <2> QED BY <1>1, <2>1, <2>3, <2>4, NoPageSeen
<1>4. CASE Entry(t) # Absent
  <2>1. PICK e \in Entries : e = [pte[s][q] EXCEPT !.rw = TRUE]
    BY <1>2, <1>4, MadeWritable
  <2>2. /\ pte' = [pte EXCEPT ![s][q] = e]
        /\ job' = [job EXCEPT ![t].seen = e]
        /\ UserGoto(t, "free_clear") \/ UserGoto(t, "free_frame")
    BY <1>2, <1>4, <2>1 DEF FreeLook
  <2>3. /\ pte'[s][q] = e
        /\ \A r \in Spaces, p \in Pages : <<r, p>> # <<s, q>> => pte'[r][p] = pte[r][p]
        /\ pte' \in [Spaces -> [Pages -> Entries]]
    BY <2>2, PteUpdate
  <2>4. job'[t].call = job[t].call /\ job'[t].reg = job[t].reg /\ \A u \in Users : u # t => job'[u] = job[u]
    BY <1>1, <2>2 DEF VMTypes, Jobs
  <2>5. upc'[t] \in {"free_clear", "free_frame"} /\ \A u \in Users : u # t => upc'[u] = upc[u]
    BY <2>2, GotoOthers
  <2>6. OthersSame(t) /\ SameView(t)
    BY <1>1, <2>4, <2>5 DEF OthersSame, Same, SameView
  <2>7. \A r \in Spaces, p \in Pages : pte'[r][p] = pte[r][p] \/ (r = space[t] /\ p \in job[t].todo)
    BY <1>2, <2>3
  <2>8. RestHidden(t) /\ upc[t] \in FreePCs /\ upc'[t] \notin CopyPCs /\ Fresh(t)'
    BY <1>1, <2>5 DEF RestHidden, FreePCs, CopyPCs, Fresh
  <2> QED BY <2>6, <2>7, <2>8, HiddenStep
<1> QED BY <1>3, <1>4

LEMMA FreeFrameSeen ==
    ASSUME VMTypes, FrameInv, SpaceInv, SeenInv, NEW t \in Users, FreeFrame(t)
    PROVE  SeenSame /\ SeenInv'
<1>0. CallOf(t) /\ Progress(t)
  BY DEF SpaceInv, UserInv
<1>1. /\ upc[t] = "free_frame" /\ job[t].todo # {} /\ space[t] \in Spaces
      /\ UserGoto(t, "free_clear") /\ UNCHANGED <<pte, space, job>>
  BY <1>0, InSpace DEF FreeFrame, CallOf, spaceVars
<1>2. PICK s \in Spaces, q \in Pages : s = space[t] /\ q = Page(t) /\ q \in job[t].todo
                                       /\ Entry(t) = pte[s][q]
  BY <1>1, EntryIs
<1>3. PICK f \in Frames : f = job[t].seen.to /\ pte[s][q].to = f
  BY <1>0, <1>1, <1>2 DEF Progress
<1>4. rest' = [rest EXCEPT ![f] = 0]
  BY <1>3 DEF FreeFrame, Push
<1>5. RestIn(f)
  BY <1>4 DEF RestIn, VMTypes
<1>6. ~Pushed(s, q)
  BY <1>1, <1>2, FreedAlone
<1>7. PageFrame(s, q) = f
  BY <1>3, <1>6 DEF PageFrame
<1>8. Aside(f, t)
  BY <1>2, <1>7, FrameOfPage DEF Aside
<1>9. ASSUME NEW p \in Pages, Shows(s, p) PROVE pte[s][p].to # f
  <2>1. PageFrame(s, p) = pte[s][p].to
    BY <1>9, ShownPage
  <2>2. p # q
    BY <1>1, <1>2, <1>9, OwnHidden DEF FreePCs
  <2> QED BY <1>7, <2>1, <2>2, FrameOfPage
<1>10. RestHidden(t)
  BY <1>2, <1>5, <1>8, <1>9 DEF RestHidden
<1>11. upc'[t] = "free_clear" /\ \A u \in Users : u # t => upc'[u] = upc[u]
  BY <1>1, GotoOthers
<1>12. OthersSame(t) /\ SameView(t)
  BY <1>1, <1>11 DEF OthersSame, Same, SameView
<1>13. upc[t] \in FreePCs /\ upc'[t] \notin CopyPCs /\ Fresh(t)'
  BY <1>1, <1>11 DEF FreePCs, CopyPCs, Fresh
<1> QED BY <1>1, <1>10, <1>12, <1>13, HiddenStep

LEMMA FreeClearSeen ==
    ASSUME VMTypes, FrameInv, SpaceInv, SeenInv, NEW t \in Users, FreeClear(t)
    PROVE  SeenSame /\ SeenInv'
<1>0. CallOf(t)
  BY DEF SpaceInv, UserInv
<1>1. /\ upc[t] = "free_clear" /\ job[t].todo # {} /\ space[t] \in Spaces /\ job[t] \in Jobs
      /\ UserGoto(t, "free_look") /\ UNCHANGED <<rest, space>>
  BY <1>0, InSpace DEF FreeClear, CallOf, frameVars, VMTypes
<1>2. PICK s \in Spaces, q \in Pages : s = space[t] /\ q = Page(t) /\ q \in job[t].todo
  BY <1>1, EntryIs
<1>3. /\ pte' = [pte EXCEPT ![s][q] = Absent]
      /\ job' = [job EXCEPT ![t].todo = job[t].todo \ {q}, ![t].seen = Absent]
  BY <1>2 DEF FreeClear
<1>4. Absent \in Entries
  BY JobNone
<1>5. /\ pte'[s][q] = Absent
      /\ \A r \in Spaces, p \in Pages : <<r, p>> # <<s, q>> => pte'[r][p] = pte[r][p]
      /\ pte' \in [Spaces -> [Pages -> Entries]]
  BY <1>3, <1>4, PteUpdate
<1>6. job'[t].call = job[t].call /\ job'[t].reg = job[t].reg /\ \A u \in Users : u # t => job'[u] = job[u]
  BY <1>1, <1>3 DEF VMTypes, Jobs
<1>7. upc'[t] = "free_look" /\ \A u \in Users : u # t => upc'[u] = upc[u]
  BY <1>1, GotoOthers
<1>8. OthersSame(t) /\ SameView(t)
  BY <1>1, <1>6, <1>7 DEF OthersSame, Same, SameView
<1>9. \A r \in Spaces, p \in Pages : pte'[r][p] = pte[r][p] \/ (r = space[t] /\ p \in job[t].todo)
  BY <1>2, <1>5
<1>10. RestHidden(t) /\ upc[t] \in FreePCs /\ upc'[t] \notin CopyPCs /\ Fresh(t)'
  BY <1>1, <1>7 DEF RestHidden, FreePCs, CopyPCs, Fresh
<1> QED BY <1>8, <1>9, <1>10, HiddenStep

LEMMA PagesFreedSeen ==
    ASSUME VMTypes, FrameInv, SpaceInv, SeenInv, NEW t \in Users, PagesFreed(t)
    PROVE  SeenSame /\ SeenInv'
<1>1. /\ UserGoto(t, "tables") /\ UNCHANGED <<pte, rest, space>> /\ job[t] \in Jobs
  BY DEF PagesFreed, frameVars, spaceVars, VMTypes
<1>2. PICK q : job' = [job EXCEPT ![t].tabs = q]
  BY DEF PagesFreed
<1>3. job'[t] = [job[t] EXCEPT !.tabs = q] /\ \A u \in Users : u # t => job'[u] = job[u]
  BY <1>2 DEF VMTypes
<1>4. job'[t].call = job[t].call /\ job'[t].reg = job[t].reg
  BY <1>1, <1>3 DEF Jobs
<1>5. upc'[t] = "tables" /\ \A u \in Users : u # t => upc'[u] = upc[u]
  BY <1>1, GotoOthers
<1>6. OthersSame(t) /\ SameView(t)
  BY <1>1, <1>3, <1>4, <1>5 DEF OthersSame, Same, SameView
<1>7. Fresh(t)' /\ Copied(t)'
  BY <1>5, IdleSeen DEF CopyPCs
<1> QED BY <1>1, <1>6, <1>7, NoPageSeen

LEMMA FreeTableSeen ==
    ASSUME VMTypes, FrameInv, SpaceInv, SeenInv, NEW t \in Users, FreeTable(t)
    PROVE  SeenSame /\ SeenInv'
<1>1. /\ upc[t] = "tables" /\ job[t].tabs # <<>> /\ job[t] \in Jobs
      /\ UNCHANGED <<pte, space, job>>
  BY DEF FreeTable, VMTypes, spaceVars
<1>2. PICK s \in Spaces, k \in Tomes : s = space[t] /\ k = Head(job[t].tabs)
  BY <1>1, InSpace DEF Jobs
<1>3. CASE (UserGoto(t, "wild") \/ UserGoto(t, "panic")) /\ UNCHANGED rest
  <2>1. upc'[t] \in {"wild", "panic"} /\ \A u \in Users : u # t => upc'[u] = upc[u]
    BY <1>3, GotoOthers
  <2>2. OthersSame(t) /\ SameView(t)
    BY <1>1, <2>1 DEF OthersSame, Same, SameView
  <2>3. Fresh(t)' /\ Copied(t)'
    BY <2>1, IdleSeen DEF CopyPCs
  <2> QED BY <1>1, <1>3, <2>2, <2>3, NoPageSeen
<1>4. CASE tbl[s][k] # Nil /\ Push(tbl[s][k]) /\ UserGoto(t, "table_clear")
  <2>0. job[t].call \in {"new", "remove", "exit"}
    BY <1>1 DEF SpaceInv, UserInv, CallOf, FreePCs
  <2>1. PICK f \in Frames : f = tbl[s][k] /\ TableFrame(s, k) = f
    <3>1. ~TablePushed(s, k)
      BY <1>1, <1>2, <2>0, TableNotPushed
    <3> QED BY <1>4, <3>1 DEF VMTypes, TableFrame
  <2>2. rest' = [rest EXCEPT ![f] = 0]
    BY <1>4, <2>1 DEF Push
  <2>3. RestIn(f)
    BY <2>2 DEF RestIn, VMTypes
  <2>4. Aside(f, t)
    BY <2>1, FrameOfTable DEF Aside
  <2>5. ASSUME NEW p \in Pages, Shows(s, p) PROVE pte[s][p].to # f
    <3>1. PageFrame(s, p) = pte[s][p].to
      BY <2>5, ShownPage
    <3> QED BY <2>1, <3>1, FrameOfTable
  <2>6. RestHidden(t)
    BY <1>2, <2>3, <2>4, <2>5 DEF RestHidden
  <2>7. upc'[t] = "table_clear" /\ \A u \in Users : u # t => upc'[u] = upc[u]
    BY <1>4, GotoOthers
  <2>8. OthersSame(t) /\ SameView(t)
    BY <1>1, <2>7 DEF OthersSame, Same, SameView
  <2>9. upc[t] \in FreePCs /\ upc'[t] \notin CopyPCs /\ Fresh(t)'
    BY <1>1, <2>7 DEF FreePCs, CopyPCs, Fresh
  <2> QED BY <1>1, <2>6, <2>8, <2>9, HiddenStep
<1> QED BY <1>2, <1>3, <1>4 DEF FreeTable, frameVars

LEMMA ClearTableSeen ==
    ASSUME VMTypes, FrameInv, SpaceInv, SeenInv, NEW t \in Users, ClearTable(t)
    PROVE  SeenSame /\ SeenInv'
<1>1. /\ UserGoto(t, "tables") /\ UNCHANGED <<pte, rest, space>> /\ job[t] \in Jobs
  BY DEF ClearTable, frameVars, VMTypes
<1>2. PICK q : q = Tail(job[t].tabs)
  OBVIOUS
<1>3. job'[t] = [job[t] EXCEPT !.tabs = q] /\ \A u \in Users : u # t => job'[u] = job[u]
  BY <1>2 DEF ClearTable, VMTypes
<1>4. job'[t].call = job[t].call /\ job'[t].reg = job[t].reg
  BY <1>1, <1>3 DEF Jobs
<1>5. upc'[t] = "tables" /\ \A u \in Users : u # t => upc'[u] = upc[u]
  BY <1>1, GotoOthers
<1>6. OthersSame(t) /\ SameView(t)
  BY <1>1, <1>3, <1>4, <1>5 DEF OthersSame, Same, SameView
<1>7. Fresh(t)' /\ Copied(t)'
  BY <1>5, IdleSeen DEF CopyPCs
<1> QED BY <1>1, <1>6, <1>7, NoPageSeen

LEMMA RegionFreedSeen ==
    ASSUME VMTypes, FrameInv, SpaceInv, SeenInv, NEW t \in Users, RegionFreed(t)
    PROVE  SeenSame /\ SeenInv'
<1>0. CallOf(t) /\ Progress(t)
  BY DEF SpaceInv, UserInv
<1>1. PICK s \in Spaces : s = space[t]
  BY InSpace DEF RegionFreed
<1>2. /\ upc[t] = "tables" /\ job[t].call \in {"new", "remove"}
      /\ job' = [job EXCEPT ![t] = NoJob]
      /\ UserGoto(t, "panic") \/ UserGoto(t, "out")
      /\ UNCHANGED <<pte, rest, space>>
  BY DEF RegionFreed, frameVars
<1>3. PICK P \in SUBSET Pages : P = PagesOf(job[t].reg)
  BY <1>0, <1>2, PagesOfAre DEF CallOf
<1>4. \A p \in P : pte[s][p] = Absent
  BY <1>0, <1>1, <1>2, <1>3 DEF CallOf, Progress, FreePCs
<1>5. job'[t] = NoJob /\ \A u \in Users : u # t => job'[u] = job[u]
  BY <1>2 DEF VMTypes
<1>6. upc'[t] \in {"panic", "out"} /\ \A u \in Users : u # t => upc'[u] = upc[u]
  BY <1>2, GotoOthers
<1>7. OthersSame(t) /\ PteAside(t) /\ RestAside(t)
  BY <1>2, <1>5, <1>6 DEF OthersSame, Same, PteAside, RestAside
<1>8. Fresh(t)' /\ Copied(t)'
  BY <1>6, IdleSeen DEF CopyPCs
<1>9. SeenInv'
  BY <1>7, <1>8, SeenInvKept
<1>10. \A v \in Spaces, p \in Pages : Content(v, p)' = Content(v, p)
  BY <1>2 DEF Content
<1>11. ASSUME NEW v \in Spaces, NEW p \in Pages, v # s \/ p \notin P
       PROVE  Seen(v, p)' = Seen(v, p)
  <2>1. v # s \/ (BusyIn(t, p)' <=> BusyIn(t, p))
    BY <1>3, <1>5, <1>11, NoJobIs DEF BusyIn
  <2>2. Shows(v, p)' <=> Shows(v, p)
    BY <1>1, <1>2, <1>5, <1>7, <2>1, NoJobIs, ShowsElsewhere
  <2> QED BY <1>10, <2>2, SeenElsewhere
<1>12. ASSUME NEW p \in P PROVE Seen(s, p)' = Seen(s, p)
  <2>1. Content(s, p) = Nil /\ Content(s, p)' = Nil
    BY <1>2, <1>4 DEF Content
  <2> HIDE DEF Seen, Shows, Content
  <2> QED BY <2>1, SeenIs
<1>13. SeenSame
  BY <1>11, <1>12 DEF SeenSame
<1> QED BY <1>9, <1>13

-----------------------------------------------------------------------------
(* thread_fork, vanish and fork *)

(* A thread that comes or goes is not noticed in other spaces. *)
LEMMA ShowsAway ==
    ASSUME NEW t \in Users, OthersSame(t), NEW s, NEW p, s # space[t], s # space'[t]
    PROVE  Shows(s, p)' <=> Shows(s, p)
<1>1. \A u \in Users : u # t => space'[u] = space[u] /\ job'[u] = job[u]
  BY DEF OthersSame, Same
<1>2. Open(s)' <=> Open(s)
  BY <1>1 DEF Open
<1>3. Busy(s, p)' <=> Busy(s, p)
  BY <1>1 DEF Busy
<1> QED BY <1>2, <1>3 DEF Shows

(* A step that only moves threads. *)
LEMMA MovedSeen ==
    ASSUME VMTypes, SpaceInv, SeenInv, NEW t \in Users, OthersSame(t), UNCHANGED <<pte, rest>>,
           upc'[t] \notin CopyPCs \cup {"n_page"}
    PROVE  /\ SeenInv' /\ \A s, p : Content(s, p)' = Content(s, p)
           /\ \A s \in Spaces, p \in Pages :
                 (Shows(s, p)' <=> Shows(s, p)) => Seen(s, p)' = Seen(s, p)
<1>1. PteAside(t) /\ RestAside(t)
  BY DEF PteAside, RestAside
<1>2. Fresh(t)' /\ Copied(t)'
  BY IdleSeen
<1>3. SeenInv'
  BY <1>1, <1>2, SeenInvKept
<1>4. \A s, p : Content(s, p)' = Content(s, p)
  BY DEF Content
<1>5. ASSUME NEW s \in Spaces, NEW p \in Pages, Shows(s, p)' <=> Shows(s, p)
      PROVE  Seen(s, p)' = Seen(s, p)
  <2> HIDE DEF Seen, Shows, Content
  <2> QED BY <1>4, <1>5, SeenElsewhere
<1> QED BY <1>3, <1>4, <1>5

LEMMA LeaveIs ==
    ASSUME VMTypes, NEW t \in Users, Leave(t)
    PROVE  /\ upc'[t] = "absent" /\ job'[t] = NoJob /\ space'[t] = Nil /\ OthersSame(t)
           /\ \A u \in Users : u # t => space'[u] = space[u] /\ job'[u] = job[u]
<1>1. UserGoto(t, "absent") /\ space' = [space EXCEPT ![t] = Nil] /\ job' = [job EXCEPT ![t] = NoJob]
  BY DEF Leave
<1>2. /\ job'[t] = NoJob /\ space'[t] = Nil
      /\ \A u \in Users : u # t => space'[u] = space[u] /\ job'[u] = job[u]
  BY <1>1 DEF VMTypes
<1>3. upc'[t] = "absent" /\ \A u \in Users : u # t => upc'[u] = upc[u]
  BY <1>1, GotoOthers
<1> QED BY <1>2, <1>3 DEF OthersSame, Same

LEMMA SpaceFreedSeen ==
    ASSUME VMTypes, FrameInv, SpaceInv, SeenInv, NEW t \in Users, SpaceFreed(t)
    PROVE  SeenSame /\ SeenInv'
<1>1. upc[t] = "tables" /\ job[t].call = "exit" /\ UNCHANGED <<pte, rest>>
  BY DEF SpaceFreed, frameVars
<1>2. PICK s \in Spaces : s = space[t]
  BY <1>1, InSpace
<1>3. CASE UserGoto(t, "panic") /\ UNCHANGED <<space, job>>
  <2>1. upc'[t] = "panic" /\ \A u \in Users : u # t => upc'[u] = upc[u]
    BY <1>3, GotoOthers
  <2>2. OthersSame(t) /\ SameView(t)
    BY <1>3, <2>1 DEF OthersSame, Same, SameView
  <2>3. Fresh(t)' /\ Copied(t)'
    BY <2>1, IdleSeen DEF CopyPCs
  <2> QED BY <1>1, <2>2, <2>3, NoPageSeen
<1>4. CASE Leave(t)
  <2>1. /\ upc'[t] = "absent" /\ space'[t] = Nil /\ OthersSame(t)
        /\ \A u \in Users : u # t => space'[u] = space[u] /\ job'[u] = job[u]
    BY <1>4, LeaveIs
  <2>2. SeenInv' /\ \A v \in Spaces, p \in Pages :
                       (Shows(v, p)' <=> Shows(v, p)) => Seen(v, p)' = Seen(v, p)
    BY <1>1, <2>1, MovedSeen DEF CopyPCs
  <2>3. \A u \in Users : u # t => space[u] # s
    BY <1>1, <1>2, VMSizes DEF SpaceInv, Apart
  <2>4. ASSUME NEW v \in Spaces, NEW p \in Pages PROVE Shows(v, p)' <=> Shows(v, p)
    <3>1. CASE v # s
      BY <1>2, <2>1, <3>1, ShowsAway, VMSizes
    <3>2. CASE v = s
      <4>1. ~Open(s)
        BY <1>1, <2>3 DEF Open
      <4>2. ~Open(s)'
        BY <1>2, <2>1, <2>3, VMSizes DEF Open
      <4> QED BY <3>2, <4>1, <4>2 DEF Shows
    <3> QED BY <3>1, <3>2
  <2> HIDE DEF Shows, Seen
  <2> QED BY <2>2, <2>4 DEF SeenSame
<1> QED BY <1>2, <1>3, <1>4 DEF SpaceFreed

LEMMA ThreadForkSeen ==
    ASSUME VMTypes, FrameInv, SpaceInv, SeenInv, NEW t \in Users, NEW u \in Users, ThreadFork(t, u)
    PROVE  SeenSame /\ SeenInv'
<1>0. CallOf(t) /\ CallOf(u)
  BY DEF SpaceInv, UserInv
<1>1. PICK s \in Spaces : s = space[t]
  BY InSpace DEF ThreadFork
<1>2. /\ upc[t] = "out" /\ upc[u] = "absent" /\ u # t
      /\ space' = [space EXCEPT ![u] = s] /\ UserGoto(u, "out")
      /\ UNCHANGED <<pte, rest, job>>
      /\ job[u] = NoJob /\ job[t] = NoJob /\ space[u] = Nil
  BY <1>0, <1>1 DEF ThreadFork, CallOf, frameVars, spaceVars
<1>3. /\ upc'[u] = "out" /\ space'[u] = s
      /\ \A v \in Users : v # u => upc'[v] = upc[v] /\ space'[v] = space[v]
  BY <1>2, GotoOthers DEF VMTypes
<1>4. OthersSame(u)
  BY <1>2, <1>3 DEF OthersSame, Same
<1>5. SeenInv' /\ \A v \in Spaces, p \in Pages :
                     (Shows(v, p)' <=> Shows(v, p)) => Seen(v, p)' = Seen(v, p)
  BY <1>2, <1>3, <1>4, MovedSeen DEF CopyPCs
<1>6. ASSUME NEW v \in Spaces, NEW p \in Pages PROVE Shows(v, p)' <=> Shows(v, p)
  <2>1. CASE v # s
    BY <1>2, <1>3, <1>4, <2>1, ShowsAway, VMSizes
  <2>2. CASE v = s
    <3>1. Open(s) /\ Open(s)'
      BY <1>1, <1>2, <1>3, NoJobIs DEF Open
    <3>2. Busy(s, p)' <=> Busy(s, p)
      BY <1>2, <1>3, NoJobIs, VMSizes DEF Busy
    <3> QED BY <2>2, <3>1, <3>2 DEF Shows
  <2> QED BY <2>1, <2>2
<1> HIDE DEF Shows, Seen
<1> QED BY <1>5, <1>6 DEF SeenSame

LEMMA VanishSeen ==
    ASSUME VMTypes, FrameInv, SpaceInv, SeenInv, NEW t \in Users, Vanish(t)
    PROVE  (SeenSame \/ Mem!Next) /\ SeenInv'
<1>0. CallOf(t)
  BY DEF SpaceInv, UserInv
<1>1. upc[t] \in {"out", "killed"} /\ UNCHANGED <<pte, rest>>
  BY DEF Vanish, frameVars, spaceVars
<1>2. PICK s \in Spaces : s = space[t]
  BY <1>1, InSpace
<1>3. job[t].call \in {"none", "fault"}
  BY <1>0, <1>1, NoJobIs DEF CallOf
<1>4. CASE Peers(t) # {} /\ Leave(t)
  <2>1. /\ upc'[t] = "absent" /\ space'[t] = Nil /\ OthersSame(t)
        /\ \A u \in Users : u # t => space'[u] = space[u] /\ job'[u] = job[u]
    BY <1>4, LeaveIs
  <2>2. SeenInv' /\ \A v \in Spaces, p \in Pages :
                       (Shows(v, p)' <=> Shows(v, p)) => Seen(v, p)' = Seen(v, p)
    BY <1>1, <2>1, MovedSeen DEF CopyPCs
  <2>3. PICK u \in Users : u # t /\ space[u] = s
    BY <1>2, <1>4 DEF Peers
  <2>4. job[u].call # "exit"
    BY <1>2, <2>3, VMSizes DEF SpaceInv, Apart
  <2>5. ASSUME NEW v \in Spaces, NEW p \in Pages PROVE Shows(v, p)' <=> Shows(v, p)
    <3>1. CASE v # s
      BY <1>2, <2>1, <3>1, ShowsAway, VMSizes
    <3>2. CASE v = s
      <4>1. Open(s) /\ Open(s)'
        BY <2>1, <2>3, <2>4 DEF Open
      <4>2. Busy(s, p)' <=> Busy(s, p)
        BY <1>3, <2>1, VMSizes DEF Busy
      <4> QED BY <3>2, <4>1, <4>2 DEF Shows
    <3> QED BY <3>1, <3>2
  <2> HIDE DEF Shows, Seen
  <2> QED BY <2>2, <2>5 DEF SeenSame
<1>5. CASE /\ Peers(t) = {} /\ UserGoto(t, "free_look") /\ UNCHANGED space
           /\ job' = [job EXCEPT ![t] = [NoJob EXCEPT !.call = "exit",
                        !.todo = UNION {PagesOf(r) : r \in ToSet(regions[space[t]])}]]
  <2> DEFINE T == UNION {PagesOf(r) : r \in ToSet(regions[space[t]])}
             j == [NoJob EXCEPT !.call = "exit", !.todo = T]
  <2> HIDE DEF T
  <2>1. j.call = "exit"
    BY DEF NoJob
  <2>2. job' = [job EXCEPT ![t] = j]
    BY <1>5 DEF T
  <2> HIDE DEF j
  <2>3. job'[t].call = "exit" /\ \A u \in Users : u # t => job'[u] = job[u]
    BY <2>1, <2>2 DEF VMTypes
  <2>4. upc'[t] = "free_look" /\ \A u \in Users : u # t => upc'[u] = upc[u]
    BY <1>5, GotoOthers
  <2>5. OthersSame(t) /\ space'[t] = s
    BY <1>2, <1>5, <2>3, <2>4 DEF OthersSame, Same
  <2>6. SeenInv' /\ \A v \in Spaces, p \in Pages :
                       (Shows(v, p)' <=> Shows(v, p)) => Seen(v, p)' = Seen(v, p)
    BY <1>1, <2>4, <2>5, MovedSeen DEF CopyPCs
  <2>7. ASSUME NEW v \in Spaces, NEW p \in Pages, v # s PROVE Shows(v, p)' <=> Shows(v, p)
    BY <1>2, <2>5, <2>7, ShowsAway
  <2>8. ASSUME NEW p \in Pages PROVE Seen(s, p)' = Nil
    <3>1. ~Open(s)'
      BY <1>2, <1>5, <2>3 DEF Open, Peers
    <3>2. ~Shows(s, p)'
      BY <3>1 DEF Shows
    <3> HIDE DEF Seen, Shows, Content
    <3> QED BY <3>2, SeenIs
  <2> HIDE DEF Seen, Shows
  <2>9. Mem!Next
    BY <2>6, <2>7, <2>8, MemRemoves
  <2> QED BY <2>6, <2>9
<1> QED BY <1>4, <1>5 DEF Vanish

LEMMA StillSeen ==
    ASSUME SeenInv, UNCHANGED <<pte, rest>>, NEW v \in Users, Same(v)
    PROVE  Fresh(v)' /\ Copied(v)'
<1>1. Fresh(v) /\ Copied(v) /\ Page(v)' = Page(v)
  BY DEF SeenInv, Same, Page
<1>2. Fresh(v)'
  BY <1>1 DEF Fresh, Same
<1>3. \A s, p : Content(s, p)' = Content(s, p)
  BY DEF Content
<1>4. upc'[v] \in CopyPCs =>
        /\ \A p \in Pages : pte'[job'[v].child][p] # Absent =>
              Content(job[v].child, p) = Content(space[v], p)
        /\ upc'[v] = "c_map" => rest'[job'[v].seen.to] = Content(space[v], Page(v))
  BY <1>1 DEF Copied, Same
<1>5. /\ Content(space[v], Page(v))' = Content(space[v], Page(v))
      /\ \A p : /\ Content(space[v], p)' = Content(space[v], p)
                /\ Content(job[v].child, p)' = Content(job[v].child, p)
  BY <1>1 DEF Content, Same
<1> HIDE DEF Content, Page
<1>6. Copied(v)'
  BY <1>4, <1>5 DEF Copied
<1> QED BY <1>2, <1>6

LEMMA CallForkSeen ==
    ASSUME VMTypes, FrameInv, SpaceInv, SeenInv,
           NEW t \in Users, NEW c \in Spaces, NEW u \in Users, CallFork(t, c, u)
    PROVE  SeenSame /\ SeenInv'
<1>0. CallOf(t) /\ CallOf(u) /\ RegionInv
  BY DEF SpaceInv, UserInv
<1>1. /\ upc[t] = "out" /\ upc[u] = "absent" /\ u # t /\ regions[c] = <<>>
      /\ upc' = [upc EXCEPT ![t] = "c_region", ![u] = "nascent"]
      /\ job' = [job EXCEPT ![t].call = "fork", ![t].child = c, ![u].child = c]
      /\ UNCHANGED <<pte, rest, space>>
  BY DEF CallFork, Unused, frameVars, spaceVars
<1>2. job[t] = NoJob /\ job[u] = NoJob /\ NoJob \in Jobs
  BY <1>0, <1>1, JobNone DEF CallOf
<1>3. upc'[t] = "c_region" /\ upc'[u] = "nascent" /\ \A v \in Users : v # t /\ v # u => upc'[v] = upc[v]
  BY <1>1 DEF VMTypes
<1>4. /\ job'[t].call = "fork" /\ job'[t].child = c /\ job'[u].call = "none"
      /\ \A v \in Users : v # t /\ v # u => job'[v] = job[v]
  BY <1>1, <1>2, NoJobIs DEF VMTypes, Jobs
<1>5. \A v \in Users : v # t /\ v # u => Same(v)
  BY <1>1, <1>3, <1>4 DEF Same
<1>6. \A v \in Users : SameView(v)
  <2>1. SameView(t) /\ SameView(u)
    BY <1>1, <1>2, <1>4, NoJobIs DEF SameView
  <2>2. \A v \in Users : v # t /\ v # u => SameView(v)
    BY <1>5 DEF Same, SameView
  <2> QED BY <2>1, <2>2
<1>7. SeenSame
  <2>1. \A v \in Spaces, p \in Pages : Content(v, p)' = Content(v, p)
    BY <1>1 DEF Content
  <2> HIDE DEF SameView, Shows, Content
  <2> QED BY <1>6, <2>1, SeenKept
<1>8. \A p \in Pages : pte'[c][p] = Absent
  BY <1>0, <1>1 DEF RegionInv
<1>9. Copied(t)' /\ Fresh(t)'
  BY <1>3, <1>4, <1>8 DEF Copied, Fresh
<1>10. Copied(u)' /\ Fresh(u)'
  BY <1>3, IdleSeen DEF CopyPCs
<1>11. \A v \in Users : v # t /\ v # u => Copied(v)' /\ Fresh(v)'
  BY <1>1, <1>5, StillSeen
<1>12. SeenInv'
  BY <1>9, <1>10, <1>11 DEF SeenInv
<1> QED BY <1>7, <1>12

LEMMA ForkReturnsSeen ==
    ASSUME VMTypes, FrameInv, SpaceInv, SeenInv, NEW t \in Users, ForkReturns(t)
    PROVE  Mem!Next /\ SeenInv'
<1>0. CallOf(t) /\ CopyProgress(t) /\ RegionInv /\ Copied(t)
  BY DEF SpaceInv, UserInv, SeenInv
<1>1. upc[t] = "c_region" /\ UNCHANGED <<rest, pte>>
  BY DEF ForkReturns, frameVars, spaceVars
<1>2. PICK s \in Spaces, c \in Spaces : s = space[t] /\ c = job[t].child /\ s # c
  BY <1>1, ForkAlone DEF CopyPCs
<1>3. PICK u \in Users \ {t} :
        /\ job[u].child = c
        /\ space' = [space EXCEPT ![u] = c]
        /\ upc' = [upc EXCEPT ![t] = "out", ![u] = "out"]
        /\ job' = [job EXCEPT ![t] = NoJob, ![u] = NoJob]
  BY <1>2 DEF ForkReturns
<1>4. /\ upc'[t] = "out" /\ upc'[u] = "out" /\ job'[t] = NoJob /\ job'[u] = NoJob
      /\ space'[t] = s /\ space'[u] = c
      /\ \A v \in Users : v # t /\ v # u =>
            upc'[v] = upc[v] /\ job'[v] = job[v] /\ space'[v] = space[v]
  BY <1>2, <1>3 DEF VMTypes
<1>5. /\ job[t].call = "fork"
      /\ \A v \in Users : v # t => space[v] # c /\ space[v] # s
  BY <1>1, <1>2, ForkAlone DEF CopyPCs
<1>6. upc[u] = "nascent" /\ space[u] = Nil
  <2>1. Apart(t, u) /\ CallOf(u)
    BY <1>3 DEF SpaceInv, UserInv
  <2> QED BY <1>1, <1>2, <1>3, <2>1, VMSizes DEF Apart, CallOf
<1>7. SeenInv'
  <2>1. Fresh(t)' /\ Copied(t)' /\ Fresh(u)' /\ Copied(u)'
    BY <1>3, <1>4, IdleSeen DEF CopyPCs
  <2>2. \A v \in Users : v # t /\ v # u => Copied(v)' /\ Fresh(v)'
    BY <1>1, <1>4, StillSeen DEF Same
  <2> QED BY <2>1, <2>2 DEF SeenInv
<1>8. \A v, p : Content(v, p)' = Content(v, p)
  BY <1>1 DEF Content
<1>9. ASSUME NEW v \in Spaces, NEW p \in Pages, v # c PROVE Seen(v, p)' = Seen(v, p)
  <2>1. ASSUME NEW w \in Users
        PROVE  /\ space'[w] = v <=> space[w] = v
               /\ space[w] = v => /\ job'[w].call # "exit" <=> job[w].call # "exit"
                                  /\ BusyIn(w, p)' <=> BusyIn(w, p)
    <3>1. CASE w = t
      BY <1>2, <1>4, <1>5, <3>1, NoJobIs DEF BusyIn
    <3>2. CASE w = u
      BY <1>4, <1>6, <1>9, <3>2, VMSizes
    <3>3. CASE w # t /\ w # u
      BY <1>4, <3>3 DEF BusyIn
    <3> QED BY <3>1, <3>2, <3>3
  <2>2. Open(v)' <=> Open(v)
    BY <2>1 DEF Open
  <2>3. Busy(v, p)' <=> Busy(v, p)
    BY <2>1 DEF Busy, BusyIn
  <2>4. Shows(v, p)' <=> Shows(v, p)
    BY <2>2, <2>3 DEF Shows
  <2> HIDE DEF Shows, Content, Seen
  <2> QED BY <1>8, <2>4, SeenElsewhere
<1>10. ASSUME NEW p \in Pages PROVE Content(c, p) = Content(s, p)
  <2>1. CASE pte[c][p] # Absent
    BY <1>0, <1>1, <1>2, <2>1 DEF Copied, CopyPCs
  <2>2. CASE pte[c][p] = Absent
    <3>1. PICK src \in Seq(Regions), dst \in Seq(Regions) : src = regions[s] /\ dst = regions[c]
      BY DEF VMTypes
    <3>2. Len(dst) = Len(src) /\ \A i \in DOMAIN dst : dst[i] = src[i]
      BY <1>0, <1>1, <1>2, <3>1 DEF ForkReturns, CopyProgress, CopyPCs
    <3>3. \A v \in Users : ~Excused(v, c, p)
      <4>1. ~Excused(t, c, p)
        BY <1>1, <1>2 DEF Excused
      <4>2. ASSUME NEW v \in Users, v # t PROVE ~Excused(v, c, p)
        <5>1. Apart(t, v)
          BY <4>2 DEF SpaceInv
        <5>2. job[v].child = c => upc[v] = "nascent"
          BY <1>1, <1>2, <5>1, VMSizes DEF Apart
        <5> QED BY <1>5, <4>2, <5>2 DEF Excused
      <4> QED BY <4>1, <4>2
    <3> HIDE DEF Excused
    <3>4. \A i \in DOMAIN dst : p \notin PagesOf(dst[i])
      BY <1>0, <2>2, <3>1, <3>3 DEF RegionInv
    <3>5. \A i \in DOMAIN src : p \notin PagesOf(src[i])
      BY <3>2, <3>4
    <3>6. pte[s][p] = Absent
      BY <1>0, <3>1, <3>5 DEF RegionInv
    <3> QED BY <2>2, <3>6 DEF Content
  <2> QED BY <2>1, <2>2
<1>11. ASSUME NEW p \in Pages PROVE Seen(c, p) = Nil /\ Seen(c, p)' = Seen(s, p)
  <2>1. ~Shows(c, p)
    BY <1>2, <1>5 DEF Shows, Open
  <2>2. Shows(s, p)
    BY <1>2, <1>5 DEF Shows, Open, Busy
  <2>3. Shows(c, p)'
    <3>1. Open(c)'
      BY <1>3, <1>4, NoJobIs DEF Open
    <3>2. ~Busy(c, p)'
      BY <1>2, <1>4, <1>5, NoJobIs DEF Busy
    <3> QED BY <3>1, <3>2 DEF Shows
  <2> HIDE DEF Shows, Content, Seen
  <2> QED BY <1>8, <1>10, <2>1, <2>2, <2>3, SeenIs
<1> HIDE DEF Seen
<1>12. Mem!Next
  BY <1>2, <1>9, <1>11, MemForks
<1> QED BY <1>7, <1>12

-----------------------------------------------------------------------------
(* fork's copy *)

LEMMA CopiedNow ==
    ASSUME NEW t, NEW s, NEW c, space'[t] = s, job'[t].child = c,
           \A p \in Pages : pte'[c][p] # Absent => Content(c, p)' = Content(s, p)',
           upc'[t] = "c_map" => \E q : Page(t)' = q /\ rest'[job'[t].seen.to] = Content(s, q)'
    PROVE  Copied(t)'
<1>1. \A p : /\ Content(space[t], p)' = Content(s, p)'
             /\ Content(job[t].child, p)' = Content(c, p)'
  BY DEF Content
<1>2. \A q : Page(t)' = q => Content(space[t], Page(t))' = Content(s, q)'
  BY DEF Content
<1> HIDE DEF Content, Page
<1> QED BY <1>1, <1>2 DEF Copied

LEMMA CopyStays ==
    ASSUME VMTypes, SpaceInv, SeenInv, NEW t \in Users, upc[t] \in CopyPCs, OthersSame(t), SameView(t),
           UNCHANGED <<pte, rest>>, job'[t].child = job[t].child,
           upc'[t] \in {"c_region", "c_frame", "copy_failed"}
    PROVE  SeenSame /\ SeenInv'
<1>1. PICK s, c : s = space[t] /\ c = job[t].child
  OBVIOUS
<1>2. Copied(t) /\ space'[t] = s
  BY <1>1 DEF SeenInv, SameView
<1>3. \A v, p : Content(v, p)' = Content(v, p)
  BY DEF Content
<1>4. \A p \in Pages : pte'[c][p] # Absent => Content(c, p)' = Content(s, p)'
  BY <1>1, <1>2, <1>3 DEF Copied
<1> HIDE DEF Content
<1>5. Copied(t)' /\ Fresh(t)'
  BY <1>1, <1>2, <1>4, CopiedNow DEF Fresh
<1> QED BY <1>5, NoPageSeen

LEMMA CopyRegionSeen ==
    ASSUME VMTypes, FrameInv, SpaceInv, SeenInv, NEW t \in Users, CopyRegion(t)
    PROVE  SeenSame /\ SeenInv'
<1>1. upc[t] = "c_region" /\ UNCHANGED <<pte, rest, space>> /\ job[t] \in Jobs
  BY DEF CopyRegion, frameVars, VMTypes
<1>2. CASE UserGoto(t, "copy_failed") /\ UNCHANGED job
  <2>1. upc'[t] = "copy_failed" /\ \A u \in Users : u # t => upc'[u] = upc[u]
    BY <1>2, GotoOthers
  <2>2. OthersSame(t) /\ SameView(t)
    BY <1>1, <1>2, <2>1 DEF OthersSame, Same, SameView
  <2> QED BY <1>1, <1>2, <2>1, <2>2, CopyStays DEF CopyPCs
<1>3. ASSUME NEW T, job' = [job EXCEPT ![t].todo = T], UserGoto(t, "c_frame")
      PROVE  SeenSame /\ SeenInv'
  <2>1. upc'[t] = "c_frame" /\ \A u \in Users : u # t => upc'[u] = upc[u]
    BY <1>3, GotoOthers
  <2>2. job'[t] = [job[t] EXCEPT !.todo = T] /\ \A u \in Users : u # t => job'[u] = job[u]
    BY <1>3 DEF VMTypes
  <2>3. job'[t].call = job[t].call /\ job'[t].reg = job[t].reg /\ job'[t].child = job[t].child
    BY <1>1, <2>2 DEF Jobs
  <2>4. OthersSame(t) /\ SameView(t)
    BY <1>1, <2>1, <2>2, <2>3 DEF OthersSame, Same, SameView
  <2> QED BY <1>1, <2>1, <2>3, <2>4, CopyStays DEF CopyPCs
<1>4. \/ UserGoto(t, "copy_failed") /\ UNCHANGED job
      \/ \E T : job' = [job EXCEPT ![t].todo = T] /\ UserGoto(t, "c_frame")
  BY DEF CopyRegion
<1> QED BY <1>2, <1>3, <1>4

LEMMA RegionCopiedSeen ==
    ASSUME VMTypes, FrameInv, SpaceInv, SeenInv, NEW t \in Users, RegionCopied(t)
    PROVE  SeenSame /\ SeenInv'
<1>1. upc[t] = "c_frame" /\ UserGoto(t, "c_region") /\ UNCHANGED <<pte, rest, space, job>>
  BY DEF RegionCopied, frameVars, spaceVars
<1>2. upc'[t] = "c_region" /\ \A u \in Users : u # t => upc'[u] = upc[u]
  BY <1>1, GotoOthers
<1>3. OthersSame(t) /\ SameView(t)
  BY <1>1, <1>2 DEF OthersSame, Same, SameView
<1> QED BY <1>1, <1>2, <1>3, CopyStays DEF CopyPCs

(* The page is taken in hand: its copy is in a new frame, or is the frame  *)
(* of zeroes.                                                              *)
LEMMA CopyTakesSeen ==
    ASSUME VMTypes, FrameInv, SpaceInv, SeenInv, NEW t \in Users, NEW e \in Entries, e # Absent,
           upc[t] = "c_frame", job[t].todo # {}, UserGoto(t, "c_map"), UNCHANGED <<pte, space>>,
           job' = [job EXCEPT ![t].seen = e], rest'[e.to] = rest[Entry(t).to],
           rest' = rest \/ (head # Nil /\ RestIn(head))
    PROVE  SeenSame /\ SeenInv'
<1>1. PICK s \in Spaces, c \in Spaces : s = space[t] /\ c = job[t].child /\ s # c
  BY CopyPages DEF CopyPCs
<1>2. PICK q \in Pages : q = Page(t) /\ Entry(t) = pte[s][q] /\ Entry(t) # Absent
  BY <1>1, CopyFinds
<1>3. job'[t] = [job[t] EXCEPT !.seen = e] /\ job[t] \in Jobs /\ \A u \in Users : u # t => job'[u] = job[u]
  BY DEF VMTypes
<1>4. /\ job'[t].call = job[t].call /\ job'[t].reg = job[t].reg /\ job'[t].child = c
      /\ job'[t].seen = e /\ job'[t].todo = job[t].todo
  BY <1>1, <1>3 DEF Jobs
<1>5. upc'[t] = "c_map" /\ \A u \in Users : u # t => upc'[u] = upc[u]
  BY GotoOthers
<1>6. OthersSame(t) /\ SameView(t)
  BY <1>3, <1>4, <1>5 DEF OthersSame, Same, SameView
<1>7. PteAside(t) /\ RestAside(t)
  <2>1. head # Nil => head \in Frames /\ Aside(head, t)
    BY FrameOfNone DEF Aside
  <2> QED BY <2>1 DEF PteAside, RestAside
<1>8. ASSUME NEW v \in {s, c}, NEW p \in Pages PROVE Content(v, p)' = Content(v, p)
  <2>1. PageFrame(v, p) = pte[v][p].to /\ v \in Spaces
    <3>1. PageFrame(s, p) = pte[s][p].to /\ PageFrame(c, p) = pte[c][p].to
      BY <1>1, CopyPages DEF CopyPCs
    <3> QED BY <1>8, <3>1
  <2>2. head # Nil => pte[v][p].to # head
    BY <2>1, FrameOfNone
  <2>3. pte[v][p] = Absent \/ pte[v][p].to \in Frames \cup {Zfod}
    <3>1. pte[v][p] \in Entries
      BY <2>1 DEF VMTypes
    <3> QED BY <3>1, EntriesAre
  <2>4. pte[v][p] = Absent \/ rest'[pte[v][p].to] = rest[pte[v][p].to]
    BY <2>2, <2>3 DEF RestIn
  <2> QED BY <2>4 DEF Content
<1>9. \A p \in Pages : pte'[c][p] # Absent => Content(c, p)' = Content(s, p)'
  <2>1. Copied(t)
    BY DEF SeenInv
  <2> QED BY <1>1, <1>8, <2>1 DEF Copied, CopyPCs
<1>10. Page(t)' = q
  BY <1>2, <1>4 DEF Page
<1>11. rest'[job'[t].seen.to] = Content(s, q)'
  <2>1. Content(s, q) = rest[Entry(t).to]
    BY <1>2 DEF Content
  <2> HIDE DEF Content
  <2> QED BY <1>4, <1>8, <2>1
<1> HIDE DEF Content, Page, Entry
<1>12. Copied(t)' /\ Fresh(t)'
  BY <1>1, <1>4, <1>5, <1>9, <1>10, <1>11, CopiedNow DEF Fresh
<1>13. \A v \in Spaces, p \in Pages : v = space[t] /\ Shows(v, p) => Content(v, p)' = Content(v, p)
  BY <1>1, <1>8
<1> QED BY <1>6, <1>7, <1>12, <1>13, NothingShows, SeenInvKept

LEMMA CopyFrameSeen ==
    ASSUME VMTypes, FrameInv, SpaceInv, SeenInv, NEW t \in Users, CopyFrame(t)
    PROVE  SeenSame /\ SeenInv'
<1>1. upc[t] = "c_frame" /\ job[t].todo # {} /\ UNCHANGED <<pte, space>>
  BY DEF CopyFrame, spaceVars
<1>2. CASE UserGoto(t, "copy_failed") /\ UNCHANGED <<rest, job>>
  <2>1. upc'[t] = "copy_failed" /\ \A u \in Users : u # t => upc'[u] = upc[u]
    BY <1>2, GotoOthers
  <2>2. OthersSame(t) /\ SameView(t)
    BY <1>1, <1>2, <2>1 DEF OthersSame, Same, SameView
  <2> QED BY <1>1, <1>2, <2>1, <2>2, CopyStays DEF CopyPCs
<1>3. CASE /\ head # Nil /\ rest' = [rest EXCEPT ![head] = rest[Entry(t).to]]
           /\ job' = [job EXCEPT ![t].seen = [Entry(t) EXCEPT !.to = head]]
           /\ UserGoto(t, "c_map")
  <2>1. head \in Frames
    BY <1>3, FrameOfNone
  <2>2. PICK e : e = [Entry(t) EXCEPT !.to = head]
    OBVIOUS
  <2>3. e \in Entries /\ e # Absent /\ e.to = head
    <3>1. Entry(t) \in Entries /\ Entry(t) # Absent
      BY <1>1, CopyFinds
    <3> HIDE DEF Entry
    <3> QED BY <2>1, <2>2, <3>1, AbsentIs, VMSizes DEF Entries
  <2>4. rest'[head] = rest[Entry(t).to] /\ RestIn(head)
    BY <1>3, <2>1 DEF VMTypes, RestIn
  <2> HIDE DEF Entry
  <2> QED BY <1>1, <1>3, <2>2, <2>3, <2>4, CopyTakesSeen
<1> QED BY <1>2, <1>3 DEF CopyFrame, frameVars

LEMMA CopyZfodSeen ==
    ASSUME VMTypes, FrameInv, SpaceInv, SeenInv, NEW t \in Users, CopyZfod(t)
    PROVE  SeenSame /\ SeenInv'
<1>1. /\ upc[t] = "c_frame" /\ job[t].todo # {} /\ UNCHANGED <<pte, rest, space>>
      /\ job' = [job EXCEPT ![t].seen = Entry(t)] /\ UserGoto(t, "c_map")
  BY DEF CopyZfod, frameVars, spaceVars
<1>2. PICK e \in Entries : e = Entry(t) /\ e # Absent
  BY <1>1, CopyFinds
<1>3. job' = [job EXCEPT ![t].seen = e] /\ rest'[e.to] = rest[Entry(t).to]
  BY <1>1, <1>2
<1>4. /\ upc[t] = "c_frame" /\ job[t].todo # {} /\ UserGoto(t, "c_map")
      /\ UNCHANGED <<pte, space>> /\ rest' = rest
  BY <1>1
<1> HIDE DEF Entry
<1> QED BY <1>2, <1>3, <1>4, CopyTakesSeen

LEMMA CopyMapSeen ==
    ASSUME VMTypes, FrameInv, SpaceInv, SeenInv, NEW t \in Users, CopyMap(t)
    PROVE  SeenSame /\ SeenInv'
<1>0. CallOf(t) /\ CopyProgress(t) /\ Copied(t)
  BY DEF SpaceInv, UserInv, SeenInv
<1>1. upc[t] = "c_map" /\ job[t].todo # {} /\ UNCHANGED <<rest, space>> /\ job[t] \in Jobs
  BY <1>0 DEF CopyMap, CallOf, VMTypes
<1>2. PICK s \in Spaces, c \in Spaces : s = space[t] /\ c = job[t].child /\ s # c
  BY <1>1, CopyPages DEF CopyPCs
<1>3. PICK q \in Pages : q = Page(t)
  BY <1>1, CopyFinds
<1>4. PICK e \in Entries : e = job[t].seen /\ e # Absent
  BY <1>0, <1>1 DEF CopyProgress, CopyPCs, Jobs
<1>5. CASE UserGoto(t, "copy_failed") /\ UNCHANGED <<pte, job>>
  <2>1. upc'[t] = "copy_failed" /\ \A u \in Users : u # t => upc'[u] = upc[u]
    BY <1>5, GotoOthers
  <2>2. OthersSame(t) /\ SameView(t)
    BY <1>1, <1>5, <2>1 DEF OthersSame, Same, SameView
  <2> QED BY <1>1, <1>5, <2>1, <2>2, CopyStays DEF CopyPCs
<1>6. CASE /\ pte' = [pte EXCEPT ![c][q] = e]
           /\ job' = [job EXCEPT ![t].todo = job[t].todo \ {q}, ![t].seen = Absent]
           /\ UserGoto(t, "wild") \/ UserGoto(t, "c_frame")
  <2>1. /\ pte'[c][q] = e
        /\ \A r \in Spaces, p \in Pages : <<r, p>> # <<c, q>> => pte'[r][p] = pte[r][p]
        /\ pte' \in [Spaces -> [Pages -> Entries]]
    BY <1>6, PteUpdate
  <2>2. /\ job'[t].call = job[t].call /\ job'[t].reg = job[t].reg /\ job'[t].child = c
        /\ \A u \in Users : u # t => job'[u] = job[u]
    BY <1>1, <1>2, <1>6 DEF VMTypes, Jobs
  <2>3. upc'[t] \in {"wild", "c_frame"} /\ \A u \in Users : u # t => upc'[u] = upc[u]
    BY <1>6, GotoOthers
  <2>4. OthersSame(t) /\ SameView(t)
    BY <1>1, <2>2, <2>3 DEF OthersSame, Same, SameView
  <2>5. PteAside(t) /\ RestAside(t)
    BY <1>1, <1>2, <2>1 DEF PteAside, RestAside, CopyPCs
  <2>6. \A p \in Pages : Content(s, p)' = Content(s, p)
    BY <1>1, <1>2, <2>1 DEF Content
  <2>7. ASSUME NEW p \in Pages, pte'[c][p] # Absent PROVE Content(c, p)' = Content(s, p)
    <3>1. CASE p = q
      <4>1. Content(c, q)' = rest[e.to]
        BY <1>1, <1>4, <2>1 DEF Content
      <4>2. rest[e.to] = Content(s, q)
        BY <1>0, <1>1, <1>2, <1>3, <1>4 DEF Copied, CopyPCs
      <4> QED BY <3>1, <4>1, <4>2
    <3>2. CASE p # q
      <4>1. pte'[c][p] = pte[c][p]
        BY <2>1, <3>2
      <4>2. Content(c, p)' = Content(c, p)
        BY <1>1, <4>1 DEF Content
      <4> QED BY <1>0, <1>1, <1>2, <2>7, <4>1, <4>2 DEF Copied, CopyPCs
    <3> QED BY <3>1, <3>2
  <2> HIDE DEF Content
  <2>8. \A p \in Pages : pte'[c][p] # Absent => Content(c, p)' = Content(s, p)'
    BY <2>6, <2>7
  <2>9. Copied(t)' /\ Fresh(t)'
    BY <1>1, <1>2, <2>2, <2>3, <2>8, CopiedNow DEF Fresh
  <2>10. \A v \in Spaces, p \in Pages : v = space[t] /\ Shows(v, p) => Content(v, p)' = Content(v, p)
    BY <1>2, <2>6
  <2> QED BY <2>4, <2>5, <2>9, <2>10, NothingShows, SeenInvKept
<1> QED BY <1>2, <1>3, <1>4, <1>5, <1>6 DEF CopyMap

-----------------------------------------------------------------------------
(* Virtual memory and Memory *)

LEMMA SeenTypes ==
    ASSUME VMTypes, NEW s \in Spaces, NEW p \in Pages
    PROVE  Seen(s, p) \in Users \cup {0, Nil}
<1>1. Content(s, p) \in Users \cup {0, Nil}
  <2>1. pte[s][p] \in Entries
    BY DEF VMTypes
  <2>2. pte[s][p] = Absent \/ pte[s][p].to \in Frames \cup {Zfod}
    BY <2>1, EntriesAre
  <2> QED BY <2>2 DEF Content, VMTypes
<1>2. Seen(s, p) = IF Shows(s, p) THEN Content(s, p) ELSE Nil
  BY SeenIs
<1> HIDE DEF Seen, Shows, Content
<1> QED BY <1>1, <1>2

LEMMA SeenAtStart == VMInit => Mem!Init /\ SeenInv
<1> SUFFICES ASSUME VMInit PROVE Mem!Init /\ SeenInv
  OBVIOUS
<1>1. VMTypes
  BY VMInitHolds DEF VMIInv
<1>2. View \in [Spaces -> [Pages -> Users \cup {0, Nil}]]
  <2> HIDE DEF Seen
  <2> QED BY <1>1, SeenTypes DEF View
<1>3. Mem!Init
  BY <1>2 DEF Mem!Init, Mem!Contents, View
<1>4. \A t \in Users : upc[t] \in {"out", "absent"}
  BY DEF VMInit
<1>5. SeenInv
  BY <1>4 DEF SeenInv, Fresh, Copied, CopyPCs
<1> QED BY <1>3, <1>5

LEMMA SeenStep ==
    ASSUME ~SharePages, VMIInv, ~Stopped => SeenInv, VMNext
    PROVE  (SeenSame \/ Mem!Next) /\ SeenInv'
<1>1. VMTypes /\ FrameInv /\ SpaceInv /\ SeenInv
  BY DEF VMNext, VMIInv
<1>2. PICK t \in Users :
        CallStep(t) \/ FaultStep(t) \/ NewPage(t) \/ NewPageFails(t) \/ FreeStep(t) \/ CopyStep(t)
  BY DEF VMNext
<1>3. CASE CallStep(t)
  <2>1. CASE \E p \in Pages : Write(t, p) \/ CallRemove(t, p)
    BY <1>1, <2>1, WriteSeen, CallRemoveSeen
  <2>2. CASE \E r \in NewRegions : CallNew(t, r)
    BY <1>1, <2>2, CallNewSeen
  <2>3. CASE \E u \in Users : ThreadFork(t, u) \/ \E c \in Spaces : CallFork(t, c, u)
    BY <1>1, <2>3, ThreadForkSeen, CallForkSeen
  <2>4. CASE Vanish(t)
    BY <1>1, <2>4, VanishSeen
  <2> QED BY <1>3, <2>1, <2>2, <2>3, <2>4 DEF CallStep
<1>4. CASE FaultStep(t)
  BY <1>1, <1>4, FaultSeen
<1>5. CASE NewPage(t) \/ NewPageFails(t)
  BY <1>1, <1>5, NewPageSeen, NewPageFailsSeen
<1>6. CASE FreeStep(t)
  BY <1>1, <1>6, FreeLookSeen, FreeFrameSeen, FreeClearSeen, PagesFreedSeen,
     FreeTableSeen, ClearTableSeen, RegionFreedSeen, SpaceFreedSeen DEF FreeStep
<1>7. CASE CopyStep(t)
  BY <1>1, <1>7, CopyRegionSeen, RegionCopiedSeen, CopyFrameSeen, CopyZfodSeen,
     CopyMapSeen, ForkReturnsSeen DEF CopyStep
<1> QED BY <1>2, <1>3, <1>4, <1>5, <1>6, <1>7

LEMMA MemStep ==
    ASSUME ~SharePages, VMIInv, ~Stopped => SeenInv, [VMNext]_vmVars
    PROVE  (~Stopped => SeenInv)' /\ (Mem!Next \/ View' = View)
<1>1. CASE VMNext
  <2>1. (SeenSame \/ Mem!Next) /\ SeenInv'
    BY <1>1, SeenStep
  <2> HIDE DEF SeenSame, SeenInv
  <2> QED BY <2>1, MemStays
<1>2. CASE UNCHANGED vmVars
  <2>1. /\ UNCHANGED <<pte, rest, upc>> /\ \A u \in Users : Same(u) /\ SameView(u)
        /\ Stopped' <=> Stopped
    BY <1>2 DEF vmVars, frameVars, spaceVars, Same, SameView, Stopped
  <2>2. SeenInv => SeenInv'
    BY <2>1, StillSeen DEF SeenInv
  <2>3. \A s \in Spaces, p \in Pages : Content(s, p)' = Content(s, p)
    BY <2>1 DEF Content
  <2>4. SeenSame
    <3> HIDE DEF SameView, Shows, Content
    <3> QED BY <2>1, <2>3, SeenKept
  <2> HIDE DEF SeenInv, SeenSame
  <2> QED BY <2>1, <2>2, <2>4, MemStays
<1> QED BY <1>1, <1>2

(* Virtual memory does what Memory promises: a program sees its own        *)
(* writes, zeroes in pages that are new and, after fork, what its parent   *)
(* saw; no other step of any thread, in its own space or another, changes  *)
(* what it sees; and no access goes through what its space has given back, *)
(* so there is no step of which this could not be said                     *)
(* (vm.c:220-251,309-438, page_alloc.c:46-125,197-390).  The assumption is *)
(* about programs: the code does not keep a thread from using what another *)
(* thread of its task is unmapping.                                        *)
THEOREM VMIsMemory == ~SharePages => (VMSpec => ActsLikeMemory /\ []StaysInSpace)
<1> SUFFICES ASSUME ~SharePages PROVE VMSpec => ActsLikeMemory /\ []StaysInSpace
  OBVIOUS
<1> DEFINE Visible == ~Stopped => SeenInv
<1>1. VMInit => VMIInv /\ Visible /\ Mem!Init
  BY VMInitHolds, SeenAtStart
<1>2. VMIInv /\ Visible /\ [VMNext]_vmVars => VMIInv' /\ Visible' /\ [Mem!Next]_View
  BY VMStepHolds, MemStep
<1>3. VMSpec => []StaysInSpace
  BY VMStaysInSpace
<1> HIDE DEF Visible
<1> QED BY <1>1, <1>2, <1>3, PTL DEF VMSpec, ActsLikeMemory, Mem!Spec, View
=============================================================================
