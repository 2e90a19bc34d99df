-------------------------- MODULE StrgBasketProofs --------------------------
(***************************************************************************)
(* That a basket implements StrgLog, for every size of a basket, as long   *)
(* as the headers it counts are in one page with the global record: a      *)
(* fragment that was finished outlives every crash, and of one that was    *)
(* not its beginning is left, or nothing.  And, wherever the headers lie,  *)
(* what a process finds that reads its own writes, and what a kill costs.  *)
(***************************************************************************)
EXTENDS StrgBasket, SequenceTheorems, TLAPS

WF == INSTANCE WellFoundedInduction

-----------------------------------------------------------------------------
(***************************************************************************)
(* The inductive invariant.                                                *)
(***************************************************************************)

\* The fragments of headers h[1] to h[m] lie one behind the other, in the file and
\* in the order of the headers, and all but the last one are finished.
InOrder(h, m) ==
  /\ \A k \in 1 .. m : h[k] \in Header /\ h[k].first + h[k].n <= Slots + 1
  /\ \A k \in 1 .. m - 1 : ~h[k].writing /\ h[k+1].first = h[k].first + h[k].n
  /\ \A j, k \in 1 .. m : j < k => h[j].first + h[j].n <= h[k].first

\* The headers that the global record counts.
HeadersOK(f) == InOrder(f.hdr, f.num) /\ \A k \in 1 .. f.num : f.hdr[k].use = f.use

Finished(f) == \A k \in 1 .. f.num : ~f.hdr[k].writing

\* No index entry is of the future.
Past(f) == \A p \in 1 .. Slots : f.slot[p] # Nothing => f.slot[p].gop <= gop

SameParts(f, g) == f.slot = g.slot /\ f.data = g.data

\* The headers that two files count are the same.
SameHeaders(f, g) ==
  f.use = g.use /\ f.num = g.num /\ \A k \in 1 .. f.num : f.hdr[k] = g.hdr[k]

\* The first m headers of f are those in memory.
Listed(f, m) == f.use = use /\ \A k \in 1 .. m : f.hdr[k] = list[k]

ListOK == InOrder(list, Len(list)) /\ \A k \in 1 .. Len(list) : list[k].use = use

AllFinished == \A k \in 1 .. Len(list) : ~list[k].writing

IdleInv ==
  phase = "idle" =>
    AllFinished /\ disk = file /\ file.num = Len(list) /\ Listed(file, Len(list))

\* The header of a fragment that is about to be written.
NewHeader(f) ==
  /\ Len(list) + 1 <= Frags
  /\ f.hdr[Len(list) + 1] \in Header
  /\ LET h == f.hdr[Len(list) + 1]
     IN h.use = use /\ h.begin = gop + 1 /\ h.first = End /\ h.n = 0 /\ h.writing

StartInv ==
  phase \in {"reset", "header", "global"} =>
    /\ AllFinished /\ SameParts(disk, file)
    /\ Listed(file, Len(list))
    /\ file.num = IF phase = "global" THEN Len(list) + 1 ELSE Len(list)
    /\ IF phase = "reset" THEN list = <<>> ELSE NewHeader(file)
    /\ \/ Finished(disk) /\ (list = <<>> \/ (disk.num = Len(list) /\ Listed(disk, Len(list))))
       \/ phase = "global" /\ SameHeaders(disk, file)

\* The fragment being written; its header as it was when it was begun; an index entry
\* from before.
Last == list[Len(list)]

Stub(h) ==
  h \in Header /\ h.use = use /\ h.begin = Last.begin /\ h.first = Last.first /\ h.n = 0 /\ h.writing

Old(e) == e # Nothing /\ e.use = use => e.gop < Last.begin

\* The closed fragments are the same in the file and on the disk.  Of the open one there
\* is nothing on the disk that was synchronised, and behind it nothing in the file.
OpenInv ==
  phase \in {"writing", "stopping"} =>
    /\ list # <<>> /\ Last.writing = (phase = "writing") /\ Last.begin <= gop + 1
    /\ file.num = Len(list) /\ disk.num = Len(list)
    /\ Listed(file, Len(list) - 1) /\ Listed(disk, Len(list) - 1)
    /\ Stub(disk.hdr[Len(list)]) \/ (phase = "stopping" /\ disk.hdr[Len(list)] = Last)
    /\ IF phase = "writing" THEN Stub(file.hdr[Len(list)]) ELSE file.hdr[Len(list)] = Last
    /\ \A p \in Last.first .. Last.first + Last.n - 1 :
         /\ file.slot[p] \in Entry /\ file.data[p] = file.slot[p]
         /\ file.slot[p].use = use /\ file.slot[p].gop >= Last.begin
    /\ \A p \in 1 .. Last.first - 1 :
         disk.slot[p] = file.slot[p] /\ disk.data[p] = file.data[p]
    /\ \A p \in Last.first + Last.n .. Slots : Old(file.slot[p])
    /\ \A p \in Last.first .. Slots : Old(disk.slot[p])

DownInv == phase = "down" => disk = file /\ list = <<>> /\ use = 0

BasketInv ==
  /\ TypeOK /\ ListOK /\ HeadersOK(file) /\ HeadersOK(disk) /\ Past(file) /\ Past(disk)
  /\ IdleInv /\ StartInv /\ OpenInv /\ DownInv

-----------------------------------------------------------------------------
(***************************************************************************)
(* What the scan computes.                                                 *)
(***************************************************************************)

\* A set of naturals that is not empty has a least member.
LEMMA Least ==
  ASSUME NEW T, T \subseteq Nat, T # {}
  PROVE  \E x \in T : \A y \in T : x <= y
<1> DEFINE R == WF!OpToRel(<, Nat)
<1>1. WF!IsWellFoundedOn(R, Nat)
  BY WF!NatLessThanWellFounded
<1>2. PICK x \in T : \A y \in T : <<y, x>> \notin R
  BY <1>1, WF!WFMin
<1>3. R = {ss \in Nat \X Nat : ss[1] < ss[2]}
  BY DEF WF!OpToRel
<1>4. \A y \in Nat : y < x => <<y, x>> \in R
  BY <1>3
<1>5. \A y \in T : ~(y < x)
  <2> HIDE DEF R
  <2> QED BY <1>2, <1>4
<1>6. \A y \in T : x <= y
  <2> HIDE DEF R
  <2> QED BY <1>5
<1> QED
  <2> HIDE DEF R
  <2> QED BY <1>6

\* And a bounded one has a greatest, which is what Max chooses.
LEMMA Most ==
  ASSUME NEW S, NEW b \in Nat, S \subseteq 0 .. b, S # {}
  PROVE  Max(S) \in S /\ \A y \in S : y <= Max(S)
<1> DEFINE T == {b - x : x \in S}
<1>1. T \subseteq Nat
  <2>1. \A x \in S : b - x \in Nat
    OBVIOUS
  <2> QED BY <2>1
<1>7. T # {}
  BY DEF T
<1> HIDE DEF T
<1>2. PICK t \in T : \A y \in T : t <= y
  BY <1>1, <1>7, Least
<1> USE DEF T
<1>3. PICK m \in S : t = b - m
  OBVIOUS
<1>4. \A y \in S : b - y \in T
  OBVIOUS
<1>5. \A y \in S : y <= m
  <2> HIDE DEF T
  <2> QED BY <1>2, <1>3, <1>4
<1> QED
  BY <1>5 DEF Max

\* strg_basket_scan_iframe stays in the file, takes only entries that follow, and stops
\* at the first that does not.
LEMMA SalvageIs ==
  ASSUME NEW f, NEW h \in Header
  PROVE  /\ Salvage(f, h) \in 0 .. Slots - h.first
         /\ \A i \in 1 .. Salvage(f, h) : Follows(f, h, h.first + i)
         /\ \A n \in 0 .. Slots - h.first :
              (\A i \in 1 .. n : Follows(f, h, h.first + i)) => n <= Salvage(f, h)
<1> DEFINE S == {n \in 0 .. Slots - h.first : \A i \in 1 .. n : Follows(f, h, h.first + i)}
<1>1. Slots - h.first \in Nat
  BY BasketAssumption DEF Header
<1>2. 0 \in S
  BY <1>1
<1>3. S \subseteq 0 .. Slots - h.first
  OBVIOUS
<1>4. Max(S) \in S /\ \A y \in S : y <= Max(S)
  <2> HIDE DEF S
  <2> QED BY <1>1, <1>2, <1>3, Most
<1>5. Salvage(f, h) = Max(S)
  BY DEF Salvage
<1> QED BY <1>4, <1>5

\* How many fragments the scan finds.
LEMMA FoundCount ==
  ASSUME NEW f \in Files
  PROVE  LET m == Max({m \in 0 .. f.num : \A k \in 1 .. m : Good(f, k)})
         IN /\ m \in 0 .. f.num /\ \A k \in 1 .. m : Good(f, k)
            /\ \A n \in 0 .. f.num : (\A k \in 1 .. n : Good(f, k)) => n <= m
<1> DEFINE S == {m \in 0 .. f.num : \A k \in 1 .. m : Good(f, k)}
<1>1. f.num \in Nat
  BY BasketAssumption DEF Files
<1>2. 0 \in S
  BY <1>1
<1>3. S \subseteq 0 .. f.num
  OBVIOUS
<1>4. Max(S) \in S /\ \A y \in S : y <= Max(S)
  <2> HIDE DEF S
  <2> QED BY <1>1, <1>2, <1>3, Most
<1> QED BY <1>4

\* If all headers are of finished fragments, it finds them all.
LEMMA RecoveredAll ==
  ASSUME NEW f \in Files, HeadersOK(f), Finished(f)
  PROVE  Recovered(f) = [k \in 1 .. f.num |-> f.hdr[k]]
<1> DEFINE m == Max({m \in 0 .. f.num : \A k \in 1 .. m : Good(f, k)})
<1>1. f.num \in Nat
  BY BasketAssumption DEF Files
<1>2. \A k \in 1 .. f.num : Good(f, k)
  BY NothingAssumption DEF HeadersOK, InOrder, Finished, Good
<1>3. m \in 0 .. f.num /\ f.num <= m
  BY <1>1, <1>2, FoundCount
<1>4. m = f.num
  <2> HIDE DEF m
  <2> QED BY <1>1, <1>3
<1>5. Recovered(f) = [k \in 1 .. m |-> Restored(f, k)]
  BY DEF Recovered
<1> HIDE DEF m
<1> QED BY <1>4, <1>5 DEF Finished, Restored

\* If the last one was being written, all but that one, or all.
LEMMA RecoveredOpen ==
  ASSUME NEW f \in Files, f.num # 0, f.hdr[f.num].writing,
         \A k \in 1 .. f.num - 1 : f.hdr[k] \in Header /\ ~f.hdr[k].writing
  PROVE  /\ ~Good(f, f.num) => Recovered(f) = [k \in 1 .. f.num - 1 |-> f.hdr[k]]
         /\ Good(f, f.num) =>
              Recovered(f) = [k \in 1 .. f.num |-> IF k < f.num THEN f.hdr[k] ELSE Restored(f, k)]
<1> DEFINE m == Max({m \in 0 .. f.num : \A k \in 1 .. m : Good(f, k)})
<1>1. f.num \in Nat \ {0}
  BY BasketAssumption DEF Files
<1>2. \A k \in 1 .. f.num - 1 : Good(f, k)
  BY NothingAssumption DEF Good
<1>3. m \in 0 .. f.num /\ f.num - 1 <= m /\ (\A k \in 1 .. m : Good(f, k))
      /\ ((\A k \in 1 .. f.num : Good(f, k)) => f.num <= m)
  BY <1>1, <1>2, FoundCount
<1>4. Recovered(f) = [k \in 1 .. m |-> Restored(f, k)]
  BY DEF Recovered
<1> HIDE DEF m
<1>5. m = IF Good(f, f.num) THEN f.num ELSE f.num - 1
  BY <1>1, <1>2, <1>3
<1>6. \A k \in 1 .. f.num - 1 : Restored(f, k) = f.hdr[k]
  BY DEF Restored
<1> QED BY <1>1, <1>4, <1>5, <1>6

LEMMA RecoveredLast ==
  ASSUME NEW f \in Files, HeadersOK(f), f.num # 0, f.hdr[f.num].writing
  PROVE  /\ ~Good(f, f.num) => Recovered(f) = [k \in 1 .. f.num - 1 |-> f.hdr[k]]
         /\ Good(f, f.num) =>
              Recovered(f) = [k \in 1 .. f.num |-> IF k < f.num THEN f.hdr[k] ELSE Restored(f, k)]
<1>1. f.num \in Nat \ {0}
  BY BasketAssumption DEF Files
<1>2. \A k \in 1 .. f.num - 1 : f.hdr[k] \in Header /\ ~f.hdr[k].writing
  BY <1>1 DEF HeadersOK, InOrder
<1> QED BY <1>2, RecoveredOpen

\* What it finds are finished fragments of one use, one behind the other.
LEMMA ScanFinds ==
  ASSUME NEW f \in Files, HeadersOK(f)
  PROVE  /\ Len(Recovered(f)) \in 0 .. f.num
         /\ Recovered(f) \in Seq(Header)
         /\ InOrder(Recovered(f), Len(Recovered(f)))
         /\ \A k \in 1 .. Len(Recovered(f)) :
              ~Recovered(f)[k].writing /\ Recovered(f)[k].use = f.use
<1>1. f.num \in Nat /\ \A k \in 1 .. f.num : f.hdr[k] \in Header
  BY BasketAssumption DEF Files, HeadersOK, InOrder
<1>2. CASE Finished(f)
  <2>1. Recovered(f) = [k \in 1 .. f.num |-> f.hdr[k]]
    BY <1>2, RecoveredAll
  <2>2. Recovered(f) \in Seq(Header) /\ Len(Recovered(f)) = f.num
    BY <1>1, <2>1
  <2> QED BY <1>1, <1>2, <2>1, <2>2 DEF HeadersOK, InOrder, Finished
<1>3. CASE ~Finished(f)
  <2>1. f.num # 0 /\ f.hdr[f.num].writing
    BY <1>1, <1>3 DEF HeadersOK, InOrder, Finished
  <2>2. CASE ~Good(f, f.num)
    <3>1. Recovered(f) = [k \in 1 .. f.num - 1 |-> f.hdr[k]]
      BY <2>1, <2>2, RecoveredLast
    <3>2. Recovered(f) \in Seq(Header) /\ Len(Recovered(f)) = f.num - 1
      BY <1>1, <2>1, <3>1
    <3> QED BY <1>1, <2>1, <3>1, <3>2 DEF HeadersOK, InOrder
  <2>3. CASE Good(f, f.num)
    <3> DEFINE h == f.hdr[f.num]
               r == Restored(f, f.num)
    <3>1. Recovered(f) = [k \in 1 .. f.num |-> IF k < f.num THEN f.hdr[k] ELSE Restored(f, k)]
      BY <2>1, <2>3, RecoveredLast
    <3>2. h \in Header
      BY <1>1, <2>1
    <3>3. Salvage(f, h) \in 0 .. Slots - h.first
      BY <3>2, SalvageIs
    <3>4. /\ r \in Header /\ ~r.writing /\ r.use = h.use /\ r.first = h.first
          /\ r.first + r.n <= Slots + 1
      <4>1. r = [[h EXCEPT !.n = Salvage(f, h)] EXCEPT !.writing = FALSE]
        BY <2>1 DEF Restored
      <4>2. Salvage(f, h) \in 0 .. Slots
        BY <3>2, <3>3, BasketAssumption DEF Header
      <4> HIDE DEF r
      <4>3. r = [use |-> h.use, begin |-> h.begin, late |-> h.late, first |-> h.first,
                 n |-> Salvage(f, h), writing |-> FALSE]
        BY <3>2, <4>1 DEF Header
      <4> QED BY <3>2, <3>3, <4>2, <4>3, BasketAssumption DEF Header
    <3>5. Recovered(f) = [k \in 1 .. f.num |-> IF k < f.num THEN f.hdr[k] ELSE r]
      BY <1>1, <3>1
    <3> HIDE DEF r
    <3>6. Recovered(f) \in Seq(Header) /\ Len(Recovered(f)) = f.num
      BY <1>1, <3>4, <3>5
    <3> QED
      <4>1. r.use = f.use
        BY <1>1, <2>1, <3>4 DEF HeadersOK
      <4>2. \A k \in 1 .. f.num - 1 : Recovered(f)[k] = f.hdr[k]
        BY <1>1, <3>5
      <4>3. Recovered(f)[f.num] = r
        BY <1>1, <2>1, <3>5
      <4>4. InOrder(Recovered(f), f.num)
        BY <1>1, <2>1, <3>4, <4>2, <4>3 DEF HeadersOK, InOrder
      <4> QED BY <1>1, <2>1, <3>4, <3>6, <4>1, <4>2, <4>3, <4>4 DEF HeadersOK, InOrder
  <2> QED BY <2>2, <2>3
<1> QED BY <1>2, <1>3

-----------------------------------------------------------------------------
(***************************************************************************)
(* Types, however many headers are in the first page.                      *)
(***************************************************************************)

\* A fragment that begins has a header, and one that is written is in the list.
TypeInv ==
  /\ TypeOK
  /\ phase \in {"header", "global"} =>
       Len(list) + 1 <= Frags /\ file.hdr[Len(list) + 1] \in Header
  /\ phase \in {"writing", "stopping"} => list # <<>>

\* The parts of a header are numbers in their bounds.
LEMMA HeaderIs ==
  ASSUME NEW h \in Header
  PROVE  /\ h.use \in Nat /\ h.begin \in Nat /\ h.first \in Nat /\ h.n \in Nat /\ Slots \in Nat
         /\ 1 <= h.first /\ h.first <= Slots /\ h.late \in BOOLEAN /\ h.writing \in BOOLEAN
  BY BasketAssumption DEF Header

\* What is made of the parts of two files is a file.
LEMMA MixedFiles ==
  ASSUME NEW f \in Files, NEW g \in Files
  PROVE  /\ FirstPage(f, g) \in Files
         /\ \A hdrs, slots, datas : Others(f, g, hdrs, slots, datas) \in Files
<1>1. FirstPage(f, g) \in Files
  <2>1. PICK h : h = [k \in 1 .. Frags |-> IF k <= Shared THEN g.hdr[k] ELSE f.hdr[k]]
    OBVIOUS
  <2>2. h \in [1 .. Frags -> Header \cup {Nothing}]
    BY <2>1 DEF Files
  <2>3. FirstPage(f, g) = [f EXCEPT !.use = g.use, !.num = g.num, !.hdr = h]
    BY <2>1 DEF FirstPage
  <2> QED BY <2>2, <2>3 DEF Files
<1>2. ASSUME NEW hdrs, NEW slots, NEW datas
      PROVE  Others(f, g, hdrs, slots, datas) \in Files
  <2>1. PICK h, s, d : /\ h = [k \in 1 .. Frags |-> IF k \in hdrs THEN g.hdr[k] ELSE f.hdr[k]]
                       /\ s = [i \in 1 .. Slots |-> IF i \in slots THEN g.slot[i] ELSE f.slot[i]]
                       /\ d = [i \in 1 .. Slots |-> IF i \in datas THEN g.data[i] ELSE f.data[i]]
    OBVIOUS
  <2>2. /\ h \in [1 .. Frags -> Header \cup {Nothing}]
        /\ s \in [1 .. Slots -> Entry \cup {Nothing}] /\ d \in [1 .. Slots -> Entry \cup {Nothing}]
    BY <2>1 DEF Files
  <2>3. Others(f, g, hdrs, slots, datas) = [f EXCEPT !.hdr = h, !.slot = s, !.data = d]
    BY <2>1 DEF Others
  <2> QED BY <2>2, <2>3 DEF Files
<1> QED BY <1>1, <1>2

\* What the scan finds are headers, whatever is in the file.
LEMMA RecoveredIs ==
  ASSUME NEW f \in Files
  PROVE  Recovered(f) \in Seq(Header) /\ Len(Recovered(f)) \in 0 .. f.num
<1> DEFINE m == Max({m \in 0 .. f.num : \A k \in 1 .. m : Good(f, k)})
<1>1. m \in 0 .. f.num /\ \A k \in 1 .. m : Good(f, k)
  BY FoundCount
<1>2. f.num \in 0 .. Frags
  BY DEF Files
<1>3. Recovered(f) = [k \in 1 .. m |-> Restored(f, k)]
  BY DEF Recovered
<1> HIDE DEF m
<1>4. ASSUME NEW k \in 1 .. m PROVE Restored(f, k) \in Header
  <2>1. k \in 1 .. Frags /\ Good(f, k)
    BY <1>1, <1>2, BasketAssumption
  <2>2. PICK h : h = f.hdr[k]
    OBVIOUS
  <2>3. h \in Header
    BY <2>1, <2>2 DEF Files, Good
  <2>4. Salvage(f, h) \in 0 .. Slots
    BY <2>3, SalvageIs, BasketAssumption DEF Header
  <2>5. PICK n \in 0 .. Slots : n = Salvage(f, h)
    BY <2>4
  <2>6. [h EXCEPT !.n = n, !.writing = FALSE] \in Header
    BY <2>3 DEF Header
  <2> QED BY <2>2, <2>3, <2>5, <2>6 DEF Restored
<1>5. Recovered(f) \in Seq(Header) /\ Len(Recovered(f)) = m
  BY <1>1, <1>2, <1>3, <1>4
<1> QED BY <1>1, <1>5

\* Every step keeps the types.
LEMMA TypeStep ==
  ASSUME TypeInv, [Next]_vars
  PROVE  TypeInv'
<1>0. TypeOK /\ Len(list) \in 0 .. Frags /\ list \in Seq(Header)
  BY BasketAssumption DEF TypeInv, TypeOK
<1>1. list # <<>> => list[Len(list)] \in Header
  BY <1>0
<1>2. CASE Reset
  <2>1. file' = [use |-> use', num |-> 0, hdr |-> file.hdr, slot |-> file.slot, data |-> file.data]
    BY <1>0, <1>2 DEF TypeOK, Files, Reset
  <2>2. use' \in 0 .. MaxUse /\ 0 \in 0 .. Frags
    BY <1>0, <1>2, BasketAssumption DEF TypeOK, Reset
  <2>3. file' \in Files
    BY <1>0, <2>1, <2>2 DEF TypeOK, Files
  <2> QED BY <1>0, <1>2, <2>2, <2>3, BasketAssumption DEF TypeInv, TypeOK, Reset
<1>3. CASE StartHeader
  <2>1. PICK late \in BOOLEAN :
          file' = [file EXCEPT !.hdr[Len(list) + 1] =
                     [use |-> use, begin |-> gop + 1, late |-> late,
                      first |-> End, n |-> 0, writing |-> TRUE]]
    BY <1>3 DEF StartHeader
  <2>2. PICK h : h = [use |-> use, begin |-> gop + 1, late |-> late,
                      first |-> End, n |-> 0, writing |-> TRUE]
    OBVIOUS
  <2>3. End \in 1 .. Slots /\ Len(list) + 1 \in 1 .. Frags
    BY <1>0, <1>1, <1>3, BasketAssumption, HeaderIs DEF StartHeader, End, Room
  <2>4. h \in Header
    BY <1>0, <2>2, <2>3, BasketAssumption DEF TypeOK, Header
  <2>5. file' = [use |-> file.use, num |-> file.num, hdr |-> [file.hdr EXCEPT ![Len(list) + 1] = h],
                 slot |-> file.slot, data |-> file.data]
    BY <1>0, <2>1, <2>2 DEF TypeOK, Files
  <2>6. /\ [file.hdr EXCEPT ![Len(list) + 1] = h] \in [1 .. Frags -> Header \cup {Nothing}]
        /\ [file.hdr EXCEPT ![Len(list) + 1] = h][Len(list) + 1] = h
    BY <1>0, <2>3, <2>4 DEF TypeOK, Files
  <2>7. file' \in Files /\ file'.hdr[Len(list) + 1] \in Header
    BY <1>0, <2>4, <2>5, <2>6 DEF TypeOK, Files
  <2> QED BY <1>0, <1>3, <2>3, <2>7 DEF TypeInv, TypeOK, StartHeader
<1>4. CASE StartGlobal
  <2>1. PICK k : k = Len(list) + 1
    OBVIOUS
  <2>2. k \in 0 .. Frags /\ k <= Frags /\ file.hdr[k] \in Header
    BY <1>0, <1>4, <2>1, BasketAssumption DEF TypeInv, StartGlobal
  <2>3. file' = [use |-> file.use, num |-> k, hdr |-> file.hdr, slot |-> file.slot, data |-> file.data]
    BY <1>0, <1>4, <2>1 DEF TypeOK, Files, StartGlobal
  <2>4. file' \in Files
    BY <1>0, <2>2, <2>3 DEF TypeOK, Files
  <2> QED BY <1>0, <1>4, <2>1, <2>2, <2>3, <2>4 DEF TypeInv, TypeOK, StartGlobal
<1>5. CASE StartSync
  <2>1. PICK h \in Header : h = file.hdr[Len(list) + 1]
    BY <1>5 DEF TypeInv, StartSync
  <2>2. list' = Append(list, h) /\ Len(list) + 1 <= Frags
    BY <1>5, <2>1 DEF TypeInv, StartSync
  <2>3. list' \in Seq(Header) /\ Len(list') <= Frags /\ list' # <<>>
    BY <1>0, <2>2
  <2> QED BY <1>0, <1>5, <2>3 DEF TypeInv, TypeOK, StartSync
<1>6. CASE Write
  <2>1. /\ list # <<>> /\ list[Len(list)] \in Header /\ End \in 1 .. Slots
        /\ End = list[Len(list)].first + list[Len(list)].n
    BY <1>0, <1>1, <1>6, BasketAssumption, HeaderIs DEF TypeInv, Write, End, Room
  <2>2. PICK e : e = [use |-> use, gop |-> gop']
    OBVIOUS
  <2>3. e \in Entry /\ gop' \in 0 .. MaxGop
    BY <1>0, <1>6, <2>2, BasketAssumption DEF TypeOK, Write, Entry
  <2>4. file' = [use |-> file.use, num |-> file.num, hdr |-> file.hdr,
                 slot |-> [file.slot EXCEPT ![End] = e], data |-> [file.data EXCEPT ![End] = e]]
    BY <1>0, <1>6, <2>2 DEF TypeOK, Files, Write
  <2>5. /\ [file.slot EXCEPT ![End] = e] \in [1 .. Slots -> Entry \cup {Nothing}]
        /\ [file.data EXCEPT ![End] = e] \in [1 .. Slots -> Entry \cup {Nothing}]
    BY <1>0, <2>3 DEF TypeOK, Files
  <2>6. file' \in Files
    BY <1>0, <2>4, <2>5 DEF TypeOK, Files
  <2>7. PICK h : h = [[list[Len(list)] EXCEPT !.n = list[Len(list)].n + 1] EXCEPT !.late = FALSE]
    OBVIOUS
  <2>8. h \in Header
    <3>1. list[Len(list)].n + 1 \in 0 .. Slots
      BY <2>1, HeaderIs
    <3>2. PICK n \in 0 .. Slots : n = list[Len(list)].n + 1
      BY <3>1
    <3>3. [[list[Len(list)] EXCEPT !.n = n] EXCEPT !.late = FALSE] \in Header
      BY <2>1 DEF Header
    <3> QED BY <2>7, <3>2, <3>3
  <2>9. list' = [list EXCEPT ![Len(list)] = h]
    BY <1>0, <1>6, <2>1, <2>7 DEF Write
  <2>10. list' \in Seq(Header) /\ Len(list') = Len(list) /\ list' # <<>>
    BY <1>0, <2>1, <2>8, <2>9
  <2> QED BY <1>0, <1>6, <2>3, <2>6, <2>10 DEF TypeInv, TypeOK, Write
<1>7. CASE StopHeader
  <2>1. list # <<>> /\ list[Len(list)] \in Header /\ Len(list) \in 1 .. Frags
    BY <1>0, <1>1, <1>7 DEF TypeInv, StopHeader
  <2>2. PICK h \in Header : h = [list[Len(list)] EXCEPT !.writing = FALSE]
    BY <2>1 DEF Header
  <2>3. list' = [list EXCEPT ![Len(list)] = h]
    BY <1>7, <2>2 DEF StopHeader
  <2>4. list' \in Seq(Header) /\ Len(list') = Len(list) /\ list' # <<>> /\ list'[Len(list)] = h
    BY <1>0, <2>1, <2>3
  <2>5. file' = [use |-> file.use, num |-> file.num, hdr |-> [file.hdr EXCEPT ![Len(list)] = h],
                 slot |-> file.slot, data |-> file.data]
    BY <1>0, <1>7, <2>4 DEF TypeOK, Files, StopHeader
  <2>6. [file.hdr EXCEPT ![Len(list)] = h] \in [1 .. Frags -> Header \cup {Nothing}]
    BY <1>0 DEF TypeOK, Files
  <2>7. file' \in Files
    BY <1>0, <2>5, <2>6 DEF TypeOK, Files
  <2> QED BY <1>0, <1>7, <2>4, <2>7 DEF TypeInv, TypeOK, StopHeader
<1>8. CASE StopSync
  BY <1>0, <1>8 DEF TypeInv, TypeOK, StopSync, Synced
<1>9. CASE WriteBack
  <2>1. disk' \in Files
    BY <1>0, <1>9, MixedFiles DEF TypeOK, WriteBack
  <2> QED BY <1>0, <1>9, <2>1 DEF TypeInv, TypeOK, WriteBack
<1>10. CASE Kill \/ PowerCut
  <2>1. file' \in Files /\ disk' \in Files /\ cut' \in BOOLEAN
    <3>1. file \in Files /\ disk \in Files /\ cut \in BOOLEAN /\ FirstPage(disk, file) \in Files
      BY <1>0, MixedFiles DEF TypeOK
    <3>2. CASE Kill
      BY <3>1, <3>2 DEF Kill
    <3>3. CASE PowerCut
      <4>1. PICK f, hdrs, slots, datas :
              f \in {FirstPage(disk, file), disk} /\ disk' = Others(f, file, hdrs, slots, datas)
        BY <3>3 DEF PowerCut
      <4>2. f \in Files
        BY <3>1, <4>1
      <4> QED BY <3>1, <3>3, <4>1, <4>2, MixedFiles DEF PowerCut
    <3> QED BY <1>10, <3>2, <3>3
  <2>2. /\ phase' = "down" /\ use' = 0 /\ list' = <<>> /\ crashes' = crashes + 1 /\ crashes < MaxCrash
        /\ gop' = gop
    BY <1>10 DEF Kill, PowerCut, Down
  <2>3. use' \in 0 .. MaxUse /\ list' \in Seq(Header) /\ Len(list') <= Frags /\ crashes' \in 0 .. MaxCrash
    BY <1>0, <2>2, BasketAssumption DEF TypeOK
  <2> QED BY <1>0, <2>1, <2>2, <2>3 DEF TypeInv, TypeOK
<1>11. CASE Scan
  <2>1. PICK found : found = Recovered(file)
    OBVIOUS
  <2>2. found \in Seq(Header) /\ Len(found) \in 0 .. file.num /\ file.num \in 0 .. Frags
    BY <1>0, <2>1, RecoveredIs DEF TypeOK, Files
  <2>3. PICK h : h = [k \in 1 .. Frags |-> IF k <= Len(found) THEN found[k] ELSE file.hdr[k]]
    OBVIOUS
  <2>4. h \in [1 .. Frags -> Header \cup {Nothing}]
    <3>1. \A k \in 1 .. Frags : k <= Len(found) => found[k] \in Header
      BY <2>2
    <3> QED BY <1>0, <2>3, <3>1 DEF TypeOK, Files
  <2>5. file' = [use |-> file.use, num |-> Len(found), hdr |-> h, slot |-> file.slot, data |-> file.data]
    BY <1>0, <1>11, <2>1, <2>3 DEF TypeOK, Files, Scan
  <2>6. Len(found) \in 0 .. Frags /\ Len(found) <= Frags
    BY <2>2, BasketAssumption
  <2>7. file' \in Files
    BY <1>0, <2>4, <2>5, <2>6 DEF TypeOK, Files
  <2> QED BY <1>0, <1>11, <2>1, <2>2, <2>6, <2>7 DEF TypeInv, TypeOK, Files, Scan
<1>12. CASE UNCHANGED vars
  BY <1>12 DEF TypeInv, TypeOK, vars
<1> QED
  BY <1>2, <1>3, <1>4, <1>5, <1>6, <1>7, <1>8, <1>9, <1>10, <1>11, <1>12 DEF Next

LEMMA TypeAlways == Spec => []TypeInv
<1>1. Init => TypeInv
  <2> SUFFICES ASSUME Init PROVE TypeInv
    OBVIOUS
  <2>1. Blank \in Files
    BY BasketAssumption DEF Blank, Files
  <2>2. <<>> \in Seq(Header) /\ Len(<<>>) <= Frags /\ 0 \in 0 .. MaxUse /\ 0 \in 0 .. MaxGop
        /\ 0 \in 0 .. MaxCrash
    BY BasketAssumption
  <2> QED BY <2>1, <2>2 DEF Init, TypeInv, TypeOK
<1>2. TypeInv /\ [Next]_vars => TypeInv'
  BY TypeStep
<1> QED BY <1>1, <1>2, PTL DEF Spec

\* strg_basket.c: whatever is left in the file by crashes, also where headers lie in several
\* pages: what a scan takes from it are fragments that lie in the basket.
THEOREM TypeCorrect == Spec => []TypeOK
<1>1. TypeInv => TypeOK
  BY DEF TypeInv
<1> QED BY <1>1, TypeAlways, PTL

-----------------------------------------------------------------------------
(***************************************************************************)
(* What a power cut leaves.                                                *)
(***************************************************************************)

\* No more fragments are counted than have their headers in the page of the global record.
FewFragments == file.num <= Shared

OnePage == file.num <= Shared /\ disk.num <= Shared

\* The first page as a whole.
LEMMA FirstPageIs ==
  ASSUME NEW f \in Files, NEW g \in Files, g.num <= Shared
  PROVE  /\ FirstPage(f, g) \in Files /\ SameHeaders(FirstPage(f, g), g)
         /\ FirstPage(f, g).slot = f.slot /\ FirstPage(f, g).data = f.data
<1>1. PICK h : h = [k \in 1 .. Frags |-> IF k <= Shared THEN g.hdr[k] ELSE f.hdr[k]]
  OBVIOUS
<1>2. PICK p : p = FirstPage(f, g)
  OBVIOUS
<1>3. p = [f EXCEPT !.use = g.use, !.num = g.num, !.hdr = h]
  BY <1>1, <1>2 DEF FirstPage
<1>4. p.use = g.use /\ p.num = g.num /\ p.hdr = h /\ p.slot = f.slot /\ p.data = f.data
  BY <1>3 DEF Files
<1>5. \A k \in 1 .. g.num : k \in 1 .. Frags /\ k <= Shared
  BY BasketAssumption DEF Files
<1>6. SameHeaders(p, g)
  BY <1>1, <1>4, <1>5 DEF SameHeaders
<1> QED BY <1>2, <1>4, <1>6, MixedFiles

\* Writing what is there changes nothing.
LEMMA FirstPageSelf ==
  ASSUME NEW f \in Files
  PROVE  FirstPage(f, f) = f
<1>1. [k \in 1 .. Frags |-> IF k <= Shared THEN f.hdr[k] ELSE f.hdr[k]] = f.hdr
  BY DEF Files
<1> QED BY <1>1 DEF FirstPage, Files

\* The counted headers are those on the disk or those in the file, and each entry and
\* each group of frames is the one or the other by itself.
LEMMA PowerCutIs ==
  ASSUME OnePage, TypeOK, PowerCut
  PROVE  /\ file' \in Files
         /\ SameHeaders(file', disk) \/ SameHeaders(file', file)
         /\ \A i \in 1 .. Slots : file'.slot[i] \in {disk.slot[i], file.slot[i]}
         /\ \A i \in 1 .. Slots : file'.data[i] \in {disk.data[i], file.data[i]}
<1>1. PICK first \in BOOLEAN, hdrs \in SUBSET {k \in Differ(disk.hdr, file.hdr) : k > Shared},
           slots \in SUBSET Differ(disk.slot, file.slot), datas \in SUBSET Differ(disk.data, file.data) :
        file' = Others(IF first THEN FirstPage(disk, file) ELSE disk, file, hdrs, slots, datas)
  BY DEF PowerCut
<1>2. PICK f : f = IF first THEN FirstPage(disk, file) ELSE disk
  OBVIOUS
<1>3. /\ f \in Files /\ f.slot = disk.slot /\ f.data = disk.data /\ f.num <= Shared
      /\ SameHeaders(f, disk) \/ SameHeaders(f, file)
  <2>1. CASE first
    <3>1. /\ f \in Files /\ SameHeaders(f, file) /\ f.slot = disk.slot /\ f.data = disk.data
      BY <1>2, <2>1, FirstPageIs DEF TypeOK, OnePage
    <3> QED BY <3>1 DEF SameHeaders, OnePage
  <2>2. CASE ~first
    BY <1>2, <2>2 DEF TypeOK, OnePage, SameHeaders
  <2> QED BY <2>1, <2>2
<1>4. PICK h, s, d : /\ h = [k \in 1 .. Frags |-> IF k \in hdrs THEN file.hdr[k] ELSE f.hdr[k]]
                     /\ s = [i \in 1 .. Slots |-> IF i \in slots THEN file.slot[i] ELSE f.slot[i]]
                     /\ d = [i \in 1 .. Slots |-> IF i \in datas THEN file.data[i] ELSE f.data[i]]
  OBVIOUS
<1>5. file' = [f EXCEPT !.hdr = h, !.slot = s, !.data = d]
  BY <1>1, <1>2, <1>4 DEF Others
<1>6. file'.use = f.use /\ file'.num = f.num /\ file'.hdr = h /\ file'.slot = s /\ file'.data = d
  BY <1>3, <1>5 DEF Files
<1>7. \A k \in 1 .. f.num : h[k] = f.hdr[k]
  <2>1. \A k \in 1 .. f.num : k \in 1 .. Frags /\ k <= Shared
    BY <1>3, BasketAssumption DEF Files
  <2>2. \A k \in hdrs : k > Shared
    OBVIOUS
  <2>3. \A k \in 1 .. f.num : k \notin hdrs
    BY <1>3, <2>1, <2>2, BasketAssumption DEF Files
  <2> QED BY <1>4, <2>1, <2>3
<1>8. SameHeaders(file', disk) \/ SameHeaders(file', file)
  BY <1>3, <1>6, <1>7 DEF SameHeaders
<1>9. file' \in Files
  BY <1>1, <1>2, <1>3, MixedFiles DEF TypeOK
<1> QED BY <1>3, <1>4, <1>6, <1>8, <1>9

-----------------------------------------------------------------------------
(***************************************************************************)
(* Every step keeps the invariant.                                         *)
(***************************************************************************)

\* A new basket is empty.
LEMMA BasketInit == Init => BasketInv
<1> SUFFICES ASSUME Init PROVE BasketInv
  OBVIOUS
<1>1. Blank \in Files /\ Blank.num = 0 /\ Blank.use = 0 /\ \A p \in 1 .. Slots : Blank.slot[p] = Nothing
  BY BasketAssumption DEF Blank, Files
<1>2. TypeOK
  <2>1. <<>> \in Seq(Header) /\ Len(<<>>) <= Frags
    BY BasketAssumption
  <2>2. 0 \in 0 .. MaxUse /\ 0 \in 0 .. MaxGop /\ 0 \in 0 .. MaxCrash
    BY BasketAssumption
  <2> QED BY <1>1, <2>1, <2>2 DEF Init, TypeOK
<1>3. ListOK /\ HeadersOK(file) /\ HeadersOK(disk) /\ Past(file) /\ Past(disk)
  BY <1>1 DEF Init, ListOK, HeadersOK, InOrder, Past
<1>4. IdleInv
  BY <1>1 DEF Init, IdleInv, AllFinished, Listed
<1> QED BY <1>2, <1>3, <1>4 DEF Init, BasketInv, StartInv, OpenInv, DownInv

\* Where the next fragment begins is behind all of them.
LEMMA EndIs ==
  ASSUME TypeOK, ListOK
  PROVE  /\ End \in 1 .. Slots + 1
         /\ \A k \in 1 .. Len(list) : list[k].first + list[k].n <= End
         /\ list = <<>> => End = 1
         /\ list # <<>> => Len(list) \in 1 .. Frags /\ Last \in Header /\ End = Last.first + Last.n
<1>1. CASE list = <<>>
  BY <1>1, BasketAssumption DEF End
<1>2. CASE list # <<>>
  <2>1. Len(list) \in 1 .. Frags /\ Last \in Header /\ End = Last.first + Last.n
    BY <1>2, BasketAssumption DEF TypeOK, End, Last
  <2>2. End \in 1 .. Slots + 1
    BY <1>2, <2>1, BasketAssumption DEF ListOK, InOrder, Header, Last
  <2>3. \A k \in 1 .. Len(list) : list[k].first + list[k].n <= End
    <3> SUFFICES ASSUME NEW k \in 1 .. Len(list) PROVE list[k].first + list[k].n <= End
      OBVIOUS
    <3>1. CASE k = Len(list)
      BY <2>1, <2>2, <3>1 DEF Last
    <3>2. CASE k # Len(list)
      <4>1. list[k].first + list[k].n <= Last.first
        BY <2>1, <3>2 DEF ListOK, InOrder, Last
      <4>2. list[k] \in Header
        BY DEF ListOK, InOrder
      <4> QED BY <2>1, <4>1, <4>2, BasketAssumption DEF Header
    <3> QED BY <3>1, <3>2
  <2> QED BY <1>2, <2>1, <2>2, <2>3
<1> QED BY <1>1, <1>2

\* A header whose fragment grows keeps its other parts.
LEMMA HeaderGrown ==
  ASSUME NEW h \in Header, NEW i, NEW l
  PROVE  [[h EXCEPT !.n = i] EXCEPT !.late = l]
           = [use |-> h.use, begin |-> h.begin, late |-> l, first |-> h.first, n |-> i,
              writing |-> h.writing]
<1>1. PICK g : g = [h EXCEPT !.n = i]
  OBVIOUS
<1>2. g = [use |-> h.use, begin |-> h.begin, late |-> h.late, first |-> h.first, n |-> i,
           writing |-> h.writing]
  BY <1>1 DEF Header
<1>3. [g EXCEPT !.late = l]
        = [use |-> h.use, begin |-> h.begin, late |-> l, first |-> h.first, n |-> i,
           writing |-> h.writing]
  BY <1>2
<1> QED BY <1>1, <1>3

\* What is in an index entry, or in a group, is an entry.
LEMMA EntryIs ==
  ASSUME NEW f \in Files, NEW p \in 1 .. Slots
  PROVE  /\ f.slot[p] # Nothing => f.slot[p] \in Entry /\ f.slot[p].gop \in Nat
         /\ f.data[p] # Nothing => f.data[p] \in Entry /\ f.data[p].gop \in Nat
<1>1. \A e \in Entry : e.gop \in Nat
  BY BasketAssumption DEF Entry
<1>2. f.slot[p] \in Entry \cup {Nothing} /\ f.data[p] \in Entry \cup {Nothing}
  BY DEF Files
<1> QED BY <1>1, <1>2

\* The order of fragments depends on nothing but their headers.
LEMMA InOrderSame ==
  ASSUME NEW m \in Nat, NEW a, NEW b, InOrder(a, m), \A j \in 1 .. m : b[j] = a[j]
  PROVE  InOrder(b, m)
<1>1. \A j \in 1 .. m - 1 : j \in 1 .. m /\ j + 1 \in 1 .. m
  OBVIOUS
<1> QED BY <1>1 DEF InOrder

\* Files that count the same headers have them in the same order.
LEMMA HeadersSame ==
  ASSUME NEW f, NEW g \in Files, HeadersOK(g), SameHeaders(f, g)
  PROVE  HeadersOK(f)
<1>1. g.num \in Nat
  BY BasketAssumption DEF Files
<1>2. InOrder(f.hdr, g.num)
  BY <1>1, InOrderSame DEF HeadersOK, SameHeaders
<1> QED BY <1>2 DEF HeadersOK, SameHeaders

\* The last fragment may become longer as long as it stays in the file.
LEMMA InOrderLast ==
  ASSUME NEW m \in Nat \ {0}, NEW a, NEW b, InOrder(a, m), \A j \in 1 .. m - 1 : b[j] = a[j],
         b[m] \in Header, b[m].first = a[m].first, b[m].first + b[m].n <= Slots + 1
  PROVE  InOrder(b, m)
<1>1. \A j \in 1 .. m : b[j].first = a[j].first
  OBVIOUS
<1>2. \A j \in 1 .. m : b[j] \in Header /\ b[j].first + b[j].n <= Slots + 1
  BY DEF InOrder
<1>3. \A j \in 1 .. m - 1 : ~b[j].writing /\ b[j+1].first = b[j].first + b[j].n
  <2>1. \A j \in 1 .. m - 1 : j + 1 \in 1 .. m
    OBVIOUS
  <2> QED BY <1>1, <2>1 DEF InOrder
<1>4. \A i, j \in 1 .. m : i < j => b[i].first + b[i].n <= b[j].first
  <2>1. \A i, j \in 1 .. m : i < j => i \in 1 .. m - 1
    OBVIOUS
  <2> QED BY <1>1, <2>1 DEF InOrder
<1> QED BY <1>2, <1>3, <1>4 DEF InOrder

\* A reset empties the list and the count, and leaves old parts behind.
LEMMA ResetKeeps ==
  ASSUME BasketInv, Reset
  PROVE  BasketInv'
<1>1. disk = file /\ file.num = Len(list) /\ Listed(file, Len(list)) /\ AllFinished
  BY DEF BasketInv, IdleInv, Reset
<1>2. file' = [use |-> use', num |-> 0, hdr |-> file.hdr, slot |-> file.slot, data |-> file.data]
  BY DEF BasketInv, TypeOK, Files, Reset
<1>3. TypeOK'
  BY <1>2, BasketAssumption DEF BasketInv, TypeOK, Files, Reset
<1>4. ListOK' /\ HeadersOK(file)' /\ HeadersOK(disk)' /\ Past(file)' /\ Past(disk)'
  BY <1>2 DEF BasketInv, ListOK, HeadersOK, InOrder, Past, Reset
<1>5. StartInv'
  <2>1. Finished(disk')
    BY <1>1 DEF Reset, Finished, AllFinished, Listed
  <2> QED BY <1>1, <1>2, <2>1 DEF Reset, StartInv, AllFinished, Listed, SameParts
<1>6. IdleInv' /\ OpenInv' /\ DownInv'
  BY DEF Reset, IdleInv, OpenInv, DownInv
<1> QED BY <1>3, <1>4, <1>5, <1>6 DEF BasketInv

\* The header of a new fragment is written behind the last one.
LEMMA StartHeaderKeeps ==
  ASSUME BasketInv, StartHeader
  PROVE  BasketInv'
<1> DEFINE k == Len(list) + 1
<1>1. k \in 1 .. Frags /\ End \in 1 .. Slots /\ use \in 0 .. MaxUse /\ gop \in 0 .. MaxGop
  BY EndIs DEF BasketInv, TypeOK, StartHeader, Room
<1>2. PICK late \in BOOLEAN :
        file' = [file EXCEPT !.hdr[k] = [use |-> use, begin |-> gop + 1, late |-> late,
                                         first |-> End, n |-> 0, writing |-> TRUE]]
  BY DEF StartHeader
<1> DEFINE h == [use |-> use, begin |-> gop + 1, late |-> late, first |-> End, n |-> 0, writing |-> TRUE]
<1>3. h \in Header
  BY <1>1, BasketAssumption DEF Header
<1>4. h.use = use /\ h.begin = gop + 1 /\ h.first = End /\ h.n = 0 /\ h.writing
  OBVIOUS
<1> HIDE DEF h
<1>5. file' = [use |-> file.use, num |-> file.num, hdr |-> [file.hdr EXCEPT ![k] = h],
               slot |-> file.slot, data |-> file.data]
  BY <1>2 DEF BasketInv, TypeOK, Files, h
<1>6. TypeOK'
  <2>1. [file.hdr EXCEPT ![k] = h] \in [1 .. Frags -> Header \cup {Nothing}]
    BY <1>3 DEF BasketInv, TypeOK, Files
  <2> QED BY <1>5, <2>1 DEF BasketInv, TypeOK, Files, StartHeader
<1>7. file.num = Len(list) /\ Listed(file, Len(list)) /\ AllFinished /\ SameParts(disk, file)
  BY DEF BasketInv, IdleInv, StartInv, SameParts, StartHeader
<1>8. \A j \in 1 .. file.num : file'.hdr[j] = file.hdr[j]
  BY <1>1, <1>5, <1>7 DEF BasketInv, TypeOK, Files
<1>9. HeadersOK(file')
  BY <1>1, <1>5, <1>7, <1>8 DEF BasketInv, HeadersOK, InOrder
<1>10. ListOK' /\ HeadersOK(file)' /\ HeadersOK(disk)' /\ Past(file)' /\ Past(disk)'
  BY <1>5, <1>9 DEF BasketInv, ListOK, HeadersOK, InOrder, Past, StartHeader
<1>11. StartInv'
  <2>1. NewHeader(file)'
    <3>1. file'.hdr[k] = h
      BY <1>1, <1>5 DEF BasketInv, TypeOK, Files
    <3>2. End' = End
      BY DEF End, StartHeader
    <3> QED BY <1>1, <1>3, <1>4, <3>1, <3>2 DEF NewHeader, StartHeader
  <2>2. Finished(disk) /\ (list = <<>> \/ (disk.num = Len(list) /\ Listed(disk, Len(list))))
    BY DEF BasketInv, IdleInv, StartInv, StartHeader, Finished, AllFinished, Listed
  <2>3. Listed(file', Len(list)) /\ file'.num = Len(list)
    BY <1>5, <1>7, <1>8 DEF Listed
  <2>4. SameParts(disk, file')
    BY <1>5, <1>7 DEF SameParts
  <2> QED BY <1>7, <2>1, <2>2, <2>3, <2>4 DEF StartHeader, StartInv, AllFinished, Listed, Finished, SameParts
<1>12. IdleInv' /\ OpenInv' /\ DownInv'
  BY DEF StartHeader, IdleInv, OpenInv, DownInv
<1> QED BY <1>6, <1>10, <1>11, <1>12 DEF BasketInv

\* The global record counts it.
LEMMA StartGlobalKeeps ==
  ASSUME BasketInv, StartGlobal
  PROVE  BasketInv'
<1> DEFINE k == Len(list) + 1
           h == file.hdr[k]
<1>1. file' = [use |-> file.use, num |-> k, hdr |-> file.hdr, slot |-> file.slot, data |-> file.data]
  BY DEF BasketInv, TypeOK, Files, StartGlobal
<1>2. /\ k \in 1 .. Frags /\ h \in Header
      /\ h.use = use /\ h.begin = gop + 1 /\ h.first = End /\ h.n = 0 /\ h.writing
  BY DEF BasketInv, StartInv, NewHeader, StartGlobal, TypeOK
<1>3. TypeOK'
  <2>1. file' \in Files
    <3>1. k \in 0 .. Frags
      BY <1>2, BasketAssumption
    <3> HIDE DEF k
    <3> QED BY <1>1, <3>1 DEF BasketInv, TypeOK, Files
  <2> QED BY <2>1 DEF BasketInv, TypeOK, StartGlobal
<1>4. Listed(file, Len(list)) /\ AllFinished /\ k - 1 = Len(list)
  BY <1>2 DEF BasketInv, StartInv, StartGlobal, TypeOK
<1>5. HeadersOK(file')
  <2> DEFINE H == file'.hdr
  <2>0. /\ H[k] = h /\ h.first + h.n = End /\ End \in 1 .. Slots + 1 /\ file'.use = use
        /\ \A j \in 1 .. k - 1 : H[j] = list[j] /\ j \in 1 .. Len(list)
    <3>1. H = file.hdr /\ file'.use = file.use /\ file.use = use
      BY <1>1, <1>4 DEF Listed
    <3>2. End \in 1 .. Slots + 1
      BY EndIs DEF BasketInv
    <3> QED BY <1>2, <1>4, <3>1, <3>2 DEF Listed
  <2> HIDE DEF H, h
  <2>1. \A j \in 1 .. k : H[j] \in Header /\ H[j].use = file'.use /\ H[j].first + H[j].n <= Slots + 1
    <3> SUFFICES ASSUME NEW j \in 1 .. k
                 PROVE  H[j] \in Header /\ H[j].use = file'.use /\ H[j].first + H[j].n <= Slots + 1
      OBVIOUS
    <3>1. CASE j = k
      BY <1>2, <2>0, <3>1, BasketAssumption
    <3>2. CASE j # k
      <4>1. j \in 1 .. k - 1 /\ j \in 1 .. Len(list)
        BY <1>2, <1>4, <3>2
      <4> QED BY <2>0, <4>1 DEF BasketInv, ListOK, InOrder
    <3> QED BY <3>1, <3>2
  <2>2. \A j \in 1 .. k - 1 : ~H[j].writing
    BY <1>4, <2>0 DEF AllFinished
  <2>3. \A j \in 1 .. k - 1 : H[j+1].first = H[j].first + H[j].n
    <3> SUFFICES ASSUME NEW j \in 1 .. k - 1 PROVE H[j+1].first = H[j].first + H[j].n
      OBVIOUS
    <3>1. CASE j + 1 = k
      <4>1. list # <<>> /\ j = Len(list)
        <5>1. Len(list) \in Nat /\ j \in 1 .. Len(list)
          BY <2>0 DEF BasketInv, TypeOK
        <5>2. j = Len(list)
          BY <3>1, <5>1
        <5> QED BY <5>1, <5>2
      <4>2. End = list[j].first + list[j].n
        BY <4>1, EndIs DEF BasketInv, Last
      <4> QED BY <1>2, <2>0, <3>1, <4>2
    <3>2. CASE j + 1 # k
      <4>1. j \in 1 .. k - 1 /\ j + 1 \in 1 .. k - 1
        BY <1>2, <1>4, <3>2
      <4>2. list[j+1].first = list[j].first + list[j].n
        BY <1>2, <1>4, <4>1 DEF BasketInv, ListOK, InOrder
      <4> QED BY <2>0, <4>1, <4>2
    <3> QED BY <3>1, <3>2
  <2>4. \A i, j \in 1 .. k : i < j => H[i].first + H[i].n <= H[j].first
    <3> SUFFICES ASSUME NEW i \in 1 .. k, NEW j \in 1 .. k, i < j
                 PROVE  H[i].first + H[i].n <= H[j].first
      OBVIOUS
    <3>1. i \in 1 .. k - 1 /\ i \in 1 .. Len(list) /\ H[i] = list[i]
      BY <1>2, <1>4, <2>0
    <3>2. CASE j = k
      BY <1>2, <2>0, <3>1, <3>2, EndIs DEF BasketInv
    <3>3. CASE j # k
      <4>1. j \in 1 .. Len(list) /\ H[j] = list[j]
        BY <1>2, <1>4, <2>0, <3>3
      <4> QED BY <3>1, <4>1 DEF BasketInv, ListOK, InOrder
    <3> QED BY <3>2, <3>3
  <2>5. file'.num = k
    BY <1>1
  <2> QED BY <2>1, <2>2, <2>3, <2>4, <2>5 DEF HeadersOK, InOrder, H
<1>6. ListOK' /\ HeadersOK(file)' /\ HeadersOK(disk)' /\ Past(file)' /\ Past(disk)'
  BY <1>1, <1>5 DEF BasketInv, ListOK, HeadersOK, InOrder, Past, StartGlobal
<1>7. StartInv'
  <2>1. NewHeader(file)'
    BY <1>1, <1>2 DEF NewHeader, StartGlobal, End
  <2> QED BY <1>1, <1>4, <2>1 DEF BasketInv, StartGlobal, StartInv, AllFinished, Listed, Finished, SameParts
<1>8. IdleInv' /\ OpenInv' /\ DownInv'
  BY DEF StartGlobal, IdleInv, OpenInv, DownInv
<1> QED BY <1>3, <1>6, <1>7, <1>8 DEF BasketInv

\* From the fdatasync on the fragment is there, with nothing in it.
LEMMA StartSyncKeeps ==
  ASSUME BasketInv, StartSync
  PROVE  BasketInv'
<1> DEFINE k == Len(list) + 1
           h == file.hdr[k]
<1>1. /\ k \in 1 .. Frags /\ h \in Header /\ Len(list) \in Nat
      /\ h.use = use /\ h.begin = gop + 1 /\ h.first = End /\ h.n = 0 /\ h.writing
  BY DEF BasketInv, StartInv, NewHeader, StartSync, TypeOK
<1>2. file.num = k /\ Listed(file, Len(list)) /\ AllFinished /\ file.use = use
  BY DEF BasketInv, StartInv, StartSync, Listed
<1>3. /\ Len(list') = k /\ list' \in Seq(Header)
      /\ \A j \in 1 .. k : list'[j] = file.hdr[j]
  <2>1. list' = Append(list, h) /\ list \in Seq(Header)
    BY DEF BasketInv, TypeOK, StartSync
  <2> HIDE DEF h
  <2>2. Len(list') = k /\ list' \in Seq(Header) /\ list'[k] = h
    BY <1>1, <2>1
  <2>3. \A j \in 1 .. k - 1 : list'[j] = file.hdr[j]
    BY <1>1, <1>2, <2>1 DEF Listed
  <2> QED BY <1>1, <2>2, <2>3 DEF h
<1>0. h = file.hdr[k] /\ k - 1 = Len(list)
  BY <1>1
<1> HIDE DEF k, h
<1>4. /\ phase' = "writing" /\ disk' = file /\ file' = file /\ use' = use /\ gop' = gop
      /\ crashes' = crashes /\ cut' = cut
  BY DEF StartSync
<1>5. TypeOK'
  BY <1>1, <1>3, <1>4 DEF BasketInv, TypeOK
<1>6. ListOK'
  <2>1. InOrder(list', k)
    BY <1>1, <1>2, <1>3, InOrderSame DEF BasketInv, HeadersOK
  <2> QED BY <1>2, <1>3, <1>4, <2>1 DEF BasketInv, ListOK, HeadersOK
<1>7. HeadersOK(file)' /\ HeadersOK(disk)' /\ Past(file)' /\ Past(disk)'
  BY <1>4 DEF BasketInv, HeadersOK, InOrder, Past
<1>8. OpenInv'
  <2>1. Last' = h /\ list' # <<>>
    <3>1. list'[Len(list')] = h /\ list' # <<>>
      BY <1>0, <1>1, <1>3
    <3> QED BY <3>1 DEF Last
  <2>2. file'.num = Len(list') /\ disk'.num = Len(list')
        /\ Listed(file, Len(list) - 1)' /\ Listed(disk, Len(list) - 1)'
    <3>1. \A j \in 1 .. Len(list') - 1 : j \in 1 .. k
      BY <1>1, <1>3
    <3> QED BY <1>2, <1>3, <1>4, <3>1 DEF Listed
  <2>3. Stub(file.hdr[Len(list)])' /\ Stub(disk.hdr[Len(list)])'
    BY <1>0, <1>1, <1>3, <1>4, <2>1 DEF Stub
  <2>4. \A p \in 1 .. Slots : Old(file.slot[p])'
    <3>1. gop \in Nat /\ \A p \in 1 .. Slots : file.slot[p] # Nothing => file.slot[p].gop \in Nat
      BY EntryIs, BasketAssumption DEF BasketInv, TypeOK
    <3> QED BY <1>1, <1>4, <2>1, <3>1 DEF BasketInv, Past, Old
  <2>5. h.first \in Nat /\ h.first >= 1 /\ gop \in Nat /\ Slots \in Nat
    BY <1>1, HeaderIs, BasketAssumption DEF BasketInv, TypeOK
  <2>6. disk'.hdr[Len(list')] = h /\ file'.hdr[Len(list')] = h
    BY <1>0, <1>3, <1>4
  <2>7. \A p \in h.first .. Slots : p \in 1 .. Slots
    BY <2>5
  <2>8. h.first + h.n = h.first /\ h.first .. h.first + h.n - 1 = {}
    BY <1>1, <2>5
  <2> QED
    <3>1. \A p \in h.first .. Slots : Old(file.slot[p])' /\ Old(disk.slot[p])'
      BY <1>4, <2>4, <2>7 DEF Old
    <3>2. Last'.writing = (phase' = "writing")
      BY <1>1, <1>4, <2>1, HeaderIs
    <3> QED BY <1>1, <1>4, <2>1, <2>2, <2>3, <2>5, <2>6, <2>8, <3>1, <3>2 DEF OpenInv
<1>9. IdleInv' /\ StartInv' /\ DownInv'
  BY <1>4 DEF IdleInv, StartInv, DownInv
<1> QED BY <1>5, <1>6, <1>7, <1>8, <1>9 DEF BasketInv

\* A group makes the open fragment longer, in the file and not on the disk.
LEMMA WriteKeeps ==
  ASSUME BasketInv, Write
  PROVE  BasketInv'
<1> DEFINE m == Len(list)
           e == [use |-> use, gop |-> gop']
           h == list'[m]
<1>1. /\ m \in 1 .. Frags /\ list # <<>> /\ Last \in Header /\ Last.writing /\ Last.begin <= gop + 1
      /\ End = Last.first + Last.n /\ End \in 1 .. Slots /\ Last.use = use
  <2>1. list # <<>> /\ Last.writing /\ Last.begin <= gop + 1
    BY DEF BasketInv, OpenInv, Write
  <2>2. m \in 1 .. Frags /\ Last \in Header /\ End = Last.first + Last.n /\ End \in 1 .. Slots
    BY <2>1, EndIs DEF BasketInv, Write, Room
  <2> QED BY <2>1, <2>2 DEF BasketInv, ListOK, Last
<1>2. /\ phase = "writing" /\ phase' = "writing" /\ gop \in 0 .. MaxGop /\ gop' = gop + 1 /\ gop < MaxGop
      /\ disk' = disk /\ use' = use /\ crashes' = crashes /\ cut' = cut
  BY DEF Write, BasketInv, TypeOK
<1>3. e \in Entry /\ e.use = use /\ e.gop = gop'
  BY <1>2, BasketAssumption DEF BasketInv, TypeOK, Entry
<1>4. file' = [use |-> file.use, num |-> file.num, hdr |-> file.hdr,
               slot |-> [file.slot EXCEPT ![End] = e], data |-> [file.data EXCEPT ![End] = e]]
  BY <1>2 DEF BasketInv, TypeOK, Files, Write
<1>5. /\ list' \in Seq(Header) /\ Len(list') = m
      /\ \A j \in 1 .. m - 1 : list'[j] = list[j]
      /\ h \in Header /\ h.use = use /\ h.begin = Last.begin /\ h.first = Last.first
      /\ h.n = Last.n + 1 /\ h.writing
  <2>1. list' = [list EXCEPT ![m] = [use |-> Last.use, begin |-> Last.begin, late |-> FALSE,
                                     first |-> Last.first, n |-> Last.n + 1, writing |-> Last.writing]]
    <3>1. list' = [list EXCEPT ![m] = [[list[m] EXCEPT !.n = list[m].n + 1] EXCEPT !.late = FALSE]]
      BY <1>1 DEF BasketInv, TypeOK, Write
    <3>2. Last = list[m]
      BY DEF Last
    <3>3. [[Last EXCEPT !.n = Last.n + 1] EXCEPT !.late = FALSE]
            = [use |-> Last.use, begin |-> Last.begin, late |-> FALSE,
               first |-> Last.first, n |-> Last.n + 1, writing |-> Last.writing]
      BY <1>1, HeaderGrown
    <3> QED BY <3>1, <3>2, <3>3
  <2>2. [use |-> Last.use, begin |-> Last.begin, late |-> FALSE,
         first |-> Last.first, n |-> Last.n + 1, writing |-> Last.writing] \in Header
    BY <1>1, BasketAssumption DEF Header
  <2> QED BY <1>1, <2>1, <2>2 DEF BasketInv, TypeOK
<1> HIDE DEF m, e, h
<1>6. Last' = h /\ list' # <<>>
  BY <1>1, <1>5 DEF Last, m, h
<1>7. /\ file'.slot = [file.slot EXCEPT ![End] = e] /\ file'.data = [file.data EXCEPT ![End] = e]
      /\ file'.use = file.use /\ file'.num = file.num /\ file'.hdr = file.hdr
  BY <1>4
<1>8. /\ \A p \in 1 .. Slots : p # End => file'.slot[p] = file.slot[p] /\ file'.data[p] = file.data[p]
      /\ file'.slot[End] = e /\ file'.data[End] = e
  <2>1. DOMAIN file.slot = 1 .. Slots /\ DOMAIN file.data = 1 .. Slots
    BY DEF BasketInv, TypeOK, Files
  <2> QED BY <1>1, <1>7, <2>1
<1>9. TypeOK'
  <2>1. file' \in Files
    <3>1. [file.slot EXCEPT ![End] = e] \in [1 .. Slots -> Entry \cup {Nothing}]
      BY <1>3 DEF BasketInv, TypeOK, Files
    <3>2. [file.data EXCEPT ![End] = e] \in [1 .. Slots -> Entry \cup {Nothing}]
      BY <1>3 DEF BasketInv, TypeOK, Files
    <3> QED BY <1>4, <3>1, <3>2 DEF BasketInv, TypeOK, Files
  <2>2. gop' \in 0 .. MaxGop
    BY <1>2, BasketAssumption
  <2> QED BY <1>1, <1>2, <1>5, <2>1, <2>2 DEF BasketInv, TypeOK
<1>10. ListOK'
  <2>1. InOrder(list', m)
    <3>1. list[m] = Last /\ InOrder(list, m) /\ list'[m] = h
      BY DEF BasketInv, ListOK, Last, m, h
    <3>2. h.first + h.n <= Slots + 1
      BY <1>1, <1>5, HeaderIs
    <3> QED BY <1>1, <1>5, <3>1, <3>2, InOrderLast, BasketAssumption
  <2>2. \A j \in 1 .. m : list'[j].use = use
    BY <1>1, <1>5 DEF BasketInv, ListOK, h, m
  <2> QED BY <1>2, <1>5, <2>1, <2>2 DEF ListOK
<1>11. HeadersOK(file)' /\ HeadersOK(disk)'
  BY <1>2, <1>7 DEF BasketInv, HeadersOK, InOrder
<1>12. Past(file)' /\ Past(disk)'
  <2>1. \A p \in 1 .. Slots : /\ file.slot[p] # Nothing => file.slot[p].gop \in Nat
                              /\ disk.slot[p] # Nothing => disk.slot[p].gop \in Nat
    BY EntryIs DEF BasketInv, TypeOK
  <2>2. gop \in Nat /\ e.gop = gop'
    BY <1>2, <1>3, BasketAssumption
  <2> QED BY <1>2, <1>8, <2>1, <2>2 DEF BasketInv, Past
<1>13. OpenInv'
  <2>0. Len(list') = Len(list)
    BY <1>5 DEF m
  <2>1. Listed(file, Len(list) - 1)' /\ Listed(disk, Len(list) - 1)'
    BY <1>2, <1>5, <1>7, <2>0 DEF BasketInv, OpenInv, Listed, m
  <2>2. Stub(disk.hdr[Len(list)])' /\ Stub(file.hdr[Len(list)])'
    BY <1>1, <1>2, <1>5, <1>6, <1>7, <2>0 DEF BasketInv, OpenInv, Stub
  <2>3. /\ h.begin <= gop' + 1 /\ h.begin <= gop'
        /\ h.first \in Nat /\ h.n \in Nat /\ Last.first \in Nat /\ Last.n \in Nat /\ Slots \in Nat
        /\ 1 <= h.first
    BY <1>1, <1>2, <1>5, HeaderIs
  <2>4. \A p \in h.first .. h.first + h.n - 1 :
          /\ file'.slot[p] \in Entry /\ file'.data[p] = file'.slot[p]
          /\ file'.slot[p].use = use /\ file'.slot[p].gop >= h.begin
    <3> SUFFICES ASSUME NEW p \in h.first .. h.first + h.n - 1
                 PROVE  /\ file'.slot[p] \in Entry /\ file'.data[p] = file'.slot[p]
                        /\ file'.slot[p].use = use /\ file'.slot[p].gop >= h.begin
      OBVIOUS
    <3>1. CASE p = End
      <4>1. gop' >= h.begin
        BY <1>2, <2>3, <1>5, <1>1, HeaderIs
      <4> QED BY <1>3, <1>8, <3>1, <4>1
    <3>2. CASE p # End
      <4>1. p \in Last.first .. Last.first + Last.n - 1 /\ p \in 1 .. Slots
        BY <1>1, <1>5, <2>3, <3>2
      <4> QED BY <1>2, <1>5, <1>8, <3>2, <4>1 DEF BasketInv, OpenInv
    <3> QED BY <3>1, <3>2
  <2>5. \A p \in 1 .. h.first - 1 : disk.slot[p] = file'.slot[p] /\ disk.data[p] = file'.data[p]
    <3>1. \A p \in 1 .. h.first - 1 : p \in 1 .. Slots /\ p # End
      BY <1>1, <1>5, <2>3
    <3> QED BY <1>2, <1>5, <1>8, <3>1 DEF BasketInv, OpenInv
  <2>6. \A p \in h.first + h.n .. Slots : Old(file.slot[p])'
    <3>1. \A p \in h.first + h.n .. Slots : p \in 1 .. Slots /\ p # End /\ p \in Last.first + Last.n .. Slots
      BY <1>1, <1>5, <2>3
    <3> QED BY <1>2, <1>5, <1>6, <1>8, <3>1 DEF BasketInv, OpenInv, Old
  <2>7. \A p \in h.first .. Slots : Old(disk.slot[p])'
    BY <1>2, <1>5, <1>6 DEF BasketInv, OpenInv, Old
  <2>8. file'.num = Len(list') /\ disk'.num = Len(list') /\ Len(list') = m
    BY <1>2, <1>5, <1>7 DEF BasketInv, OpenInv, m
  <2>9. Last'.writing = (phase' = "writing")
    BY <1>2, <1>5, <1>6, HeaderIs
  <2> QED
    BY <1>2, <1>5, <1>6, <2>1, <2>2, <2>3, <2>4, <2>5, <2>6, <2>7, <2>8, <2>9 DEF OpenInv
<1>14. IdleInv' /\ StartInv' /\ DownInv'
  BY <1>2 DEF IdleInv, StartInv, DownInv
<1> QED BY <1>9, <1>10, <1>11, <1>12, <1>13, <1>14 DEF BasketInv

\* The header gets its length, in the file and not on the disk.
LEMMA StopHeaderKeeps ==
  ASSUME BasketInv, StopHeader
  PROVE  BasketInv'
<1> DEFINE m == Len(list)
<1>1. /\ m \in 1 .. Frags /\ list # <<>> /\ Last \in Header /\ Last.begin <= gop + 1
      /\ phase = "writing" /\ phase' = "stopping" /\ Last.first + Last.n <= Slots + 1
  <2>1. list # <<>> /\ phase = "writing" /\ phase' = "stopping" /\ Last.begin <= gop + 1
    BY DEF BasketInv, OpenInv, StopHeader
  <2> QED BY <2>1, EndIs DEF BasketInv
<1>2. /\ disk' = disk /\ use' = use /\ gop' = gop /\ crashes' = crashes /\ cut' = cut
  BY DEF StopHeader
<1>3. PICK h : h = [Last EXCEPT !.writing = FALSE]
  OBVIOUS
<1>4. /\ h \in Header /\ h.use = Last.use /\ h.begin = Last.begin /\ h.first = Last.first
      /\ h.n = Last.n /\ h.writing = FALSE
  BY <1>1, <1>3 DEF Header
<1>5. list' = [list EXCEPT ![m] = h]
  BY <1>3 DEF StopHeader, Last
<1>6. /\ list' \in Seq(Header) /\ Len(list') = m /\ list'[m] = h /\ list' # <<>>
      /\ \A j \in 1 .. m - 1 : list'[j] = list[j]
  BY <1>1, <1>4, <1>5 DEF BasketInv, TypeOK
<1>7. Last' = h
  BY <1>6 DEF Last
<1>8. file' = [file EXCEPT !.hdr[m] = h]
  BY <1>6 DEF StopHeader
<1>9. file' = [use |-> file.use, num |-> file.num, hdr |-> [file.hdr EXCEPT ![m] = h],
               slot |-> file.slot, data |-> file.data]
  BY <1>8 DEF BasketInv, TypeOK, Files
<1>10. /\ file'.use = file.use /\ file'.num = file.num /\ file'.slot = file.slot /\ file'.data = file.data
       /\ file'.hdr[m] = h /\ \A j \in 1 .. m - 1 : file'.hdr[j] = file.hdr[j]
  <2>1. DOMAIN file.hdr = 1 .. Frags /\ \A j \in 1 .. m - 1 : j \in 1 .. Frags
    BY <1>1, BasketAssumption DEF BasketInv, TypeOK, Files
  <2>2. /\ file'.hdr = [file.hdr EXCEPT ![m] = h]
        /\ file'.use = file.use /\ file'.num = file.num /\ file'.slot = file.slot /\ file'.data = file.data
    BY <1>9
  <2>3. m \in 1 .. Frags /\ \A j \in 1 .. m - 1 : j # m
    BY <1>1, BasketAssumption
  <2> HIDE DEF m
  <2> QED BY <2>1, <2>2, <2>3
<1>11. TypeOK'
  <2>1. [file.hdr EXCEPT ![m] = h] \in [1 .. Frags -> Header \cup {Nothing}]
    BY <1>4 DEF BasketInv, TypeOK, Files
  <2>2. file' \in Files
    BY <1>9, <2>1 DEF BasketInv, TypeOK, Files
  <2> QED BY <1>1, <1>2, <1>6, <2>2 DEF BasketInv, TypeOK
<1>12. ListOK'
  <2>1. InOrder(list', m)
    <3>1. list[m] = Last /\ InOrder(list, m)
      BY DEF BasketInv, ListOK, Last
    <3> QED BY <1>1, <1>4, <1>6, <3>1, InOrderLast, BasketAssumption
  <2>2. \A j \in 1 .. m : list'[j].use = use
    BY <1>1, <1>4, <1>6 DEF BasketInv, ListOK, Last
  <2> QED BY <1>2, <1>6, <2>1, <2>2 DEF ListOK
<1>13. /\ file.num = m /\ disk.num = m /\ file.use = use /\ disk.use = use
       /\ \A j \in 1 .. m - 1 : file.hdr[j] = list[j] /\ disk.hdr[j] = list[j]
  BY <1>1 DEF BasketInv, OpenInv, Listed
<1>14. HeadersOK(file)' /\ HeadersOK(disk)' /\ Past(file)' /\ Past(disk)'
  <2>1. \A j \in 1 .. m : file'.hdr[j] = list'[j]
    BY <1>1, <1>6, <1>10, <1>13
  <2>2. InOrder(file'.hdr, m)
    BY <1>1, <1>6, <1>12, <2>1, InOrderSame DEF ListOK
  <2>3. HeadersOK(file')
    BY <1>2, <1>6, <1>10, <1>12, <1>13, <2>1, <2>2 DEF HeadersOK, ListOK
  <2> QED BY <1>2, <1>10, <2>3 DEF BasketInv, HeadersOK, InOrder, Past
<1>15. OpenInv'
  <2>1. Listed(file, Len(list) - 1)' /\ Listed(disk, Len(list) - 1)'
    BY <1>2, <1>6, <1>10, <1>13 DEF Listed
  <2>2. Stub(disk.hdr[Len(list)])'
    BY <1>1, <1>2, <1>4, <1>6, <1>7 DEF BasketInv, OpenInv, Stub
  <2>3. file'.hdr[Len(list')] = Last' /\ file'.num = Len(list') /\ disk'.num = Len(list')
    BY <1>2, <1>6, <1>7, <1>10, <1>13
  <2>4. Last'.writing = (phase' = "writing")
    BY <1>1, <1>4, <1>7
  <2>5. /\ \A p \in h.first .. h.first + h.n - 1 :
             /\ file.slot[p] \in Entry /\ file.data[p] = file.slot[p]
             /\ file.slot[p].use = use /\ file.slot[p].gop >= h.begin
        /\ \A p \in 1 .. h.first - 1 : disk.slot[p] = file.slot[p] /\ disk.data[p] = file.data[p]
    BY <1>1, <1>4 DEF BasketInv, OpenInv
  <2>6. /\ \A p \in h.first + h.n .. Slots : Old(file.slot[p])'
        /\ \A p \in h.first .. Slots : Old(disk.slot[p])'
    BY <1>1, <1>2, <1>4, <1>7, <1>10 DEF BasketInv, OpenInv, Old
  <2> QED
    BY <1>1, <1>2, <1>4, <1>6, <1>7, <1>10, <2>1, <2>2, <2>3, <2>4, <2>5, <2>6 DEF OpenInv
<1>16. IdleInv' /\ StartInv' /\ DownInv'
  BY <1>1 DEF IdleInv, StartInv, DownInv
<1> QED BY <1>11, <1>12, <1>14, <1>15, <1>16 DEF BasketInv

\* After the fdatasync file and disk agree.
LEMMA StopSyncKeeps ==
  ASSUME BasketInv, StopSync
  PROVE  BasketInv'
<1>1. /\ phase = "stopping" /\ phase' = "idle" /\ disk' = file /\ file' = file
      /\ use' = use /\ list' = list /\ gop' = gop /\ crashes' = crashes /\ cut' = cut
  BY DEF StopSync, Synced
<1>2. /\ list # <<>> /\ Len(list) \in Nat /\ file.num = Len(list) /\ ~Last.writing
      /\ Listed(file, Len(list) - 1) /\ file.hdr[Len(list)] = Last
  <2>1. /\ list # <<>> /\ file.num = Len(list) /\ Last.writing = (phase = "writing")
        /\ Listed(file, Len(list) - 1) /\ file.hdr[Len(list)] = Last
    BY <1>1 DEF BasketInv, OpenInv
  <2>2. ~Last.writing
    <3>1. (phase = "writing") = FALSE
      BY <1>1
    <3> QED BY <2>1, <3>1
  <2> QED BY <2>1, <2>2 DEF BasketInv, TypeOK
<1>3. AllFinished' /\ Listed(file, Len(list))'
  <2>1. \A k \in 1 .. Len(list) : k = Len(list) \/ k \in 1 .. Len(list) - 1
    BY <1>2
  <2> QED BY <1>1, <1>2, <2>1 DEF BasketInv, ListOK, InOrder, AllFinished, Listed, Last
<1>4. IdleInv'
  BY <1>1, <1>2, <1>3 DEF IdleInv
<1>5. TypeOK' /\ ListOK' /\ HeadersOK(file)' /\ HeadersOK(disk)' /\ Past(file)' /\ Past(disk)'
  BY <1>1 DEF BasketInv, TypeOK, ListOK, HeadersOK, InOrder, Past
<1>6. StartInv' /\ OpenInv' /\ DownInv'
  BY <1>1 DEF StartInv, OpenInv, DownInv
<1> QED BY <1>4, <1>5, <1>6 DEF BasketInv

\* The kernel writes the page of the headers whenever it likes.
LEMMA WriteBackKeeps ==
  ASSUME OnePage, BasketInv, WriteBack
  PROVE  BasketInv'
<1>1. /\ phase # "down" /\ phase' = phase /\ file' = file
      /\ use' = use /\ list' = list /\ gop' = gop /\ crashes' = crashes /\ cut' = cut
  BY DEF WriteBack
<1>2. /\ disk' \in Files /\ SameHeaders(disk', file)
      /\ disk'.slot = disk.slot /\ disk'.data = disk.data
  BY FirstPageIs DEF BasketInv, TypeOK, OnePage, WriteBack
<1>3. SameParts(disk, file) => SameParts(disk', file)
  BY <1>2 DEF SameParts
<1>4. HeadersOK(disk')
  BY <1>2, HeadersSame DEF BasketInv, TypeOK
<1>5. TypeOK' /\ ListOK' /\ HeadersOK(file)' /\ HeadersOK(disk)' /\ Past(file)' /\ Past(disk)'
  BY <1>1, <1>2, <1>4 DEF BasketInv, TypeOK, ListOK, HeadersOK, InOrder, Past
<1>6. IdleInv'
  <2> SUFFICES ASSUME phase = "idle" PROVE IdleInv'
    BY <1>1 DEF IdleInv
  <2>1. disk = file
    BY DEF BasketInv, IdleInv
  <2>2. disk' = file
    BY <2>1, FirstPageSelf DEF BasketInv, TypeOK, WriteBack
  <2> QED BY <1>1, <2>1, <2>2 DEF BasketInv, IdleInv, AllFinished, Listed
<1>7. StartInv'
  <2> SUFFICES ASSUME phase \in {"reset", "header", "global"} PROVE StartInv'
    BY <1>1 DEF StartInv
  <2>1. SameParts(disk', file)
    BY <1>3 DEF BasketInv, StartInv
  <2>2. phase # "global" => Finished(disk') /\ disk'.num = Len(list) /\ Listed(disk', Len(list))
    <3> SUFFICES ASSUME phase # "global"
                 PROVE  Finished(disk') /\ disk'.num = Len(list) /\ Listed(disk', Len(list))
      OBVIOUS
    <3>1. file.num = Len(list) /\ Listed(file, Len(list)) /\ AllFinished
      BY DEF BasketInv, StartInv
    <3>2. disk'.num = Len(list) /\ disk'.use = use /\ \A k \in 1 .. Len(list) : disk'.hdr[k] = list[k]
      BY <1>2, <3>1 DEF SameHeaders, Listed
    <3> QED BY <3>1, <3>2 DEF Finished, Listed, AllFinished
  <2>3. NewHeader(file)' <=> NewHeader(file)
    BY <1>1 DEF NewHeader, End
  <2>4. SameHeaders(disk', file')
    BY <1>1, <1>2
  <2> QED
    BY <1>1, <2>1, <2>2, <2>3, <2>4 DEF BasketInv, StartInv, SameParts, AllFinished, Listed, Finished
<1>8. OpenInv'
  <2> SUFFICES ASSUME phase \in {"writing", "stopping"} PROVE OpenInv'
    BY <1>1 DEF OpenInv
  <2>1. Last' = Last /\ Len(list) \in 1 .. Frags
    BY <1>1, EndIs DEF Last, BasketInv, OpenInv
  <2>2. disk'.num = Len(list) /\ disk'.use = use /\ \A k \in 1 .. Len(list) : disk'.hdr[k] = file.hdr[k]
    BY <1>2 DEF BasketInv, OpenInv, SameHeaders, Listed
  <2>3. disk'.hdr[Len(list)] = file.hdr[Len(list)]
    BY <2>1, <2>2
  <2>4. Stub(disk.hdr[Len(list)])' \/ (phase' = "stopping" /\ disk'.hdr[Len(list')] = Last')
    BY <1>1, <2>1, <2>3 DEF BasketInv, OpenInv, Stub
  <2>5. phase' = "writing" => Stub(file.hdr[Len(list)])'
    BY <1>1, <2>1 DEF BasketInv, OpenInv, Stub
  <2>6. Listed(disk, Len(list) - 1)'
    <3>1. \A k \in 1 .. Len(list) - 1 : k \in 1 .. Len(list)
      BY <2>1
    <3> QED BY <1>1, <2>2, <3>1 DEF BasketInv, OpenInv, Listed
  <2> QED BY <1>1, <1>2, <2>1, <2>2, <2>4, <2>5, <2>6 DEF BasketInv, OpenInv, Listed, Old
<1>9. DownInv'
  BY <1>1 DEF DownInv
<1> QED BY <1>5, <1>6, <1>7, <1>8, <1>9 DEF BasketInv

\* After a kill the kernel still has all that was written.
LEMMA KillKeeps ==
  ASSUME BasketInv, Kill
  PROVE  BasketInv'
<1>1. /\ phase' = "down" /\ file' = file /\ disk' = file
      /\ use' = 0 /\ list' = <<>> /\ gop' = gop /\ crashes' = crashes + 1 /\ cut' = cut
  BY DEF Kill, Down
<1>2. TypeOK'
  <2>1. 0 \in 0 .. MaxUse /\ <<>> \in Seq(Header) /\ Len(<<>>) <= Frags /\ crashes + 1 \in 0 .. MaxCrash
    BY BasketAssumption DEF BasketInv, TypeOK, Kill, Down
  <2> QED BY <1>1, <2>1 DEF BasketInv, TypeOK
<1>3. ListOK' /\ HeadersOK(file)' /\ HeadersOK(disk)' /\ Past(file)' /\ Past(disk)'
  BY <1>1 DEF BasketInv, ListOK, HeadersOK, InOrder, Past
<1>4. IdleInv' /\ StartInv' /\ OpenInv' /\ DownInv'
  BY <1>1 DEF IdleInv, StartInv, OpenInv, DownInv
<1> QED BY <1>2, <1>3, <1>4 DEF BasketInv

\* A power cut leaves old or new parts on the disk, whichever the kernel had written.
LEMMA PowerCutKeeps ==
  ASSUME OnePage, BasketInv, PowerCut
  PROVE  BasketInv'
<1>1. /\ phase' = "down" /\ disk' = file'
      /\ use' = 0 /\ list' = <<>> /\ gop' = gop /\ crashes' = crashes + 1 /\ cut' = TRUE
  BY DEF PowerCut, Down
<1>2. /\ file' \in Files
      /\ SameHeaders(file', disk) \/ SameHeaders(file', file)
      /\ \A i \in 1 .. Slots : file'.slot[i] \in {disk.slot[i], file.slot[i]}
  BY PowerCutIs DEF BasketInv
<1>3. TypeOK'
  <2>1. 0 \in 0 .. MaxUse /\ <<>> \in Seq(Header) /\ Len(<<>>) <= Frags /\ crashes + 1 \in 0 .. MaxCrash
    BY BasketAssumption DEF BasketInv, TypeOK, PowerCut, Down
  <2> QED BY <1>1, <1>2, <2>1 DEF BasketInv, TypeOK
<1>4. HeadersOK(file') /\ Past(file)'
  <2>1. HeadersOK(file')
    BY <1>2, HeadersSame DEF BasketInv, TypeOK
  <2> QED BY <1>1, <1>2, <2>1 DEF BasketInv, Past
<1>5. ListOK' /\ HeadersOK(file)' /\ HeadersOK(disk)' /\ Past(file)' /\ Past(disk)'
  BY <1>1, <1>4 DEF ListOK, HeadersOK, InOrder, Past
<1>6. IdleInv' /\ StartInv' /\ OpenInv' /\ DownInv'
  BY <1>1 DEF IdleInv, StartInv, OpenInv, DownInv
<1> QED BY <1>3, <1>5, <1>6 DEF BasketInv

\* The scan finishes the open fragment, or gives it up.
LEMMA ScanKeeps ==
  ASSUME BasketInv, Scan
  PROVE  BasketInv'
<1> DEFINE m == Len(list')
<1>1. /\ phase = "down" /\ phase' = "idle" /\ list' = Recovered(file) /\ use' = file.use /\ disk' = file'
      /\ gop' = gop /\ crashes' = crashes /\ cut' = cut
  BY DEF Scan
<1>2. /\ m \in 0 .. file.num /\ list' \in Seq(Header) /\ InOrder(list', m)
      /\ \A k \in 1 .. m : ~list'[k].writing /\ list'[k].use = file.use
  BY <1>1, ScanFinds DEF BasketInv, TypeOK
<1>3. file.num \in 0 .. Frags /\ m \in 0 .. Frags
  BY <1>2, BasketAssumption DEF BasketInv, TypeOK, Files
<1>4. PICK h : h = [k \in 1 .. Frags |-> IF k <= m THEN list'[k] ELSE file.hdr[k]]
  OBVIOUS
<1>5. h \in [1 .. Frags -> Header \cup {Nothing}]
  <2>1. \A k \in 1 .. Frags : k <= m => list'[k] \in Header
    BY <1>2, <1>3
  <2> HIDE DEF m
  <2> QED BY <1>3, <1>4, <2>1 DEF BasketInv, TypeOK, Files
<1>6. file' = [use |-> file.use, num |-> m, hdr |-> h, slot |-> file.slot, data |-> file.data]
  <2>1. [k \in 1 .. Frags |-> IF k <= Len(Recovered(file)) THEN Recovered(file)[k] ELSE file.hdr[k]] = h
    BY <1>1, <1>4
  <2>2. file' = [file EXCEPT !.num = m, !.hdr = h]
    BY <1>1, <2>1 DEF Scan
  <2> HIDE DEF m
  <2> QED BY <2>2 DEF BasketInv, TypeOK, Files
<1>7. TypeOK'
  <2>1. file' \in Files
    <3> HIDE DEF m
    <3> QED BY <1>3, <1>5, <1>6 DEF BasketInv, TypeOK, Files
  <2>2. file.use \in 0 .. MaxUse
    BY DEF BasketInv, TypeOK, Files
  <2> QED BY <1>1, <1>2, <1>3, <2>1, <2>2 DEF BasketInv, TypeOK
<1>8. ListOK' /\ AllFinished'
  BY <1>1, <1>2 DEF ListOK, AllFinished
<1>9. /\ file'.num = m /\ file'.use = use' /\ file'.slot = file.slot
      /\ \A k \in 1 .. m : file'.hdr[k] = list'[k]
  <2>1. file'.num = m /\ file'.use = file.use /\ file'.slot = file.slot /\ file'.hdr = h
    BY <1>6
  <2>2. \A k \in 1 .. m : k \in 1 .. Frags
    <3> HIDE DEF m
    <3> QED BY <1>3, BasketAssumption
  <2> QED BY <1>1, <1>3, <1>4, <2>1, <2>2
<1>10. HeadersOK(file') /\ Past(file)'
  <2>1. InOrder(file'.hdr, m)
    <3> HIDE DEF m
    <3>1. m \in Nat
      BY <1>3, BasketAssumption
    <3> QED BY <1>2, <1>9, <3>1, InOrderSame
  <2>2. \A k \in 1 .. m : file'.hdr[k].use = file'.use
    BY <1>1, <1>2, <1>9
  <2> HIDE DEF m
  <2>3. HeadersOK(file')
    BY <1>9, <2>1, <2>2 DEF HeadersOK
  <2> QED BY <1>1, <1>9, <2>3 DEF BasketInv, Past
<1>11. HeadersOK(file)' /\ HeadersOK(disk)' /\ Past(file)' /\ Past(disk)'
  BY <1>1, <1>10 DEF HeadersOK, InOrder, Past
<1>12. IdleInv'
  BY <1>1, <1>8, <1>9 DEF IdleInv, Listed
<1>13. StartInv' /\ OpenInv' /\ DownInv'
  BY <1>1 DEF StartInv, OpenInv, DownInv
<1> QED BY <1>7, <1>8, <1>11, <1>12, <1>13 DEF BasketInv

\* A step that leaves the variables alone.
LEMMA StutterKeeps ==
  ASSUME BasketInv, UNCHANGED vars
  PROVE  BasketInv'
<1>1. /\ file' = file /\ disk' = disk /\ use' = use /\ list' = list /\ phase' = phase /\ gop' = gop
      /\ crashes' = crashes /\ cut' = cut
  BY DEF vars
<1>2. Last' = Last /\ End' = End
  BY <1>1 DEF Last, End
<1>3. TypeOK' /\ ListOK' /\ HeadersOK(file)' /\ HeadersOK(disk)' /\ Past(file)' /\ Past(disk)'
  BY <1>1 DEF BasketInv, TypeOK, ListOK, HeadersOK, InOrder, Past
<1>4. IdleInv' /\ DownInv'
  BY <1>1 DEF BasketInv, IdleInv, DownInv, AllFinished, Listed
<1>5. StartInv'
  <2>1. NewHeader(file)' <=> NewHeader(file)
    BY <1>1, <1>2 DEF NewHeader
  <2> QED BY <1>1, <2>1 DEF BasketInv, StartInv, SameParts, AllFinished, Listed, Finished
<1>6. OpenInv'
  <2>1. /\ Stub(disk.hdr[Len(list)])' <=> Stub(disk.hdr[Len(list)])
        /\ Stub(file.hdr[Len(list)])' <=> Stub(file.hdr[Len(list)])
    BY <1>1, <1>2 DEF Stub
  <2> QED BY <1>1, <1>2, <2>1 DEF BasketInv, OpenInv, Listed, Old
<1> QED BY <1>3, <1>4, <1>5, <1>6 DEF BasketInv

\* Every step keeps the invariant.
LEMMA BasketStep ==
  ASSUME OnePage, BasketInv, [Next]_vars
  PROVE  BasketInv'
<1>1. CASE Reset
  BY <1>1, ResetKeeps
<1>2. CASE StartHeader
  BY <1>2, StartHeaderKeeps
<1>3. CASE StartGlobal
  BY <1>3, StartGlobalKeeps
<1>4. CASE StartSync
  BY <1>4, StartSyncKeeps
<1>5. CASE Write
  BY <1>5, WriteKeeps
<1>6. CASE StopHeader
  BY <1>6, StopHeaderKeeps
<1>7. CASE StopSync
  BY <1>7, StopSyncKeeps
<1>8. CASE WriteBack
  BY <1>8, WriteBackKeeps
<1>9. CASE Kill
  BY <1>9, KillKeeps
<1>10. CASE PowerCut
  BY <1>10, PowerCutKeeps
<1>11. CASE Scan
  BY <1>11, ScanKeeps
<1>12. CASE UNCHANGED vars
  BY <1>12, StutterKeeps
<1> QED
  BY <1>1, <1>2, <1>3, <1>4, <1>5, <1>6, <1>7, <1>8, <1>9, <1>10, <1>11, <1>12 DEF Next

\* A step counts on the disk what was counted there or in the file.
LEMMA OnePageStep ==
  ASSUME TypeOK, OnePage, [Next]_vars, FewFragments'
  PROVE  OnePage'
<1>1. file \in Files /\ disk \in Files
  BY DEF TypeOK
<1>2. disk'.num \in {disk.num, file.num, file'.num}
  <2>1. CASE WriteBack
    BY <1>1, <2>1, FirstPageIs DEF OnePage, WriteBack, SameHeaders
  <2>2. CASE Kill \/ PowerCut \/ Scan
    BY <2>2 DEF Kill, PowerCut, Scan
  <2>3. CASE UNCHANGED vars
    BY <2>3 DEF vars
  <2> QED
    BY <2>1, <2>2, <2>3 DEF Next, Reset, StartHeader, StartGlobal, StartSync, Write, StopHeader,
                            StopSync, Synced
<1> QED BY <1>2 DEF OnePage, FewFragments

\* As long as the file counts few fragments the disk does.
LEMMA OnePageAlways == Spec /\ []FewFragments => []OnePage
<1>1. Init => OnePage
  BY BasketAssumption DEF Init, OnePage, Blank
<1>2. TypeOK /\ OnePage /\ [Next]_vars /\ FewFragments' => OnePage'
  BY OnePageStep
<1> QED BY <1>1, <1>2, TypeCorrect, PTL DEF Spec

\* If all headers are in that page no basket counts too many.
LEMMA AllInOnePage ==
  ASSUME Shared = Frags
  PROVE  Spec => []FewFragments
<1>1. TypeOK => FewFragments
  BY BasketAssumption DEF TypeOK, Files, FewFragments
<1> QED BY <1>1, TypeCorrect, PTL

\* What file, disk and memory have to do with each other in every phase of a fragment, through
\* any crashes (strg_basket_write_start, _write_stop, _scan), as long as the basket does not
\* count more fragments than have their headers in its first page.
THEOREM BasketAlways == Spec /\ []FewFragments => []BasketInv
<1>1. OnePage /\ BasketInv /\ [Next]_vars => BasketInv'
  BY BasketStep
<1> QED BY BasketInit, <1>1, OnePageAlways, PTL DEF Spec

\* strg_basket.c:237: the fragments lie one after the other, however often the basket was
\* started, stopped, killed and scanned.
THEOREM FragmentsApartAlways == Spec /\ []FewFragments => []FragmentsApart
<1>1. BasketInv => FragmentsApart
  BY DEF BasketInv, ListOK, InOrder, FragmentsApart
<1> QED BY BasketAlways, <1>1, PTL

-----------------------------------------------------------------------------
(***************************************************************************)
(* What a player gets.                                                     *)
(***************************************************************************)

\* It depends on the place of a fragment, its use and its begin, and what is in that place.
LEMMA HeldSame ==
  ASSUME NEW f, NEW g, NEW h \in Header,
         \A p \in h.first .. h.first + h.n - 1 : f.slot[p] = g.slot[p] /\ f.data[p] = g.data[p]
  PROVE  Held(f, h) = Held(g, h)
<1>1. h.first \in Nat /\ h.n \in Nat
  BY HeaderIs
<1>2. \A j \in 1 .. h.n : h.first + j - 1 \in h.first .. h.first + h.n - 1
  BY <1>1
<1> QED BY <1>1, <1>2 DEF Held, Own

\* Nor does it depend on whether the fragment is finished.
LEMMA HeldOf ==
  ASSUME NEW f, NEW h, NEW i, i.use = h.use, i.begin = h.begin, i.first = h.first, i.n = h.n
  PROVE  Held(f, i) = Held(f, h)
BY DEF Held, Own

\* A function on 1 .. n is a sequence.
LEMMA IsSeq ==
  ASSUME NEW S, NEW n \in Nat, NEW c \in [1 .. n -> S]
  PROVE  c \in Seq(S) /\ Len(c) = n /\ (n = 0 => c = <<>>)
<1>1. c \in Seq(S)
  BY SeqDef
<1>2. Len(c) = n
  BY <1>1
<1> QED BY <1>1, <1>2

\* The groups of a fragment are as many as its header says.
LEMMA HeldIs ==
  ASSUME NEW f \in Files, NEW h \in Header, h.first + h.n <= Slots + 1
  PROVE  /\ Held(f, h) \in Seq(Nat \cup {Lost})
         /\ Len(Held(f, h)) = h.n
         /\ h.n = 0 => Held(f, h) = <<>>
<1>1. h.first \in Nat /\ h.first >= 1 /\ h.n \in Nat /\ Slots \in Nat
  BY HeaderIs
<1>2. \A j \in 1 .. h.n : h.first + j - 1 \in 1 .. Slots
  BY <1>1
<1>3. PICK c : c = Held(f, h)
  OBVIOUS
<1>4. \A j \in 1 .. h.n : c[j] \in Nat \cup {Lost}
  BY <1>2, <1>3, EntryIs DEF Held, Own
<1>5. c \in [1 .. h.n -> Nat \cup {Lost}]
  BY <1>3, <1>4 DEF Held
<1>6. c \in Seq(Nat \cup {Lost}) /\ Len(c) = h.n /\ (h.n = 0 => c = <<>>)
  BY <1>1, <1>5, IsSeq
<1> QED BY <1>3, <1>6

\* The contents depend on the places of the fragments alone.
LEMMA ContentsSame ==
  ASSUME NEW f, NEW g, NEW l \in Seq(Header),
         \A k \in 1 .. Len(l) : \A p \in l[k].first .. l[k].first + l[k].n - 1 :
           f.slot[p] = g.slot[p] /\ f.data[p] = g.data[p]
  PROVE  Contents(f, l) = Contents(g, l)
<1>1. \A k \in 1 .. Len(l) : Held(f, l[k]) = Held(g, l[k])
  <2> SUFFICES ASSUME NEW k \in 1 .. Len(l) PROVE Held(f, l[k]) = Held(g, l[k])
    OBVIOUS
  <2>1. PICK h \in Header : h = l[k]
    OBVIOUS
  <2>2. \A p \in h.first .. h.first + h.n - 1 : f.slot[p] = g.slot[p] /\ f.data[p] = g.data[p]
    BY <2>1
  <2>3. Held(f, h) = Held(g, h)
    BY <2>2, HeldSame
  <2> QED BY <2>1, <2>3
<1> QED BY <1>1 DEF Contents

\* No headers, no contents.
LEMMA ContentsEmpty ==
  ASSUME NEW f
  PROVE  Contents(f, <<>>) = <<>>
  BY DEF Contents

\* All headers but the last.
LEMMA FrontIs ==
  ASSUME NEW l, NEW m \in Nat \ {0}, \A k \in 1 .. m - 1 : l[k] \in Header
  PROVE  /\ SubSeq(l, 1, m - 1) \in Seq(Header) /\ Len(SubSeq(l, 1, m - 1)) = m - 1
         /\ \A k \in 1 .. m - 1 : SubSeq(l, 1, m - 1)[k] = l[k]
<1>1. /\ SubSeq(l, 1, m - 1) \in Seq(Header)
      /\ Len(SubSeq(l, 1, m - 1)) = IF 1 <= m - 1 THEN m - 1 - 1 + 1 ELSE 0
      /\ \A k \in 1 .. m - 1 - 1 + 1 : SubSeq(l, 1, m - 1)[k] = l[1 + k - 1]
  BY SubSeqProperties
<1>2. m - 1 - 1 + 1 = m - 1 /\ \A k \in 1 .. m - 1 : 1 + k - 1 = k
  OBVIOUS
<1> QED BY <1>1, <1>2

\* A list that agrees with all headers but the last is the front.
LEMMA FrontSame ==
  ASSUME NEW l, NEW m \in Nat \ {0}, \A k \in 1 .. m - 1 : l[k] \in Header,
         NEW s \in Seq(Header), Len(s) = m - 1, \A k \in 1 .. m - 1 : s[k] = l[k]
  PROVE  SubSeq(l, 1, m - 1) = s
BY FrontIs

\* The last fragment is the last of the contents.
LEMMA ContentsLast ==
  ASSUME NEW f, NEW l \in Seq(Header), l # <<>>
  PROVE  Contents(f, l) = Append(Contents(f, SubSeq(l, 1, Len(l) - 1)), Held(f, l[Len(l)]))
<1> DEFINE m == Len(l)
           s == SubSeq(l, 1, m - 1)
           c == Contents(f, s)
<1>1. m \in Nat \ {0}
  OBVIOUS
<1>2. s \in Seq(Header) /\ Len(s) = m - 1 /\ \A k \in 1 .. m - 1 : s[k] = l[k]
  <2>1. \A k \in 1 .. m - 1 : l[k] \in Header
    OBVIOUS
  <2> HIDE DEF m
  <2> QED BY <1>1, <2>1, FrontIs
<1>3. c = [k \in 1 .. m - 1 |-> Held(f, l[k])]
  <2> HIDE DEF s, m
  <2> QED BY <1>2 DEF Contents
<1> HIDE DEF c, s
<1>4. Append(c, Held(f, l[m])) = [k \in 1 .. m |-> Held(f, l[k])]
  <2> HIDE DEF m
  <2>1. c \in Seq({Held(f, l[k]) : k \in 1 .. m - 1}) /\ Len(c) = m - 1
    BY <1>1, <1>3
  <2>2. m - 1 + 1 = m
    BY <1>1
  <2>3. \A k \in 1 .. m : k = m \/ k \in 1 .. m - 1
    BY <1>1
  <2>4. \A k \in 1 .. m : Append(c, Held(f, l[m]))[k] = Held(f, l[k])
    BY <1>1, <1>3, <2>1, <2>3
  <2> QED BY <1>1, <2>1, <2>2, <2>4
<1> QED BY <1>4 DEF Contents, c, s

-----------------------------------------------------------------------------
(***************************************************************************)
(* What is found before a fragment is begun.                               *)
(***************************************************************************)

\* The scan looks at the headers that are counted and at the index, and at nothing else.
LEMMA SameFinds ==
  ASSUME NEW f \in Files, NEW g \in Files, SameHeaders(f, g), SameParts(f, g)
  PROVE  /\ Recovered(f) = Recovered(g)
         /\ Contents(f, Recovered(f)) = Contents(g, Recovered(g))
<1>1. ASSUME NEW h PROVE Salvage(f, h) = Salvage(g, h) /\ (Found(f, h) <=> Found(g, h))
  BY DEF Salvage, Follows, Found, SameParts
<1>2. \A k \in 1 .. f.num : (Good(f, k) <=> Good(g, k)) /\ Restored(f, k) = Restored(g, k)
  BY <1>1 DEF Good, Restored, SameHeaders
<1>3. f.num \in Nat /\ g.num = f.num
  BY BasketAssumption DEF Files, SameHeaders
<1>4. {m \in 0 .. f.num : \A k \in 1 .. m : Good(f, k)} = {m \in 0 .. g.num : \A k \in 1 .. m : Good(g, k)}
  BY <1>2, <1>3
<1>5. PICK m : m = Max({n \in 0 .. f.num : \A k \in 1 .. n : Good(f, k)})
  OBVIOUS
<1>6. m \in 0 .. f.num
  BY <1>5, FoundCount
<1>7. Recovered(f) = [k \in 1 .. m |-> Restored(f, k)] /\ Recovered(g) = [k \in 1 .. m |-> Restored(g, k)]
  BY <1>4, <1>5 DEF Recovered
<1>8. Recovered(f) = Recovered(g)
  BY <1>2, <1>3, <1>6, <1>7
<1>9. Contents(f, Recovered(f)) = Contents(g, Recovered(f))
  BY RecoveredIs, ContentsSame DEF SameParts
<1> QED BY <1>8, <1>9

\* The scan finds what is in memory, and leaves out a fragment of which no frame was
\* written: its begin is later than every index entry.
LEMMA FindsList ==
  ASSUME BasketInv, AllFinished, Listed(file, Len(list)),
         file.num = Len(list) \/ (file.num = Len(list) + 1 /\ NewHeader(file))
  PROVE  Recovered(file) = list
<1>1. file \in Files /\ HeadersOK(file) /\ list \in Seq(Header) /\ Len(list) \in Nat
  BY DEF BasketInv, TypeOK
<1>2. list = [k \in 1 .. Len(list) |-> file.hdr[k]]
  BY <1>1 DEF Listed
<1>3. CASE file.num = Len(list)
  <2>1. Finished(file)
    BY <1>3 DEF Finished, AllFinished, Listed
  <2> QED BY <1>1, <1>2, <1>3, <2>1, RecoveredAll
<1>4. CASE file.num = Len(list) + 1 /\ NewHeader(file)
  <2> DEFINE h == file.hdr[file.num]
  <2>1. h \in Header /\ h.writing /\ h.begin = gop + 1 /\ file.num # 0 /\ file.num - 1 = Len(list)
    BY <1>1, <1>4 DEF NewHeader
  <2>2. ~Found(file, h)
    <3>1. h.first \in 1 .. Slots
      BY <2>1, HeaderIs
    <3>2. gop \in Nat
      BY BasketAssumption DEF BasketInv, TypeOK
    <3>3. file.slot[h.first] # Nothing => file.slot[h.first].gop \in Nat /\ file.slot[h.first].gop <= gop
      BY <1>1, <3>1, EntryIs DEF BasketInv, Past
    <3> HIDE DEF h
    <3> QED BY <2>1, <3>2, <3>3, BasketAssumption DEF Found
  <2>3. ~Good(file, file.num)
    BY <2>1, <2>2 DEF Good
  <2> QED BY <1>1, <1>2, <2>1, <2>3, RecoveredLast
<1> QED BY <1>3, <1>4

\* A crash while nothing is written finds what is in memory.
LEMMA IdleFinds ==
  ASSUME BasketInv, phase = "idle"
  PROVE  Recovered(file) = list /\ disk = file
  BY FindsList DEF BasketInv, IdleInv

\* A crash while a fragment begins finds what was there before, or nothing after a reset.
LEMMA StartFinds ==
  ASSUME BasketInv, phase \in {"reset", "header", "global"}
  PROVE  /\ Recovered(file) = list /\ SameParts(disk, file)
         /\ Recovered(disk) = list \/ list = <<>>
         /\ Contents(disk, Recovered(disk)) = Contents(file, list) \/ list = <<>>
<1>1. Recovered(file) = list
  BY FindsList DEF BasketInv, StartInv
<1>2. SameParts(disk, file) /\ disk \in Files /\ HeadersOK(disk) /\ list \in Seq(Header)
  BY DEF BasketInv, StartInv, TypeOK
<1>3. Recovered(disk) = list \/ list = <<>>
  <2>1. CASE SameHeaders(disk, file)
    BY <1>1, <1>2, <2>1, SameFinds DEF BasketInv, TypeOK
  <2>2. CASE Finished(disk) /\ disk.num = Len(list) /\ Listed(disk, Len(list))
    <3>1. list = [k \in 1 .. Len(list) |-> disk.hdr[k]]
      BY <1>2, <2>2 DEF Listed
    <3> QED BY <1>2, <2>2, <3>1, RecoveredAll
  <2>3. CASE list = <<>>
    BY <2>3
  <2> QED BY <2>1, <2>2, <2>3 DEF BasketInv, StartInv
<1>4. Contents(disk, list) = Contents(file, list)
  BY <1>2, ContentsSame DEF SameParts
<1> QED BY <1>1, <1>2, <1>3, <1>4

-----------------------------------------------------------------------------
(***************************************************************************)
(* What a crash leaves of a fragment that is being written.                *)
(***************************************************************************)

OpenFacts ==
  /\ Len(list) \in 1 .. Frags /\ list # <<>> /\ list \in Seq(Header)
  /\ Last \in Header /\ Last.use = use /\ Last.first + Last.n <= Slots + 1
  /\ SubSeq(list, 1, Len(list) - 1) \in Seq(Header)
  /\ Len(SubSeq(list, 1, Len(list) - 1)) = Len(list) - 1
  /\ \A k \in 1 .. Len(list) - 1 :
       /\ SubSeq(list, 1, Len(list) - 1)[k] = list[k]
       /\ list[k] \in Header /\ ~list[k].writing /\ list[k].first + list[k].n <= Last.first

\* What is known of the headers while a fragment is open.
LEMMA WhileOpen ==
  ASSUME BasketInv, Open
  PROVE  OpenFacts
<1> DEFINE m == Len(list)
<1>1. list # <<>> /\ list \in Seq(Header)
  BY DEF BasketInv, OpenInv, Open, TypeOK
<1>2. m \in 1 .. Frags /\ Last \in Header
  BY <1>1, EndIs DEF BasketInv
<1>3. Last.use = use /\ Last.first + Last.n <= Slots + 1
  BY <1>2 DEF BasketInv, ListOK, InOrder, Last
<1>4. \A k \in 1 .. m - 1 :
        list[k] \in Header /\ ~list[k].writing /\ list[k].first + list[k].n <= Last.first
  <2>1. \A k \in 1 .. m - 1 : k \in 1 .. m /\ k < m /\ m \in 1 .. m
    BY <1>2
  <2> QED BY <2>1 DEF BasketInv, ListOK, InOrder, Last
<1>5. /\ SubSeq(list, 1, m - 1) \in Seq(Header) /\ Len(SubSeq(list, 1, m - 1)) = m - 1
      /\ \A k \in 1 .. m - 1 : SubSeq(list, 1, m - 1)[k] = list[k]
  <2>1. m \in Nat \ {0}
    BY <1>2
  <2> HIDE DEF m
  <2> QED BY <1>4, <2>1, FrontIs
<1> QED BY <1>1, <1>2, <1>3, <1>4, <1>5 DEF OpenFacts

\* The closed fragments lie before the one being written; what lies there counts.
LEMMA ClosedSame ==
  ASSUME OpenFacts, NEW f, NEW g,
         \A p \in 1 .. Last.first - 1 : f.slot[p] = g.slot[p] /\ f.data[p] = g.data[p]
  PROVE  Contents(f, SubSeq(list, 1, Len(list) - 1)) = Contents(g, SubSeq(list, 1, Len(list) - 1))
<1> DEFINE s == SubSeq(list, 1, Len(list) - 1)
<1>1. s \in Seq(Header) /\ Len(s) = Len(list) - 1 /\ Last.first \in Nat
  BY HeaderIs DEF OpenFacts
<1>2. \A k \in 1 .. Len(s) : \A p \in s[k].first .. s[k].first + s[k].n - 1 : p \in 1 .. Last.first - 1
  <2> SUFFICES ASSUME NEW k \in 1 .. Len(s), NEW p \in s[k].first .. s[k].first + s[k].n - 1
               PROVE  p \in 1 .. Last.first - 1
    OBVIOUS
  <2>1. s[k] \in Header /\ s[k].first + s[k].n <= Last.first
    BY <1>1 DEF OpenFacts
  <2> HIDE DEF s
  <2>2. s[k].first \in Nat /\ s[k].first >= 1 /\ s[k].n \in Nat
    BY <2>1, HeaderIs
  <2> QED BY <1>1, <2>1, <2>2
<1> HIDE DEF s
<1>3. Contents(f, s) = Contents(g, s)
  BY <1>1, <1>2, ContentsSame
<1> QED BY <1>3 DEF s

\* The file after a crash: the headers as they were at one time or the other, and each of
\* the other parts by itself.
Crashed(g) ==
  /\ g \in Files /\ HeadersOK(g)
  /\ SameHeaders(g, disk) \/ SameHeaders(g, file)
  /\ \A i \in 1 .. Slots : g.slot[i] \in {disk.slot[i], file.slot[i]}
  /\ \A i \in 1 .. Slots : g.data[i] \in {disk.data[i], file.data[i]}

\* While the process is up, all that was written can be read.
LEMMA TailWhole ==
  ASSUME BasketInv, Open, NEW i \in 1 .. Last.n
  PROVE  Held(file, Last)[i] \in Nat
<1>1. OpenFacts
  BY WhileOpen
<1>2. Last.first \in Nat /\ Last.first >= 1 /\ Last.n \in Nat /\ Slots \in Nat
  BY <1>1, HeaderIs DEF OpenFacts
<1>3. PICK p : p = Last.first + i - 1
  OBVIOUS
<1>4. p \in Last.first .. Last.first + Last.n - 1 /\ p \in 1 .. Slots
  BY <1>1, <1>2, <1>3 DEF OpenFacts
<1>5. /\ file.slot[p] \in Entry /\ file.data[p] = file.slot[p]
      /\ file.slot[p].use = use /\ file.slot[p].gop >= Last.begin
  BY <1>4 DEF BasketInv, OpenInv, Open
<1>6. file.data[p].gop \in Nat
  BY <1>4, <1>5, EntryIs, NothingAssumption DEF BasketInv, TypeOK
<1>7. Own(file.data[p], Last)
  BY <1>1, <1>5, NothingAssumption DEF Own, OpenFacts
<1> QED BY <1>3, <1>5, <1>6, <1>7 DEF Held

\* Of the first n groups each is what it was or is lost, and none is if the kernel lives.
LEMMA HeldLeft ==
  ASSUME BasketInv, Open, NEW g, Crashed(g), NEW h \in Header,
         h.use = use, h.begin = Last.begin, h.first = Last.first, h.n <= Last.n
  PROVE  \E lost \in SUBSET (1 .. h.n) :
           /\ Held(g, h) = [i \in 1 .. h.n |-> IF i \in lost THEN Lost ELSE Held(file, Last)[i]]
           /\ g = file => lost = {}
<1>1. OpenFacts
  BY WhileOpen
<1>2. /\ h.first \in Nat /\ h.first >= 1 /\ h.n \in Nat /\ Last.n \in Nat /\ Slots \in Nat
      /\ h.begin \in Nat
  BY <1>1, HeaderIs DEF OpenFacts
<1> DEFINE lost == {i \in 1 .. h.n : Held(g, h)[i] = Lost}
<1>3. \A i \in 1 .. h.n : i \notin lost => Held(g, h)[i] = Held(file, Last)[i]
  <2> SUFFICES ASSUME NEW i \in 1 .. h.n, Held(g, h)[i] # Lost
               PROVE  Held(g, h)[i] = Held(file, Last)[i]
    OBVIOUS
  <2>1. PICK p : p = h.first + i - 1
    OBVIOUS
  <2>2. p \in 1 .. Slots /\ p \in Last.first .. Last.first + Last.n - 1 /\ p \in Last.first .. Slots
        /\ i \in 1 .. Last.n
    BY <1>1, <1>2, <2>1 DEF OpenFacts
  <2>3. Held(g, h)[i] = g.data[p].gop /\ Own(g.data[p], h) /\ g.data[p] = g.slot[p]
    BY <2>1 DEF Held
  <2>4. /\ file.slot[p] \in Entry /\ file.data[p] = file.slot[p]
        /\ file.slot[p].use = use /\ file.slot[p].gop >= Last.begin
        /\ Old(disk.slot[p])
    BY <2>2 DEF BasketInv, OpenInv, Open
  <2>5. g.slot[p] # disk.slot[p]
    <3> SUFFICES ASSUME g.slot[p] = disk.slot[p] PROVE FALSE
      OBVIOUS
    <3>1. /\ disk.slot[p] # Nothing /\ disk.slot[p].use = use /\ disk.slot[p].gop >= Last.begin
          /\ disk.slot[p].gop < Last.begin
      BY <2>3, <2>4 DEF Own, Old
    <3>2. disk.slot[p].gop \in Nat
      BY <2>2, <3>1, EntryIs DEF BasketInv, TypeOK
    <3> QED BY <1>2, <3>1, <3>2
  <2>6. g.data[p] = file.slot[p]
    BY <2>2, <2>3, <2>5 DEF Crashed
  <2>7. Held(file, Last)[i] = file.data[p].gop
    <3>1. Own(file.data[p], Last)
      BY <1>1, <2>4, NothingAssumption DEF Own, OpenFacts
    <3> QED BY <2>1, <2>2, <2>4, <3>1 DEF Held
  <2> QED BY <2>3, <2>4, <2>6, <2>7
<1>4. PICK c : c = Held(g, h)
  OBVIOUS
<1>5. c = [i \in 1 .. h.n |-> c[i]]
  BY <1>4 DEF Held
<1>6. c = [i \in 1 .. h.n |-> IF i \in lost THEN Lost ELSE Held(file, Last)[i]]
  <2>1. \A i \in 1 .. h.n : c[i] = IF i \in lost THEN Lost ELSE Held(file, Last)[i]
    BY <1>3, <1>4
  <2> HIDE DEF lost
  <2> QED BY <1>5, <2>1
<1>7. lost \in SUBSET (1 .. h.n)
  OBVIOUS
<1>8. g = file => lost = {}
  <2> SUFFICES ASSUME g = file, NEW i \in 1 .. h.n PROVE Held(g, h)[i] # Lost
    OBVIOUS
  <2>1. i \in 1 .. Last.n
    BY <1>2
  <2>2. Held(file, Last)[i] \in Nat
    BY <2>1, TailWhole
  <2>3. Held(file, h)[i] = Held(file, Last)[i]
    BY <1>1, <2>1 DEF Held, Own, OpenFacts
  <2> QED BY <2>2, <2>3, BasketAssumption
<1> HIDE DEF lost
<1> QED BY <1>4, <1>6, <1>7, <1>8

\* The scan goes no further than what was written: what lies behind is of the past.
LEMMA NoFurther ==
  ASSUME BasketInv, Open, NEW g, Crashed(g), NEW h, Stub(h), Found(g, h)
  PROVE  Salvage(g, h) = 0 \/ Salvage(g, h) < Last.n
<1> DEFINE n == Salvage(g, h)
<1>1. OpenFacts
  BY WhileOpen
<1>2. h \in Header /\ h.use = use /\ h.begin = Last.begin /\ h.first = Last.first
  BY DEF Stub
<1>3. n \in 0 .. Slots - h.first /\ \A i \in 1 .. n : Follows(g, h, h.first + i)
  BY <1>2, SalvageIs
<1>4. /\ h.first \in Nat /\ h.first >= 1 /\ h.first <= Slots /\ Last.n \in Nat /\ Slots \in Nat
      /\ h.begin \in Nat /\ Last.first \in Nat
  BY <1>1, <1>2, HeaderIs DEF OpenFacts
<1> HIDE DEF n
<1> SUFFICES ASSUME n # 0, ~(n < Last.n) PROVE FALSE
  BY DEF n
<1>5. PICK p : p = h.first + n
  OBVIOUS
<1>6. p \in 1 .. Slots /\ p \in Last.first .. Slots /\ p \in Last.first + Last.n .. Slots
      /\ h.first \in 1 .. Slots
  BY <1>2, <1>3, <1>4, <1>5
<1>7. Old(file.slot[p]) /\ Old(disk.slot[p]) /\ g.slot[p] \in {disk.slot[p], file.slot[p]}
  BY <1>6 DEF BasketInv, OpenInv, Open, Crashed
<1>8. Follows(g, h, p)
  BY <1>3, <1>4, <1>5
<1>9. g.slot[p] # Nothing /\ g.slot[p].use = use /\ g.slot[p].gop - g.slot[h.first].gop \in 1 .. Span
  BY <1>2, <1>8 DEF Follows
<1>10. g.slot[h.first] # Nothing /\ g.slot[h.first].gop - h.begin \in 0 .. Span
  BY DEF Found
<1>11. g.slot[p].gop \in Nat /\ g.slot[h.first].gop \in Nat
  BY <1>6, <1>9, <1>10, EntryIs DEF Crashed
<1>12. g.slot[p].gop < Last.begin
  BY <1>7, <1>9 DEF Old
<1> QED BY <1>2, <1>4, <1>9, <1>10, <1>11, <1>12, BasketAssumption

\* After the crash the closed fragments are there, and the open one as far as it was
\* written, without the groups that were lost, or not at all.
LEMMA CrashLeaves ==
  ASSUME BasketInv, Open, NEW g, Crashed(g)
  PROVE  LET closed == Contents(file, SubSeq(list, 1, Len(list) - 1))
             tail == Held(file, Last)
             after == Contents(g, Recovered(g))
         IN \/ after = closed
            \/ after = Append(closed, tail)
            \/ \E n \in 1 .. Len(tail) : \E lost \in SUBSET (1 .. n) :
                 /\ after = Append(closed, [i \in 1 .. n |-> IF i \in lost THEN Lost ELSE tail[i]])
                 /\ g = file => lost = {}
<1> DEFINE m == Len(list)
           s == SubSeq(list, 1, m - 1)
           after == Contents(g, Recovered(g))
           closed == Contents(file, s)
           tail == Held(file, Last)
<1> SUFFICES \/ after = closed
             \/ after = Append(closed, tail)
             \/ \E n \in 1 .. Len(tail) : \E lost \in SUBSET (1 .. n) :
                  /\ after = Append(closed, [i \in 1 .. n |-> IF i \in lost THEN Lost ELSE tail[i]])
                  /\ g = file => lost = {}
  OBVIOUS
<1>1. OpenFacts
  BY WhileOpen
<1>2. /\ m \in Nat \ {0} /\ s \in Seq(Header) /\ Len(s) = m - 1 /\ \A k \in 1 .. m - 1 : s[k] = list[k]
      /\ Last.n \in Nat /\ Len(tail) = Last.n /\ (Last.n = 0 => tail = <<>>)
      /\ Last.first \in Nat /\ Last.first <= Slots /\ Slots \in Nat
  BY <1>1, HeldIs, HeaderIs DEF OpenFacts, BasketInv, TypeOK
<1>3. /\ g \in Files /\ HeadersOK(g) /\ g.num = m /\ g.use = use
      /\ \A k \in 1 .. m - 1 : g.hdr[k] = list[k]
      /\ \/ Stub(g.hdr[m])
         \/ g.hdr[m] = Last /\ phase = "stopping"
  <2>1. \A k \in 1 .. m - 1 : k \in 1 .. m
    BY <1>2
  <2>2. m \in 1 .. m /\ g.num = m
    BY <1>2 DEF Crashed, SameHeaders, BasketInv, OpenInv, Open
  <2> QED BY <2>1, <2>2 DEF Crashed, SameHeaders, BasketInv, OpenInv, Open, Listed
<1>4. \A p \in 1 .. Last.first - 1 : g.slot[p] = file.slot[p] /\ g.data[p] = file.data[p]
  <2>1. \A p \in 1 .. Last.first - 1 : p \in 1 .. Slots
    BY <1>2
  <2> QED BY <2>1 DEF Crashed, BasketInv, OpenInv, Open
<1>5. Contents(g, s) = closed
  BY <1>1, <1>4, ClosedSame
<1>6. s = [k \in 1 .. m - 1 |-> g.hdr[k]]
  <2> HIDE DEF s, m
  <2> QED BY <1>2, <1>3
\* what is there when the scan finds the open fragment with header h
<1>7. ASSUME NEW h \in Header, h.use = use, h.begin = Last.begin, h.first = Last.first, h.n <= Last.n,
             h.n # 0 \/ Last.n = 0,
             Recovered(g) = [k \in 1 .. m |-> IF k < m THEN g.hdr[k] ELSE h]
      PROVE  \/ after = Append(closed, tail)
             \/ \E n \in 1 .. Len(tail) : \E lost \in SUBSET (1 .. n) :
                  /\ after = Append(closed, [i \in 1 .. n |-> IF i \in lost THEN Lost ELSE tail[i]])
                  /\ g = file => lost = {}
  <2> DEFINE r == Recovered(g)
  <2>1. r \in Seq(Header) /\ Len(r) = m /\ r # <<>> /\ r[Len(r)] = h /\ \A k \in 1 .. m - 1 : r[k] = list[k]
    <3>1. \A k \in 1 .. m : (IF k < m THEN g.hdr[k] ELSE h) \in Header
      BY <1>3 DEF HeadersOK, InOrder
    <3> HIDE DEF r, m
    <3>2. r \in [1 .. m -> Header]
      BY <1>7, <3>1 DEF r
    <3>3. r \in Seq(Header) /\ Len(r) = m
      BY <1>2, <3>2, IsSeq
    <3>4. r[m] = h /\ \A k \in 1 .. m - 1 : r[k] = list[k]
      BY <1>2, <1>3, <1>7 DEF r
    <3> QED BY <1>2, <3>3, <3>4
  <2> HIDE DEF r
  <2>2. SubSeq(r, 1, Len(r) - 1) = s
    <3>1. \A k \in 1 .. m - 1 : r[k] \in Header
      BY <1>1, <2>1 DEF OpenFacts
    <3> HIDE DEF s, m
    <3>2. \A k \in 1 .. m - 1 : s[k] = r[k]
      BY <1>2, <2>1
    <3> QED BY <1>2, <2>1, <3>1, <3>2, FrontSame
  <2>3. after = Append(closed, Held(g, h))
    <3>1. Contents(g, r) = Append(Contents(g, SubSeq(r, 1, Len(r) - 1)), Held(g, r[Len(r)]))
      BY <2>1, ContentsLast
    <3> QED BY <1>5, <2>1, <2>2, <3>1 DEF r
  <2>4. PICK lost \in SUBSET (1 .. h.n) :
          /\ Held(g, h) = [i \in 1 .. h.n |-> IF i \in lost THEN Lost ELSE tail[i]]
          /\ g = file => lost = {}
    BY <1>7, HeldLeft
  <2>5. h.n \in Nat
    BY HeaderIs
  <2> HIDE DEF after, closed, tail
  <2>6. CASE h.n = 0
    <3>1. Held(g, h) = <<>>
      BY <2>4, <2>6
    <3> QED BY <1>2, <1>7, <2>3, <2>6, <3>1
  <2>7. CASE h.n # 0
    <3>1. h.n \in 1 .. Len(tail)
      BY <1>2, <1>7, <2>5, <2>7
    <3> QED BY <2>3, <2>4, <3>1
  <2> QED BY <2>6, <2>7
<1>8. CASE g.hdr[m] = Last /\ phase = "stopping"
  <2>1. ~Last.writing
    <3>1. Last.writing = (phase = "writing")
      BY DEF BasketInv, OpenInv, Open
    <3>2. (phase = "writing") = FALSE
      BY <1>8
    <3> QED BY <3>1, <3>2
  <2>2. \A k \in 1 .. m : k = m \/ k \in 1 .. m - 1
    BY <1>2
  <2>3. Finished(g)
    BY <1>1, <1>3, <1>8, <2>1, <2>2 DEF Finished, OpenFacts
  <2>4. Recovered(g) = [k \in 1 .. m |-> g.hdr[k]]
    BY <1>3, <2>3, RecoveredAll
  <2>5. [k \in 1 .. m |-> g.hdr[k]] = [k \in 1 .. m |-> IF k < m THEN g.hdr[k] ELSE Last]
    <3> HIDE DEF m
    <3> QED BY <1>2, <1>8, <2>2
  <2>6. PICK h : h = Last
    OBVIOUS
  <2>7. /\ h \in Header /\ h.use = use /\ h.begin = Last.begin /\ h.first = Last.first /\ h.n <= Last.n
        /\ h.n # 0 \/ Last.n = 0
    BY <1>1, <1>2, <2>6 DEF OpenFacts
  <2>8. Recovered(g) = [k \in 1 .. m |-> IF k < m THEN g.hdr[k] ELSE h]
    BY <2>4, <2>5, <2>6
  <2> HIDE DEF after, closed, tail, m
  <2> QED BY <1>7, <2>7, <2>8
<1>9. CASE Stub(g.hdr[m])
  <2> DEFINE h == g.hdr[m]
  <2>1. h \in Header /\ h.writing /\ h.use = use /\ h.begin = Last.begin /\ h.first = Last.first
    BY <1>9 DEF Stub
  <2>2. g.num # 0 /\ g.hdr[g.num].writing /\ g.hdr[g.num] = h
    BY <1>2, <1>3, <2>1
  <2>3. CASE ~Good(g, g.num)
    <3>1. Recovered(g) = [k \in 1 .. m - 1 |-> g.hdr[k]]
      BY <1>3, <2>2, <2>3, RecoveredLast
    <3>2. Recovered(g) = s
      <4> HIDE DEF s, m
      <4> QED BY <1>6, <3>1
    <3>3. after = closed
      <4> HIDE DEF s, closed
      <4> QED BY <1>5, <3>2
    <3> QED BY <3>3
  <2>4. CASE Good(g, g.num)
    <3>1. Recovered(g) = [k \in 1 .. m |-> IF k < m THEN g.hdr[k] ELSE Restored(g, k)]
      BY <1>3, <2>2, <2>4, RecoveredLast
    <3>2. Found(g, h) /\ Salvage(g, h) > 0
      BY <2>2, <2>4 DEF Good
    <3>3. Salvage(g, h) \in 0 .. Slots - h.first /\ Salvage(g, h) < Last.n
      <4>1. Salvage(g, h) \in 0 .. Slots - h.first
        BY <2>1, SalvageIs
      <4>2. Salvage(g, h) = 0 \/ Salvage(g, h) < Last.n
        BY <1>9, <3>2, NoFurther
      <4> QED BY <2>1, <3>2, <4>1, <4>2, HeaderIs
    <3>4. PICK r : r = [use |-> h.use, begin |-> h.begin, late |-> h.late, first |-> h.first,
                        n |-> Salvage(g, h), writing |-> FALSE]
      OBVIOUS
    <3>5. r = Restored(g, m)
      BY <1>3, <2>1, <3>4 DEF Restored, Header
    <3>6. /\ r \in Header /\ r.use = use /\ r.begin = Last.begin /\ r.first = Last.first
          /\ r.n <= Last.n /\ r.n # 0
      <4>1. Salvage(g, h) \in 0 .. Slots
        BY <2>1, <3>3, HeaderIs
      <4> HIDE DEF h
      <4>2. r \in Header
        BY <2>1, <3>4, <4>1 DEF Header
      <4> QED BY <1>2, <2>1, <3>2, <3>3, <3>4, <4>2
    <3>7. Recovered(g) = [k \in 1 .. m |-> IF k < m THEN g.hdr[k] ELSE r]
      <4>1. \A k \in 1 .. m : ~(k < m) => k = m
        BY <1>2
      <4> HIDE DEF m
      <4> QED BY <1>2, <3>1, <3>5, <4>1
    <3> QED BY <1>7, <3>6, <3>7
  <2> QED BY <2>3, <2>4
<1> QED BY <1>3, <1>8, <1>9

-----------------------------------------------------------------------------
(***************************************************************************)
(* Every step is a step of StrgLog, or none.                               *)
(***************************************************************************)

\* What the log holds, in each phase.
LEMMA LogOpen ==
  ASSUME BasketInv, Open
  PROVE  /\ ClosedNow = Contents(file, SubSeq(list, 1, Len(list) - 1))
         /\ TailNow = Held(file, Last) /\ TailNow # None
<1>1. TailNow = Held(file, Last)
  BY DEF TailNow, Last
<1>2. Held(file, Last) \in Seq(Nat \cup {Lost})
  BY WhileOpen, HeldIs DEF OpenFacts, BasketInv, TypeOK
<1> QED BY <1>1, <1>2, NothingAssumption DEF ClosedNow

\* What the abstract log is while nothing is written.
LEMMA LogIdle ==
  ASSUME phase = "idle"
  PROVE  ClosedNow = Contents(file, list) /\ TailNow = None
BY DEF ClosedNow, TailNow, Open

\* What it is while a fragment begins.
LEMMA LogStart ==
  ASSUME phase \in {"reset", "header", "global"}
  PROVE  ClosedNow = Contents(disk, Recovered(disk)) /\ TailNow = None
BY DEF ClosedNow, TailNow, Open

\* What it is while the process is down.
LEMMA LogDown ==
  ASSUME phase = "down"
  PROVE  ClosedNow = Contents(file, Recovered(file)) /\ TailNow = None
BY DEF ClosedNow, TailNow, Open

\* A new basket is an empty log.
LEMMA LogInitMaps == Init => Log!LogInit
<1> SUFFICES ASSUME Init PROVE Log!LogInit
  OBVIOUS
<1>1. ClosedNow = <<>> /\ TailNow = None
  BY LogIdle, ContentsEmpty DEF Init
<1> QED BY <1>1 DEF Log!LogInit

\* The steps that begin a fragment do nothing to the log, or give it up.
LEMMA StartMaps ==
  ASSUME BasketInv, Reset \/ StartHeader \/ StartGlobal
  PROVE  UNCHANGED <<ClosedNow, TailNow>>
<1>1. /\ phase \in {"idle", "reset", "header"} /\ phase' \in {"reset", "header", "global"}
      /\ disk' = disk
  BY DEF Reset, StartHeader, StartGlobal
<1>2. ClosedNow' = Contents(disk, Recovered(disk)) /\ TailNow' = None
  <2>1. ClosedNow' = Contents(disk', Recovered(disk')) /\ TailNow' = None
    BY <1>1 DEF ClosedNow, TailNow, Open
  <2> QED BY <1>1, <2>1
<1>3. CASE phase = "idle"
  BY <1>2, <1>3, LogIdle, IdleFinds
<1>4. CASE phase # "idle"
  BY <1>1, <1>2, <1>4, LogStart
<1> QED BY <1>3, <1>4

\* The fdatasync begins a fragment of the log.
LEMMA StartSyncMaps ==
  ASSUME BasketInv, StartSync
  PROVE  Log!Begin
<1> DEFINE h == file.hdr[Len(list) + 1]
<1>1. /\ phase = "global" /\ phase' = "writing" /\ file' = file /\ list' = Append(list, h)
      /\ h \in Header /\ h.n = 0 /\ list \in Seq(Header)
  BY DEF BasketInv, StartInv, NewHeader, StartSync, TypeOK
<1> HIDE DEF h
<1>2. /\ list' \in Seq(Header) /\ Len(list') = Len(list) + 1 /\ list'[Len(list')] = h
      /\ Len(list) \in Nat /\ \A k \in 1 .. Len(list) : list'[k] = list[k]
  BY <1>1
<1>3. SubSeq(list', 1, Len(list') - 1) = list
  <2>1. \A k \in 1 .. Len(list) : list'[k] \in Header
    BY <1>1, <1>2
  <2>2. PICK m \in Nat \ {0} : m = Len(list) + 1
    BY <1>2
  <2>3. Len(list) = m - 1
    BY <1>2, <2>2
  <2>4. SubSeq(list', 1, m - 1) = list
    BY <1>1, <1>2, <2>1, <2>3, FrontSame
  <2> QED BY <1>2, <2>2, <2>4
<1>4. ClosedNow' = Contents(file, list) /\ TailNow' = Held(file, h)
  <2>1. /\ ClosedNow' = Contents(file', SubSeq(list', 1, Len(list') - 1))
        /\ TailNow' = Held(file', list'[Len(list')])
    BY <1>1 DEF ClosedNow, TailNow, Open
  <2> QED BY <1>1, <1>2, <1>3, <2>1
<1>5. Held(file, h) = <<>>
  <2>1. h.first + h.n <= Slots + 1
    BY <1>1, HeaderIs
  <2> QED BY <1>1, <2>1, HeldIs DEF BasketInv, TypeOK
<1>6. ClosedNow = Contents(file, list) \/ list = <<>>
  BY <1>1, LogStart, StartFinds
<1> QED BY <1>1, <1>4, <1>5, <1>6, LogStart, ContentsEmpty DEF Log!Begin

\* A group is added to the open fragment of the log.
LEMMA WriteMaps ==
  ASSUME BasketInv, Write
  PROVE  Log!Add(gop') /\ gop' \in 1 .. MaxGop
<1> DEFINE m == Len(list)
           e == [use |-> use, gop |-> gop']
<1>1. /\ Open /\ phase = "writing" /\ phase' = "writing" /\ OpenFacts
      /\ End = Last.first + Last.n /\ End \in 1 .. Slots /\ Last.begin <= gop + 1
  BY WhileOpen, EndIs DEF Write, Open, BasketInv, OpenInv, Room
<1>2. /\ gop \in Nat /\ gop' = gop + 1 /\ gop' \in 1 .. MaxGop /\ m \in Nat \ {0}
      /\ Last.first \in Nat /\ Last.first >= 1 /\ Last.n \in Nat /\ Last.begin \in Nat /\ Slots \in Nat
  <2>1. gop \in 0 .. MaxGop /\ gop < MaxGop /\ gop' = gop + 1
    BY DEF Write, BasketInv, TypeOK
  <2>2. m \in Nat \ {0}
    BY <1>1, BasketAssumption DEF OpenFacts
  <2> HIDE DEF m
  <2> QED BY <1>1, <2>1, <2>2, HeaderIs, BasketAssumption DEF OpenFacts
<1>3. e \in Entry /\ e.use = use /\ e.gop = gop'
  BY <1>2 DEF Entry, BasketInv, TypeOK
<1> HIDE DEF e
<1>4. /\ file'.slot[End] = e /\ file'.data[End] = e
      /\ \A p \in 1 .. Slots : p # End => file'.slot[p] = file.slot[p] /\ file'.data[p] = file.data[p]
  <2>1. file' = [use |-> file.use, num |-> file.num, hdr |-> file.hdr,
                 slot |-> [file.slot EXCEPT ![End] = e], data |-> [file.data EXCEPT ![End] = e]]
    BY DEF BasketInv, TypeOK, Files, Write, e
  <2>2. DOMAIN file.slot = 1 .. Slots /\ DOMAIN file.data = 1 .. Slots
    BY DEF BasketInv, TypeOK, Files
  <2>3. file'.slot = [file.slot EXCEPT ![End] = e] /\ file'.data = [file.data EXCEPT ![End] = e]
    BY <2>1
  <2> QED BY <1>1, <2>2, <2>3
<1>5. PICK h : h = [[Last EXCEPT !.n = Last.n + 1] EXCEPT !.late = FALSE]
  OBVIOUS
<1>6. /\ h.use = Last.use /\ h.begin = Last.begin /\ h.first = Last.first /\ h.n = Last.n + 1
      /\ h \in Header
  <2>1. h = [use |-> Last.use, begin |-> Last.begin, late |-> FALSE, first |-> Last.first,
             n |-> Last.n + 1, writing |-> Last.writing]
    BY <1>1, <1>5, HeaderGrown DEF OpenFacts
  <2>2. Last.n + 1 \in 0 .. Slots
    BY <1>1, <1>2
  <2> QED BY <1>1, <2>1, <2>2 DEF OpenFacts, Header
<1>7. list' = [list EXCEPT ![m] = h]
  <2>1. list' = [list EXCEPT ![m] = [[list[m] EXCEPT !.n = list[m].n + 1] EXCEPT !.late = FALSE]]
    BY <1>1 DEF BasketInv, TypeOK, Write, OpenFacts
  <2> QED BY <1>5, <2>1 DEF Last
<1>8. /\ list' \in Seq(Header) /\ Len(list') = m /\ list'[m] = h
      /\ \A k \in 1 .. m - 1 : list'[k] = list[k]
  BY <1>1, <1>6, <1>7 DEF OpenFacts
<1>9. SubSeq(list', 1, Len(list') - 1) = SubSeq(list, 1, Len(list) - 1)
  <2>1. \A k \in 1 .. m - 1 : list'[k] \in Header
    BY <1>1, <1>8 DEF OpenFacts
  <2> HIDE DEF m
  <2>2. /\ SubSeq(list, 1, m - 1) \in Seq(Header) /\ Len(SubSeq(list, 1, m - 1)) = m - 1
        /\ \A k \in 1 .. m - 1 : SubSeq(list, 1, m - 1)[k] = list'[k]
    BY <1>1, <1>8 DEF OpenFacts, m
  <2>3. SubSeq(list', 1, m - 1) = SubSeq(list, 1, m - 1)
    BY <1>2, <2>1, <2>2, FrontSame
  <2> QED BY <1>8, <2>3 DEF m
<1>10. /\ ClosedNow' = Contents(file', SubSeq(list, 1, Len(list) - 1)) /\ TailNow' = Held(file', h)
  <2>1. /\ ClosedNow' = Contents(file', SubSeq(list', 1, Len(list') - 1))
        /\ TailNow' = Held(file', list'[Len(list')])
    BY <1>1 DEF ClosedNow, TailNow, Open
  <2> QED BY <1>8, <1>9, <2>1
<1>11. ClosedNow' = ClosedNow
  <2>1. \A p \in 1 .. Last.first - 1 : file'.slot[p] = file.slot[p] /\ file'.data[p] = file.data[p]
    <3>1. \A p \in 1 .. Last.first - 1 : p \in 1 .. Slots /\ p # End
      BY <1>1, <1>2
    <3> QED BY <1>4, <3>1
  <2>2. Contents(file', SubSeq(list, 1, Len(list) - 1)) = Contents(file, SubSeq(list, 1, Len(list) - 1))
    BY <1>1, <2>1, ClosedSame
  <2> QED BY <1>1, <1>10, <2>2, LogOpen
<1>12. Held(file', h) = Append(Held(file, Last), gop')
  <2>1. PICK c : c = Held(file', h)
    OBVIOUS
  <2>2. PICK d : d = Held(file, Last)
    OBVIOUS
  <2>3. c \in Seq(Nat \cup {Lost}) /\ Len(c) = Last.n + 1
    <3>1. file' \in Files
      BY WriteKeeps DEF BasketInv, TypeOK
    <3>2. h.first + h.n <= Slots + 1
      BY <1>1, <1>2, <1>6
    <3> QED BY <1>6, <2>1, <3>1, <3>2, HeldIs
  <2>4. d \in Seq(Nat \cup {Lost}) /\ Len(d) = Last.n
    BY <1>1, <2>2, HeldIs DEF BasketInv, TypeOK, OpenFacts
  <2>5. c[Last.n + 1] = gop'
    <3>1. Last.n + 1 \in 1 .. h.n /\ h.first + (Last.n + 1) - 1 = End
      BY <1>1, <1>2, <1>6
    <3>2. Own(e, h) /\ e.gop = gop'
      BY <1>1, <1>2, <1>3, <1>6, NothingAssumption DEF Own, OpenFacts
    <3> QED BY <1>4, <2>1, <3>1, <3>2 DEF Held
  <2>6. \A i \in 1 .. Last.n : c[i] = d[i]
    <3> SUFFICES ASSUME NEW i \in 1 .. Last.n PROVE c[i] = d[i]
      OBVIOUS
    <3>1. PICK p : p = Last.first + i - 1
      OBVIOUS
    <3>2. p \in 1 .. Slots /\ p # End /\ i \in 1 .. h.n
      BY <1>1, <1>2, <1>6, <3>1
    <3>3. file'.slot[p] = file.slot[p] /\ file'.data[p] = file.data[p]
      BY <1>4, <3>2
    <3> QED BY <1>6, <2>1, <2>2, <3>1, <3>2, <3>3 DEF Held, Own
  <2>7. c = Append(d, gop')
    <3>1. Append(d, gop') \in Seq(Nat \cup {Lost}) /\ Len(Append(d, gop')) = Last.n + 1
          /\ Append(d, gop')[Last.n + 1] = gop' /\ \A i \in 1 .. Last.n : Append(d, gop')[i] = d[i]
      BY <1>2, <2>4
    <3>2. \A i \in 1 .. Last.n + 1 : c[i] = Append(d, gop')[i]
      BY <1>2, <2>5, <2>6, <3>1
    <3> QED BY <2>3, <3>1, <3>2
  <2> QED BY <2>1, <2>2, <2>7
<1> QED BY <1>1, <1>2, <1>10, <1>11, <1>12, LogOpen DEF Log!Add

\* The log does not notice the header that is written.
LEMMA StopHeaderMaps ==
  ASSUME BasketInv, StopHeader
  PROVE  UNCHANGED <<ClosedNow, TailNow>>
<1> DEFINE m == Len(list)
<1>1. Open /\ phase' = "stopping" /\ OpenFacts /\ m \in Nat \ {0}
  <2>1. Open /\ phase' = "stopping"
    BY DEF StopHeader, Open
  <2> QED BY <2>1, WhileOpen, BasketAssumption DEF OpenFacts
<1>2. PICK h : h = [Last EXCEPT !.writing = FALSE]
  OBVIOUS
<1>3. h \in Header /\ h.use = Last.use /\ h.begin = Last.begin /\ h.first = Last.first /\ h.n = Last.n
  BY <1>1, <1>2 DEF OpenFacts, Header
<1>4. list' = [list EXCEPT ![m] = h]
  BY <1>2 DEF StopHeader, Last
<1>5. list' \in Seq(Header) /\ Len(list') = m /\ list'[m] = h /\ \A k \in 1 .. m - 1 : list'[k] = list[k]
  BY <1>1, <1>3, <1>4 DEF OpenFacts
<1>6. file'.slot = file.slot /\ file'.data = file.data
  BY DEF StopHeader, BasketInv, TypeOK, Files
<1>7. SubSeq(list', 1, Len(list') - 1) = SubSeq(list, 1, Len(list) - 1)
  <2>1. \A k \in 1 .. m - 1 : list'[k] \in Header
    BY <1>1, <1>5 DEF OpenFacts
  <2> HIDE DEF m
  <2>2. /\ SubSeq(list, 1, m - 1) \in Seq(Header) /\ Len(SubSeq(list, 1, m - 1)) = m - 1
        /\ \A k \in 1 .. m - 1 : SubSeq(list, 1, m - 1)[k] = list'[k]
    BY <1>1, <1>5 DEF OpenFacts, m
  <2>3. SubSeq(list', 1, m - 1) = SubSeq(list, 1, m - 1)
    BY <1>1, <2>1, <2>2, FrontSame
  <2> QED BY <1>5, <2>3 DEF m
<1>8. /\ ClosedNow' = Contents(file', SubSeq(list, 1, Len(list) - 1)) /\ TailNow' = Held(file', h)
  <2>1. /\ ClosedNow' = Contents(file', SubSeq(list', 1, Len(list') - 1))
        /\ TailNow' = Held(file', list'[Len(list')])
    BY <1>1 DEF ClosedNow, TailNow, Open
  <2> QED BY <1>5, <1>7, <2>1
<1>9. Contents(file', SubSeq(list, 1, Len(list) - 1)) = Contents(file, SubSeq(list, 1, Len(list) - 1))
  BY <1>1, <1>6, ClosedSame
<1>10. Held(file', h) = Held(file, Last)
  <2>1. Held(file', h) = Held(file, h)
    BY <1>3, <1>6, HeldSame
  <2>2. Held(file, h) = Held(file, Last)
    BY <1>3, HeldOf
  <2> QED BY <2>1, <2>2
<1> QED BY <1>1, <1>8, <1>9, <1>10, LogOpen

\* The fdatasync finishes the fragment of the log.
LEMMA StopSyncMaps ==
  ASSUME BasketInv, StopSync
  PROVE  Log!Finish
<1>1. Open /\ phase' = "idle" /\ file' = file /\ list' = list
  BY DEF StopSync, Open
<1>2. ClosedNow' = Contents(file, list) /\ TailNow' = None
  <2>1. ClosedNow' = Contents(file', list') /\ TailNow' = None
    BY <1>1 DEF ClosedNow, TailNow, Open
  <2> QED BY <1>1, <2>1
<1>3. Contents(file, list) = Append(Contents(file, SubSeq(list, 1, Len(list) - 1)), Held(file, Last))
  BY <1>1, WhileOpen, ContentsLast DEF OpenFacts, Last
<1> QED BY <1>1, <1>2, <1>3, LogOpen DEF Log!Finish

\* Before a fragment is begun the recordings are there, or given up with the old basket.
LEMMA StartLoses ==
  ASSUME BasketInv, phase \in {"reset", "header", "global"}, TailNow' = None,
         ClosedNow' = Contents(file, list) \/ ClosedNow' = ClosedNow
  PROVE  UNCHANGED <<ClosedNow, TailNow>> \/ Log!Wipe
<1>1. TailNow = None /\ (ClosedNow = Contents(file, list) \/ list = <<>>)
  BY LogStart, StartFinds
<1>2. list = <<>> => Contents(file, list) = <<>>
  BY ContentsEmpty
<1> QED BY <1>1, <1>2 DEF Log!Wipe

\* The log does not notice what the kernel writes.
LEMMA WriteBackMaps ==
  ASSUME OnePage, BasketInv, WriteBack
  PROVE  UNCHANGED <<ClosedNow, TailNow>> \/ Log!Wipe
<1>1. phase # "down" /\ phase' = phase /\ file' = file /\ list' = list
  BY DEF WriteBack
<1>2. CASE phase \in {"reset", "header", "global"}
  <2>1. Contents(disk', Recovered(disk')) = Contents(file, list)
    <3>1. /\ disk' \in Files /\ SameHeaders(disk', file)
          /\ disk'.slot = disk.slot /\ disk'.data = disk.data
      BY FirstPageIs DEF BasketInv, TypeOK, OnePage, WriteBack
    <3>2. SameParts(disk', file) /\ Recovered(file) = list
      BY <1>2, <3>1, StartFinds DEF SameParts
    <3> QED BY <3>1, <3>2, SameFinds DEF BasketInv, TypeOK
  <2>2. ClosedNow' = Contents(disk', Recovered(disk')) /\ TailNow' = None
    BY <1>1, <1>2 DEF ClosedNow, TailNow, Open
  <2>3. ClosedNow' = Contents(file, list)
    BY <1>2, <2>1, <2>2, StartFinds
  <2> QED BY <1>2, <2>2, <2>3, StartLoses
<1>3. CASE phase \in {"idle", "writing", "stopping"}
  BY <1>1, <1>3 DEF ClosedNow, TailNow, Open
<1> QED BY <1>1, <1>2, <1>3 DEF BasketInv, TypeOK

\* A crash of any kind.
LEMMA CrashMaps ==
  ASSUME BasketInv, phase # "down", phase' = "down", Crashed(file')
  PROVE  UNCHANGED <<ClosedNow, TailNow>> \/ Log!LogNext
<1>1. ClosedNow' = Contents(file', Recovered(file')) /\ TailNow' = None
  BY DEF ClosedNow, TailNow, Open
<1>2. ASSUME SameParts(disk, file)
      PROVE  \/ ClosedNow' = Contents(file, Recovered(file))
             \/ ClosedNow' = Contents(disk, Recovered(disk))
  <2>1. file' \in Files /\ file \in Files /\ disk \in Files
    BY DEF Crashed, BasketInv, TypeOK
  <2>2. \A i \in 1 .. Slots : file'.slot[i] = file.slot[i] /\ file'.data[i] = file.data[i]
    BY <1>2 DEF SameParts, Crashed
  <2>3. /\ file'.slot = [i \in 1 .. Slots |-> file'.slot[i]] /\ file'.data = [i \in 1 .. Slots |-> file'.data[i]]
        /\ file.slot = [i \in 1 .. Slots |-> file.slot[i]] /\ file.data = [i \in 1 .. Slots |-> file.data[i]]
    BY <2>1 DEF Files
  <2>4. /\ [i \in 1 .. Slots |-> file'.slot[i]] = [i \in 1 .. Slots |-> file.slot[i]]
        /\ [i \in 1 .. Slots |-> file'.data[i]] = [i \in 1 .. Slots |-> file.data[i]]
    BY <2>2
  <2>5. SameParts(file', file) /\ SameParts(file', disk)
    BY <1>2, <2>3, <2>4 DEF SameParts
  <2> QED BY <1>1, <2>1, <2>5, SameFinds DEF Crashed
<1>3. CASE phase = "idle"
  <2>1. disk = file /\ Recovered(file) = list
    BY <1>3, IdleFinds
  <2>2. ClosedNow' = Contents(file, list)
    BY <1>2, <2>1 DEF SameParts
  <2> QED BY <1>1, <1>3, <2>2, LogIdle
<1>5. CASE phase \in {"reset", "header", "global"}
  <2>1. ClosedNow' = Contents(file, list) \/ ClosedNow' = ClosedNow
    BY <1>2, <1>5, StartFinds, LogStart
  <2> QED BY <1>1, <1>5, <2>1, StartLoses DEF Log!LogNext
<1>4. CASE phase \in {"writing", "stopping"}
  <2>1. Open
    BY <1>4 DEF Open
  <2>2. PICK g : g = file'
    OBVIOUS
  <2>3. PICK closed, tail, after :
          /\ closed = Contents(file, SubSeq(list, 1, Len(list) - 1)) /\ tail = Held(file, Last)
          /\ after = Contents(g, Recovered(g))
    OBVIOUS
  <2>4. \/ after = closed
        \/ after = Append(closed, tail)
        \/ \E n \in 1 .. Len(tail) : \E lost \in SUBSET (1 .. n) :
             after = Append(closed, [i \in 1 .. n |-> IF i \in lost THEN Lost ELSE tail[i]])
    BY <1>4, <2>1, <2>2, <2>3, CrashLeaves
  <2>5. ClosedNow = closed /\ TailNow = tail /\ tail # None /\ ClosedNow' = after
    BY <1>1, <2>1, <2>2, <2>3, LogOpen
  <2>6. CASE after = closed
    BY <1>1, <2>5, <2>6 DEF Log!Crash, Log!LogNext
  <2>7. CASE after = Append(closed, tail)
    BY <1>1, <2>5, <2>7 DEF Log!Finish, Log!LogNext
  <2>8. CASE \E n \in 1 .. Len(tail) : \E lost \in SUBSET (1 .. n) :
               after = Append(closed, [i \in 1 .. n |-> IF i \in lost THEN Lost ELSE tail[i]])
    BY <1>1, <2>5, <2>8 DEF Log!Crash, Log!Left, Log!LogNext
  <2> QED BY <2>4, <2>6, <2>7, <2>8
<1> QED BY <1>3, <1>4, <1>5 DEF BasketInv, TypeOK

\* A kill is a crash of the log that loses an end of the open fragment.
LEMMA KillMaps ==
  ASSUME BasketInv, Kill
  PROVE  UNCHANGED <<ClosedNow, TailNow>> \/ Log!LogNext
<1>1. phase # "down" /\ phase' = "down" /\ file' = file
  BY DEF Kill, Down
<1>2. Crashed(file')
  BY <1>1 DEF Crashed, SameHeaders, BasketInv, TypeOK
<1> QED BY <1>1, <1>2, CrashMaps

\* A power cut is a crash of the log that may lose groups of the open fragment as well.
LEMMA PowerCutMaps ==
  ASSUME OnePage, BasketInv, PowerCut
  PROVE  UNCHANGED <<ClosedNow, TailNow>> \/ Log!LogNext
<1>1. phase # "down" /\ phase' = "down"
  BY DEF PowerCut, Down
<1>2. /\ file' \in Files
      /\ SameHeaders(file', disk) \/ SameHeaders(file', file)
      /\ \A i \in 1 .. Slots : file'.slot[i] \in {disk.slot[i], file.slot[i]}
      /\ \A i \in 1 .. Slots : file'.data[i] \in {disk.data[i], file.data[i]}
  BY PowerCutIs DEF BasketInv
<1>3. Crashed(file')
  <2>1. HeadersOK(file')
    BY <1>2, HeadersSame DEF BasketInv, TypeOK
  <2> QED BY <1>2, <2>1 DEF Crashed
<1> QED BY <1>1, <1>3, CrashMaps

\* The scan finds what the log says was left.
LEMMA ScanMaps ==
  ASSUME BasketInv, Scan
  PROVE  UNCHANGED <<ClosedNow, TailNow>>
<1>1. phase = "down" /\ phase' = "idle" /\ list' = Recovered(file)
  BY DEF Scan
<1>2. file'.slot = file.slot /\ file'.data = file.data
  BY DEF Scan, BasketInv, TypeOK, Files
<1>3. ClosedNow' = Contents(file', list') /\ TailNow' = None
  BY <1>1 DEF ClosedNow, TailNow, Open
<1>4. list' \in Seq(Header)
  BY <1>1, ScanFinds DEF BasketInv, TypeOK
<1>5. Contents(file', list') = Contents(file, list')
  BY <1>2, <1>4, ContentsSame
<1> QED BY <1>1, <1>3, <1>5, LogDown

\* Every step of a basket is a step of the log, or none.
LEMMA StepMaps ==
  ASSUME OnePage, BasketInv, [Next]_vars
  PROVE  [Log!LogNext]_(Log!LogVars)
<1> SUFFICES UNCHANGED <<ClosedNow, TailNow>> \/ Log!LogNext
  BY DEF Log!LogVars
<1>1. CASE Reset \/ StartHeader \/ StartGlobal
  BY <1>1, StartMaps
<1>2. CASE StartSync
  BY <1>2, StartSyncMaps DEF Log!LogNext
<1>3. CASE Write
  BY <1>3, WriteMaps DEF Log!LogNext
<1>4. CASE StopHeader
  BY <1>4, StopHeaderMaps
<1>5. CASE StopSync
  BY <1>5, StopSyncMaps DEF Log!LogNext
<1>6. CASE WriteBack
  BY <1>6, WriteBackMaps DEF Log!LogNext
<1>7. CASE Kill
  BY <1>7, KillMaps
<1>8. CASE PowerCut
  BY <1>8, PowerCutMaps
<1>9. CASE Scan
  BY <1>9, ScanMaps
<1>10. CASE UNCHANGED vars
  BY <1>10 DEF vars, ClosedNow, TailNow, Open
<1> QED BY <1>1, <1>2, <1>3, <1>4, <1>5, <1>6, <1>7, <1>8, <1>9, <1>10 DEF Next

\* strg_basket.c:352 and 1078: a basket implements StrgLog as long as it does not count more
\* fragments than have their headers in the page of the global record. What was stopped outlives
\* any number of crashes, and of what was not there is its beginning, with gaps after a power
\* cut, or nothing.
THEOREM BasketKeepsLog == Spec /\ []FewFragments => KeepsLog
<1>1. OnePage /\ BasketInv /\ [Next]_vars => [Log!LogNext]_(Log!LogVars)
  BY StepMaps
<1> QED BY LogInitMaps, <1>1, BasketAlways, OnePageAlways, PTL DEF Spec, KeepsLog, Log!LogSpec

-----------------------------------------------------------------------------
(***************************************************************************)
(* What is readable.                                                       *)
(***************************************************************************)

Whole(c) == \A k \in DOMAIN c : Lost \notin Range(c[k])

\* A list of readable fragments and a readable one.
LEMMA WholeAppend ==
  ASSUME NEW f, NEW l \in Seq(Header), NEW t, Whole(Contents(f, l)), Lost \notin Range(t)
  PROVE  Whole(Append(Contents(f, l), t))
<1> DEFINE n == Len(l)
<1>1. PICK c : c = Contents(f, l)
  OBVIOUS
<1>2. n \in Nat /\ c \in [1 .. n -> {Held(f, l[k]) : k \in 1 .. n}]
  BY <1>1 DEF Contents
<1>3. c \in Seq({Held(f, l[k]) : k \in 1 .. n}) /\ Len(c) = n
  <2> HIDE DEF n
  <2> QED BY <1>2, IsSeq
<1> HIDE DEF n
<1>4. /\ DOMAIN Append(c, t) = 1 .. n + 1 /\ Append(c, t)[n + 1] = t
      /\ \A k \in 1 .. n : Append(c, t)[k] = c[k]
  BY <1>2, <1>3
<1>5. \A k \in 1 .. n + 1 : k = n + 1 \/ k \in 1 .. n
  BY <1>2
<1>6. DOMAIN c = 1 .. n
  BY <1>2
<1>7. Whole(Append(c, t))
  BY <1>1, <1>4, <1>5, <1>6 DEF Whole
<1> QED BY <1>1, <1>7

\* The open fragment is readable while its process lives.
LEMMA TailReadable ==
  ASSUME BasketInv, Open
  PROVE  Lost \notin Range(Held(file, Last))
<1>1. \A i \in 1 .. Last.n : Held(file, Last)[i] # Lost
  BY TailWhole, BasketAssumption
<1>2. DOMAIN Held(file, Last) = 1 .. Last.n
  BY DEF Held
<1> QED BY <1>1, <1>2 DEF Range

\* What a kill leaves is readable.
LEMMA KillReadable ==
  ASSUME BasketInv, Whole(ClosedNow), Kill
  PROVE  Whole(ClosedNow')
<1>1. phase # "down" /\ phase' = "down" /\ file' = file
  BY DEF Kill, Down
<1>2. ClosedNow' = Contents(file, Recovered(file))
  <2>1. ClosedNow' = Contents(file', Recovered(file'))
    BY <1>1 DEF ClosedNow, Open
  <2> QED BY <1>1, <2>1
<1>3. CASE phase = "idle"
  BY <1>2, <1>3, LogIdle, IdleFinds
<1>4. CASE phase \in {"reset", "header", "global"}
  <2>1. ClosedNow' = ClosedNow \/ ClosedNow' = <<>>
    BY <1>2, <1>4, LogStart, StartFinds, ContentsEmpty
  <2> QED BY <2>1 DEF Whole
<1>5. CASE Open
  <2>1. OpenFacts /\ Crashed(file)
    BY <1>5, WhileOpen DEF Crashed, SameHeaders, BasketInv, TypeOK
  <2>2. PICK l \in Seq(Header) : l = SubSeq(list, 1, Len(list) - 1)
    BY <2>1 DEF OpenFacts
  <2>3. PICK closed, tail, after :
          closed = Contents(file, l) /\ tail = Held(file, Last) /\ after = Contents(file, Recovered(file))
    OBVIOUS
  <2>4. \/ after = closed
        \/ after = Append(closed, tail)
        \/ \E n \in 1 .. Len(tail) : after = Append(closed, [i \in 1 .. n |-> tail[i]])
    <3>1. \/ after = closed
          \/ after = Append(closed, tail)
          \/ \E n \in 1 .. Len(tail) : \E lost \in SUBSET (1 .. n) :
               /\ after = Append(closed, [i \in 1 .. n |-> IF i \in lost THEN Lost ELSE tail[i]])
               /\ file = file => lost = {}
      BY <1>5, <2>1, <2>2, <2>3, CrashLeaves
    <3> QED BY <3>1
  <2>5. Whole(closed) /\ Lost \notin Range(tail)
    BY <1>5, <2>2, <2>3, LogOpen, TailReadable
  <2>6. \A n \in 1 .. Len(tail) : Lost \notin Range([i \in 1 .. n |-> tail[i]])
    <3>1. Len(tail) = Last.n /\ Last.n \in Nat
      BY <2>1, <2>3, HeldIs, HeaderIs DEF OpenFacts, BasketInv, TypeOK
    <3>2. \A i \in 1 .. Last.n : tail[i] # Lost
      BY <1>5, <2>3, TailWhole, BasketAssumption
    <3> QED BY <3>1, <3>2 DEF Range
  <2> QED BY <1>2, <2>3, <2>4, <2>5, <2>6, WholeAppend
<1> QED BY <1>1, <1>3, <1>4, <1>5 DEF BasketInv, TypeOK, Open

\* strg_basket.c:1002: what the scan keeps after the process died can be read to the end.
THEOREM ReadableAlways == Spec /\ []FewFragments => []ReadableUnlessCut
<1>1. Init => ReadableUnlessCut
  BY LogIdle, ContentsEmpty DEF Init, ReadableUnlessCut
<1>2. ReadableUnlessCut <=> (~cut => Whole(ClosedNow))
  BY DEF ReadableUnlessCut, Whole
<1>3. ASSUME OnePage, BasketInv, ReadableUnlessCut, [Next]_vars
      PROVE  ReadableUnlessCut'
  <2> SUFFICES ASSUME ~cut' PROVE Whole(ClosedNow')
    BY DEF ReadableUnlessCut, Whole
  <2>1. ~PowerCut /\ cut' = cut
    BY <1>3 DEF Next, Reset, StartHeader, StartGlobal, StartSync, Write, StopHeader, StopSync,
                WriteBack, Kill, PowerCut, Scan, vars
  <2>2. Whole(ClosedNow)
    BY <1>2, <1>3, <2>1
  <2>3. ClosedNow' \in {ClosedNow, <<>>} => Whole(ClosedNow')
    BY <2>2 DEF Whole
  <2>4. CASE Reset \/ StartHeader \/ StartGlobal
    BY <1>3, <2>3, <2>4, StartMaps
  <2>5. CASE StartSync
    BY <1>3, <2>3, <2>5, StartSyncMaps DEF Log!Begin
  <2>6. CASE Write
    BY <1>3, <2>3, <2>6, WriteMaps DEF Log!Add
  <2>7. CASE StopHeader
    BY <1>3, <2>3, <2>7, StopHeaderMaps
  <2>8. CASE StopSync
    <3>1. Open
      BY <2>8 DEF StopSync, Open
    <3>2. PICK l \in Seq(Header) : l = SubSeq(list, 1, Len(list) - 1)
      BY <1>3, <3>1, WhileOpen DEF OpenFacts
    <3>3. ClosedNow = Contents(file, l) /\ TailNow = Held(file, Last)
      BY <1>3, <3>1, <3>2, LogOpen
    <3>4. ClosedNow' = Append(Contents(file, l), Held(file, Last))
      BY <1>3, <2>8, <3>3, StopSyncMaps DEF Log!Finish
    <3> QED BY <1>3, <2>2, <3>1, <3>3, <3>4, TailReadable, WholeAppend
  <2>9. CASE WriteBack
    BY <1>3, <2>3, <2>9, WriteBackMaps DEF Log!Wipe
  <2>10. CASE Kill
    BY <1>3, <2>2, <2>10, KillReadable
  <2>11. CASE Scan
    BY <1>3, <2>3, <2>11, ScanMaps
  <2>12. CASE UNCHANGED vars
    BY <2>3, <2>12 DEF vars, ClosedNow, Open
  <2> QED
    BY <1>3, <2>1, <2>4, <2>5, <2>6, <2>7, <2>8, <2>9, <2>10, <2>11, <2>12 DEF Next
<1> QED BY <1>1, <1>3, BasketAlways, OnePageAlways, PTL DEF Spec

-----------------------------------------------------------------------------
(***************************************************************************)
(* However many headers are in the first page: what a process finds of its *)
(* own doing, and what a kill costs.                                       *)
(***************************************************************************)

\* The fragments of headers h[1] to h[m] lie one after the other, and all but the last are
\* finished.
Chained(h, m) == \A k \in 1 .. m - 1 : ~h[k].writing /\ h[k+1].first = h[k].first + h[k].n

CountInv ==
  IF phase = "down" THEN list = <<>>
  ELSE file.num = IF phase = "global" THEN Len(list) + 1 ELSE Len(list)

ClosedInv ==
  \A k \in 1 .. Len(list) :
    k < Len(list) \/ phase # "writing" => ~list[k].writing /\ file.hdr[k] = list[k]

NewInv == phase \in {"header", "global"} => NewHeader(file)

\* The groups of the fragment being written have the numbers from its begin on, and behind
\* them there are only index entries from before.
InStep ==
  phase = "writing" =>
    /\ Stub(file.hdr[Len(list)])
    /\ End <= Slots + 1 /\ Last.begin + Last.n = gop + 1
    /\ \A p \in Last.first .. Last.first + Last.n - 1 :
         file.slot[p] = [use |-> use, gop |-> Last.begin + (p - Last.first)]
    /\ \A p \in Last.first + Last.n .. Slots : Old(file.slot[p])

ApartInv ==
  ~cut => FragmentsApart /\ (phase = "down" => Chained(file.hdr, file.num))

FileInv ==
  /\ Past(file) /\ Past(disk) /\ CountInv /\ ClosedInv /\ NewInv /\ InStep /\ ApartInv

\* Where the fragment being written ends.
LEMMA OpenIs ==
  ASSUME TypeOK, list # <<>>
  PROVE  /\ Len(list) \in 1 .. Frags /\ Len(list) \in Nat \ {0} /\ Last \in Header
         /\ list[Len(list)] = Last /\ End = Last.first + Last.n /\ End \in Nat /\ 1 <= End
<1>1. Len(list) \in 1 .. Frags /\ Last \in Header
  BY BasketAssumption DEF TypeOK, Last
<1> QED BY <1>1, HeaderIs, BasketAssumption DEF End, Last

\* Only a crash without what the kernel had to write, and the frames written, change the
\* index; a power cut leaves old or new entries.
LEMMA PastStep ==
  ASSUME TypeInv, Past(file), Past(disk), [Next]_vars
  PROVE  Past(file)' /\ Past(disk)'
<1>0. /\ file \in Files /\ disk \in Files /\ gop \in Nat /\ DOMAIN file.slot = 1 .. Slots
  BY BasketAssumption DEF TypeInv, TypeOK, Files
<1>1. CASE Write
  <2>1. PICK e : e = [use |-> use, gop |-> gop']
    OBVIOUS
  <2>2. file'.slot = [file.slot EXCEPT ![End] = e] /\ disk' = disk /\ gop' = gop + 1
    BY <1>0, <1>1, <2>1 DEF Files, Write
  <2>3. \A p \in 1 .. Slots : file'.slot[p] \in {e, file.slot[p]}
    BY <1>0, <2>2
  <2>4. e.gop = gop'
    BY <2>1
  <2>5. Past(file)'
    <3> SUFFICES ASSUME NEW p \in 1 .. Slots, file'.slot[p] # Nothing
                 PROVE  file'.slot[p].gop <= gop'
      BY DEF Past
    <3>1. file.slot[p] # Nothing => file.slot[p].gop \in Nat /\ file.slot[p].gop <= gop
      BY <1>0, EntryIs DEF Past
    <3> QED BY <1>0, <2>2, <2>3, <2>4, <3>1
  <2>6. Past(disk)'
    <3>1. \A p \in 1 .. Slots : disk.slot[p] # Nothing => disk.slot[p].gop \in Nat
      BY <1>0, EntryIs
    <3> QED BY <1>0, <2>2, <3>1 DEF Past
  <2> QED BY <2>5, <2>6
<1>2. CASE PowerCut
  <2>1. PICK f, hdrs, slots, datas :
          f \in {FirstPage(disk, file), disk} /\ disk' = Others(f, file, hdrs, slots, datas)
    BY <1>2 DEF PowerCut
  <2>2. f \in Files /\ f.slot = disk.slot
    <3>1. FirstPage(disk, file) \in Files
      BY <1>0, MixedFiles
    <3>2. FirstPage(disk, file).slot = disk.slot
      BY <1>0 DEF FirstPage, Files
    <3> QED BY <1>0, <2>1, <3>1, <3>2
  <2>3. disk'.slot = [i \in 1 .. Slots |-> IF i \in slots THEN file.slot[i] ELSE f.slot[i]]
    BY <2>1, <2>2 DEF Others, Files
  <2>4. disk' = file' /\ gop' = gop
    BY <1>2 DEF PowerCut, Down
  <2>5. Past(disk)'
    BY <2>2, <2>3, <2>4 DEF Past
  <2> QED BY <2>4, <2>5 DEF Past
<1>3. CASE ~Write /\ ~PowerCut
  <2>1. file'.slot = file.slot /\ gop' = gop
    BY <1>0, <1>3 DEF Files, Next, Reset, StartHeader, StartGlobal, StartSync, StopHeader,
       StopSync, WriteBack, Kill, Down, Scan, vars
  <2>2. disk'.slot \in {disk.slot, file.slot, file'.slot}
    <3>1. FirstPage(disk, file).slot = disk.slot
      BY <1>0 DEF FirstPage, Files
    <3> QED BY <1>3, <3>1 DEF Next, Reset, StartHeader, StartGlobal, StartSync, StopHeader,
       StopSync, Synced, WriteBack, Kill, Down, Scan, vars
  <2> QED BY <2>1, <2>2 DEF Past
<1> QED BY <1>1, <1>2, <1>3

\* The headers in the file lie one after the other if those in memory do.
LEMMA FileChained ==
  ASSUME TypeInv, FileInv, ~cut, phase # "down"
  PROVE  Chained(file.hdr, file.num)
<1>1. TypeOK /\ FragmentsApart /\ Len(list) \in Nat
  BY BasketAssumption DEF TypeInv, TypeOK, FileInv, ApartInv
<1>2. SUFFICES ASSUME NEW k \in 1 .. file.num - 1
               PROVE  ~file.hdr[k].writing /\ file.hdr[k+1].first = file.hdr[k].first + file.hdr[k].n
  BY DEF Chained
<1>3. CASE k < Len(list)
  <2>1. k \in 1 .. Len(list) - 1 /\ k \in 1 .. Len(list) /\ k + 1 \in 1 .. Len(list)
    BY <1>1, <1>3
  <2>2. ~file.hdr[k].writing /\ file.hdr[k] = list[k]
    BY <1>3, <2>1 DEF FileInv, ClosedInv
  <2>3. file.hdr[k+1].first = list[k+1].first
    <3>1. CASE k + 1 < Len(list) \/ phase # "writing"
      BY <2>1, <3>1 DEF FileInv, ClosedInv
    <3>2. CASE k + 1 = Len(list) /\ phase = "writing"
      BY <3>2 DEF FileInv, InStep, Stub, Last
    <3> QED BY <2>1, <3>1, <3>2
  <2> QED BY <1>1, <2>1, <2>2, <2>3 DEF FragmentsApart
<1>4. CASE ~(k < Len(list))
  <2>1. phase = "global" /\ k = Len(list) /\ list # <<>>
    BY <1>1, <1>4 DEF FileInv, CountInv
  <2>2. file.hdr[k+1].first = End
    BY <2>1 DEF FileInv, NewInv, NewHeader
  <2>3. End = list[k].first + list[k].n
    BY <2>1 DEF End
  <2>4. ~list[k].writing /\ file.hdr[k] = list[k]
    BY <1>1, <2>1 DEF FileInv, ClosedInv
  <2> QED BY <2>2, <2>3, <2>4
<1> QED BY <1>3, <1>4

\* A reset empties the list and the count.
LEMMA ResetFile ==
  ASSUME TypeInv, FileInv, Reset
  PROVE  CountInv' /\ ClosedInv' /\ NewInv' /\ InStep' /\ ApartInv'
<1>1. file'.num = 0 /\ list' = <<>> /\ phase' = "reset"
  BY DEF TypeInv, TypeOK, Files, Reset
<1>2. CountInv' /\ NewInv' /\ InStep'
  BY <1>1 DEF CountInv, NewInv, InStep
<1>3. ClosedInv' /\ FragmentsApart'
  BY <1>1 DEF ClosedInv, FragmentsApart
<1> QED BY <1>1, <1>2, <1>3 DEF ApartInv

\* The header of a new fragment is written behind those of the others.
LEMMA StartHeaderFile ==
  ASSUME TypeInv, TypeInv', FileInv, StartHeader
  PROVE  CountInv' /\ ClosedInv' /\ NewInv' /\ InStep' /\ ApartInv'
<1>0. /\ TypeOK /\ phase' = "header" /\ phase \in {"reset", "idle"} /\ list' = list /\ use' = use
      /\ gop' = gop /\ cut' = cut
  BY DEF TypeInv, StartHeader
<1>1. PICK late : file' = [file EXCEPT !.hdr[Len(list) + 1] =
                             [use |-> use, begin |-> gop + 1, late |-> late,
                              first |-> End, n |-> 0, writing |-> TRUE]]
  BY DEF StartHeader
<1>2. PICK h : h = [use |-> use, begin |-> gop + 1, late |-> late, first |-> End, n |-> 0,
                    writing |-> TRUE]
  OBVIOUS
<1>3. Len(list) \in Nat /\ Len(list) + 1 \in 1 .. Frags /\ DOMAIN file.hdr = 1 .. Frags
  BY <1>0, BasketAssumption DEF TypeOK, Files, StartHeader
<1>4. file'.hdr = [file.hdr EXCEPT ![Len(list) + 1] = h] /\ file'.num = file.num
  BY <1>0, <1>1, <1>2 DEF TypeOK, Files
<1>5. file'.hdr[Len(list) + 1] = h /\ \A k \in 1 .. Len(list) : file'.hdr[k] = file.hdr[k]
  <2>1. \A k \in 1 .. Len(list) : k \in 1 .. Frags /\ k # Len(list) + 1
    BY <1>3, BasketAssumption
  <2> QED BY <1>3, <1>4, <2>1
<1>6. CountInv'
  BY <1>0, <1>4 DEF FileInv, CountInv
<1>7. ClosedInv'
  BY <1>0, <1>5 DEF FileInv, ClosedInv
<1>8. NewInv'
  <2>1. h.use = use /\ h.begin = gop + 1 /\ h.first = End /\ h.n = 0 /\ h.writing
    BY <1>2
  <2>2. h \in Header /\ Len(list) + 1 <= Frags /\ End' = End
    BY <1>0, <1>5 DEF TypeInv, End
  <2> QED BY <1>0, <1>5, <2>1, <2>2 DEF NewInv, NewHeader
<1>9. InStep' /\ ApartInv'
  BY <1>0 DEF InStep, FileInv, ApartInv, FragmentsApart
<1> QED BY <1>6, <1>7, <1>8, <1>9

\* The global record counts it.
LEMMA StartGlobalFile ==
  ASSUME TypeInv, FileInv, StartGlobal
  PROVE  CountInv' /\ ClosedInv' /\ NewInv' /\ InStep' /\ ApartInv'
<1>1. /\ phase = "header" /\ phase' = "global" /\ list' = list /\ use' = use /\ gop' = gop /\ cut' = cut
      /\ file'.num = Len(list) + 1 /\ file'.hdr = file.hdr
  BY DEF TypeInv, TypeOK, Files, StartGlobal
<1>2. NewInv'
  <2>1. NewHeader(file) /\ End' = End
    BY <1>1 DEF FileInv, NewInv, End
  <2> QED BY <1>1, <2>1 DEF NewInv, NewHeader
<1> QED
  BY <1>1, <1>2 DEF CountInv, FileInv, ClosedInv, InStep, ApartInv, FragmentsApart

\* A fragment begins with the next group to be written; all index entries are from before.
LEMMA StartSyncFile ==
  ASSUME TypeInv, FileInv, StartSync
  PROVE  CountInv' /\ ClosedInv' /\ NewInv' /\ InStep' /\ ApartInv'
<1>1. PICK h : h = file.hdr[Len(list) + 1]
  OBVIOUS
<1>2. /\ TypeOK /\ h \in Header /\ h.use = use /\ h.begin = gop + 1 /\ h.first = End /\ h.n = 0
      /\ h.writing /\ list' = Append(list, h) /\ list \in Seq(Header) /\ Len(list) \in Nat
      /\ phase = "global" /\ phase' = "writing" /\ file' = file /\ use' = use /\ gop' = gop /\ cut' = cut
      /\ file.num = Len(list) + 1
  BY <1>1, BasketAssumption
     DEF TypeInv, TypeOK, FileInv, CountInv, NewInv, NewHeader, StartSync
<1>3. /\ Len(list') = Len(list) + 1 /\ list'[Len(list) + 1] = h
      /\ \A k \in 1 .. Len(list) : list'[k] = list[k]
  BY <1>2
<1>4. Last' = h /\ list' # <<>> /\ End' = h.first + h.n
  BY <1>2, <1>3 DEF Last, End
<1>5. h.begin \in Nat /\ h.first \in Nat /\ h.first <= Slots /\ Slots \in Nat /\ gop \in Nat
  BY <1>2, HeaderIs, BasketAssumption DEF TypeOK
<1>6. CountInv' /\ NewInv'
  BY <1>2, <1>3 DEF CountInv, NewInv
<1>7. ClosedInv'
  <2> SUFFICES ASSUME NEW k \in 1 .. Len(list'), k < Len(list')
               PROVE  ~list'[k].writing /\ file.hdr[k] = list'[k]
    BY <1>2 DEF ClosedInv
  <2>1. k \in 1 .. Len(list)
    BY <1>2, <1>3
  <2> QED BY <1>2, <1>3, <2>1 DEF FileInv, ClosedInv
<1>8. InStep'
  <2>1. Stub(file.hdr[Len(list)])'
    BY <1>1, <1>2, <1>3, <1>4 DEF Stub
  <2>2. End' <= Slots + 1 /\ h.begin + h.n = gop' + 1 /\ h.first .. h.first + h.n - 1 = {}
    BY <1>2, <1>4, <1>5
  <2>3. \A p \in h.first + h.n .. Slots : Old(file.slot[p])'
    <3> SUFFICES ASSUME NEW p \in h.first + h.n .. Slots, file.slot[p] # Nothing
                 PROVE  file.slot[p].gop < h.begin
      BY <1>2, <1>4 DEF Old
    <3>1. End \in Nat /\ 1 <= End
      BY <1>2, <1>5, HeaderIs
    <3>2. p \in 1 .. Slots
      BY <1>2, <1>5, <3>1
    <3>3. file.slot[p].gop \in Nat /\ file.slot[p].gop <= gop
      BY <1>2, <3>2, EntryIs DEF TypeOK, FileInv, Past
    <3> QED BY <1>2, <1>5, <3>3
  <2> QED BY <1>2, <1>4, <2>1, <2>2, <2>3 DEF InStep
<1>9. ApartInv'
  <2> SUFFICES ASSUME ~cut, NEW k \in 1 .. Len(list') - 1
               PROVE  list'[k+1].first = list'[k].first + list'[k].n
    BY <1>2 DEF ApartInv, FragmentsApart
  <2>1. CASE k < Len(list)
    <3>1. k \in 1 .. Len(list) - 1 /\ k \in 1 .. Len(list) /\ k + 1 \in 1 .. Len(list)
      BY <1>2, <2>1
    <3> QED BY <1>3, <3>1 DEF FileInv, ApartInv, FragmentsApart
  <2>2. CASE k = Len(list)
    <3>1. End = list[k].first + list[k].n /\ list'[k+1] = h /\ list'[k] = list[k]
      BY <1>2, <1>3, <2>2 DEF End
    <3> QED BY <1>2, <3>1
  <2> QED BY <1>2, <1>3, <2>1, <2>2
<1> QED BY <1>6, <1>7, <1>8, <1>9

\* The next group is written behind the others.
LEMMA WriteFile ==
  ASSUME TypeInv, TypeInv', FileInv, Write
  PROVE  CountInv' /\ ClosedInv' /\ NewInv' /\ InStep' /\ ApartInv'
<1> DEFINE m == Len(list)
<1>1. /\ TypeOK /\ list # <<>> /\ phase = "writing" /\ phase' = "writing" /\ use' = use /\ cut' = cut
      /\ gop' = gop + 1 /\ gop \in Nat /\ Slots \in Nat /\ DOMAIN file.slot = 1 .. Slots
  BY BasketAssumption DEF TypeInv, TypeOK, Files, Write
<1>2. /\ m \in 1 .. Frags /\ m \in Nat \ {0} /\ Last \in Header /\ list[m] = Last
      /\ End = Last.first + Last.n /\ End \in 1 .. Slots
  BY <1>1, OpenIs DEF Write, Room
<1>3. Last.first \in Nat /\ Last.first >= 1 /\ Last.n \in Nat /\ Last.begin \in Nat
  BY <1>2, HeaderIs
<1>4. PICK e : e = [use |-> use, gop |-> gop']
  OBVIOUS
<1>5. file'.slot = [file.slot EXCEPT ![End] = e] /\ file'.hdr = file.hdr /\ file'.num = file.num
  BY <1>1, <1>4 DEF TypeOK, Files, Write
<1>6. file'.slot[End] = e /\ \A p \in 1 .. Slots : p # End => file'.slot[p] = file.slot[p]
  BY <1>1, <1>2, <1>5
<1>7. PICK h : h = [[Last EXCEPT !.n = Last.n + 1] EXCEPT !.late = FALSE]
  OBVIOUS
<1>8. h.begin = Last.begin /\ h.first = Last.first /\ h.n = Last.n + 1
  <2>1. h = [use |-> Last.use, begin |-> Last.begin, late |-> FALSE, first |-> Last.first,
             n |-> Last.n + 1, writing |-> Last.writing]
    BY <1>2, <1>7, HeaderGrown
  <2> QED BY <2>1
<1>9. /\ Len(list') = m /\ list'[m] = h /\ list' # <<>>
      /\ \A k \in 1 .. m : k # m => list'[k] = list[k]
  <2>1. list' = [list EXCEPT ![m] = h] /\ list \in Seq(Header)
    BY <1>1, <1>2, <1>7 DEF TypeOK, Write
  <2>2. Len(list') = m /\ list'[m] = h /\ \A k \in 1 .. m : k # m => list'[k] = list[k]
    BY <1>2, <2>1
  <2>3. list' # <<>>
    BY <1>2, <2>2
  <2> QED BY <2>2, <2>3
<1>10. Last' = h /\ End' = h.first + h.n
  BY <1>9 DEF Last, End
<1>11. CountInv' /\ NewInv'
  BY <1>1, <1>5, <1>9 DEF FileInv, CountInv, NewInv
<1>12. ClosedInv'
  <2> SUFFICES ASSUME NEW k \in 1 .. m, k < m PROVE ~list'[k].writing /\ file'.hdr[k] = list'[k]
    BY <1>1, <1>9 DEF ClosedInv
  <2> QED BY <1>1, <1>2, <1>5, <1>9 DEF FileInv, ClosedInv
<1>13. InStep'
  <2>1. Stub(file.hdr[Len(list)])'
    BY <1>1, <1>5, <1>8, <1>9, <1>10 DEF FileInv, InStep, Stub
  <2>2. End' <= Slots + 1 /\ h.begin + h.n = gop' + 1
    BY <1>1, <1>2, <1>3, <1>8, <1>10 DEF FileInv, InStep
  <2>3. ASSUME NEW p \in h.first .. h.first + h.n - 1
        PROVE  file'.slot[p] = [use |-> use, gop |-> h.begin + (p - h.first)]
    <3>1. CASE p = End
      <4>1. gop' = h.begin + (p - h.first)
        BY <1>1, <1>2, <1>3, <1>8, <3>1 DEF FileInv, InStep
      <4> QED BY <1>4, <1>6, <3>1, <4>1
    <3>2. CASE p # End
      <4>1. p \in Last.first .. Last.first + Last.n - 1 /\ p \in 1 .. Slots
        BY <1>1, <1>2, <1>3, <1>8, <3>2
      <4> QED BY <1>1, <1>6, <1>8, <3>2, <4>1 DEF FileInv, InStep
    <3> QED BY <3>1, <3>2
  <2>4. \A p \in h.first + h.n .. Slots : Old(file.slot[p])'
    <3> SUFFICES ASSUME NEW p \in h.first + h.n .. Slots,
                        file'.slot[p] # Nothing, file'.slot[p].use = use
                 PROVE  file'.slot[p].gop < h.begin
      BY <1>1, <1>10 DEF Old
    <3>1. p \in Last.first + Last.n .. Slots /\ p \in 1 .. Slots /\ p # End
      BY <1>1, <1>2, <1>3, <1>8
    <3>2. Old(file.slot[p])
      BY <1>1, <3>1 DEF FileInv, InStep
    <3> QED BY <1>6, <1>8, <3>1, <3>2 DEF Old
  <2> QED BY <1>1, <1>9, <1>10, <2>1, <2>2, <2>3, <2>4 DEF InStep
<1>14. ApartInv'
  <2> SUFFICES ASSUME ~cut, NEW k \in 1 .. m - 1
               PROVE  list'[k+1].first = list'[k].first + list'[k].n
    BY <1>1, <1>9 DEF ApartInv, FragmentsApart
  <2>1. k \in 1 .. m /\ k # m /\ k + 1 \in 1 .. m
    BY <1>2
  <2>2. list'[k] = list[k] /\ list'[k+1].first = list[k+1].first
    BY <1>2, <1>8, <1>9, <2>1
  <2> QED BY <2>2 DEF FileInv, ApartInv, FragmentsApart
<1> QED BY <1>11, <1>12, <1>13, <1>14

\* The header of the fragment is written again, with its length.
LEMMA StopHeaderFile ==
  ASSUME TypeInv, FileInv, StopHeader
  PROVE  CountInv' /\ ClosedInv' /\ NewInv' /\ InStep' /\ ApartInv'
<1> DEFINE m == Len(list)
<1>1. /\ TypeOK /\ list # <<>> /\ phase = "writing" /\ phase' = "stopping" /\ cut' = cut
      /\ DOMAIN file.hdr = 1 .. Frags
  BY DEF TypeInv, TypeOK, Files, StopHeader
<1>2. m \in 1 .. Frags /\ m \in Nat \ {0} /\ Last \in Header /\ list[m] = Last
  BY <1>1, OpenIs
<1>3. PICK h : h = [Last EXCEPT !.writing = FALSE]
  OBVIOUS
<1>4. h.first = Last.first /\ h.n = Last.n /\ ~h.writing
  BY <1>2, <1>3 DEF Header
<1>5. Len(list') = m /\ list'[m] = h /\ \A k \in 1 .. m : k # m => list'[k] = list[k]
  <2>1. list' = [list EXCEPT ![m] = h] /\ list \in Seq(Header)
    BY <1>1, <1>2, <1>3 DEF TypeOK, StopHeader
  <2> QED BY <1>2, <2>1
<1>6. file'.hdr = [file.hdr EXCEPT ![m] = h] /\ file'.num = file.num
  BY <1>1, <1>5 DEF TypeOK, Files, StopHeader
<1>7. file'.hdr[m] = h /\ \A k \in 1 .. m : k # m => file'.hdr[k] = file.hdr[k]
  <2>1. \A k \in 1 .. m : k \in 1 .. Frags
    BY <1>2, BasketAssumption
  <2> QED BY <1>1, <1>2, <1>6, <2>1
<1>8. CountInv' /\ NewInv' /\ InStep'
  BY <1>1, <1>5, <1>6 DEF FileInv, CountInv, NewInv, InStep
<1>9. ClosedInv'
  <2> SUFFICES ASSUME NEW k \in 1 .. m PROVE ~list'[k].writing /\ file'.hdr[k] = list'[k]
    BY <1>5 DEF ClosedInv
  <2>1. CASE k = m
    BY <1>4, <1>5, <1>7, <2>1
  <2>2. CASE k # m
    <3>1. k < m
      BY <1>2, <2>2
    <3> QED BY <1>5, <1>7, <2>2, <3>1 DEF FileInv, ClosedInv
  <2> QED BY <2>1, <2>2
<1>10. ApartInv'
  <2> SUFFICES ASSUME ~cut, NEW k \in 1 .. m - 1
               PROVE  list'[k+1].first = list'[k].first + list'[k].n
    BY <1>1, <1>5 DEF ApartInv, FragmentsApart
  <2>1. k \in 1 .. m /\ k # m /\ k + 1 \in 1 .. m
    BY <1>2
  <2>2. list'[k] = list[k] /\ list'[k+1].first = list[k+1].first
    BY <1>2, <1>4, <1>5, <2>1
  <2> QED BY <2>2 DEF FileInv, ApartInv, FragmentsApart
<1> QED BY <1>8, <1>9, <1>10

\* What the disk gets, and what a crash leaves.
LEMMA CrashFile ==
  ASSUME TypeInv, FileInv, Kill \/ PowerCut
  PROVE  CountInv' /\ ClosedInv' /\ NewInv' /\ InStep' /\ ApartInv'
<1>1. phase # "down" /\ phase' = "down" /\ list' = <<>>
  BY DEF Kill, PowerCut, Down
<1>2. CountInv' /\ ClosedInv' /\ NewInv' /\ InStep'
  BY <1>1 DEF CountInv, ClosedInv, NewInv, InStep
<1>3. ApartInv'
  <2>1. FragmentsApart'
    BY <1>1 DEF FragmentsApart
  <2>2. ~cut' => ~cut /\ file' = file
    BY DEF Kill, PowerCut
  <2> QED BY <1>1, <2>1, <2>2, FileChained DEF ApartInv
<1> QED BY <1>2, <1>3

\* The scan writes back the headers it finds.
LEMMA ScanFile ==
  ASSUME TypeInv, FileInv, Scan
  PROVE  CountInv' /\ ClosedInv' /\ NewInv' /\ InStep' /\ ApartInv'
<1> DEFINE m == Len(list')
<1>1. /\ TypeOK /\ phase = "down" /\ phase' = "idle" /\ list' = Recovered(file) /\ cut' = cut
      /\ file \in Files
  BY DEF TypeInv, TypeOK, Scan
<1>2. m \in 0 .. file.num /\ file.num \in 0 .. Frags
  BY <1>1, RecoveredIs DEF Files
<1>3. /\ file'.num = m
      /\ file'.hdr = [k \in 1 .. Frags |-> IF k <= m THEN list'[k] ELSE file.hdr[k]]
  BY <1>1 DEF Files, Scan
<1>4. \A k \in 1 .. m : k \in 1 .. Frags /\ k \in 1 .. file.num
  <2> HIDE DEF m
  <2> QED BY <1>2, BasketAssumption
<1>5. \A k \in 1 .. m : Good(file, k) /\ list'[k] = Restored(file, k)
  <2> DEFINE n == Max({n \in 0 .. file.num : \A k \in 1 .. n : Good(file, k)})
  <2>1. n \in 0 .. file.num /\ \A k \in 1 .. n : Good(file, k)
    BY <1>1, FoundCount
  <2>2. Recovered(file) = [k \in 1 .. n |-> Restored(file, k)]
    BY DEF Recovered
  <2> HIDE DEF n
  <2>3. m = n
    BY <1>1, <1>2, <2>1, <2>2
  <2> QED BY <1>1, <2>1, <2>2, <2>3
<1>6. ASSUME NEW k \in 1 .. m
      PROVE  /\ ~list'[k].writing /\ list'[k].first = file.hdr[k].first
             /\ ~file.hdr[k].writing => list'[k] = file.hdr[k]
  <2>1. PICK h : h = file.hdr[k]
    OBVIOUS
  <2>2. h \in Header
    BY <1>1, <1>4, <1>5, <2>1 DEF Files, Good
  <2>3. PICK s : s = Salvage(file, h)
    OBVIOUS
  <2>4. [h EXCEPT !.n = s, !.writing = FALSE].first = h.first /\ ~[h EXCEPT !.n = s, !.writing = FALSE].writing
    BY <2>2 DEF Header
  <2> QED BY <1>5, <2>1, <2>3, <2>4 DEF Restored
<1>7. CountInv' /\ NewInv' /\ InStep'
  BY <1>1, <1>3 DEF CountInv, NewInv, InStep
<1>8. ClosedInv'
  <2> SUFFICES ASSUME NEW k \in 1 .. m PROVE ~list'[k].writing /\ file'.hdr[k] = list'[k]
    BY DEF ClosedInv
  <2>1. k <= m /\ k \in 1 .. Frags
    <3>1. k <= m
      <4> HIDE DEF m
      <4> QED BY <1>2
    <3> QED BY <1>4, <3>1
  <2> QED BY <1>3, <1>6, <2>1
<1>9. ApartInv'
  <2> SUFFICES ASSUME ~cut, NEW k \in 1 .. m - 1
               PROVE  list'[k+1].first = list'[k].first + list'[k].n
    BY <1>1 DEF ApartInv, FragmentsApart
  <2>1. k \in 1 .. m /\ k + 1 \in 1 .. m /\ k \in 1 .. file.num - 1
    <3> HIDE DEF m
    <3> QED BY <1>2, BasketAssumption
  <2>2. ~file.hdr[k].writing /\ file.hdr[k+1].first = file.hdr[k].first + file.hdr[k].n
    BY <1>1, <2>1 DEF FileInv, ApartInv, Chained
  <2> QED BY <1>6, <2>1, <2>2
<1> QED BY <1>7, <1>8, <1>9

\* Every step keeps the invariant.
LEMMA FileStep ==
  ASSUME TypeInv, TypeInv', FileInv, [Next]_vars
  PROVE  FileInv'
<1>1. Past(file)' /\ Past(disk)'
  BY PastStep DEF FileInv
<1>2. CountInv' /\ ClosedInv' /\ NewInv' /\ InStep' /\ ApartInv'
  <2>1. CASE StopSync
    <3>1. phase = "stopping" /\ phase' = "idle" /\ file' = file /\ list' = list /\ cut' = cut
      BY <2>1 DEF StopSync
    <3> QED
      BY <3>1 DEF FileInv, CountInv, ClosedInv, NewInv, InStep, ApartInv, FragmentsApart
  <2>2. CASE WriteBack \/ UNCHANGED vars
    <3>1. /\ file' = file /\ list' = list /\ phase' = phase /\ use' = use /\ gop' = gop
          /\ cut' = cut
      BY <2>2 DEF WriteBack, vars
    <3>2. Last' = Last /\ End' = End
      BY <3>1 DEF Last, End
    <3>3. NewInv' /\ InStep'
      BY <3>1, <3>2 DEF FileInv, NewInv, NewHeader, InStep, Stub, Old
    <3> QED BY <3>1, <3>3 DEF FileInv, CountInv, ClosedInv, ApartInv, FragmentsApart
  <2> QED
    BY <2>1, <2>2, ResetFile, StartHeaderFile, StartGlobalFile, StartSyncFile, WriteFile,
       StopHeaderFile, CrashFile, ScanFile DEF Next
<1> QED BY <1>1, <1>2 DEF FileInv

\* What a process finds of its own doing, through any crashes, and wherever the headers lie.
THEOREM FileAlways == Spec => []FileInv
<1>1. Init => FileInv
  <2> SUFFICES ASSUME Init PROVE FileInv
    OBVIOUS
  <2>1. \A p \in 1 .. Slots : file.slot[p] = Nothing /\ disk.slot[p] = Nothing
    BY DEF Init, Blank
  <2>2. file.num = 0 /\ list = <<>> /\ phase = "idle"
    BY DEF Init, Blank
  <2>3. Past(file) /\ Past(disk)
    BY <2>1 DEF Past
  <2>4. CountInv /\ ClosedInv /\ NewInv /\ InStep
    BY <2>2 DEF CountInv, ClosedInv, NewInv, InStep
  <2>5. ApartInv
    BY <2>2 DEF ApartInv, FragmentsApart
  <2> QED BY <2>3, <2>4, <2>5 DEF FileInv
<1>2. TypeInv /\ TypeInv' /\ FileInv /\ [Next]_vars => FileInv'
  BY FileStep
<1> QED BY <1>1, <1>2, TypeAlways, PTL DEF Spec

\* strg_basket.c:237: as long as no power was cut the fragments lie one after the other, however
\* many they are, and whether the process died or stopped them.
THEOREM ApartUntilCut == Spec => [](cut \/ FragmentsApart)
<1>1. FileInv => cut \/ FragmentsApart
  BY DEF FileInv, ApartInv
<1> QED BY <1>1, FileAlways, PTL

\* How far the scan gets: up to the last group, or to the limit.
LEMMA SalvageOpen ==
  ASSUME TypeInv, FileInv, phase = "writing", NEW h, Stub(h), Last.n # 0
  PROVE  /\ Found(file, h) <=> ~h.late
         /\ Salvage(file, h) = IF Last.n - 1 < Span THEN Last.n - 1 ELSE Span
<1>1. Last \in Header /\ Last.first + Last.n <= Slots + 1 /\ file \in Files
  BY OpenIs DEF TypeInv, TypeOK, FileInv, InStep
<1>2. h \in Header /\ h.use = use /\ h.begin = Last.begin /\ h.first = Last.first
  BY DEF Stub
<1>3. PICK a, n, b : a = Last.first /\ n = Last.n /\ b = Last.begin
  OBVIOUS
<1>4. /\ a \in Nat /\ 1 <= a /\ n \in Nat \ {0} /\ b \in Nat /\ Slots \in Nat /\ Span \in Nat
      /\ a + n <= Slots + 1
  BY <1>1, <1>3, HeaderIs, BasketAssumption
<1>5. ASSUME NEW i \in 0 .. n - 1
      PROVE  /\ file.slot[a + i] # Nothing /\ file.slot[a + i].use = use
             /\ file.slot[a + i].gop = b + i
  <2>1. PICK p : p = a + i
    OBVIOUS
  <2>2. p \in a .. a + n - 1 /\ p - a = i
    BY <1>4, <2>1
  <2>3. file.slot[p].use = use /\ file.slot[p].gop = b + (p - a)
    <3>1. file.slot[p] = [use |-> use, gop |-> b + (p - a)]
      BY <1>3, <2>2 DEF FileInv, InStep
    <3> QED BY <3>1
  <2>4. file.slot[p] # Nothing
    <3>1. file.slot[p] = [use |-> use, gop |-> b + (p - a)] /\ p \in 1 .. Slots
      BY <1>3, <1>4, <2>2 DEF FileInv, InStep
    <3>2. use \in 0 .. MaxUse /\ b + (p - a) \in 1 .. MaxGop
      <4>1. b + n = gop + 1 /\ gop \in 0 .. MaxGop /\ MaxGop \in Nat /\ b >= 1
        BY <1>1, <1>3, BasketAssumption DEF TypeInv, TypeOK, FileInv, InStep, Header
      <4> QED BY <1>4, <2>2, <4>1 DEF TypeInv, TypeOK
    <3>3. file.slot[p] \in Entry
      BY <3>1, <3>2 DEF Entry
    <3> QED BY <3>3, NothingAssumption
  <2> QED BY <2>1, <2>2, <2>3, <2>4
<1>6. file.slot[a] # Nothing /\ file.slot[a].use = use /\ file.slot[a].gop = b
  <2>1. 0 \in 0 .. n - 1 /\ a + 0 = a /\ b + 0 = b
    BY <1>4
  <2> QED BY <1>5, <2>1
<1>7. Found(file, h) <=> ~h.late
  <2>1. b - b \in 0 .. Span
    BY <1>4
  <2> QED BY <1>2, <1>3, <1>6, <2>1 DEF Found
<1>8. ASSUME NEW i \in 1 .. Slots - a
      PROVE  Follows(file, h, a + i) <=> i <= n - 1 /\ i <= Span
  <2>1. CASE i <= n - 1
    <3>1. i \in 0 .. n - 1
      BY <1>4, <2>1
    <3>2. /\ file.slot[a + i] # Nothing /\ file.slot[a + i].use = h.use
          /\ file.slot[a + i].gop - file.slot[h.first].gop = (b + i) - b
      BY <1>2, <1>3, <1>5, <1>6, <3>1
    <3>3. (b + i) - b \in 1 .. Span <=> i <= Span
      BY <1>4
    <3> QED BY <2>1, <3>2, <3>3 DEF Follows
  <2>2. CASE ~(i <= n - 1)
    <3>1. PICK p : p = a + i
      OBVIOUS
    <3>2. p \in a + n .. Slots /\ p \in 1 .. Slots
      BY <1>4, <2>2, <3>1
    <3>3. Old(file.slot[p])
      BY <1>3, <3>2 DEF FileInv, InStep
    <3>4. SUFFICES ASSUME Follows(file, h, p) PROVE FALSE
      BY <2>2, <3>1
    <3>5. /\ file.slot[p] # Nothing /\ file.slot[p].use = use /\ file.slot[p].gop - b \in 1 .. Span
      BY <1>2, <1>3, <1>6, <3>4 DEF Follows
    <3>6. file.slot[p].gop < b /\ file.slot[p].gop \in Nat
      BY <1>1, <1>3, <3>2, <3>3, <3>5, EntryIs DEF Old
    <3> QED BY <1>4, <3>5, <3>6
  <2> QED BY <2>1, <2>2
<1>9. PICK s : s = Salvage(file, h)
  OBVIOUS
<1>10. /\ s \in 0 .. Slots - a /\ \A i \in 1 .. s : Follows(file, h, a + i)
       /\ \A k \in 0 .. Slots - a : (\A i \in 1 .. k : Follows(file, h, a + i)) => k <= s
  BY <1>2, <1>3, <1>9, SalvageIs
<1>11. s # 0 => s <= n - 1 /\ s <= Span
  <2>1. s # 0 => s \in 1 .. s /\ s \in 1 .. Slots - a
    BY <1>4, <1>10
  <2> QED BY <1>8, <1>10, <2>1
<1>12. PICK k : k = IF n - 1 < Span THEN n - 1 ELSE Span
  OBVIOUS
<1>13. k \in 0 .. Slots - a /\ \A i \in 1 .. k : i \in 1 .. Slots - a /\ i <= n - 1 /\ i <= Span
  BY <1>4, <1>12
<1>14. k <= s
  BY <1>8, <1>10, <1>13
<1>15. s = k
  BY <1>4, <1>10, <1>11, <1>12, <1>14
<1> QED BY <1>3, <1>7, <1>9, <1>12, <1>15

\* What the scan finds of a fragment that is being written.
LEMMA KillFinds ==
  ASSUME TypeInv, FileInv, phase = "writing"
  PROVE  LET k == Len(list)
             n == list[k].n
             kept == IF file.hdr[k].late \/ n <= 1 THEN 0 ELSE IF n - 1 < Span THEN n - 1 ELSE Span
         IN /\ Len(Recovered(file)) = IF kept = 0 THEN k - 1 ELSE k
            /\ kept # 0 => Recovered(file)[k].n = kept
<1>1. PICK k, n, h : k = Len(list) /\ n = Last.n /\ h = file.hdr[k]
  OBVIOUS
<1>2. /\ file \in Files /\ file.num = k /\ Stub(h) /\ k \in Nat \ {0} /\ n \in Nat /\ Span \in Nat
      /\ list \in Seq(Header)
  BY <1>1, OpenIs, HeaderIs, BasketAssumption DEF TypeInv, TypeOK, FileInv, CountInv, InStep
<1>3. h \in Header /\ h.writing /\ h.late \in BOOLEAN /\ h.first = Last.first /\ h.use = use
      /\ h.begin = Last.begin
  BY <1>2, HeaderIs DEF Stub
<1>4. Good(file, k) <=> Found(file, h) /\ Salvage(file, h) > 0
  BY <1>1, <1>3, NothingAssumption DEF Good
<1>5. n = 0 => ~Found(file, h)
  <2> SUFFICES ASSUME n = 0, Found(file, h) PROVE FALSE
    OBVIOUS
  <2>1. PICK p : p = h.first
    OBVIOUS
  <2>2. p \in 1 .. Slots /\ p \in Last.first + Last.n .. Slots /\ h.begin \in Nat
    BY <1>1, <1>3, <2>1, HeaderIs
  <2>3. Old(file.slot[p])
    BY <2>2 DEF FileInv, InStep
  <2>4. file.slot[p] # Nothing /\ file.slot[p].use = use /\ file.slot[p].gop - h.begin \in 0 .. Span
    BY <1>3, <2>1 DEF Found
  <2>5. file.slot[p].gop < h.begin /\ file.slot[p].gop \in Nat
    BY <1>2, <1>3, <2>2, <2>3, <2>4, EntryIs DEF Old
  <2> QED BY <1>2, <2>2, <2>4, <2>5
<1>6. n # 0 => /\ Found(file, h) <=> ~h.late
               /\ Salvage(file, h) = IF n - 1 < Span THEN n - 1 ELSE Span
  BY <1>1, <1>2, SalvageOpen
<1>7. PICK kept : kept = IF h.late \/ n <= 1 THEN 0 ELSE IF n - 1 < Span THEN n - 1 ELSE Span
  OBVIOUS
<1>8. kept = IF Good(file, k) THEN Salvage(file, h) ELSE 0
  BY <1>2, <1>3, <1>4, <1>5, <1>6, <1>7
<1>9. Good(file, k) => kept # 0
  BY <1>2, <1>4, <1>5, <1>6, <1>8
<1>10. \A j \in 1 .. k - 1 : file.hdr[j] \in Header /\ ~file.hdr[j].writing
  <2> SUFFICES ASSUME NEW j \in 1 .. k - 1 PROVE file.hdr[j] \in Header /\ ~file.hdr[j].writing
    OBVIOUS
  <2>1. j \in 1 .. Len(list) /\ j < Len(list) /\ list[j] \in Header
    BY <1>1, <1>2
  <2> QED BY <2>1 DEF FileInv, ClosedInv
<1>11. /\ Len(Recovered(file)) = IF kept = 0 THEN k - 1 ELSE k
       /\ kept # 0 => Recovered(file)[k].n = kept
  <2>1. CASE ~Good(file, k)
    <3>1. Recovered(file) = [j \in 1 .. k - 1 |-> file.hdr[j]]
      BY <1>1, <1>2, <1>3, <1>10, <2>1, RecoveredOpen
    <3>2. Len(Recovered(file)) = k - 1
      BY <1>2, <3>1
    <3> QED BY <1>8, <2>1, <3>2
  <2>2. CASE Good(file, k)
    <3>1. Recovered(file) = [j \in 1 .. k |-> IF j < k THEN file.hdr[j] ELSE Restored(file, j)]
      BY <1>1, <1>2, <1>3, <1>10, <2>2, RecoveredOpen
    <3>2. Len(Recovered(file)) = k /\ Recovered(file)[k] = Restored(file, k)
      BY <1>2, <3>1
    <3>3. Restored(file, k).n = Salvage(file, h)
      <4>1. PICK s : s = Salvage(file, h)
        OBVIOUS
      <4>2. [h EXCEPT !.n = s, !.writing = FALSE].n = s
        BY <1>3 DEF Header
      <4> QED BY <1>1, <1>3, <4>1, <4>2 DEF Restored
    <3> QED BY <1>8, <1>9, <2>2, <3>2, <3>3
  <2> QED BY <2>1, <2>2
<1>12. list[k].n = n
  BY <1>1 DEF Last
<1> QED BY <1>1, <1>7, <1>11, <1>12

\* strg_basket.c:1002: of a fragment that is being written when its process dies the scan keeps
\* all groups but the last, up to its limit, however often the basket was used before, how many
\* fragments it has, and whatever power cuts have done to it.
THEOREM KillCostsAlways == Spec => KillCosts
<1>1. TypeInv /\ FileInv =>
        [phase = "writing" /\ phase' = "down" /\ file' = file =>
           LET k == Len(list)
               n == list[k].n
               kept == IF file.hdr[k].late \/ n <= 1 THEN 0 ELSE IF n - 1 < Span THEN n - 1 ELSE Span
           IN /\ Len(Recovered(file)) = IF kept = 0 THEN k - 1 ELSE k
              /\ kept # 0 => Recovered(file)[k].n = kept]_vars
  BY KillFinds
<1> QED BY <1>1, TypeAlways, FileAlways, PTL DEF Spec, KillCosts

=============================================================================
