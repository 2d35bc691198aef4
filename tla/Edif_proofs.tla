----------------------------- MODULE Edif_proofs -----------------------------
(***************************************************************************)
(* For every set of designs and of identifiers: EdifNames never gives two  *)
(* identifiers of a file one name, nor one identifier two; what a module   *)
(* instantiates is written before it or is in the library of cells; and no *)
(* wire of a net outranks the one the net is named after.                  *)
(***************************************************************************)
EXTENDS Edif, FiniteSetTheorems, TLAPS

\* The names kept as they were are apart from the ones made up, and what is
\* renamed is not kept.
NamesKept ==
    /\ names = [counter |-> names.counter, generated |-> names.generated,
                used |-> names.used, map |-> names.map]
    /\ names.used \cap names.generated = {}
    /\ names.used \subseteq Plain
    /\ names.used \cap DOMAIN names.map = {}

\* Each renamed identifier has a generated name of its own.
RenamedApart ==
    /\ \A x \in DOMAIN names.map : names.map[x] \in names.generated
    /\ \A x, y \in DOMAIN names.map : names.map[x] = names.map[y] => x = y

\* Every answer so far is the one EdifNames would give now.
AnswersStand ==
    \A p \in given : \/ p[1] \in DOMAIN names.map /\ p[2] = names.map[p[1]]
                     \/ p[1] \in names.used /\ p[2] = p[1]

NamesInv == NamesKept /\ RenamedApart /\ AnswersStand

\* The invariant holds of the tables write_edif starts with.
LEMMA InitNames == Init => NamesInv
<1> SUFFICES ASSUME Init PROVE NamesInv
  OBVIOUS
<1>1. names = [counter |-> 1, generated |-> {}, used |-> {}, map |-> << >>] /\ given = {}
  BY DEF Init, NewNames
<1>2. DOMAIN names.map = {}
  BY <1>1
<1>3. NamesKept
  BY <1>1, <1>2 DEF NamesKept
<1> QED
  BY <1>1, <1>2, <1>3 DEF NamesInv, RenamedApart, AnswersStand

\* One call of EdifNames keeps it, whatever the identifier.
LEMMA AnswerNames ==
    ASSUME NEW id, NamesInv, Answer(id)
    PROVE  NamesInv'
<1>1. CASE id \in DOMAIN names.map
  <2>1. names' = names /\ given' = given \cup {<<id, names.map[id]>>}
    BY <1>1 DEF Answer
  <2> QED
    BY <2>1, <1>1 DEF NamesInv, NamesKept, RenamedApart, AnswersStand
<1>2. CASE /\ id \notin DOMAIN names.map
           /\ id \in Plain /\ id \notin names.generated
  <2>1. /\ given' = given \cup {<<id, id>>}
        /\ names' = [names EXCEPT !.used = @ \cup {id}]
    BY <1>2 DEF Answer
  <2>2. names' = [counter |-> names.counter, generated |-> names.generated,
                  used |-> names.used \cup {id}, map |-> names.map]
    BY <2>1 DEF NamesInv, NamesKept
  <2>3. NamesKept' /\ RenamedApart'
    BY <2>2, <1>2 DEF NamesInv, NamesKept, RenamedApart
  <2>4. AnswersStand'
    BY <2>1, <2>2 DEF NamesInv, AnswersStand
  <2> QED
    BY <2>3, <2>4 DEF NamesInv
<1>3. CASE /\ id \notin DOMAIN names.map
           /\ id \notin Plain \/ id \in names.generated
  <2>1. PICK k : /\ ~Taken(GenName(k))
                 /\ given' = given \cup {<<id, GenName(k)>>}
                 /\ names' = [names EXCEPT !.counter = k + 1,
                                           !.generated = @ \cup {GenName(k)},
                                           !.map = MapAdd(@, id, GenName(k))]
    BY <1>3 DEF Answer
  <2> DEFINE new == MapAdd(names.map, id, GenName(k))
  <2>2. names' = [counter |-> k + 1, generated |-> names.generated \cup {GenName(k)},
                  used |-> names.used, map |-> new]
    BY <2>1 DEF NamesInv, NamesKept
  <2>3. /\ DOMAIN new = DOMAIN names.map \cup {id}
        /\ new[id] = GenName(k)
        /\ \A x \in DOMAIN names.map : new[x] = names.map[x]
    BY <1>3 DEF MapAdd
  <2>4. GenName(k) \notin names.generated /\ GenName(k) \notin names.used
    BY <2>1 DEF Taken
  <2>5. id \notin names.used
    BY <1>3 DEF NamesInv, NamesKept
  <2> HIDE DEF new
  <2>6. NamesKept'
    BY <2>2, <2>3, <2>4, <2>5 DEF NamesInv, NamesKept
  <2>7. RenamedApart'
    BY <2>2, <2>3, <2>4 DEF NamesInv, RenamedApart
  <2>8. AnswersStand'
    <3>1. SUFFICES ASSUME NEW p \in given'
                   PROVE  \/ p[1] \in DOMAIN new /\ p[2] = new[p[1]]
                          \/ p[1] \in names.used /\ p[2] = p[1]
      BY <2>2 DEF AnswersStand
    <3>2. CASE p = <<id, GenName(k)>>
      BY <3>2, <2>3
    <3>3. CASE p \in given
      BY <3>3, <2>3 DEF NamesInv, AnswersStand
    <3> QED
      BY <3>1, <3>2, <3>3, <2>1
  <2> QED
    BY <2>6, <2>7, <2>8 DEF NamesInv
<1> QED
  BY <1>1, <1>2, <1>3

\* No other part of the back end touches the tables.
LEMMA NextNames == NamesInv /\ [Next]_vars => NamesInv'
<1> SUFFICES ASSUME NamesInv, [Next]_vars
             PROVE  NamesInv'
  OBVIOUS
<1>1. CASE Name
  BY <1>1, AnswerNames DEF Name
<1>2. CASE UNCHANGED naming
  BY <1>2 DEF naming, NamesInv, NamesKept, RenamedApart, AnswersStand
<1>3. ASSUME NEW x \in todo,
             Scan(x) \/ LibraryCell(x) \/ Output(x) \/ Promote(x) \/ Port(x) \/ Cell(x) \/ Net(x) \/ Keep(x)
      PROVE  UNCHANGED naming
  BY <1>3 DEF Scan, LibraryCell, Output, Promote, Port, Cell, Net, Keep
<1>4. ASSUME \/ ScanEnd \/ LibraryEnd \/ Sort \/ SortEnd \/ ModuleStart \/ OutputsEnd
             \/ PromoteEnd \/ PortsEnd \/ CellsEnd \/ NetsEnd \/ ModuleEnd \/ Finish
      PROVE  UNCHANGED naming
  BY <1>4 DEF ScanEnd, LibraryEnd, Sort, SortEnd, ModuleStart, OutputsEnd, PromoteEnd, PortsEnd,
              CellsEnd, NetsEnd, ModuleEnd, Finish
<1>5. CASE UNCHANGED vars
  BY <1>5, <1>2 DEF vars, naming
<1> QED
  BY <1>1, <1>2, <1>3, <1>4, <1>5 DEF Next

\* What is answered twice is answered alike, and to one identifier only.
LEMMA NamesGiveOne == NamesInv => OneNameEach
<1> SUFFICES ASSUME NamesInv, NEW p \in given, NEW q \in given
             PROVE  p[1] = q[1] <=> p[2] = q[2]
  BY DEF OneNameEach
<1>1. p[1] \in DOMAIN names.map <=> p[1] \notin names.used
  BY DEF NamesInv, NamesKept, AnswersStand
<1>2. q[1] \in DOMAIN names.map <=> q[1] \notin names.used
  BY DEF NamesInv, NamesKept, AnswersStand
<1>3. p[1] = q[1] => p[2] = q[2]
  BY <1>1, <1>2 DEF NamesInv, AnswersStand
<1>4. p[2] = q[2] => p[1] = q[1]
  BY <1>1, <1>2 DEF NamesInv, NamesKept, RenamedApart, AnswersStand
<1> QED
  BY <1>3, <1>4

\* EdifNames is injective and stable over a whole run of write_edif, for any
\* design, any plain identifiers and any form of the generated names.
THEOREM EdifNamesApart == Spec => []OneNameEach
<1>1. Spec => []NamesInv
  BY InitNames, NextNames, PTL DEF Spec
<1> QED
  BY <1>1, NamesGiveOne, PTL

-----------------------------------------------------------------------------
(* The order of the modules                                                *)

InOrder == {order[i] : i \in 1..Len(order)}

\* What has left the modules that wait is in the order, behind all it
\* instantiates.
OrderInv ==
    /\ design \in Designs
    /\ order \in Seq(Known)
    /\ waiting \subseteq Known
    /\ Known \subseteq waiting \cup InOrder
    /\ \A i \in 1..Len(order) : \A t \in Deps(order[i]) : \E j \in 1..i - 1 : order[j] = t

Collected(m) == design[m].box \/ \A t \in CellTypes(m) : (t \in Known => design[t].box) => t \in lib

\* The modules read have their library cells in the library.
LibraryInv ==
    /\ pc = "scan" => \A m \in Known \ todo : Collected(m)
    /\ pc \notin {"scan", "error"} => \A m \in Known : Collected(m)

Contents == {"outputs", "promote", "ports", "cells", "nets", "keep"}

\* The module that is written is one of the order, and no box.
WriterInv ==
    /\ at \in Nat \ {0}
    /\ pc \in Contents => at <= Len(order) /\ ~design[This].box

SortInv == OrderInv /\ LibraryInv /\ WriterInv

\* The sequences of a finite set hold all its elements.
LEMMA SequenceHasAll ==
    ASSUME NEW S, IsFiniteSet(S), NEW s \in SetToSeqs(S)
    PROVE  /\ s \in Seq(S) /\ Len(s) = Cardinality(S)
           /\ \A x \in S : \E i \in 1..Len(s) : s[i] = x
<1> DEFINE D == 1..Cardinality(S)
<1>1. Cardinality(S) \in Nat
  BY FS_CardinalityType
<1>2. s \in [D -> S] /\ \A i, j \in D : i # j => s[i] # s[j]
  BY DEF SetToSeqs
<1>3. s \in Seq(S) /\ Len(s) = Cardinality(S)
  BY <1>1, <1>2
<1>4. s \in Injection(D, S)
  BY <1>2 DEF Injection, IsInjective
<1>5. IsFiniteSet(D) /\ Cardinality(D) = Cardinality(S)
  BY <1>1, FS_Interval
<1>6. s \in Surjection(D, S)
  BY <1>4, <1>5, FS_Injection
<1> QED
  BY <1>3, <1>6 DEF Surjection

LEMMA InitSort == Init => SortInv
<1> SUFFICES ASSUME Init PROVE SortInv
  OBVIOUS
<1>1. OrderInv
  BY DEF Init, OrderInv, Known, InOrder
<1>2. LibraryInv
  BY DEF Init, LibraryInv, Known
<1>3. WriterInv
  BY DEF Init, WriterInv, Contents
<1> QED
  BY <1>1, <1>2, <1>3 DEF SortInv

\* One round of the sort: what is appended depends only on what was sorted in
\* the rounds before.
LEMMA SortOrder ==
    ASSUME OrderInv, Sort
    PROVE  OrderInv'
<1> DEFINE ready == {m \in waiting : IsReady(m)}
<1>1. CASE ready = {}
  BY <1>1 DEF Sort, sorting, OrderInv, InOrder, Known, Deps, CellTypes
<1>2. CASE ready # {}
  <2>1. PICK s \in SetToSeqs(ready) : order' = order \o s /\ waiting' = waiting \ ready /\ design' = design
    BY <1>2 DEF Sort
  <2>2. IsFiniteSet(ready)
    BY DesignsAreFinite, FS_Subset DEF OrderInv, Known
  <2>3. s \in Seq(ready) /\ \A x \in ready : \E i \in 1..Len(s) : s[i] = x
    BY <2>2, SequenceHasAll
  <2> HIDE DEF ready
  <2>4. ready \subseteq waiting /\ \A m \in ready : Deps(m) \cap waiting = {}
    BY DEF ready, IsReady
  <2>5. order \in Seq(Known) /\ s \in Seq(Known)
    BY <2>3, <2>4 DEF OrderInv
  <2>6. /\ order' \in Seq(Known) /\ Len(order') = Len(order) + Len(s)
        /\ \A i \in 1..Len(order) : order'[i] = order[i]
        /\ \A i \in 1..Len(s) : order'[Len(order) + i] = s[i]
    BY <2>1, <2>5
  <2>7. Known' = Known /\ \A m : Deps(m)' = Deps(m)
    BY <2>1 DEF Known, Deps, CellTypes
  <2>8. Known \subseteq waiting' \cup InOrder'
    <3>1. SUFFICES ASSUME NEW m \in Known, m \notin waiting' PROVE m \in InOrder'
      OBVIOUS
    <3>2. CASE m \in ready
      <4>1. PICK i \in 1..Len(s) : s[i] = m
        BY <3>2, <2>3
      <4>2. Len(order) + i \in 1..Len(order') /\ order'[Len(order) + i] = m
        BY <4>1, <2>5, <2>6
      <4> QED
        BY <4>2 DEF InOrder
    <3>3. CASE m \notin ready
      <4>1. m \in InOrder
        BY <3>1, <3>3, <2>1 DEF OrderInv
      <4>2. PICK i \in 1..Len(order) : order[i] = m
        BY <4>1 DEF InOrder
      <4>3. i \in 1..Len(order') /\ order'[i] = m
        BY <4>2, <2>5, <2>6
      <4> QED
        BY <4>3 DEF InOrder
    <3> QED
      BY <3>2, <3>3
  <2>9. ASSUME NEW i \in 1..Len(order'), NEW t \in Deps(order'[i])
        PROVE  \E j \in 1..i - 1 : order'[j] = t
    <3>1. CASE i \in 1..Len(order)
      <4>1. PICK j \in 1..i - 1 : order[j] = t
        BY <3>1, <2>6, <2>9 DEF OrderInv
      <4>2. j \in 1..Len(order)
        BY <3>1, <4>1, <2>5
      <4> QED
        BY <4>1, <4>2, <2>6
    <3>2. CASE i \notin 1..Len(order)
      <4>1. i - Len(order) \in 1..Len(s) /\ order'[i] = s[i - Len(order)] /\ Len(order) < i
        <5>1. i - Len(order) \in 1..Len(s) /\ Len(order) < i
          BY <3>2, <2>5, <2>6
        <5>2. order'[Len(order) + (i - Len(order))] = s[i - Len(order)]
          BY <5>1, <2>6
        <5> QED
          BY <5>1, <5>2, <2>5
      <4>2. order'[i] \in ready
        BY <4>1, <2>3
      <4>3. t \in Known /\ t \notin waiting
        BY <4>2, <2>4, <2>9 DEF Deps
      <4>4. PICK j \in 1..Len(order) : order[j] = t
        BY <4>3 DEF OrderInv, InOrder
      <4>5. j \in 1..i - 1 /\ order'[j] = t
        BY <4>1, <4>4, <2>5, <2>6
      <4> QED
        BY <4>5
    <3> QED
      BY <3>1, <3>2
  <2>10. design' \in Designs /\ waiting' \subseteq Known
    BY <2>1 DEF OrderInv
  <2> QED
    BY <2>6, <2>7, <2>8, <2>9, <2>10 DEF OrderInv
<1> QED
  BY <1>1, <1>2

\* A step that leaves the design and the sort alone keeps the order.
LEMMA OrderKept ==
    ASSUME OrderInv, UNCHANGED <<design, sorting>>
    PROVE  OrderInv'
BY DEF OrderInv, sorting, Known, InOrder, Deps, CellTypes

\* Only the scan fills the library, and no step goes back to it.
LEMMA LibraryKept ==
    ASSUME LibraryInv, UNCHANGED <<design, lib>>,
           \/ UNCHANGED <<pc, todo>>
           \/ pc \notin {"scan", "error"} /\ pc' # "scan"
    PROVE  LibraryInv'
BY DEF LibraryInv, Known, Collected, CellTypes

\* The module that is written changes only between two modules.
LEMMA WriterKept ==
    ASSUME WriterInv, UNCHANGED <<design, order, at>>,
           pc' \in Contents => pc \in Contents
    PROVE  WriterInv'
BY DEF WriterInv, This

\* A module that was scanned has all its library cells in the library.
LEMMA ScanLibrary ==
    ASSUME LibraryInv, NEW m \in todo, Scan(m)
    PROVE  LibraryInv'
<1>1. pc = "scan" /\ design' = design /\ todo' = todo \ {m} /\ pc' \in {"scan", "error"}
  BY DEF Scan, Ready
<1>2. lib \subseteq lib'
  BY DEF Scan
<1>3. design[m].box \/ \A t \in CellTypes(m) : (t \in Known => design[t].box) => t \in lib'
  BY DEF Scan
<1>4. ASSUME NEW k \in Known, k \notin todo'
      PROVE  design[k].box \/ \A t \in CellTypes(k) : (t \in Known => design[t].box) => t \in lib'
  <2>1. CASE k = m
    BY <1>3, <2>1
  <2>2. CASE k \notin todo
    BY <1>1, <1>2, <1>4, <2>2 DEF LibraryInv, Collected
  <2> QED
    BY <1>1, <1>4, <2>1, <2>2
<1> QED
  BY <1>1, <1>4 DEF LibraryInv, Collected, Known, CellTypes

\* Nothing but the scan, the sort and the two ends of a module matters to the
\* order of the file.
LEMMA NextSort == SortInv /\ [Next]_vars => SortInv'
<1> SUFFICES ASSUME SortInv, [Next]_vars
             PROVE  SortInv'
  OBVIOUS
<1> USE DEF SortInv
<1>1. ASSUME NEW m \in todo, Scan(m)
      PROVE  SortInv'
  <2>1. UNCHANGED <<design, sorting, at>> /\ pc' \in {"scan", "error"}
    BY <1>1 DEF Scan, Ready
  <2> QED
    BY <1>1, <2>1, OrderKept, ScanLibrary, WriterKept DEF sorting, Contents
<1>2. CASE ScanEnd
  <2>1. /\ pc = "scan" /\ todo = {} /\ pc' \in {"error", "library"}
        /\ UNCHANGED <<design, lib, sorting, at>>
    BY <1>2 DEF ScanEnd, Ready
  <2>2. LibraryInv'
    BY <2>1 DEF LibraryInv, Known, Collected, CellTypes
  <2> QED
    BY <2>1, <2>2, OrderKept, WriterKept DEF sorting, Contents
<1>3. CASE Sort
  <2>1. /\ pc = "sort" /\ pc' \in {"sort", "error"}
        /\ UNCHANGED <<design, lib, at>>
    BY <1>3 DEF Sort, Ready
  <2>2. WriterInv'
    BY <2>1 DEF WriterInv, Contents
  <2> QED
    BY <1>3, <2>1, <2>2, SortOrder, LibraryKept
<1>4. CASE ModuleStart
  <2>1. /\ pc = "module" /\ at <= Len(order) /\ UNCHANGED <<design, lib, sorting>>
        /\ IF design[This].box THEN at' = at + 1 /\ pc' = pc
           ELSE at' = at /\ pc' = "outputs"
    BY <1>4 DEF ModuleStart, Ready
  <2>2. pc' \in {"module", "outputs"}
    BY <2>1
  <2>3. WriterInv'
    BY <2>1 DEF WriterInv, Contents, This, sorting
  <2> QED
    BY <2>1, <2>2, <2>3, OrderKept, LibraryKept
<1>5. CASE ModuleEnd
  <2>1. /\ pc = "keep" /\ pc' = "module" /\ at' = at + 1
        /\ UNCHANGED <<design, lib, sorting>>
    BY <1>5 DEF ModuleEnd, Ready
  <2>2. WriterInv'
    BY <2>1 DEF WriterInv, Contents
  <2> QED
    BY <2>1, <2>2, OrderKept, LibraryKept
<1>6. CASE LibraryEnd \/ SortEnd \/ OutputsEnd \/ PromoteEnd \/ PortsEnd \/ CellsEnd \/ NetsEnd \/ Finish
  <2>1. /\ UNCHANGED <<design, lib, sorting, at>>
        /\ pc \notin {"scan", "error"} /\ pc' # "scan"
        /\ pc' \in Contents => pc \in Contents
    BY <1>6 DEF LibraryEnd, SortEnd, OutputsEnd, PromoteEnd, PortsEnd, CellsEnd, NetsEnd, Finish, Ready, Contents
  <2> QED
    BY <2>1, OrderKept, LibraryKept, WriterKept DEF sorting
<1>7. ASSUME NEW x \in todo,
             LibraryCell(x) \/ Output(x) \/ Promote(x) \/ Port(x) \/ Cell(x) \/ Net(x) \/ Keep(x)
      PROVE  SortInv'
  <2>1. /\ UNCHANGED <<design, lib, sorting, at>>
        /\ pc \notin {"scan", "error"} /\ pc' # "scan"
        /\ pc' \in Contents => pc \in Contents
    BY <1>7 DEF LibraryCell, Output, Promote, Port, Cell, Net, Keep, Ready, Contents
  <2> QED
    BY <2>1, OrderKept, LibraryKept, WriterKept DEF sorting
<1>8. CASE Name \/ UNCHANGED vars
  <2>1. UNCHANGED <<design, lib, sorting, at, pc, todo>>
    BY <1>8 DEF Name, vars, sorting
  <2> QED
    BY <2>1, OrderKept, LibraryKept, WriterKept DEF sorting
<1> QED
  BY <1>1, <1>2, <1>3, <1>4, <1>5, <1>6, <1>7, <1>8 DEF Next

\* What the module that is written instantiates is sorted before it; what of
\* it is a box, or no module, is in the library.
LEMMA SortDefines == SortInv => DefinedFirst
<1> SUFFICES ASSUME SortInv, pc \in Contents, NEW t \in CellTypes(This)
             PROVE  t \in lib \/ \E i \in 1..at - 1 : order[i] = t /\ ~design[t].box
  BY DEF DefinedFirst, Contents
<1>1. at \in 1..Len(order) /\ This \in Known /\ ~design[This].box
  BY DEF SortInv, OrderInv, WriterInv, This
<1>2. Collected(This)
  BY <1>1 DEF SortInv, LibraryInv, Contents
<1>3. CASE t \in Known /\ ~design[t].box
  <2>1. t \in Deps(order[at])
    BY <1>3 DEF Deps, This
  <2>2. \E j \in 1..at - 1 : order[j] = t
    BY <2>1, <1>1 DEF SortInv, OrderInv
  <2> QED
    BY <2>2, <1>3
<1>4. CASE ~(t \in Known /\ ~design[t].box)
  BY <1>1, <1>2, <1>4 DEF Collected
<1> QED
  BY <1>3, <1>4

\* In the file of any finite design, whatever instantiates what, a module comes
\* after the modules it instantiates, and the rest is in the library of cells.
THEOREM ModulesDefinedFirst == Spec => []DefinedFirst
<1>1. Spec => []SortInv
  BY InitSort, NextSort, PTL DEF Spec
<1> QED
  BY <1>1, SortDefines, PTL


-----------------------------------------------------------------------------
(* The names of the nets                                                   *)

\* The comparison of two ranks, spelled out.
LEMMA BeatsSpelled ==
    ASSUME NEW r1, NEW r2, NEW r3, NEW r4, NEW s1, NEW s2, NEW s3, NEW s4
    PROVE  Beats(<<r1, r2, r3, r4>>, <<s1, s2, s3, s4>>) <=>
              \/ r1 > s1
              \/ r2 > s2 /\ r1 = s1
              \/ r3 > s3 /\ r1 = s1 /\ r2 = s2
              \/ r4 > s4 /\ r1 = s1 /\ r2 = s2 /\ r3 = s3
<1> DEFINE r == <<r1, r2, r3, r4>>
           s == <<s1, s2, s3, s4>>
<1>1. /\ r[1] = r1 /\ r[2] = r2 /\ r[3] = r3 /\ r[4] = r4
      /\ s[1] = s1 /\ s[2] = s2 /\ s[3] = s3 /\ s[4] = s4
  OBVIOUS
<1>2. Beats(r, s) <=> \E i \in 1..4 : r[i] > s[i] /\ \A j \in 1..i - 1 : r[j] = s[j]
  BY DEF Beats
<1> HIDE DEF r, s
<1>3. 1..4 = {1, 2, 3, 4} /\ 1..1 - 1 = {} /\ 1..2 - 1 = {1} /\ 1..3 - 1 = {1, 2} /\ 1..4 - 1 = {1, 2, 3}
  OBVIOUS
<1>4. Beats(r, s) <=>
         \/ r[1] > s[1]
         \/ r[2] > s[2] /\ r[1] = s[1]
         \/ r[3] > s[3] /\ r[1] = s[1] /\ r[2] = s[2]
         \/ r[4] > s[4] /\ r[1] = s[1] /\ r[2] = s[2] /\ r[3] = s[3]
  BY <1>2, <1>3
<1> QED
  BY <1>1, <1>4 DEF r, s

WireRecord(w) == w.attrs \in Nat /\ w.port \in Nat

\* Ranks are ordered: what beats a wire beats all that do not beat it.
LEMMA RanksAreOrdered ==
    ASSUME NEW b, NEW c, NEW d, WireRecord(b), WireRecord(c), WireRecord(d)
    PROVE  /\ ~Beats(Rank(b), Rank(b))
           /\ Beats(Rank(b), Rank(d)) /\ ~Beats(Rank(c), Rank(d)) => ~Beats(Rank(c), Rank(b))
<1> DEFINE Early(w) == IF w.port # 0 THEN 100 - w.port ELSE 0
<1>1. ASSUME NEW w, WireRecord(w)
      PROVE  /\ Flag(w.keep) \in Int /\ Flag(w.public) \in Int /\ w.attrs \in Int /\ Early(w) \in Int
             /\ Rank(w) = <<Flag(w.keep), Flag(w.public), w.attrs, Early(w)>>
  BY <1>1 DEF Flag, WireRecord, Rank
<1> HIDE DEF Early
<1>2. ASSUME NEW v, NEW w, WireRecord(v), WireRecord(w)
      PROVE  Beats(Rank(v), Rank(w)) <=>
                \/ Flag(v.keep) > Flag(w.keep)
                \/ Flag(v.public) > Flag(w.public) /\ Flag(v.keep) = Flag(w.keep)
                \/ v.attrs > w.attrs /\ Flag(v.keep) = Flag(w.keep) /\ Flag(v.public) = Flag(w.public)
                \/ /\ Early(v) > Early(w) /\ Flag(v.keep) = Flag(w.keep)
                   /\ Flag(v.public) = Flag(w.public) /\ v.attrs = w.attrs
  BY <1>1, <1>2, BeatsSpelled
<1>3. ~Beats(Rank(b), Rank(b))
  BY <1>1, <1>2
<1>4. Beats(Rank(b), Rank(d)) /\ ~Beats(Rank(c), Rank(d)) => ~Beats(Rank(c), Rank(b))
  BY <1>1, <1>2
<1> QED
  BY <1>3, <1>4

\* The wire a net is named after is not beaten by the one of the bit.
WellNamed(b) == rep[b] \notin Consts => ~Beats(Rank(Wire(This, b)), Rank(Wire(This, rep[b])))

\* Each bit has one that stands for it, and those promoted so far are named well.
RepInv ==
    /\ pc \in Contents => rep \in [Bits(This) \cup Consts -> Bits(This) \cup Consts]
    /\ pc \in {"outputs", "promote"} => todo \subseteq Bits(This)
    /\ pc = "promote" => \A b \in Bits(This) \ todo : WellNamed(b)
    /\ pc \in {"ports", "cells", "nets", "keep"} => \A b \in Bits(This) : WellNamed(b)

\* Of the bits of a module that is written the wires have a rank.
LEMMA WiresOfBits ==
    ASSUME SortInv, pc \in Contents, NEW b \in Bits(This)
    PROVE  WireRecord(Wire(This, b))
<1>1. This \in Known /\ design \in Designs
  BY DEF SortInv, OrderInv, WriterInv, This
<1>2. PICK w \in DOMAIN design[This].wires : b[1] = w
  BY DEF Bits, BitsOf
<1> QED
  BY <1>1, <1>2, DesignsAreTyped DEF WireRecord, Wire, Known

\* SigMap makes one bit of each alias stand for the others.
LEMMA SigMapType ==
    ASSUME SortInv, pc = "module", at \in 1..Len(order), NEW f \in SigMaps
    PROVE  f \in [Bits(This) \cup Consts -> Bits(This) \cup Consts]
<1>1. This \in Known /\ design \in Designs
  BY DEF SortInv, OrderInv, This
<1> DEFINE aliases == design[This].aliases
<1>2. PICK pick \in [aliases -> UNION aliases] :
         /\ \A a \in aliases : pick[a] \in Stands(a)
         /\ f = [b \in Bits(This) \cup Consts |->
                    IF \E a \in aliases : b \in a THEN pick[CHOOSE a \in aliases : b \in a] ELSE b]
  BY DEF SigMaps
<1>3. \A a \in aliases : pick[a] \in Bits(This) \cup Consts
  <2>1. \A a \in aliases : a \subseteq Bits(This) \cup Consts
    BY <1>1, DesignsAreTyped DEF Known, Bits
  <2> QED
    BY <1>2, <2>1 DEF Stands
<1>4. ASSUME NEW b \in Bits(This) \cup Consts
      PROVE  f[b] \in Bits(This) \cup Consts
  <2>1. CASE \E a \in aliases : b \in a
    <3>1. (CHOOSE a \in aliases : b \in a) \in aliases
      BY <2>1
    <3> QED
      BY <1>2, <1>3, <2>1, <3>1
  <2>2. CASE ~\E a \in aliases : b \in a
    BY <1>2, <2>2
  <2> QED
    BY <2>1, <2>2
<1> QED
  BY <1>2, <1>4

LEMMA PromotedType ==
    ASSUME NEW S, rep \in [S -> S], NEW b \in S
    PROVE  Promoted(b) \in [S -> S]
BY DEF Promoted

\* The names found stay when the module and what stands for its bits do.
LEMMA RepKept ==
    ASSUME RepInv, UNCHANGED <<design, order, at, rep>>,
           \/ UNCHANGED <<pc, todo>>
           \/ pc' \notin {"outputs", "promote"} /\ (pc' \in Contents => pc \in Contents \ {"outputs", "promote"})
    PROVE  RepInv'
BY DEF RepInv, WellNamed, This, Wire, Bits, Contents

\* Promoting a bit that beats the one of its net names all bits of the net no
\* worse than they were.
LEMMA PromoteNames ==
    ASSUME SortInv, RepInv, NEW b \in todo, Promote(b)
    PROVE  RepInv'
<1>1. /\ pc = "promote" /\ pc' = pc /\ todo' = todo \ {b} /\ b \in Bits(This)
      /\ UNCHANGED <<design, order, at>>
      /\ rep' = IF rep[b] # b /\ rep[b] \notin Consts /\ Promotes(b, rep[b]) THEN Promoted(b) ELSE rep
      /\ rep \in [Bits(This) \cup Consts -> Bits(This) \cup Consts]
  BY DEF Promote, Ready, RepInv, Contents, sorting
<1>2. This' = This /\ Bits(This)' = Bits(This) /\ \A c : Wire(This, c)' = Wire(This, c)
  BY <1>1 DEF This, Bits, Wire
<1>3. rep' \in [Bits(This) \cup Consts -> Bits(This) \cup Consts]
  BY <1>1, PromotedType
<1>4. \A c \in Bits(This) : WireRecord(Wire(This, c))
  BY <1>1, WiresOfBits DEF Contents
<1>5. ASSUME NEW c \in Bits(This), c \notin todo', rep'[c] \notin Consts
      PROVE  ~Beats(Rank(Wire(This, c)), Rank(Wire(This, rep'[c])))
  <2>1. CASE rep[b] # b /\ rep[b] \notin Consts /\ Promotes(b, rep[b])
    <3>1. rep'[c] = IF rep[c] = rep[b] THEN b ELSE rep[c]
      BY <1>1, <2>1 DEF Promoted
    <3>2. rep[b] \in Bits(This) /\ Beats(Rank(Wire(This, b)), Rank(Wire(This, rep[b])))
      BY <1>1, <2>1 DEF Promotes
    <3>3. CASE c = b
      BY <1>1, <1>4, <3>1, <3>3, RanksAreOrdered
    <3>4. CASE c # b
      <4>1. WellNamed(c)
        BY <1>1, <1>5, <3>4 DEF RepInv
      <4>2. CASE rep[c] = rep[b]
        <5>1. ~Beats(Rank(Wire(This, c)), Rank(Wire(This, rep[b])))
          BY <2>1, <4>1, <4>2 DEF WellNamed
        <5> QED
          BY <1>1, <1>4, <3>1, <3>2, <4>2, <5>1, RanksAreOrdered
      <4>3. CASE rep[c] # rep[b]
        BY <1>5, <3>1, <4>1, <4>3 DEF WellNamed
      <4> QED
        BY <4>2, <4>3
    <3> QED
      BY <3>3, <3>4
  <2>2. CASE ~(rep[b] # b /\ rep[b] \notin Consts /\ Promotes(b, rep[b]))
    <3>1. rep' = rep
      BY <1>1, <2>2
    <3>2. CASE c = b
      BY <1>1, <1>4, <1>5, <2>2, <3>1, <3>2, RanksAreOrdered DEF Promotes
    <3>3. CASE c # b
      BY <1>1, <1>5, <3>1, <3>3 DEF RepInv, WellNamed
    <3> QED
      BY <3>2, <3>3
  <2> QED
    BY <2>1, <2>2
<1> QED
  BY <1>1, <1>2, <1>3, <1>5 DEF RepInv, WellNamed, Contents

LEMMA InitRep == Init => RepInv
BY DEF Init, RepInv, Contents

LEMMA NextRep == SortInv /\ RepInv /\ [Next]_vars => RepInv'
<1> SUFFICES ASSUME SortInv, RepInv, [Next]_vars
             PROVE  RepInv'
  OBVIOUS
<1>1. CASE ModuleStart
  <2>1. /\ pc = "module" /\ at <= Len(order) /\ UNCHANGED <<design, order>>
        /\ IF design[This].box THEN pc' = pc
           ELSE rep' \in SigMaps /\ pc' = "outputs" /\ todo' = OutputBits /\ at' = at
    BY <1>1 DEF ModuleStart, Ready, sorting
  <2>2. CASE design[This].box
    BY <2>1, <2>2 DEF RepInv, Contents
  <2>3. CASE ~design[This].box
    <3>1. This' = This /\ Bits(This)' = Bits(This)
      BY <2>1, <2>3 DEF This, Bits
    <3>2. at \in 1..Len(order)
      BY <2>1 DEF SortInv, WriterInv, OrderInv
    <3>3. rep' \in [Bits(This) \cup Consts -> Bits(This) \cup Consts]
      BY <2>1, <2>3, <3>2, SigMapType
    <3>4. OutputBits \subseteq Bits(This)
      BY DEF OutputBits
    <3> QED
      BY <2>1, <2>3, <3>1, <3>3, <3>4 DEF RepInv, Contents
  <2> QED
    BY <2>2, <2>3
<1>2. ASSUME NEW b \in todo, Output(b)
      PROVE  RepInv'
  <2>1. /\ pc = "outputs" /\ pc' = pc /\ todo' = todo \ {b} /\ rep' = Promoted(b)
        /\ UNCHANGED <<design, order, at>>
    BY <1>2 DEF Output, Ready, sorting
  <2>2. b \in Bits(This) /\ rep \in [Bits(This) \cup Consts -> Bits(This) \cup Consts]
    BY <2>1 DEF RepInv, Contents
  <2>3. rep' \in [Bits(This) \cup Consts -> Bits(This) \cup Consts]
    BY <2>1, <2>2, PromotedType
  <2>4. This' = This /\ Bits(This)' = Bits(This)
    BY <2>1 DEF This, Bits
  <2> QED
    BY <2>1, <2>3, <2>4 DEF RepInv, Contents
<1>3. CASE OutputsEnd
  <2>1. /\ pc = "outputs" /\ pc' = "promote" /\ todo' = Bits(This)
        /\ UNCHANGED <<design, order, at, rep>>
    BY <1>3 DEF OutputsEnd, Ready, sorting
  <2>2. This' = This /\ Bits(This)' = Bits(This)
    BY <2>1 DEF This, Bits
  <2> QED
    BY <2>1, <2>2 DEF RepInv, Contents
<1>4. CASE PromoteEnd
  <2>1. /\ pc = "promote" /\ pc' = "ports" /\ todo = {}
        /\ UNCHANGED <<design, order, at, rep>>
    BY <1>4 DEF PromoteEnd, Ready, sorting
  <2>2. This' = This /\ Bits(This)' = Bits(This) /\ \A c : WellNamed(c)' = WellNamed(c)
    BY <2>1 DEF This, Bits, WellNamed, Wire
  <2> QED
    BY <2>1, <2>2 DEF RepInv, Contents
<1>5. ASSUME NEW x \in todo, Promote(x)
      PROVE  RepInv'
  BY <1>5, PromoteNames
<1>6. CASE ScanEnd \/ LibraryEnd \/ Sort \/ SortEnd \/ ModuleEnd \/ Finish
  <2>1. pc' \notin Contents
    BY <1>6 DEF ScanEnd, LibraryEnd, Sort, SortEnd, ModuleEnd, Finish, Ready, Contents
  <2> QED
    BY <2>1 DEF RepInv, Contents
<1>7. CASE PortsEnd \/ CellsEnd \/ NetsEnd
  <2>1. /\ UNCHANGED <<design, order, at, rep>>
        /\ pc' \notin {"outputs", "promote"} /\ pc \in Contents \ {"outputs", "promote"}
    BY <1>7 DEF PortsEnd, CellsEnd, NetsEnd, Ready, Contents, sorting
  <2> QED
    BY <2>1, RepKept
<1>8. ASSUME NEW x \in todo, Scan(x) \/ LibraryCell(x)
      PROVE  RepInv'
  <2>1. pc' \notin Contents
    BY <1>8 DEF Scan, LibraryCell, Ready, Contents
  <2> QED
    BY <2>1 DEF RepInv, Contents
<1>9. ASSUME NEW x \in todo, Port(x) \/ Cell(x) \/ Net(x) \/ Keep(x)
      PROVE  RepInv'
  <2>1. /\ UNCHANGED <<design, order, at, rep>>
        /\ pc' \notin {"outputs", "promote"} /\ pc \in Contents \ {"outputs", "promote"}
    BY <1>9 DEF Port, Cell, Net, Keep, Ready, Contents, sorting
  <2> QED
    BY <2>1, RepKept
<1>10. CASE Name \/ UNCHANGED vars
  <2>1. UNCHANGED <<design, order, at, rep, pc, todo>>
    BY <1>10 DEF Name, vars, sorting
  <2> QED
    BY <2>1, RepKept
<1> QED
  BY <1>1, <1>2, <1>3, <1>4, <1>5, <1>6, <1>7, <1>8, <1>9, <1>10 DEF Next

LEMMA RepNamesBest == RepInv => BestNameWins
BY DEF RepInv, BestNameWins, WellNamed

\* A net is named after a wire no other of its wires outranks, whatever the
\* order in which the bits are visited, for every design and every choice SigMap
\* makes of the bits that stand for others.
THEOREM NetsTakeBestName == Spec => []BestNameWins
<1>1. Spec => [](SortInv /\ RepInv)
  BY InitSort, NextSort, InitRep, NextRep, PTL DEF Spec
<1> QED
  BY <1>1, RepNamesBest, PTL
=============================================================================
