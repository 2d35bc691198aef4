--------------------------------- MODULE Edif ---------------------------------
(***************************************************************************)
(* write_edif, the EDIF back end registered by the frontend plugin         *)
(* (src/mods/yosys_ast/synlig_edif.cc).                                    *)
(*                                                                         *)
(* A design is a function of module names. A module has flags for the top, *)
(* black boxes, processes and memories left in it, wires, aliases (sets of *)
(* bits that SigMap holds to be one) and cells. A bit is <<wire, index>>   *)
(* or a constant, <<"0">> to <<"z">>. The text of the file is left out: of *)
(* it the model keeps the order of the modules, the identifiers and what   *)
(* each net joins.                                                         *)
(***************************************************************************)
EXTENDS Integers, Sequences, SequencesExt, FiniteSets, TLC

CONSTANTS Designs,      \* the designs that are written
          Plain,        \* identifiers EDIF takes as they are
          GenName(_),   \* the n-th name the back end makes up, "id%05d"
          TopOption,    \* option -top, or ""
          NoGndVcc,     \* option -nogndvcc
          KeepMode,     \* option -keep
          MaxNames      \* bound: the generated names a run can use

ASSUME MaxNamesNat == MaxNames \in Nat
ASSUME DesignsAreFinite == \A d \in Designs : IsFiniteSet(DOMAIN d)

VARIABLES design,   \* the design, which does not change
          pc,       \* part of execute() that runs
          lib,      \* lib_cell_ports: types of cells that no module describes
          top,      \* top_module_name
          todo,     \* what the loop at pc has left
          waiting,  \* module_deps: modules not sorted yet
          order,    \* sorted_modules
          at,       \* the module of the order that is written
          rep,      \* sigmap: the bit that stands for each bit
          db,       \* net_join_db: <<bit, reference, drives>>
          nets,     \* nets of the module written: <<name, references>>
          names,    \* EdifNames
          ask,      \* identifiers the last output passes to EdifNames
          given     \* every answer of EdifNames, as <<identifier, name>>

vars == <<design, pc, lib, top, todo, waiting, order, at, rep, db, nets, names, ask, given>>
sorting == <<waiting, order>>
naming == <<names, given>>

Consts == {<<"0">>, <<"1">>, <<"x">>, <<"z">>}
Known == DOMAIN design
CellTypes(m) == {design[m].cells[c].type : c \in DOMAIN design[m].cells}
Deps(m) == CellTypes(m) \cap Known
BitsOf(module) == UNION {{<<w, i>> : i \in 0..module.wires[w].width - 1} : w \in DOMAIN module.wires}
Bits(m) == BitsOf(design[m])
Wire(m, b) == design[m].wires[b[1]]

ASSUME DesignsAreTyped ==
    \A d \in Designs : \A m \in DOMAIN d :
        /\ \A w \in DOMAIN d[m].wires : {d[m].wires[w].attrs, d[m].wires[w].port} \subseteq Nat
        /\ \A a \in d[m].aliases : a \subseteq BitsOf(d[m]) \cup Consts

-----------------------------------------------------------------------------
(* EdifNames                                                               *)

NewNames == [counter |-> 1, generated |-> {}, used |-> {}, map |-> << >>]

MapAdd(f, x, y) == [z \in DOMAIN f \cup {x} |-> IF z = x THEN y ELSE f[z]]

\* Mutant: a generated name is only kept apart from the other generated ones.
Taken_Generated(n) == n \in names.generated

Taken(n) == n \in names.generated \cup names.used

\* The answer for an identifier that was renamed, is plain, or is renamed now.
Answer(id) ==
    \/ /\ id \in DOMAIN names.map
       /\ given' = given \cup {<<id, names.map[id]>>}
       /\ names' = names
    \/ /\ id \notin DOMAIN names.map
       /\ id \in Plain /\ id \notin names.generated
       /\ given' = given \cup {<<id, id>>}
       /\ names' = [names EXCEPT !.used = @ \cup {id}]
    \/ /\ id \notin DOMAIN names.map
       /\ id \notin Plain \/ id \in names.generated
       /\ \E k \in names.counter..MaxNames :
             /\ ~Taken(GenName(k))
             /\ \A j \in names.counter..k - 1 : Taken(GenName(j))
             /\ given' = given \cup {<<id, GenName(k)>>}
             /\ names' = [names EXCEPT !.counter = k + 1,
                                       !.generated = @ \cup {GenName(k)},
                                       !.map = MapAdd(@, id, GenName(k))]

Name ==
    /\ ask # << >>
    /\ Answer(Head(ask))
    /\ ask' = Tail(ask)
    /\ UNCHANGED <<design, pc, lib, top, todo, waiting, order, at, rep, db, nets>>

-----------------------------------------------------------------------------
(* The modules are read, the library is written, the modules are sorted    *)

\* The top module: an option, or a module that has the attribute.
GivenTop ==
    LET marked == {m \in DOMAIN design : design[m].top}
    IN  IF TopOption # "" THEN {TopOption} ELSE IF marked = {} THEN {""} ELSE marked

Init ==
    /\ design \in Designs
    /\ pc = "scan" /\ lib = {} /\ todo = DOMAIN design
    /\ top \in GivenTop
    /\ waiting = DOMAIN design /\ order = << >> /\ at = 1
    /\ rep = << >> /\ db = {} /\ nets = {}
    /\ names = NewNames /\ ask = << >> /\ given = {}

Ready(p) == pc = p /\ ask = << >>

Scan(m) ==
    /\ Ready("scan") /\ m \in todo
    /\ todo' = todo \ {m}
    /\ IF design[m].box THEN UNCHANGED <<pc, lib, top>>
       ELSE /\ top' = IF top = "" THEN m ELSE top
            /\ pc' = IF design[m].unmapped THEN "error" ELSE pc
            /\ lib' = lib \cup {t \in CellTypes(m) : t \in Known => design[t].box}
    /\ UNCHANGED <<design, sorting, at, rep, db, nets, naming, ask>>

ScanEnd ==
    /\ Ready("scan") /\ todo = {}
    /\ IF top = "" THEN pc' = "error" /\ UNCHANGED <<todo, ask>>
       ELSE pc' = "library" /\ todo' = lib /\ ask' = <<top>>
    /\ UNCHANGED <<design, lib, top, sorting, at, rep, db, nets, naming>>

LibraryCell(t) ==
    /\ Ready("library") /\ t \in todo
    /\ todo' = todo \ {t}
    /\ ask' = <<t>>
    /\ UNCHANGED <<design, pc, lib, top, sorting, at, rep, db, nets, naming>>

LibraryEnd ==
    /\ Ready("library") /\ todo = {}
    /\ pc' = "sort"
    /\ UNCHANGED <<design, lib, top, todo, sorting, at, rep, db, nets, naming, ask>>

\* Mutant: a module is ready as soon as one it instantiates is sorted.
IsReady_Some(m) == Deps(m) = {} \/ Deps(m) \ waiting # {}

IsReady(m) == Deps(m) \cap waiting = {}

\* One round of the sort: what is ready is appended, in any order, and only
\* then taken out of what the others wait for.
Sort ==
    /\ Ready("sort") /\ waiting # {}
    /\ LET ready == {m \in waiting : IsReady(m)}
       IN  IF ready = {} THEN pc' = "error" /\ UNCHANGED sorting
           ELSE /\ \E s \in SetToSeqs(ready) : order' = order \o s
                /\ waiting' = waiting \ ready
                /\ pc' = pc
    /\ UNCHANGED <<design, lib, top, todo, at, rep, db, nets, naming, ask>>

SortEnd ==
    /\ Ready("sort") /\ waiting = {}
    /\ pc' = "module"
    /\ UNCHANGED <<design, lib, top, todo, sorting, at, rep, db, nets, naming, ask>>

-----------------------------------------------------------------------------
(* One module: the bit that names each net                                 *)

This == order[at]

\* SigMap (kernel/sigtools.h): any bit stands for its aliases, a constant if
\* there is one; add(bit) makes a bit stand for them unless a constant does.
Stands(a) == IF a \cap Consts # {} THEN a \cap Consts ELSE a
SigMaps ==
    LET aliases == design[This].aliases
    IN  {[b \in Bits(This) \cup Consts |->
             IF \E a \in aliases : b \in a THEN pick[CHOOSE a \in aliases : b \in a] ELSE b]
         : pick \in {f \in [aliases -> UNION aliases] : \A a \in aliases : f[a] \in Stands(a)}}

Promoted(b) == IF rep[b] \in Consts THEN rep
               ELSE [c \in DOMAIN rep |-> IF rep[c] = rep[b] THEN b ELSE rep[c]]

OutputBits == UNION {UNION {Range(design[This].cells[c].pins[p].bits) \cap Bits(This)
                            : p \in {q \in DOMAIN design[This].cells[c].pins : design[This].cells[c].pins[q].out}}
                    : c \in DOMAIN design[This].cells}

\* A black box has no contents; the rest starts with the outputs of its cells.
ModuleStart ==
    /\ Ready("module") /\ at <= Len(order)
    /\ IF design[This].box THEN at' = at + 1 /\ UNCHANGED <<pc, todo, rep, db, nets, ask>>
       ELSE /\ rep' \in SigMaps
            /\ pc' = "outputs" /\ todo' = OutputBits
            /\ db' = {} /\ nets' = {} /\ ask' = <<This>>
            /\ at' = at
    /\ UNCHANGED <<design, lib, top, sorting, naming>>

Output(b) ==
    /\ Ready("outputs") /\ b \in todo
    /\ todo' = todo \ {b}
    /\ rep' = Promoted(b)
    /\ UNCHANGED <<design, pc, lib, top, sorting, at, db, nets, naming, ask>>

OutputsEnd ==
    /\ Ready("outputs") /\ todo = {}
    /\ pc' = "promote" /\ todo' = Bits(This)
    /\ UNCHANGED <<design, lib, top, sorting, at, rep, db, nets, naming, ask>>

\* What a wire has to say for its name: kept, public, attributes, early port.
Flag(p) == IF p THEN 1 ELSE 0
Rank(w) == <<Flag(w.keep), Flag(w.public), w.attrs, IF w.port # 0 THEN 100 - w.port ELSE 0>>

Beats(r, s) == \E i \in 1..4 : r[i] > s[i] /\ \A j \in 1..i - 1 : r[j] = s[j]

\* Mutant: the comparisons only promote, and never end the search.
Promotes_Any(b, c) == \E i \in 1..4 : Rank(Wire(This, b))[i] > Rank(Wire(This, c))[i]

Promotes(b, c) == Beats(Rank(Wire(This, b)), Rank(Wire(This, c)))

Promote(b) ==
    /\ Ready("promote") /\ b \in todo
    /\ todo' = todo \ {b}
    /\ rep' = IF rep[b] # b /\ rep[b] \notin Consts /\ Promotes(b, rep[b]) THEN Promoted(b) ELSE rep
    /\ UNCHANGED <<design, pc, lib, top, sorting, at, db, nets, naming, ask>>

Ports == {w \in DOMAIN design[This].wires : design[This].wires[w].port # 0}

PromoteEnd ==
    /\ Ready("promote") /\ todo = {}
    /\ pc' = "ports" /\ todo' = Ports
    /\ UNCHANGED <<design, lib, top, sorting, at, rep, db, nets, naming, ask>>

-----------------------------------------------------------------------------
(* One module: its ports, its cells, its nets                              *)

Port(w) ==
    /\ Ready("ports") /\ w \in todo
    /\ todo' = todo \ {w}
    /\ ask' = <<w>>
    /\ db' = db \cup {<<rep[<<w, i>>], <<w, i>>, design[This].wires[w].input>>
                      : i \in 0..design[This].wires[w].width - 1}
    /\ UNCHANGED <<design, pc, lib, top, sorting, at, rep, nets, naming>>

PortsEnd ==
    /\ Ready("ports") /\ todo = {}
    /\ pc' = "cells" /\ todo' = DOMAIN design[This].cells
    /\ UNCHANGED <<design, lib, top, sorting, at, rep, db, nets, naming, ask>>

\* Bits of a pin that are x or z are left unconnected with a warning.
PinRefs(c, p) ==
    LET pin == design[This].cells[c].pins[p]
    IN  {<<rep[pin.bits[i]], <<c, p, i - 1>>, pin.out>>
         : i \in {j \in DOMAIN pin.bits : rep[pin.bits[j]] \notin {<<"x">>, <<"z">>}}}

Cell(c) ==
    /\ Ready("cells") /\ c \in todo
    /\ todo' = todo \ {c}
    /\ ask' = <<c, design[This].cells[c].type>> \o SetToSeq(DOMAIN design[This].cells[c].pins)
    /\ db' = db \cup UNION {PinRefs(c, p) : p \in DOMAIN design[This].cells[c].pins}
    /\ UNCHANGED <<design, pc, lib, top, sorting, at, rep, nets, naming>>

CellsEnd ==
    /\ Ready("cells") /\ todo = {}
    /\ pc' = "nets" /\ todo' = {e[1] : e \in db}
    /\ UNCHANGED <<design, lib, top, sorting, at, rep, db, nets, naming, ask>>

\* log_signal() without blanks: a wire of one bit goes by its name alone.
NetName(b) == IF b = <<"1">> THEN "VCC_NET"
              ELSE IF b \in Consts THEN "GND_NET"
              ELSE IF Wire(This, b).width = 1 THEN b[1] ELSE b[1] \o "[" \o ToString(b[2]) \o "]"
Joined(b) == {e[2] : e \in {d \in db : d[1] = b}}
Drivers(b) == {e[2] : e \in {d \in db : d[1] = b /\ d[3]}}

\* A net on x is exported as zero, one on z is not.
Net(b) ==
    /\ Ready("nets") /\ b \in todo
    /\ todo' = todo \ {b}
    /\ IF b = <<"z">> THEN UNCHANGED <<pc, nets, ask>>
       ELSE /\ ask' = <<NetName(b)>>
            /\ pc' = IF b \in Consts /\ NoGndVcc THEN "error" ELSE pc
            /\ nets' = nets \cup {<<NetName(b), Joined(b)>>}
    /\ UNCHANGED <<design, lib, top, sorting, at, rep, db, naming>>

NetsEnd ==
    /\ Ready("nets") /\ todo = {}
    /\ pc' = "keep"
    /\ todo' = {b \in Bits(This) : /\ Wire(This, b).keep /\ rep[b] # b
                                   /\ \E e \in db : e[1] = rep[b]}
    /\ UNCHANGED <<design, lib, top, sorting, at, rep, db, nets, naming, ask>>

\* A kept wire that lost its name to another one: an extra net of the drivers,
\* or a warning (which asks for the name all the same).
Keep(b) ==
    /\ Ready("keep") /\ b \in todo
    /\ todo' = todo \ {b}
    /\ ask' = <<NetName(b)>>
    /\ nets' = IF KeepMode THEN nets \cup {<<NetName(b), Drivers(rep[b])>>} ELSE nets
    /\ UNCHANGED <<design, pc, lib, top, sorting, at, rep, db, naming>>

ModuleEnd ==
    /\ Ready("keep") /\ todo = {}
    /\ pc' = "module" /\ at' = at + 1
    /\ UNCHANGED <<design, lib, top, todo, sorting, rep, db, nets, naming, ask>>

Finish ==
    /\ Ready("module") /\ at > Len(order)
    /\ pc' = "done" /\ ask' = <<top>>
    /\ UNCHANGED <<design, lib, top, todo, sorting, at, rep, db, nets, naming>>

Next ==
    \/ Name \/ ScanEnd \/ LibraryEnd \/ Sort \/ SortEnd \/ ModuleStart \/ OutputsEnd
    \/ PromoteEnd \/ PortsEnd \/ CellsEnd \/ NetsEnd \/ ModuleEnd \/ Finish
    \/ \E x \in todo : \/ Scan(x) \/ LibraryCell(x) \/ Output(x) \/ Promote(x)
                       \/ Port(x) \/ Cell(x) \/ Net(x) \/ Keep(x)

Spec == Init /\ [][Next]_vars

-----------------------------------------------------------------------------
(* Properties                                                              *)

\* An identifier has one EDIF name for the whole file, and no two have the
\* same one: neither two renamed ones nor a plain one that looks generated.
OneNameEach == \A p, q \in given : p[1] = q[1] <=> p[2] = q[2]

\* Every module a written module instantiates is written before it, or is
\* in the library of cells; a design with a cycle is never written.
DefinedFirst ==
    pc \in {"outputs", "promote", "ports", "cells", "nets", "keep"} =>
       \A t \in CellTypes(This) : t \in lib \/ \E i \in 1..at - 1 : order[i] = t /\ ~design[t].box

\* When the nets are written no wire of a net has more to say for its name
\* than the one the net is named after.
BestNameWins ==
    pc \in {"ports", "cells", "nets", "keep"} =>
       \A b \in Bits(This) : rep[b] \notin Consts =>
           ~Beats(Rank(Wire(This, b)), Rank(Wire(This, rep[b])))
=============================================================================
