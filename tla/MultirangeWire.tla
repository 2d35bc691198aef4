--------------------------- MODULE MultirangeWire ---------------------------
(***************************************************************************)
(* Wires with several packed and unpacked ranges.  The UHDM translator     *)
(* makes one AST node of the objects that describe the wire, flattens it   *)
(* to one range (convert_packed_unpacked_range) and turns every select on  *)
(* it into a select of bits (convert_range).                               *)
(*                                                                         *)
(* One wire is visited, object by object, and converted, range by range,   *)
(* and then selects on it are converted, index by index.  The wire has no  *)
(* named type.                                                             *)
(***************************************************************************)
EXTENDS Integers, Sequences, FiniteSets, Memories, WireObjects

CONSTANTS
    Declarations,  \* declarations of a wire
    Indices,       \* values of the indices of a select
    MaxSelects     \* bound: selects converted on the wire

\* A wire and the module it is in, whose walk calls it This, if it meets it.
Declaration == {d \in [source : Source, module : ModuleNodes] : Described(d.source)}

ASSUME DeclarationsAssumption == Declarations \subseteq Declaration
ASSUME IndicesAssumption == Indices \subseteq Int /\ MaxSelects \in Nat

This == 1

Low(range) == IF range.left < range.right THEN range.left ELSE range.right
High(range) == IF range.left < range.right THEN range.right ELSE range.left

\* Mutant: every range is taken to descend.
Width_Downwards(range) == range.left - range.right + 1

Width(range) == High(range) - Low(range) + 1

VARIABLES
    declared,    \* the declaration
    wire,        \* the AST node of the wire
    dimensions,  \* AstNode::dimensions of the wire node
    size,        \* product of the widths in `dimensions`
    pc,          \* the objects to be visited next: "variables", "ports" and "nets";
                 \* "wire", then "flat", "memory" or "plain", and "select";
                 \* "stopped" if check_memories fails
    select,      \* the ranges of the select in hand
    next,        \* which of them is converted next
    elem,        \* single_elem_size of the last range converted
    result,      \* the bits the ranges converted so far stand for
    converted    \* history: the selects converted, with their results

vars == <<declared, wire, dimensions, size, pc, select, next, elem, result, converted>>

NoPacked == Len(wire.packed)
NoUnpacked == Len(wire.unpacked)
NoRanges == NoPacked + NoUnpacked

\* The ranges in the order a select names them (IEEE 1800, 7.4.5): unpacked,
\* then packed.
Selected(k) == IF k <= NoUnpacked THEN wire.unpacked[k] ELSE wire.packed[k - NoUnpacked]

\* Their order in `dimensions`: packed, then unpacked.
Stored(k) == IF k <= NoPacked THEN wire.packed[k] ELSE wire.unpacked[k - NoPacked]

\* Mutant: packed ranges are evaluated first.
Evaluated_PackedFirst(k) == Stored(k)

\* The order in which convert_range evaluates them.
Evaluated(k) == IF k <= NoUnpacked THEN wire.unpacked[k] ELSE wire.packed[k - NoUnpacked]

\* Mutant: the dimensions are taken in their order.
Position_AsStored(k) == k

\* Where the k-th of them is in `dimensions`.
Position(k) == IF k <= NoUnpacked THEN NoPacked + k ELSE k - NoUnpacked

\* Mutant: the lowest index is not subtracted.
Offset_None(k) == 0

\* The lowest index of the k-th of them.
Offset(k) == dimensions[Position(k)].low

Init ==
    /\ declared \in Declarations
    /\ wire = NoNode
    /\ dimensions = <<>>
    /\ size = 1
    /\ pc = "variables"
    /\ select = <<>> /\ next = 1 /\ elem = 0 /\ result = [left |-> 0, right |-> 0]
    /\ converted = <<>>

------------------------------------------------------------------------------
(***************************************************************************)
(* The objects of the wire, in the order process_module visits them        *)
(***************************************************************************)
VisitVariables ==
    /\ pc = "variables"
    /\ wire' = IF "variable" \in declared.source.objects
               THEN AddOrReplace(wire, Variable(declared.source)) ELSE wire
    /\ pc' = "ports"
    /\ UNCHANGED <<declared, dimensions, size, select, next, elem, result, converted>>

VisitPorts ==
    /\ pc = "ports"
    /\ wire' = IF declared.source.direction # "none"
               THEN AddOrReplace(wire, Port(declared.source)) ELSE wire
    /\ pc' = "nets"
    /\ UNCHANGED <<declared, dimensions, size, select, next, elem, result, converted>>

\* check_memories walks the module before any wire of it is converted.
VisitNets ==
    /\ pc = "nets"
    /\ wire' = IF "net" \in declared.source.objects
               THEN AddOrReplace(wire, Net(declared.source)) ELSE wire
    /\ pc' = IF Collides(declared.module) THEN "stopped" ELSE "wire"
    /\ UNCHANGED <<declared, dimensions, size, select, next, elem, result, converted>>

------------------------------------------------------------------------------
(***************************************************************************)
(* The wire                                                                *)
(***************************************************************************)
IsPort == wire.direction # "none"

\* convert_node of an AST_WIRE without a wiretype.
Converts ==
    \/ NoPacked > 1
    \/ NoUnpacked > 1
    \/ IsPort /\ NoRanges > 0
    \/ ForceConvert(declared.module, This)

\* One iteration of calc_range_size in set_dimensions.  A range that is one value
\* [A] is made [A : A] there, and is left out here.
SetDimension ==
    /\ pc = "wire" /\ Converts /\ Len(dimensions) < NoRanges
    /\ LET range == Stored(Len(dimensions) + 1) IN
       /\ dimensions' = Append(dimensions, [low |-> Low(range), width |-> Width(range)])
       /\ size' = size * Width(range)
    /\ UNCHANGED <<declared, wire, pc, select, next, elem, result, converted>>

\* The wire gets the range [size - 1 : 0]; with one range only it keeps it.
Flatten ==
    /\ pc = "wire" /\ Converts /\ Len(dimensions) = NoRanges
    /\ pc' = IF NoRanges > 1 THEN "flat" ELSE "plain"
    /\ UNCHANGED <<declared, wire, dimensions, size, select, next, elem, result, converted>>

\* A wire that is not converted keeps its ranges; with a packed and an unpacked
\* one it becomes a memory.
KeepRanges ==
    /\ pc = "wire" /\ ~Converts
    /\ pc' = IF NoPacked = 1 /\ NoUnpacked = 1 /\ ~IsPort THEN "memory" ELSE "plain"
    /\ UNCHANGED <<declared, wire, dimensions, size, select, next, elem, result, converted>>

------------------------------------------------------------------------------
(***************************************************************************)
(* Selects                                                                 *)
(***************************************************************************)
\* What SystemVerilog allows on the wire: indices in bounds, and only the last
\* one a slice, in the direction of the range.
Upwards(range) == range.left < range.right

Legal(s) ==
    /\ Len(s) \in 1 .. NoRanges
    /\ \A k \in 1 .. Len(s) :
          /\ {s[k].left, s[k].right} \subseteq Low(Selected(k)) .. High(Selected(k))
          /\ k < Len(s) => s[k].left = s[k].right
          /\ s[k].left = s[k].right \/ (Upwards(s[k]) <=> Upwards(Selected(k)))

\* A select is converted only on a wire that is flat: simplify_sv leaves it
\* alone on memories and on wires with one range.
BeginSelect ==
    /\ pc = "flat" /\ Len(converted) < MaxSelects
    /\ \E n \in 1 .. NoRanges : \E index \in [1 .. n -> Indices], right \in Indices :
          LET s == [k \in 1 .. n |-> [left |-> index[k],
                                      right |-> IF k = n THEN right ELSE index[k]]]
          IN  Legal(s) /\ select' = s
    /\ pc' = "select"
    /\ next' = 1
    /\ elem' = size
    /\ result' = [left |-> size - 1, right |-> 0]
    /\ UNCHANGED <<declared, wire, dimensions, size, converted>>

\* The bits of the elements range.left .. range.right, in an array whose lowest
\* index is `low`, whose elements have `width` bits and which starts at bit
\* `base`.
Bits(base, range, low, width) ==
    LET right == (range.right - low) * width IN
    [left  |-> base + right + (((range.left - low + 1) * width - right) - 1),
     right |-> base + right]

\* One iteration of the loop over the ranges of the select.
ConvertIndex ==
    /\ pc = "select" /\ next <= Len(select)
    /\ elem' = elem \div Width(Evaluated(next))
    /\ result' = Bits(result.right, select[next], Offset(next), elem')
    /\ next' = next + 1
    /\ UNCHANGED <<declared, wire, dimensions, size, pc, select, converted>>

\* The constant bounds of an AST_RANGE, exchanged if they ascend.
Annotated(range) == [left |-> High(range), right |-> Low(range)]

\* simplify visits the new AST_RANGE next.
EndSelect ==
    /\ pc = "select" /\ next > Len(select)
    /\ pc' = "flat"
    /\ converted' = Append(converted, [ranges |-> select, bits |-> Annotated(result)])
    /\ select' = <<>> /\ next' = 1 /\ elem' = 0 /\ result' = [left |-> 0, right |-> 0]
    /\ UNCHANGED <<declared, wire, dimensions, size>>

Next ==
    \/ VisitVariables \/ VisitPorts \/ VisitNets
    \/ SetDimension \/ Flatten \/ KeepRanges
    \/ BeginSelect \/ ConvertIndex \/ EndSelect

Spec == Init /\ [][Next]_vars

------------------------------------------------------------------------------
(***************************************************************************)
(* What SystemVerilog says                                                 *)
(***************************************************************************)
\* The elements of the wire, of one bit each, named by all their indices.
Elements ==
    LET indices(k) == Low(Selected(k)) .. High(Selected(k)) IN
    {t \in [1 .. NoRanges -> UNION {indices(k) : k \in 1 .. NoRanges}] :
        \A k \in 1 .. NoRanges : t[k] \in indices(k)}

Within(index, range) == Low(range) <= index /\ index <= High(range)

Names(s, t) == \A k \in 1 .. Len(s) : Within(t[k], s[k])

HaveCommonElement(s, t) ==
    \A k \in DOMAIN s \cap DOMAIN t :
        Low(s[k]) <= High(t[k]) /\ Low(t[k]) <= High(s[k])

\* Elements are laid out with the right-hand bound of every range at the
\* least significant end, the range named last varying fastest.
RightOf(t, u) ==
    \E k \in 1 .. NoRanges :
        /\ \A j \in 1 .. k - 1 : t[j] = u[j]
        /\ IF Upwards(Selected(k)) THEN t[k] > u[k] ELSE t[k] < u[k]

\* The bits of a select s.
DeclaredBits(s) ==
    LET elements == Elements IN
    {Cardinality({t \in elements : RightOf(t, u)}) : u \in {e \in elements : Names(s, e)}}

------------------------------------------------------------------------------
(***************************************************************************)
(* Properties                                                              *)
(***************************************************************************)
Selects == {converted[i] : i \in 1 .. Len(converted)}

BitsOf(c) == c.bits.right .. c.bits.left

HasUpwardsSlice(s) == \E k \in 1 .. Len(s) : Upwards(s[k])

\* The variables have their types, and only a flattened wire has selects
\* converted (simplify_sv on AST_IDENTIFIER, uhdm_ast.cc:1482).
TypeOK ==
    /\ declared \in Declaration
    /\ wire \in Node
    /\ dimensions \in Seq([low : Int, width : Nat \ {0}])
    /\ size \in Nat \ {0}
    /\ pc \in {"variables", "ports", "nets", "wire", "flat", "memory", "plain", "select", "stopped"}
    /\ select \in Seq(Bounds)
    /\ next \in Nat \ {0}
    /\ elem \in Nat
    /\ result \in Bounds
    /\ converted \in Seq([ranges : Seq(Bounds), bits : Bounds])
    /\ pc \notin {"flat", "select"} => converted = <<>>

\* Once all its objects are visited the node says what the declaration does,
\* whichever of them Surelog made and whatever each leaves out: it has lost
\* neither ranges nor the direction and number of a port, and no sign but that
\* of an array that is a variable only, whose elements' sign is not looked at
\* (add_or_replace_child, process_module).  One bit is [0:0] or nothing.
WireAsDeclared ==
    pc \notin {"variables", "ports", "nets"} =>
        LET d == declared.source IN
        /\ wire.packed = d.packed \/ (d.packed = <<>> /\ wire.packed = LogicTypespec(d))
        /\ wire.unpacked = d.unpacked
        /\ wire.direction = d.direction
        /\ wire.port_id # 0 <=> d.direction # "none"
        /\ wire.signed <=> d.signed /\ (IsArray(d) => "net" \in d.objects)

\* A legal select never reaches outside the flattened wire, neither when it is
\* converted nor on the way there: a bit of another range, a wrong order of the
\* dimensions or an offset forgotten would (convert_range).
InsideWire ==
    /\ \A c \in Selects : 0 <= c.bits.right /\ c.bits.right <= c.bits.left /\ c.bits.left < size
    /\ pc = "select" => {result.left, result.right} \subseteq 0 .. size - 1

\* Two selects on a wire share a bit exactly if they name a common element,
\* whatever the directions and bounds of the ranges and however many indices
\* each has: writing one element never changes another one, and reading it
\* finds what was written to an array around it (convert_range,
\* set_dimensions).  A slice of an ascending range is the exception: its bounds
\* are scaled without being exchanged, so it becomes too few bits.  It still
\* reaches every element it names, if not the whole of it, and no other one.
SharedBitsAreShared ==
    \A c, d \in Selects :
        /\ ~HasUpwardsSlice(c.ranges)
        /\ HasUpwardsSlice(d.ranges) => Len(c.ranges) <= Len(d.ranges)
        => (BitsOf(c) \cap BitsOf(d) # {} <=> HaveCommonElement(c.ranges, d.ranges))

\* On a wire with descending ranges only the select converted last is the bits
\* SystemVerilog lays its elements out at, so the wire as a whole means the same
\* to both (convert_range's order of evaluation).
BitsAsDeclared ==
    /\ pc = "flat" /\ converted # <<>>
    /\ \A k \in 1 .. NoRanges : ~Upwards(Selected(k))
    => LET c == converted[Len(converted)] IN BitsOf(c) = DeclaredBits(c.ranges)

Nodes == DOMAIN declared.module
Wires == {j \in Nodes : declared.module[j].type = "wire"}

\* Where the wire is declared, and the nodes that name it, to the language, of
\* those that the walk meets after it.
Here == {j \in Wires : declared.module[j].id = This}
Uses == {i \in Nodes \ Wires : /\ Denotes(declared.module[i], This, declared.module)
                               /\ \E j \in Here : j < i}

\* A wire stays a memory only if every access to it is to one element, and is
\* turned into bits only if one is not (check_memories, over generate blocks
\* that share names).  Excepted are accesses from a function the wire is not
\* in, or from a task of the module, which is walked before the wires, a
\* $readmemh at the wire's own scope, which wins over all of them, and
\* names that are declared in a block or task, or twice if one is no memory:
\* the walk takes them for others.  It stops only for two wires of such a name.
MemoriesAreIndexed ==
    LET node(i) == declared.module[i]
        whole == {i \in Uses : WholeUse(node(i)) /\ \A j \in Here : Table(node(i).path) = Table(node(j).path)}
        kept == \E i \in Uses, j \in Here : node(i).type = "$readmemh" /\ Key(node(j)) = Key(node(i))
        clear == \A j \in Wires : ~InBlock(node(j)) /\ node(j).memory
    IN  /\ clear /\ pc = "memory" => whole = {} \/ kept
        /\ clear /\ pc = "flat" /\ NoPacked = 1 /\ NoUnpacked = 1 /\ ~IsPort => whole # {} /\ ~kept
        /\ pc = "stopped" => ~clear
=============================================================================
