----------------------------- MODULE WireObjects -----------------------------
(***************************************************************************)
(* The AST node of a wire.  Surelog describes one wire by up to three      *)
(* objects of its name: a variable, a port and a net.  Every one of them   *)
(* is translated to an AST_WIRE (process_logic_var, process_array_var,     *)
(* process_port, process_net, process_array_net), and each node replaces   *)
(* the one before it, from which it takes over what it does not say itself *)
(* (add_or_replace_child).                                                 *)
(*                                                                         *)
(* A node keeps its ranges in two attributes, which it has both or not at  *)
(* all.  The wire has no named type.                                       *)
(***************************************************************************)
EXTENDS Integers, Sequences

Bounds == [left : Int, right : Int]

Node == [packed : Seq(Bounds), unpacked : Seq(Bounds),
         attributes : BOOLEAN,    \* the node has attributes for its ranges
         direction : {"none", "input", "output", "inout"},
         port_id : Nat,           \* 0: none
         signed : BOOLEAN]

\* A wire of which nothing has been visited; it has nothing to hand on.
NoNode == [packed |-> <<>>, unpacked |-> <<>>, attributes |-> FALSE,
           direction |-> "none", port_id |-> 0, signed |-> FALSE]

\* What the source says of a wire, and how Surelog describes it: the objects
\* besides the port, and whether those have a typespec.
Source == [packed : Seq(Bounds), unpacked : Seq(Bounds), signed : BOOLEAN,
           direction : {"none", "input", "output", "inout"},
           objects : (SUBSET {"variable", "net"}) \ {{}}, typespec : BOOLEAN]

IsArray(d) == d.unpacked # <<>>

\* Only two objects say all they have to without a typespec: a wire of one bit,
\* and an array of variables whose elements have their ranges themselves.
Described(d) ==
    \/ d.typespec
    \/ ~IsArray(d) /\ d.packed = <<>> /\ ~d.signed
    \/ IsArray(d) /\ d.objects = {"variable"}

------------------------------------------------------------------------------
(* The objects *)

NodeOf(packed, unpacked, attributes, signed) ==
    [packed |-> packed, unpacked |-> unpacked, attributes |-> attributes,
     direction |-> "none", port_id |-> 0, signed |-> signed]

\* One bit is the range [0:0].
LogicTypespec(d) == IF d.packed = <<>> THEN <<[left |-> 0, right |-> 0]>> ELSE d.packed

\* The ranges are copied from the typespec.
Copied(d) == IF d.typespec THEN LogicTypespec(d) ELSE <<>>

LogicVar(d) == NodeOf(Copied(d), <<>>, d.typespec, d.typespec /\ d.signed)
LogicNet(d) == NodeOf(Copied(d), <<>>, d.typespec, d.signed)

\* The sign of the elements is not looked at.
ArrayVar(d) == NodeOf(IF d.typespec THEN LogicTypespec(d) ELSE d.packed, d.unpacked, TRUE, FALSE)

\* The ranges of the typespec itself, not of a node made of it.
ArrayNet(d) == NodeOf(d.packed, d.unpacked, TRUE, d.signed)

\* What the port says of the variable or net it stands for: nothing of an array
\* of nets, of an array of variables what it is an array of.
Port(d) ==
    [packed |-> IF IsArray(d) THEN <<>> ELSE d.packed,
     unpacked |-> IF "variable" \in d.objects THEN d.unpacked ELSE <<>>,
     attributes |-> TRUE, direction |-> d.direction, port_id |-> 1,
     signed |-> d.signed /\ ~IsArray(d)]

Variable(d) == IF IsArray(d) THEN ArrayVar(d) ELSE LogicVar(d)
Net(d) == IF IsArray(d) THEN ArrayNet(d) ELSE LogicNet(d)

------------------------------------------------------------------------------
(* Nodes of one name *)

\* Mutant: ranges are taken over without looking whether the node has its own.
TakenOver_Always(old, child, ranges) == old

\* The ranges of the node replaced, if the new one has none.
TakenOver(old, child, ranges) == IF ranges /\ child = <<>> THEN old ELSE child

AddOrReplace(old, child) ==
    LET ranges == old.attributes /\ child.attributes
        kept == IF old.direction # "none" THEN old ELSE child
    IN  [packed |-> TakenOver(old.packed, child.packed, ranges),
         unpacked |-> TakenOver(old.unpacked, child.unpacked, ranges),
         attributes |-> child.attributes,
         direction |-> kept.direction, port_id |-> kept.port_id,
         signed |-> child.signed \/ old.signed]
==============================================================================
