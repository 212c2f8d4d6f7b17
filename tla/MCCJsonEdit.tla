----------------------------- MODULE MCCJsonEdit -----------------------------
(***************************************************************************)
(* An instance of CJsonEdit for TLC.                                       *)
(***************************************************************************)
EXTENDS CJsonEdit

Leaf(type, value, text) == [type |-> type, value |-> value, text |-> text]

Strings == -1 :> <<"a">> @@ -2 :> <<"A">> @@ -3 :> <<"a", "a">>

Key      == {-1}
ConstKey == {-2}
TwoTexts == {-1, -3}

Objects == {Leaf("Object", 0, 0)}

Arrays == {<<Leaf("String", 0, -1), Leaf("String", 0, -1)>>}

-----------------------------------------------------------------------------
(* Which blocks malloc hands out makes no difference to any property, so   *)
(* TLC need not tell two heaps apart that differ in the addresses only;    *)
(* nor by what call they came about, which only the step itself shows.     *)
(* That is decided from the outside: what the caller's trees look like,    *)
(* with a mark on what the one reference refers to.  A heap that is out of *)
(* order, or has more references, is told apart from every other.          *)

Read(s) == IF s = 0 THEN <<>> ELSE <<s > 0, Content(heap, s)>>

RECURSIVE Shape(_, _)
Shape(n, targets) ==
  LET item == heap.node[n]
      list == Children(heap, n)
  IN <<item.type, item.ref, <<item.child, item.text>> \in targets, item.value,
       Read(item.text), Read(item.name), item.const, item.prev = 0,
       IF item.ref THEN item.child = 0
       ELSE [i \in DOMAIN list |-> Shape(list[i], targets)]>>

UpToAddresses ==
  LET refs    == {n \in DOMAIN heap.node \ lost : IsRef(n)}
      targets == {<<heap.node[r].child, heap.node[r].text>> : r \in refs}
      shape   == [n \in held |-> Shape(n, targets)]
  IN IF Cardinality(refs) <= 1 /\ OwnedOnce /\ Linked
       THEN <<Cardinality(lost),
              [s \in Range(shape) |-> Cardinality({n \in held : shape[n] = s})]>>
       ELSE <<heap, held, lost>>
=============================================================================
