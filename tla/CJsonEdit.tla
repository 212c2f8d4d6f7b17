------------------------------ MODULE CJsonEdit ------------------------------
(***************************************************************************)
(* main/cJSON.c: the functions that build and change trees, and those that *)
(* compare and duplicate them.  A call is one action; what happens within  *)
(* it is a function of the heap, and any of its allocations may be         *)
(* refused.                                                                *)
(*                                                                         *)
(* A pointer is a number: 0 is NULL, a positive one a block of the heap, a *)
(* negative one a string constant of the caller's.  True stands for the    *)
(* three types without a value, String for Raw too.                        *)
(***************************************************************************)
EXTENDS Integers, Sequences, FiniteSets, SequencesExt

CONSTANTS
  MAX_NODES,   \* bound on the nodes there are between two calls, where
               \* a reference counts twice
  MAX_STRINGS, \* bound on the strings there are between two calls, with
               \* the constant names
  MAX_HELD,    \* bound on the items the caller has to delete
  MAX_ALLOC,   \* bound on the allocations of a call
  Literals,    \* the caller's string constants, by their pointers
  Keys,        \* those that are keys to copy,
  ConstKeys,   \* keys to take as they are,
  Texts,       \* and texts of string items
  Leaves,      \* the items without children that the caller creates
  LeafArrays   \* the arguments of cJSON_CreateIntArray and the like

ASSUME EditAssumption ==
  /\ {MAX_NODES, MAX_STRINGS, MAX_HELD, MAX_ALLOC} \subseteq Nat
  /\ DOMAIN Literals \subseteq {-i : i \in 1 .. 9}
  /\ Keys \cup ConstKeys \cup Texts \subseteq DOMAIN Literals

VARIABLES
  heap,   \* node and str: the blocks in use.  left: within a call, the
          \* allocations it has left before one is refused
  held,   \* the items the caller has a pointer to and has to delete
  lost,   \* history: what the caller has to delete and has no pointer to
  call    \* history: the last call and what it said it did to the lists

editVars == <<heap, held, lost, call>>

(* In the words of ItemLists: to which list, at which item of it, with     *)
(* which item.                                                             *)
Does(what, list, place, item) ==
  call' = [what |-> what, list |-> list, place |-> place, item |-> item]

DoesNothing == Does("nothing", 0, 0, 0)

(* type, with its two flags cJSON_IsReference and cJSON_StringIsConst as   *)
(* ref and const                                                           *)
NewItem == [type |-> "Invalid", ref |-> FALSE, const |-> FALSE, next |-> 0,
            prev |-> 0, child |-> 0, text |-> 0, name |-> 0, value |-> 0]

EditInit ==
  /\ heap = [node |-> <<>>, str |-> <<>>, left |-> 0]
  /\ held = {}
  /\ lost = {}
  /\ call = [what |-> "nothing", list |-> 0, place |-> 0, item |-> 0]

-----------------------------------------------------------------------------
(* The heap *)

FreeBlock(blocks) ==
  Min((1 .. Cardinality(DOMAIN blocks) + 1) \ DOMAIN blocks)

Content(h, s) == IF s < 0 THEN Literals[s] ELSE h.str[s]

(* cJSON_New_Item and cJSON_strdup: the heap, and where the block is.      *)
cJSON_New_Item(h) ==
  IF h.left = 0
    THEN [heap |-> h, at |-> 0]
    ELSE LET n == FreeBlock(h.node)
         IN [heap |-> [h EXCEPT !.node = n :> NewItem @@ @, !.left = @ - 1],
             at |-> n]

cJSON_strdup(h, s) ==
  IF h.left = 0 THEN [heap |-> h, at |-> 0]
  ELSE LET copy == FreeBlock(h.str)
       IN [heap |-> [h EXCEPT !.str = copy :> Content(h, s) @@ @,
                              !.left = @ - 1],
           at |-> copy]

Free(h, strings) == [h EXCEPT !.str = Restrict(@, DOMAIN @ \ strings)]

(* Slip: a reference is taken for an owner. *)
RECURSIVE DeleteReferenced(_, _)
DeleteReferenced(h, n) ==
  IF n \notin DOMAIN h.node THEN h
  ELSE LET item  == h.node[n]
           below == DeleteReferenced(h, item.child)
           rest  == Free(below, {item.text, item.name})
       IN DeleteReferenced([rest EXCEPT !.node =
                              Restrict(@, DOMAIN @ \ {n})], item.next)

(* The item and those after it; what a reference refers to stays. *)
RECURSIVE cJSON_Delete(_, _)
cJSON_Delete(h, n) ==
  IF n = 0 THEN h
  ELSE LET item  == h.node[n]
           below == IF item.ref THEN h ELSE cJSON_Delete(h, item.child)
           rest  == Free(below, (IF item.ref THEN {} ELSE {item.text})
                                  \cup IF item.const THEN {} ELSE {item.name})
       IN cJSON_Delete([rest EXCEPT !.node = Restrict(@, DOMAIN @ \ {n})],
                       item.next)

(* The list that begins at m, as far as it is one. *)
RECURSIVE ListFrom(_, _, _)
ListFrom(h, m, most) ==
  IF m = 0 \/ most = 0 THEN <<>>
  ELSE <<m>> \o ListFrom(h, h.node[m].next, most - 1)

Children(h, n) == ListFrom(h, h.node[n].child, Cardinality(DOMAIN h.node))

-----------------------------------------------------------------------------
(* Adding *)

suffix_object(h, prev, item) ==
  [h EXCEPT !.node[prev].next = item, !.node[item].prev = prev]

(* Slip: only a list with a pointer to its end is appended to right. *)
add_item_to_array_by_prev(h, array, item) ==
  LET child == h.node[array].child
      last  == IF h.node[child].prev # 0 THEN h.node[child].prev ELSE child
  IN IF child = 0
       THEN [h EXCEPT !.node[array].child = item,
                      !.node[item].prev = item, !.node[item].next = 0]
       ELSE [suffix_object(h, last, item) EXCEPT !.node[child].prev = item]

(* The first item's prev is the last item; where it is NULL, the list is   *)
(* walked.                                                                 *)
add_item_to_array(h, array, item) ==
  LET child == h.node[array].child
      last  == IF h.node[child].prev # 0 THEN h.node[child].prev
               ELSE Last(Children(h, array))
  IN IF child = 0
       THEN [h EXCEPT !.node[array].child = item,
                      !.node[item].prev = item, !.node[item].next = 0]
       ELSE [suffix_object(h, last, item) EXCEPT !.node[child].prev = item]

(* The key is copied or, with constant_key, taken as it is; the old name   *)
(* is freed when the new one is there.                                     *)
add_item_to_object(h, object, key, item, constant_key) ==
  LET new == IF constant_key THEN [heap |-> h, at |-> key]
             ELSE cJSON_strdup(h, key)
      old == h.node[item]
      named == [Free(new.heap, IF old.const THEN {} ELSE {old.name})
                  EXCEPT !.node[item].name = new.at,
                         !.node[item].const = constant_key]
  IN IF item = 0 \/ new.at = 0 THEN [heap |-> h, ok |-> FALSE]
     ELSE [heap |-> add_item_to_array(named, object, item), ok |-> TRUE]

create_reference(h, item) ==
  LET new == cJSON_New_Item(h)
  IN IF new.at = 0 THEN new
     ELSE [new EXCEPT !.heap.node[new.at] =
             [h.node[item] EXCEPT !.ref = TRUE, !.name = 0,
                                  !.next = 0, !.prev = 0]]

-----------------------------------------------------------------------------
(* Detaching, inserting, replacing *)

(* Slip: the list keeps its old end. *)
DetachKeepingEnd(h, parent, item) ==
  LET it   == h.node[item]
      head == h.node[parent].child
      a == IF item = head THEN h ELSE [h EXCEPT !.node[it.prev].next = it.next]
      b == IF it.next = 0 THEN a ELSE [a EXCEPT !.node[it.next].prev = it.prev]
      c == IF item = head THEN [b EXCEPT !.node[parent].child = it.next]
           ELSE b
  IN [c EXCEPT !.node[item].prev = 0, !.node[item].next = 0]

cJSON_DetachItemViaPointer(h, parent, item) ==
  LET it   == h.node[item]
      head == h.node[parent].child
      a == IF item = head THEN h ELSE [h EXCEPT !.node[it.prev].next = it.next]
      b == IF it.next = 0 THEN a ELSE [a EXCEPT !.node[it.next].prev = it.prev]
      c == IF item = head THEN [b EXCEPT !.node[parent].child = it.next]
           ELSE IF it.next = 0 THEN [b EXCEPT !.node[head].prev = it.prev]
           ELSE b
  IN [c EXCEPT !.node[item].prev = 0, !.node[item].next = 0]

(* Slip: the new item goes behind the one that is there. *)
InsertItemBehind(h, array, at, newitem) ==
  LET next == h.node[at].next
      linked == [h EXCEPT !.node[newitem].next = next,
                          !.node[newitem].prev = at,
                          !.node[at].next = newitem]
  IN IF at = 0 \/ next = 0 THEN add_item_to_array(h, array, newitem)
     ELSE [linked EXCEPT !.node[next].prev = newitem]

(* Behind the last item it is added. *)
InsertItemBefore(h, array, after_inserted, newitem) ==
  LET before == h.node[after_inserted].prev
      linked == [h EXCEPT !.node[newitem].next = after_inserted,
                          !.node[newitem].prev = before,
                          !.node[after_inserted].prev = newitem]
  IN IF after_inserted = 0 THEN add_item_to_array(h, array, newitem)
     ELSE IF after_inserted = h.node[array].child
       THEN [linked EXCEPT !.node[array].child = newitem]
       ELSE [linked EXCEPT !.node[before].next = newitem]

cJSON_ReplaceItemViaPointer(h, parent, item, replacement) ==
  LET it   == h.node[item]
      head == h.node[parent].child
      a == [h EXCEPT !.node[replacement].next = it.next,
                     !.node[replacement].prev = it.prev]
      b == IF it.next = 0 THEN a
           ELSE [a EXCEPT !.node[it.next].prev = replacement]
      first == [b EXCEPT !.node[parent].child = replacement,
                         !.node[replacement].prev =
                            IF b.node[head].prev = head THEN replacement
                            ELSE it.prev]
      later == [b EXCEPT !.node[it.prev].next = replacement,
                         !.node[head].prev =
                            IF it.next = 0 THEN replacement ELSE @]
      c == IF item = head THEN first ELSE later
  IN cJSON_Delete([c EXCEPT !.node[item].next = 0, !.node[item].prev = 0],
                  item)

lower(c) == IF c = "A" THEN "a" ELSE c

(* Slip: the case is never minded. *)
SameTextInAnyCase(s, t, case_sensitive) ==
  /\ Len(s) = Len(t)
  /\ \A i \in DOMAIN s : lower(s[i]) = lower(t[i])

(* strcmp and case_insensitive_strcmp *)
SameText(s, t, case_sensitive) ==
  IF case_sensitive THEN s = t
  ELSE /\ Len(s) = Len(t)
       /\ \A i \in DOMAIN s : lower(s[i]) = lower(t[i])

(* The first member with the name.  The search that minds the case stops   *)
(* at a member without a name, the other does not.                         *)
get_object_item(h, object, s, case_sensitive) ==
  LET list == Children(h, object)
      stops(i) ==
        LET t == h.node[list[i]].name
        IN IF t = 0 THEN case_sensitive
           ELSE SameText(Content(h, s), Content(h, t), case_sensitive)
      at == {i \in DOMAIN list : stops(i)}
  IN IF s = 0 \/ at = {} \/ h.node[list[Min(at)]].name = 0 THEN 0
     ELSE list[Min(at)]

(* The old name is freed first, and nobody looks whether the new one is    *)
(* there.                                                                  *)
RenameReplacement(h, s, replacement) ==
  LET old == h.node[replacement]
      new == cJSON_strdup(Free(h, IF old.const THEN {} ELSE {old.name}), s)
  IN [new.heap EXCEPT !.node[replacement].name = new.at,
                      !.node[replacement].const = FALSE]

-----------------------------------------------------------------------------
(* Duplicating and comparing *)

(* A copy of the string s into a field of item n, if there is one. *)
CopyText(h, n, field, s) ==
  LET copy == cJSON_strdup(h, s)
  IN IF s = 0 THEN [heap |-> h, ok |-> TRUE]
     ELSE [heap |-> [copy.heap EXCEPT !.node[n][field] = copy.at],
           ok |-> copy.at # 0]

(* Slip: what was built is forgotten. *)
DuplicateFailsLeaking(built, n) == [heap |-> built, at |-> 0]

(* The fail label *)
DuplicateFails(built, n) == [heap |-> cJSON_Delete(built, n), at |-> 0]

(* The copies are linked one behind the other; nothing points to the last. *)
RECURSIVE cJSON_Duplicate(_, _, _)
cJSON_Duplicate(h, n, recurse) ==
  LET item == h.node[n]
      new  == cJSON_New_Item(h)
      copy == [new.heap EXCEPT !.node[new.at] =
                 [NewItem EXCEPT !.type = item.type, !.const = item.const,
                                 !.value = item.value]]
      text == CopyText(copy, new.at, "text", item.text)
      name == IF item.const
                THEN [text EXCEPT !.heap.node[new.at].name = item.name]
                ELSE CopyText(text.heap, new.at, "name", item.name)
      Link(so_far, child) ==
        LET d == cJSON_Duplicate(so_far.heap, child, TRUE)
        IN IF ~so_far.ok THEN so_far
           ELSE IF d.at = 0 THEN [so_far EXCEPT !.heap = d.heap, !.ok = FALSE]
           ELSE [heap |-> IF so_far.next = 0
                            THEN [d.heap EXCEPT !.node[new.at].child = d.at]
                            ELSE suffix_object(d.heap, so_far.next, d.at),
                 ok |-> TRUE, next |-> d.at]
      below == FoldLeft(Link, [heap |-> name.heap, ok |-> TRUE, next |-> 0],
                        IF recurse THEN Children(h, n) ELSE <<>>)
  IN IF new.at = 0 THEN new
     ELSE IF ~text.ok THEN DuplicateFails(text.heap, new.at)
     ELSE IF ~name.ok THEN DuplicateFails(name.heap, new.at)
     ELSE IF ~below.ok THEN DuplicateFails(below.heap, new.at)
     ELSE [heap |-> below.heap, at |-> new.at]

(* Objects: every member of a is in b, and every member of b in a. *)
RECURSIVE cJSON_Compare(_, _, _, _)
cJSON_Compare(h, a, b, case_sensitive) ==
  LET x == h.node[a]
      y == h.node[b]
      Same(i, j) == cJSON_Compare(h, i, j, case_sensitive)
      AreIn(c, d) ==
        \A i \in ToSet(Children(h, c)) :
          LET other == get_object_item(h, d, h.node[i].name, case_sensitive)
          IN other # 0 /\ Same(i, other)
  IN /\ x.type = y.type
     /\ \/ a = b
        \/ x.type = "True"
        \/ x.type = "Number" /\ x.value = y.value
        \/ x.type = "String" /\ Content(h, x.text) = Content(h, y.text)
        \/ /\ x.type = "Array"
           /\ LET s == Children(h, a) t == Children(h, b)
              IN Len(s) = Len(t) /\ \A i \in DOMAIN s : Same(s[i], t[i])
        \/ x.type = "Object" /\ AreIn(a, b) /\ AreIn(b, a)

-----------------------------------------------------------------------------
(* What a caller may do.  An item is in one list at most, and nothing that *)
(* a reference refers to is changed or deleted while there is the          *)
(* reference.                                                              *)

Kids(n) == ToSet(Children(heap, n))
IsRef(n) == heap.node[n].ref

(* All that is below an item, what references refer to included; and what  *)
(* of it is deleted with the item. *)
RECURSIVE Below(_)
Below(n) == Kids(n) \cup UNION {Below(k) : k \in Kids(n)}

RECURSIVE TreeOf(_)
TreeOf(n) == {n} \cup IF IsRef(n) THEN {} ELSE UNION {TreeOf(k) : k \in Kids(n)}

(* What the caller can reach: all there is, since OwnedOnce, but for lost. *)
Live == DOMAIN heap.node \ lost

Shared ==
  LET refs == {r \in Live : IsRef(r)}
  IN UNION {Below(r) : r \in refs}
       \cup {n \in Live \ refs : heap.node[n].text # 0
               /\ \E r \in refs : heap.node[r].text = heap.node[n].text}

MayDelete(n) == TreeOf(n) \cap Shared = {}
MayChange(n) == ~IsRef(n) /\ ({n} \cup Kids(n)) \cap Shared = {}

Lists(types) ==
  {n \in Live : heap.node[n].type \in types /\ MayChange(n)}

(* In a call "left" allocations work, and the next one does not; a call    *)
(* that makes fewer is the same with fewer left.                           *)
Call(left) == [heap EXCEPT !.left = left]

(* The call leaves the heap h.  (With @@, TLC writes the functions out.)   *)
Returns(h) ==
  /\ h.left = 0
  /\ Cardinality(DOMAIN h.node)
       + Cardinality({n \in DOMAIN h.node : h.node[n].ref}) <= MAX_NODES
  /\ Cardinality(DOMAIN h.str)
       + Cardinality({n \in DOMAIN h.node : h.node[n].const}) <= MAX_STRINGS
  /\ heap' = [h EXCEPT !.node = @ @@ <<>>, !.str = @ @@ <<>>]

-----------------------------------------------------------------------------
(* The calls.  One that returns NULL or false says it did nothing to the   *)
(* lists.                                                                  *)

(* cJSON_CreateTrue, cJSON_CreateNumber, cJSON_CreateString, ...: a string *)
(* that cannot be copied takes its item with it.                           *)
CreateItem(h, leaf) ==
  LET new  == cJSON_New_Item(h)
      item == [new.heap EXCEPT !.node[new.at] =
                 [NewItem EXCEPT !.type = leaf.type, !.value = leaf.value]]
      made == CopyText(item, new.at, "text", leaf.text)
  IN IF new.at = 0 THEN new
     ELSE IF made.ok THEN [heap |-> made.heap, at |-> new.at]
     ELSE [heap |-> cJSON_Delete(made.heap, new.at), at |-> 0]

Hold(result) ==
  /\ Returns(result.heap)
  /\ held' = held \cup ({result.at} \ {0})
  /\ Cardinality(held') <= MAX_HELD
  /\ IF result.at = 0 THEN DoesNothing ELSE Does("make", 0, 0, result.at)
  /\ UNCHANGED lost

cJSON_Create(leaf) == \E left \in 0 .. 2 : Hold(CreateItem(Call(left), leaf))

(* cJSON_CreateStringReference, cJSON_CreateArrayReference: an item that   *)
(* refers to what the caller has.                                          *)
cJSON_CreateReference(item) ==
  LET new == cJSON_New_Item(Call(1))
  IN Hold([new EXCEPT !.heap.node[new.at] = item])

StringReference(s) ==
  [NewItem EXCEPT !.type = "String", !.ref = TRUE, !.text = s]
ArrayReference(child) ==
  [NewItem EXCEPT !.type = "Array", !.ref = TRUE, !.child = child]

(* cJSON_CreateIntArray, ..., cJSON_CreateStringArray *)
CreateArrayOf(h, leaves) ==
  LET a == CreateItem(h, [type |-> "Array", value |-> 0, text |-> 0])
      Add(so_far, leaf) ==
        LET n == CreateItem(so_far.heap, leaf)
        IN IF ~so_far.ok THEN so_far
           ELSE IF n.at = 0 THEN [so_far EXCEPT !.heap = n.heap, !.ok = FALSE]
           ELSE [heap |-> IF so_far.p = 0
                            THEN [n.heap EXCEPT !.node[a.at].child = n.at]
                            ELSE suffix_object(n.heap, so_far.p, n.at),
                 ok |-> TRUE, p |-> n.at]
      all == FoldLeft(Add, [heap |-> a.heap, ok |-> TRUE, p |-> 0], leaves)
  IN IF a.at = 0 THEN a
     ELSE IF all.ok THEN [heap |-> all.heap, at |-> a.at]
     ELSE [heap |-> cJSON_Delete(all.heap, a.at), at |-> 0]

cJSON_CreateArrayOf(leaves) ==
  \E left \in 0 .. MAX_ALLOC : Hold(CreateArrayOf(Call(left), leaves))

cJSON_AddItemToArray(array, item) ==
  /\ array \notin TreeOf(item)
  /\ Returns(add_item_to_array(heap, array, item))
  /\ held' = held \ {item}
  /\ Does("insert", array, 0, item)
  /\ UNCHANGED lost

(* cJSON_AddItemToObject and, with a constant key, cJSON_AddItemToObjectCS *)
cJSON_AddItemToObject(object, key, item, constant_key) ==
  /\ object \notin TreeOf(item)
  /\ \E left \in {0, 1} :
       LET r == add_item_to_object(Call(left), object, key, item, constant_key)
       IN /\ Returns(r.heap)
          /\ held' = IF r.ok THEN held \ {item} ELSE held
          /\ IF r.ok THEN Does("insert", object, 0, item) ELSE DoesNothing
  /\ UNCHANGED lost

cJSON_AddItemReferenceToArray(array, item) ==
  LET ref == create_reference(Call(1), item)
  IN /\ array \notin {item} \cup Below(item)
     /\ Returns(add_item_to_array(ref.heap, array, ref.at))
     /\ Does("make", array, 0, ref.at)
     /\ UNCHANGED <<held, lost>>

(* When the key cannot be copied the reference, which the caller has never *)
(* seen, stays on the heap.                                                *)
cJSON_AddItemReferenceToObject(object, key, item) ==
  /\ object \notin {item} \cup Below(item)
  /\ \E left \in 0 .. 2 :
       LET ref == create_reference(Call(left), item)
           r == add_item_to_object(ref.heap, object, key, ref.at, FALSE)
       IN /\ Returns(r.heap)
          /\ lost' = IF r.ok THEN lost ELSE lost \cup ({ref.at} \ {0})
          /\ IF ref.at = 0 THEN DoesNothing
             ELSE Does("make", IF r.ok THEN object ELSE 0, 0, ref.at)
  /\ UNCHANGED held

(* cJSON_AddTrueToObject and the like: create, add, or delete again. *)
cJSON_AddToObject(object, key, leaf) ==
  /\ \E left \in 0 .. 3 :
       LET new == CreateItem(Call(left), leaf)
           r == add_item_to_object(new.heap, object, key, new.at, FALSE)
       IN /\ Returns(IF r.ok THEN r.heap ELSE cJSON_Delete(r.heap, new.at))
          /\ IF r.ok THEN Does("make", object, 0, new.at) ELSE DoesNothing
  /\ UNCHANGED <<held, lost>>

(* cJSON_DetachItemFromArray, cJSON_DetachItemFromObject *)
cJSON_DetachItem(parent, item) ==
  /\ Returns(cJSON_DetachItemViaPointer(heap, parent, item))
  /\ held' = held \cup {item}
  /\ Cardinality(held') <= MAX_HELD
  /\ Does("take", parent, item, item)
  /\ UNCHANGED lost

cJSON_DeleteItem(parent, item) ==
  /\ MayDelete(item)
  /\ Returns(cJSON_Delete(cJSON_DetachItemViaPointer(heap, parent, item),
                          item))
  /\ Does("delete", parent, item, item)
  /\ UNCHANGED <<held, lost>>

(* The item that is there moves behind the new one. *)
cJSON_InsertItemInArray(array, at, newitem) ==
  /\ array \notin TreeOf(newitem)
  /\ Returns(InsertItemBefore(heap, array, at, newitem))
  /\ held' = held \ {newitem}
  /\ Does("insert", array, at, newitem)
  /\ UNCHANGED lost

cJSON_ReplaceItemInArray(array, item, newitem) ==
  /\ array \notin TreeOf(newitem)
  /\ MayDelete(item)
  /\ Returns(cJSON_ReplaceItemViaPointer(heap, array, item, newitem))
  /\ held' = held \ {newitem}
  /\ Does("replace", array, item, newitem)
  /\ UNCHANGED lost

(* cJSON_ReplaceItemInObject: the replacement has its new name even when   *)
(* there is nothing to replace.                                            *)
cJSON_ReplaceItemInObject(object, s, newitem, case_sensitive) ==
  LET item == get_object_item(heap, object, s, case_sensitive)
  IN /\ object \notin TreeOf(newitem)
     /\ item # 0 => MayDelete(item)
     /\ \E left \in {0, 1} :
          LET h == RenameReplacement(Call(left), s, newitem)
          IN Returns(IF item = 0 THEN h
                     ELSE cJSON_ReplaceItemViaPointer(h, object, item, newitem))
     /\ held' = IF item = 0 THEN held ELSE held \ {newitem}
     /\ IF item = 0 THEN DoesNothing
        ELSE Does("replace", object, item, newitem)
     /\ UNCHANGED lost

(* A text that is not longer is written over the old one; for a longer one *)
(* there is a new block.                                                   *)
cJSON_SetValuestring(n, s) ==
  LET old == heap.node[n].text
      new == cJSON_strdup(Call(1), s)
  IN /\ Returns(IF Len(Literals[s]) <= Len(Content(heap, old))
                  THEN [heap EXCEPT !.str[old] = Literals[s]]
                  ELSE [Free(new.heap, {old}) EXCEPT !.node[n].text = new.at])
     /\ DoesNothing
     /\ UNCHANGED <<held, lost>>

cJSON_DuplicateItem(n, recurse) ==
  \E left \in 0 .. MAX_ALLOC : Hold(cJSON_Duplicate(Call(left), n, recurse))

cJSON_DeleteTree(item) ==
  /\ MayDelete(item)
  /\ Returns(cJSON_Delete(heap, item))
  /\ held' = held \ {item}
  /\ Does("delete", 0, 0, item)
  /\ UNCHANGED lost

EditNext ==
  \/ \E leaf \in Leaves : cJSON_Create(leaf)
  \/ \E s \in Texts : cJSON_CreateReference(StringReference(s))
  \/ \E n \in Live : cJSON_CreateReference(ArrayReference(heap.node[n].child))
  \/ \E leaves \in LeafArrays : cJSON_CreateArrayOf(leaves)
  \/ \E item \in held : cJSON_DeleteTree(item)
  \/ \E n \in Live, recurse \in BOOLEAN : cJSON_DuplicateItem(n, recurse)
  \/ \E n \in Live \ Shared, s \in Texts :
       /\ heap.node[n].type = "String" /\ ~IsRef(n)
       /\ cJSON_SetValuestring(n, s)
  \/ \E list \in Lists({"Array", "Object"}) : \E item \in Kids(list) :
       \/ cJSON_DetachItem(list, item)
       \/ cJSON_DeleteItem(list, item)
  \/ \E array \in Lists({"Array"}) :
       \/ \E item \in held : cJSON_AddItemToArray(array, item)
       \/ \E item \in Live : cJSON_AddItemReferenceToArray(array, item)
       \/ \E newitem \in held, at \in Kids(array) \cup {0} :
            \/ cJSON_InsertItemInArray(array, at, newitem)
            \/ at # 0 /\ cJSON_ReplaceItemInArray(array, at, newitem)
  \/ \E object \in Lists({"Object"}) :
       \/ \E item \in held, s \in ConstKeys :
            cJSON_AddItemToObject(object, s, item, TRUE)
       \/ \E s \in Keys :
            \/ \E item \in held : cJSON_AddItemToObject(object, s, item, FALSE)
            \/ \E item \in Live : cJSON_AddItemReferenceToObject(object, s, item)
            \/ \E leaf \in Leaves : cJSON_AddToObject(object, s, leaf)
            \/ \E newitem \in held, case_sensitive \in BOOLEAN :
                 cJSON_ReplaceItemInObject(object, s, newitem, case_sensitive)

EditSpec == EditInit /\ [][EditNext]_editVars

-----------------------------------------------------------------------------
(* The implementation of ItemLists *)

Held == [n \in DOMAIN heap.node |-> IF IsRef(n) THEN <<>> ELSE Children(heap, n)]

Abstract == INSTANCE ItemLists WITH
  Items <- 1 .. MAX_NODES,
  kids  <- Held,
  call  <- call

(* Every call that succeeds does to the list it was given, at the item it  *)
(* was given or the end, with the item it was given, what its name says,   *)
(* and leaves every other list alone; one that fails leaves them all       *)
(* alone, but for the reference that cJSON_AddItemReferenceToObject loses  *)
(* (2079), which is a new item in no list.  What a call deletes is a whole *)
(* tree, and nothing that is in another list.                              *)
ImplementsLists == Abstract!Spec

-----------------------------------------------------------------------------
(* Properties *)

(* Every node has one owner that will delete it: the caller, who holds it  *)
(* or has been left without a pointer to it, or one list; every string one *)
(* item.  No pointer goes to a block that is free again.  So nothing is    *)
(* leaked (but for "lost") and nothing deleted twice, whatever allocation  *)
(* was refused.                                                            *)
OwnedOnce ==
  LET node == heap.node
      nodes == DOMAIN node
      Owners(n) ==
        Cardinality({S \in {held, lost} : n \in S})
          + Cardinality({m \in nodes : node[m].next = n})
          + Cardinality({m \in nodes : ~node[m].ref /\ node[m].child = n})
      StringOwners(s) ==
        Cardinality({m \in nodes : ~node[m].ref /\ node[m].text = s})
          + Cardinality({m \in nodes : ~node[m].const /\ node[m].name = s})
      pointers == UNION {{node[m].next, node[m].prev} : m \in nodes}
                    \cup {node[m].child : m \in nodes \ lost}
      strings == {node[m].text : m \in nodes \ lost}
                   \cup {node[m].name : m \in nodes}
  IN /\ \A n \in nodes : Owners(n) = 1
     /\ \A s \in DOMAIN heap.str : StringOwners(s) = 1
     /\ pointers \subseteq {0} \cup nodes
     /\ strings \subseteq {0} \cup DOMAIN Literals \cup DOMAIN heap.str

(* Each list is linked the same way in both directions, and the pointer    *)
(* that stands for its end is to its last item, or is NULL in lists that   *)
(* were made by cJSON_CreateIntArray and the like or by cJSON_Duplicate    *)
(* and not appended to since.                                              *)
Linked ==
  \A n \in DOMAIN heap.node \ lost :
    LET list == Children(heap, n)
        At(i) == heap.node[list[i]]
    IN list # <<>> =>
         /\ At(Len(list)).next = 0
         /\ At(1).prev \in {0, Last(list)}
         /\ \A i \in 2 .. Len(list) : At(i).prev = list[i - 1]

(* What an item says, by the reading of cJSON_Compare: the members of an   *)
(* object have no order. *)
RECURSIVE Value(_, _, _)
Value(h, n, case_sensitive) ==
  LET item == h.node[n]
      Of(k) == Value(h, k, case_sensitive)
      Name(k) == LET t == Content(h, h.node[k].name)
                 IN IF case_sensitive THEN t
                    ELSE [i \in DOMAIN t |-> lower(t[i])]
      list == Children(h, n)
  IN CASE item.type = "Number" -> <<item.type, item.value>>
       [] item.type = "String" -> <<item.type, Content(h, item.text)>>
       [] item.type = "Array" ->
            <<item.type, [i \in DOMAIN list |-> Of(list[i])]>>
       [] item.type = "Object" ->
            <<item.type, {<<Name(k), Of(k)>> : k \in ToSet(list)}>>
       [] OTHER -> <<item.type, 0>>

(* In and below n every member of an object has a name of its own. *)
NamesDiffer(n, case_sensitive) ==
  \A o \in {m \in {n} \cup Below(n) : heap.node[m].type = "Object"} :
    /\ \A k \in Kids(o) : heap.node[k].name # 0
    /\ \A k, m \in Kids(o) :
         k # m => ~SameText(Content(heap, heap.node[k].name),
                            Content(heap, heap.node[m].name), case_sensitive)

(* cJSON_Compare is equality of what the items say, as long as no object   *)
(* in them has two members of one name.                                    *)
CompareIsEquality ==
  \A a, b \in Live : \A case_sensitive \in BOOLEAN :
    NamesDiffer(a, case_sensitive) /\ NamesDiffer(b, case_sensitive) =>
      (cJSON_Compare(heap, a, b, case_sensitive)
         <=> Value(heap, a, case_sensitive) = Value(heap, b, case_sensitive))

(* A duplicate says what its original says, and is made of new blocks only *)
(* (a constant name apart); one that cannot be completed leaves the heap   *)
(* as it was.                                                              *)
DuplicateIsACopy ==
  \A n \in Live : \A left \in 0 .. MAX_ALLOC :
    LET h == Call(left)
        d == cJSON_Duplicate(h, n, TRUE)
        NamesOf(m) == [i \in DOMAIN Children(d.heap, m) |->
                         d.heap.node[Children(d.heap, m)[i]].name # 0]
    IN IF d.at = 0
         THEN d.heap.node = heap.node /\ d.heap.str = heap.str
         ELSE /\ NamesDiffer(n, TRUE) =>
                   Value(d.heap, d.at, TRUE) = Value(heap, n, TRUE)
              /\ NamesOf(d.at) = NamesOf(n)
=============================================================================
