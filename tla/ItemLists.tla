------------------------------ MODULE ItemLists ------------------------------
(***************************************************************************)
(* What the editing functions of cJSON promise, with no mention of nodes   *)
(* and pointers.  Items hold sequences of items, an item is in at most one *)
(* place, and what is deleted is a whole tree.  "call" is what was asked   *)
(* for last and done; it determines what becomes of the sequences, but for *)
(* what a new tree looks like.                                             *)
(***************************************************************************)
EXTENDS Integers, SequencesExt

CONSTANT Items   \* the numbers of the items

VARIABLES
  kids,   \* a function from the items there are to what they hold
  call    \* the call: what it did, to which list, at which item of it (0:
          \* at the end), and with which item

Called(what, list, place, item) ==
  [what |-> what, list |-> list, place |-> place, item |-> item]

Nothing == Called("nothing", 0, 0, 0)

Here == DOMAIN kids

RECURSIVE TreeOf(_, _)
TreeOf(k, i) == {i} \cup UNION {TreeOf(k, j) : j \in ToSet(k[i])}

IsFree(i) == \A c \in Here : i \notin ToSet(kids[c])

Without(k, gone) == [i \in DOMAIN k \ gone |-> k[i]]

Place(c, i) == CHOOSE at \in DOMAIN kids[c] : kids[c][at] = i

Init == kids = <<>> /\ call = Nothing

(* Nothing was asked for that concerns the lists; or it was, the call has  *)
(* said it failed, and nothing has changed.                                *)
Leave ==
  /\ call' = Nothing
  /\ kids' = kids

(* A new tree, which holds none of the items there were. *)
Make(i) ==
  /\ call' = Called("make", 0, 0, i)
  /\ i \in DOMAIN kids' \ Here
  /\ DOMAIN kids' = Here \cup TreeOf(kids', i)
  /\ Here \cap TreeOf(kids', i) = {}
  /\ \A j \in Here : kids'[j] = kids[j]

(* A new item at the end of a list. *)
MakeLast(c, i) ==
  /\ call' = Called("make", c, 0, i)
  /\ i \notin Here
  /\ kids' = [j \in Here \cup {i} |->
                CASE j = i -> <<>> [] j = c -> Append(kids[c], i)
                  [] OTHER -> kids[j]]

(* In front of another item, or at the end. *)
Insert(c, before, i) ==
  /\ call' = Called("insert", c, before, i)
  /\ IsFree(i) /\ c \notin TreeOf(kids, i)
  /\ kids' = [kids EXCEPT ![c] =
                IF before = 0 THEN Append(@, i)
                ELSE InsertAt(@, Place(c, before), i)]

Take(c, i) ==
  /\ call' = Called("take", c, i, i)
  /\ kids' = [kids EXCEPT ![c] = RemoveAt(@, Place(c, i))]

TakeAndDrop(c, i) ==
  /\ call' = Called("delete", c, i, i)
  /\ kids' = Without([kids EXCEPT ![c] = RemoveAt(@, Place(c, i))],
                     TreeOf(kids, i))

Replace(c, old, i) ==
  /\ call' = Called("replace", c, old, i)
  /\ IsFree(i) /\ c \notin TreeOf(kids, i)
  /\ kids' = Without([kids EXCEPT ![c] = ReplaceAt(@, Place(c, old), i)],
                     TreeOf(kids, old))

Drop(i) ==
  /\ call' = Called("delete", 0, 0, i)
  /\ IsFree(i)
  /\ kids' = Without(kids, TreeOf(kids, i))

Next ==
  \/ Leave
  \/ \E i \in Items : Make(i)
  \/ \E i \in Here : Drop(i)
  \/ \E c \in Here :
       \/ \E i \in Items : MakeLast(c, i)
       \/ \E i \in Here : Insert(c, 0, i)
       \/ \E old \in ToSet(kids[c]) :
            \/ Take(c, old)
            \/ TakeAndDrop(c, old)
            \/ \E i \in Here : Insert(c, old, i) \/ Replace(c, old, i)

Spec == Init /\ [][Next]_<<kids, call>>
=============================================================================
