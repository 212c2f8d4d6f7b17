------------------------- MODULE CJsonTreeProofs ----------------------------
(***************************************************************************)
(* The tree that the parser returns says what the text says: written out,  *)
(* it is the text without its blanks, for every text.                      *)
(*                                                                         *)
(* While the parser is at work every node has a place in the text that was *)
(* read, less its blanks: a label that says where its name and its value   *)
(* begin, where its value ends, and in which list it is.  That there are   *)
(* such labels (Told) is inductive: each step that reads something keeps   *)
(* the labels there are and puts the item behind them.  When the parser    *)
(* has returned, every node is complete, and what Written makes of a node  *)
(* and those after it is what is at its place, by induction from the end   *)
(* of the text to its beginning.                                           *)
(*                                                                         *)
(* At the end: cJSON_Minify takes the blanks and comments out of any text  *)
(* that was parsed, and nothing else.                                      *)
(***************************************************************************)
EXTENDS CJsonTextProofs, CJsonPrint

-----------------------------------------------------------------------------
(* Where in the text the nodes are *)

(* Where an item is in the text without its blanks: behind how many units  *)
(* its name begins, its value begins and its value ends; and the item      *)
(* whose list it is in.                                                    *)
Label == [name : Nat, value : Nat, end : Nat, up : Nat]

(* The punctuation, by name: a leaf that cites the names leaves it to      *)
(* Zenon.                                                                  *)
Comma == ","
Colon == ":"

(* The items whose lists are being parsed, and all that are not complete.  *)
ListItems == {stack[i].item : i \in 1 .. Len(stack)}

InProgress ==
  ListItems \cup IF pc \in {"parse_value", "parse_name"} THEN {item} ELSE {}

(* The part of the text p behind a units, up to the place b.               *)
Between(p, a, b) == SubSeq(p, a + 1, b)

(* Every closed set with a in it has b in it.                              *)
Reaches(a, b) ==
  \A S \in SUBSET DOMAIN node : a \in S /\ Closed(S) => b \in S

(* A name is before its value, and both are in the text.                   *)
Ordered(p, at, m) ==
  /\ at[m].name <= at[m].value
  /\ at[m].value <= at[m].end
  /\ at[m].end <= Len(p)
  /\ at[m].up \in {0} \cup DOMAIN node

(* The name and its colon are in the text before the value.                *)
Named(p, at, m) ==
  /\ node[m].string = 0 => at[m].value = at[m].name
  /\ node[m].string # 0 =>
       /\ at[m].name < at[m].value
       /\ Between(p, at[m].name, at[m].value - 1) =
            Quoted(str[node[m].string].content)
       /\ p[at[m].value] = Colon

(* A list that is complete.                                                *)
Listed(p, at, m, open) ==
  /\ at[m].value + 1 < at[m].end
  /\ p[at[m].value + 1] = open
  /\ p[at[m].end] = Closing[open]
  /\ node[m].child = 0 => at[m].end = at[m].value + 2
  /\ node[m].child # 0 =>
       LET first == node[m].child
           last  == node[first].prev
       IN /\ at[first].name = at[m].value + 1
          /\ at[first].up = m
          /\ last \in DOMAIN node
          /\ at[last].up = m
          /\ node[last].next = 0
          /\ Reaches(first, last)

(* What is not a list says q.                                              *)
Plain(m, q) ==
  /\ node[m].child = 0
  /\ \/ node[m].type = "True" /\ q = <<Literal>>
     \/ node[m].type = "Number" /\ q = node[m].value
     \/ /\ node[m].type = "String" /\ node[m].valuestring # 0
        /\ q = Quoted(str[node[m].valuestring].content)

(* The value is in the text: what is not a list as it is, a list between   *)
(* its brackets.                                                           *)
Valued(p, at, m) ==
  \/ Plain(m, Between(p, at[m].value, at[m].end))
  \/ \E open \in Opening :
       node[m].type = ListType[open] /\ Listed(p, at, m, open)

(* What comes behind an item: a comma and the next item, or the end of the *)
(* list if that is complete.                                               *)
Followed(p, at, m) ==
  /\ node[m].next # 0 =>
       /\ m \notin InProgress
       /\ at[m].end < Len(p)
       /\ p[at[m].end + 1] = Comma
       /\ at[node[m].next].name = at[m].end + 1
       /\ at[node[m].next].up = at[m].up
       /\ node[node[m].next].prev = m
  /\ node[m].next = 0 /\ at[m].up # 0 =>
       /\ \A i \in 1 .. Len(stack) :
            at[m].up = stack[i].item => m = stack[i].current_item
       /\ at[m].up \notin ListItems =>
            m \notin InProgress /\ at[at[m].up].end = at[m].end + 1

(* A list that is being parsed.                                            *)
Begun(p, at, f) ==
  /\ at[f.item].value < Len(p)
  /\ p[at[f.item].value + 1] = f.open
  /\ f.head # 0 =>
       /\ at[f.head].name = at[f.item].value + 1
       /\ at[f.head].up = f.item
       /\ at[f.current_item].up = f.item

(* How far the parser is.                                                  *)
Arrived(p, at) ==
  /\ at[root].up = 0 /\ at[root].value = 0
  /\ pc \in {"parse_value", "parse_name"} =>
       /\ at[item].value = Len(p)
       /\ \A m \in DOMAIN node : at[m].up # item
  /\ pc = "value" =>
       item = LastItem(Len(stack)) /\ at[item].end = Len(p)
  /\ pc = "parsed" => at[root].end = Len(p)
  /\ pc = "next_item" =>
       IF Top.current_item = 0 THEN Len(p) = at[Top.item].value + 1
       ELSE Len(p) = at[Top.current_item].end + 1 /\ p[Len(p)] = Comma

(* Every node has its place in the text p.                                 *)
Labelled(p, at) ==
  /\ at \in [DOMAIN node -> Label]
  /\ \A m \in DOMAIN node :
       Ordered(p, at, m) /\ Named(p, at, m) /\ Followed(p, at, m)
  /\ \A m \in DOMAIN node : m \notin InProgress => Valued(p, at, m)
  /\ \A i \in 1 .. Len(stack) : Begun(p, at, stack[i])
  /\ Arrived(p, at)

(* How much of the text the parser has dealt with: at a list that goes on, *)
(* offset is at the comma or the bracket.                                  *)
Consumed == IF pc = "next_item" THEN offset ELSE offset - 1

(* The tree says what was read: each item has its place in the text, and   *)
(* says what is there.                                                     *)
Told == \E p, at : Says(Read(Consumed), p) /\ Labelled(p, at)

TreeSays ==
  /\ OneTerminator
  /\ Parsing \/ pc = "parsed" => Told
  /\ pc = "parsed" => root # 0

-----------------------------------------------------------------------------
(* A text that grows *)

(* A text with another behind it: how long it is, what its units are, and  *)
(* that what was in the first is there still.                              *)
LEMMA TextGrows ==
  ASSUME NEW p \in Texts, NEW q \in Texts
  PROVE  /\ Len(p) \in Nat /\ Len(q) \in Nat
         /\ p \o q \in Texts /\ Len(p \o q) = Len(p) + Len(q)
         /\ \A i \in 1 .. Len(p) : (p \o q)[i] = p[i]
         /\ \A i \in 1 .. Len(q) : (p \o q)[Len(p) + i] = q[i]
         /\ \A a, b \in Nat : b <= Len(p)
              => Between(p \o q, a, b) = Between(p, a, b)
         /\ Between(p \o q, Len(p), Len(p) + Len(q)) = q
<1>1. Len(p) \in Nat /\ Len(q) \in Nat
  BY LenProperties DEF Texts
<1>2. /\ p \o q \in Texts /\ Len(p \o q) = Len(p) + Len(q)
      /\ \A i \in 1 .. Len(p) + Len(q) :
           (p \o q)[i] = IF i <= Len(p) THEN p[i] ELSE q[i - Len(p)]
  BY ConcatProperties DEF Texts
<1> DEFINE t == p \o q  k == Len(p)  l == Len(q)
<1> HIDE DEF t, k, l
<1>3. /\ \A i \in 1 .. k : t[i] = p[i]
      /\ \A i \in 1 .. l : t[k + i] = q[i]
  <2>1. /\ k \in Nat /\ l \in Nat
        /\ \A i \in 1 .. k + l : t[i] = IF i <= k THEN p[i] ELSE q[i - k]
    BY <1>1, <1>2 DEF t, k, l
  <2>2. \A i \in 1 .. k : i \in 1 .. k + l /\ i <= k
    BY <2>1
  <2>3. \A i \in 1 .. l : k + i \in 1 .. k + l /\ ~(k + i <= k)
          /\ k + i - k = i
    BY <2>1
  <2>4. QED
    BY <2>1, <2>2, <2>3
<1>4. ASSUME NEW a \in Nat, NEW b \in Nat, b <= k
      PROVE  Between(t, a, b) = Between(p, a, b)
  <2>0. k \in Nat /\ \A i \in 1 .. k : p[i] \in Units \cup {NUL}
    BY <1>1, ElementOfSeq DEF k, Texts
  <2>1. \A i \in a + 1 .. b : t[i] = p[i] /\ p[i] \in Units \cup {NUL}
    BY <1>3, <1>4, <2>0
  <2>2. a + 1 \in Int /\ b \in Int
    OBVIOUS
  <2>3. /\ SubSeq(p, a + 1, b) \in Texts
        /\ Len(SubSeq(p, a + 1, b)) = IF a + 1 <= b THEN b - (a + 1) + 1 ELSE 0
        /\ \A i \in 1 .. b - (a + 1) + 1 :
             SubSeq(p, a + 1, b)[i] = p[a + 1 + i - 1]
    BY <2>1, <2>2, SubSeqProperties DEF Texts
  <2>4. /\ SubSeq(t, a + 1, b) \in Texts
        /\ Len(SubSeq(t, a + 1, b)) = IF a + 1 <= b THEN b - (a + 1) + 1 ELSE 0
        /\ \A i \in 1 .. b - (a + 1) + 1 :
             SubSeq(t, a + 1, b)[i] = t[a + 1 + i - 1]
    BY <2>1, <2>2, SubSeqProperties DEF Texts
  <2> DEFINE r == SubSeq(p, a + 1, b)
             s == SubSeq(t, a + 1, b)
  <2>5. Len(s) = Len(r) /\ \A i \in 1 .. Len(s) : s[i] = r[i]
    <3>1. \A i \in 1 .. Len(s) : i \in 1 .. b - (a + 1) + 1
            /\ a + 1 + i - 1 \in a + 1 .. b
      BY <2>4
    <3>2. QED
      BY <2>1, <2>3, <2>4, <3>1
  <2> HIDE DEF r, s
  <2>6. s = r
    BY <2>3, <2>4, <2>5, SeqEqual DEF Texts, r, s
  <2>7. QED
    BY <2>6 DEF r, s, Between
<1>5. Between(t, k, k + l) = q
  <2>1. CASE l = 0
    <3>1. q = <<>>
      BY <2>1, EmptySeq DEF l, Texts
    <3>2. QED
      BY <1>1, <2>1, <3>1, SubSeqEmpty DEF Between, k
  <2>2. CASE l # 0
    <3>1. k \in Nat /\ l \in Nat /\ l > 0 /\ k + 1 \in Int /\ k + l \in Int
            /\ k + 1 <= k + l /\ k + l - (k + 1) + 1 = l
      BY <1>1, <2>2 DEF k, l
    <3>2. \A i \in k + 1 .. k + l : i - k \in 1 .. l /\ k + (i - k) = i
      BY <3>1
    <3>3. \A i \in 1 .. l : q[i] \in Units \cup {NUL}
      BY ElementOfSeq DEF Texts, l
    <3>4. \A i \in k + 1 .. k + l : t[i] \in Units \cup {NUL}
      BY <1>3, <3>2, <3>3
    <3>5. /\ SubSeq(t, k + 1, k + l) \in Seq(Units \cup {NUL})
          /\ Len(SubSeq(t, k + 1, k + l)) = l
          /\ \A i \in 1 .. l : SubSeq(t, k + 1, k + l)[i] = t[k + 1 + i - 1]
      BY <3>1, <3>4, SubSeqProperties
    <3>6. \A i \in 1 .. l : k + 1 + i - 1 = k + i
      BY <3>1
    <3>7. \A i \in 1 .. l : SubSeq(t, k + 1, k + l)[i] = q[i]
      BY <1>3, <3>5, <3>6
    <3>8. SubSeq(t, k + 1, k + l) = q
      BY <3>5, <3>7, SeqEqual DEF Texts, l
    <3>9. QED
      BY <3>8 DEF Between
  <2>3. QED
    BY <2>1, <2>2
<1>6. QED
  BY <1>1, <1>2, <1>3, <1>4, <1>5 DEF t, k, l

(* A step that only adds to what is complete.                              *)
Keeps(at, b) ==
  /\ DOMAIN node \subseteq DOMAIN node'
  /\ \A s \in DOMAIN str : s \in DOMAIN str' /\ str'[s] = str[s]
  /\ b \in [DOMAIN node' -> Label]
  /\ \A m \in DOMAIN node :
       /\ m \in InProgress' => m \in InProgress
       /\ b[m].name = at[m].name /\ b[m].up = at[m].up
       /\ node[m].child # 0 => node'[m].child = node[m].child
       /\ node[m].next # 0 =>
            /\ node'[m].next = node[m].next
            /\ node'[node[m].next].prev = node[node[m].next].prev
       /\ at[m].up \notin InProgress =>
            node'[m].next = node[m].next /\ node'[m].prev = node[m].prev
       /\ m \notin InProgress =>
            /\ b[m] = at[m]
            /\ node'[m].type = node[m].type
            /\ node'[m].value = node[m].value
            /\ node'[m].valuestring = node[m].valuestring
            /\ node'[m].string = node[m].string
            /\ node'[m].child = node[m].child

-----------------------------------------------------------------------------
(* The labels after a step *)

(* What the heap invariant says of one node.                               *)
LEMMA NodeFacts ==
  ASSUME Blocks, Links, Strings, NEW m \in DOMAIN node
  PROVE  /\ node[m] \in Node /\ m \in Nat \ {0}
         /\ node[m].next \in {0} \cup DOMAIN node
         /\ node[m].child \in {0} \cup DOMAIN node
         /\ node[m].string \in {0} \cup DOMAIN str
         /\ node[m].valuestring \in {0} \cup DOMAIN str
<1>1. node[m] \in Node /\ m \in Nat \ {0}
  BY DEF Blocks, BlockIds
<1>2. node[m].next \in {0} \cup DOMAIN node
        /\ node[m].child \in {0} \cup DOMAIN node
  BY DEF Links
<1>3. /\ node[m].string \in {0} \cup DOMAIN str
      /\ node[m].valuestring \in {0} \cup DOMAIN str
  <2>1. node[m].string \in StringsOf(DOMAIN node)
          /\ node[m].valuestring \in StringsOf(DOMAIN node)
    BY DEF StringsOf
  <2>2. QED
    BY <2>1 DEF Strings
<1>4. QED
  BY <1>1, <1>2, <1>3

(* The parts of a label are numbers.                                       *)
LEMMA LabelFacts ==
  ASSUME NEW at, NEW m, NEW D, at \in [D -> Label], m \in D
  PROVE  /\ at[m].name \in Nat /\ at[m].value \in Nat
         /\ at[m].end \in Nat /\ at[m].up \in Nat
BY DEF Label

(* A set of nodes is closed if it is after the step.                       *)
LEMMA KeptClosed ==
  ASSUME NEW at, NEW b, Keeps(at, b), NEW S \in SUBSET DOMAIN node',
         Closed(S)',
         0 \notin DOMAIN node
  PROVE  Closed(S \cap DOMAIN node)
<1>1. ASSUME NEW m \in S \cap DOMAIN node
      PROVE  {node[m].next, node[m].child} \cap DOMAIN node \subseteq S
        \cap DOMAIN node
  <2>1. {node'[m].next, node'[m].child} \cap DOMAIN node' \subseteq S
    BY DEF Closed
  <2>2. /\ node[m].child # 0 => node'[m].child = node[m].child
        /\ node[m].next # 0 => node'[m].next = node[m].next
        /\ DOMAIN node \subseteq DOMAIN node'
    BY DEF Keeps
  <2>3. QED
    BY <2>1, <2>2
<1>2. QED
  BY <1>1 DEF Closed

(* What could be reached along the lists can be reached after a step that  *)
(* keeps them.                                                             *)
LEMMA KeptReach ==
  ASSUME NEW at, NEW b, Keeps(at, b), 0 \notin DOMAIN node,
         NEW x \in DOMAIN node, NEW y, Reaches(x, y)
  PROVE  \A S \in SUBSET DOMAIN node' : x \in S /\ Closed(S)' => y \in S
<1>1. ASSUME NEW S \in SUBSET DOMAIN node', x \in S, Closed(S)'
      PROVE  y \in S
  <2>1. Closed(S \cap DOMAIN node)
    BY <1>1, KeptClosed
  <2>2. S \cap DOMAIN node \in SUBSET DOMAIN node /\ x \in S \cap DOMAIN node
    BY <1>1
  <2>3. y \in S \cap DOMAIN node
    BY <2>1, <2>2 DEF Reaches
  <2>4. QED
    BY <2>3
<1>2. QED
  BY <1>1

(* What is complete stays where it is and says the same.                   *)
LEMMA KeptValue ==
  ASSUME Blocks, Links, Strings, NEW p \in Texts, NEW q \in Texts, NEW at,
         at \in [DOMAIN node -> Label], NEW b, Keeps(at, b),
         NEW m \in DOMAIN node, m \notin InProgress,
         Ordered(p, at, m), Valued(p, at, m)
  PROVE  Valued(p \o q, b, m)'
<1> DEFINE t == p \o q
           value == Between(p, at[m].value, at[m].end)
<1>1. /\ b[m] = at[m]
      /\ node'[m].type = node[m].type
      /\ node'[m].value = node[m].value
      /\ node'[m].valuestring = node[m].valuestring
      /\ node'[m].child = node[m].child
  BY DEF Keeps
<1>2. /\ at[m].value \in Nat /\ at[m].end \in Nat /\ Len(p) \in Nat
      /\ at[m].value <= at[m].end /\ at[m].end <= Len(p)
  BY LabelFacts, LenProperties DEF Ordered, Texts
<1>3. /\ \A i \in 1 .. Len(p) : t[i] = p[i]
      /\ Between(t, at[m].value, at[m].end) = value
  <2>1. /\ \A i \in 1 .. Len(p) : t[i] = p[i]
        /\ \A x, y \in Nat : y <= Len(p) => Between(t, x, y) = Between(p, x, y)
    BY TextGrows
  <2>2. QED
    BY <1>2, <2>1
<1>4. /\ 0 \notin DOMAIN node
      /\ node[m].child \in {0} \cup DOMAIN node
      /\ node[m].valuestring \in {0} \cup DOMAIN str
  BY NodeFacts
<1>5. node[m].valuestring # 0 => str'[node[m].valuestring] =
        str[node[m].valuestring]
  BY <1>4 DEF Keeps
<1> HIDE DEF t, value
<1>6. ASSUME NEW open \in Opening, node[m].type = ListType[open], Listed(p,
             at, m, open)
      PROVE  Listed(t, b, m, open)'
  <2>1. /\ at[m].value + 1 < at[m].end
        /\ p[at[m].value + 1] = open
        /\ p[at[m].end] = Closing[open]
        /\ node[m].child = 0 => at[m].end = at[m].value + 2
    BY <1>6 DEF Listed
  <2>2. t[at[m].value + 1] = open /\ t[at[m].end] = Closing[open]
    <3>1. at[m].value + 1 \in 1 .. Len(p) /\ at[m].end \in 1 .. Len(p)
      BY <1>2, <2>1
    <3>2. QED
      BY <1>3, <2>1, <3>1
  <2>3. ASSUME node[m].child # 0
        PROVE  LET first == node'[m].child
                   last  == node'[first].prev
               IN /\ b[first].name = b[m].value + 1
                  /\ b[first].up = m
                  /\ last \in DOMAIN node'
                  /\ b[last].up = m
                  /\ node'[last].next = 0
                  /\ \A S \in SUBSET DOMAIN node' :
                       first \in S /\ Closed(S)' => last \in S
    <3>. PICK first : first = node[m].child
      OBVIOUS
    <3>. PICK last : last = node[first].prev
      OBVIOUS
    <3>1. /\ at[first].name = at[m].value + 1 /\ at[first].up = m
          /\ last \in DOMAIN node /\ at[last].up = m
          /\ node[last].next = 0 /\ Reaches(first, last)
      BY <1>6, <2>3 DEF Listed
    <3>2. first \in DOMAIN node
      BY <1>4, <2>3
    <3>3. /\ b[first].name = at[first].name /\ b[first].up = at[first].up
          /\ b[last].up = at[last].up /\ last \in DOMAIN node'
      BY <3>1, <3>2 DEF Keeps
    <3>4. node'[first].prev = node[first].prev
            /\ node'[last].next = node[last].next
      BY <3>1, <3>2 DEF Keeps
    <3>5. \A S \in SUBSET DOMAIN node' :
            first \in S /\ Closed(S)' => last \in S
      BY <1>4, <3>1, <3>2, KeptReach
    <3>6. first = node'[m].child /\ last = node'[first].prev
      BY <1>1, <3>4
    <3>7. QED
      BY <1>1, <3>1, <3>3, <3>4, <3>5, <3>6
  <2>4. QED
    BY <1>1, <2>1, <2>2, <2>3 DEF Listed, Reaches
<1>7. CASE \E open \in Opening : node[m].type = ListType[open]
        /\ Listed(p, at, m, open)
  BY <1>1, <1>6, <1>7 DEF Valued, t
<1>8. CASE ~(\E open \in Opening : node[m].type = ListType[open]
        /\ Listed(p, at, m, open))
  <2>1. Plain(m, value)
    BY <1>8 DEF Valued, value
  <2>2. Between(t, b[m].value, b[m].end) = value
    BY <1>1, <1>3
  <2>3. Plain(m, value)'
    BY <1>1, <1>5, <2>1 DEF Plain
  <2>4. QED
    BY <2>2, <2>3 DEF Valued, t
<1>9. QED
  BY <1>7, <1>8

(* A node whose name is not changed still has it in the text.              *)
LEMMA KeptName ==
  ASSUME Blocks, Links, Strings, NEW p \in Texts, NEW q \in Texts, NEW at,
         at \in [DOMAIN node -> Label], NEW b, Keeps(at, b),
         NEW m \in DOMAIN node, node'[m].string = node[m].string,
         b[m].value = at[m].value,
         Ordered(p, at, m), Named(p, at, m)
  PROVE  Named(p \o q, b, m)'
<1> DEFINE t == p \o q
<1>1. b[m].name = at[m].name
  BY DEF Keeps
<1>2. /\ at[m].value \in Nat /\ at[m].end \in Nat /\ at[m].name \in Nat
      /\ Len(p) \in Nat /\ at[m].value <= Len(p)
  BY LabelFacts, LenProperties DEF Ordered, Texts
<1>3. CASE node[m].string = 0
  BY <1>1, <1>3 DEF Named
<1>4. CASE node[m].string # 0
  <2>1. /\ at[m].name < at[m].value
        /\ Between(p, at[m].name, at[m].value - 1) =
             Quoted(str[node[m].string].content)
        /\ p[at[m].value] = Colon
    BY <1>4 DEF Named
  <2>2. at[m].value - 1 \in Nat /\ at[m].value - 1 <= Len(p)
          /\ at[m].value \in 1 .. Len(p)
    BY <1>2, <2>1
  <2>3. /\ Between(t, at[m].name, at[m].value - 1) = Between(p, at[m].name,
             at[m].value - 1)
        /\ t[at[m].value] = p[at[m].value]
    <3>1. /\ \A i \in 1 .. Len(p) : t[i] = p[i]
          /\ \A x, y \in Nat : y <= Len(p)
               => Between(t, x, y) = Between(p, x, y)
      BY TextGrows
    <3>2. QED
      BY <1>2, <2>2, <3>1
  <2>4. node[m].string \in DOMAIN str
    BY <1>4, NodeFacts
  <2>5. str'[node[m].string] = str[node[m].string]
    BY <2>4 DEF Keeps
  <2> HIDE DEF t
  <2>6. QED
    BY <1>1, <1>4, <2>1, <2>3, <2>5 DEF Named, t
<1>5. QED
  BY <1>3, <1>4

(* What comes behind a node is still there, if what is in its list and     *)
(* where that ends are.                                                    *)
LEMMA KeptFollowed ==
  ASSUME Blocks, Links, Strings, NEW p \in Texts, NEW q \in Texts, NEW at,
         at \in [DOMAIN node -> Label], NEW b, Keeps(at, b),
         NEW m \in DOMAIN node, node'[m].next = node[m].next,
         Ordered(p, at, m), Followed(p, at, m),
         at[m].up \in ListItems' \/ at[m].up \notin InProgress,
         node[m].next = 0 /\ at[m].up # 0 =>
           \A i \in 1 .. Len(stack') :
             at[m].up = stack'[i].item => m = stack'[i].current_item
  PROVE  Followed(p \o q, b, m)'
<1> DEFINE t == p \o q
<1>1. b[m].up = at[m].up /\ (m \notin InProgress
        => m \notin InProgress' /\ b[m] = at[m])
  BY DEF Keeps
<1>2. /\ at[m].end \in Nat /\ at[m].up \in {0} \cup DOMAIN node
      /\ Len(p) \in Nat /\ at[m].end <= Len(p)
      /\ \A i \in 1 .. Len(p) : t[i] = p[i]
      /\ Len(t) \in Nat /\ Len(t) >= Len(p)
  BY LabelFacts, LenProperties, TextGrows DEF Ordered, Texts
<1> HIDE DEF t
<1>3. ASSUME node[m].next # 0
      PROVE  /\ m \notin InProgress'
             /\ b[m].end < Len(t)
             /\ t[b[m].end + 1] = Comma
             /\ b[node'[m].next].name = b[m].end + 1
             /\ b[node'[m].next].up = b[m].up
             /\ node'[node'[m].next].prev = m
  <2>1. /\ m \notin InProgress /\ at[m].end < Len(p)
        /\ p[at[m].end + 1] = Comma
        /\ at[node[m].next].name = at[m].end + 1
        /\ at[node[m].next].up = at[m].up
        /\ node[node[m].next].prev = m
    BY <1>3 DEF Followed
  <2>2. node[m].next \in DOMAIN node
    BY <1>3, NodeFacts
  <2>3. /\ b[node[m].next].name = at[node[m].next].name
        /\ b[node[m].next].up = at[node[m].next].up
        /\ node'[node[m].next].prev = node[node[m].next].prev
    BY <1>3, <2>2 DEF Keeps
  <2>4. at[m].end + 1 \in 1 .. Len(p)
    BY <1>2, <2>1
  <2>5. t[at[m].end + 1] = Comma /\ at[m].end < Len(t)
    BY <1>2, <2>1, <2>4
  <2>6. QED
    BY <1>1, <2>1, <2>3, <2>5
<1>4. ASSUME node[m].next = 0, at[m].up # 0, at[m].up \notin ListItems'
      PROVE  m \notin InProgress' /\ b[b[m].up].end = b[m].end + 1
  <2>1. at[m].up \notin InProgress /\ at[m].up \notin ListItems
          /\ at[m].up \in DOMAIN node
    BY <1>2, <1>4 DEF InProgress
  <2>2. m \notin InProgress /\ at[at[m].up].end = at[m].end + 1
    BY <1>4, <2>1 DEF Followed
  <2>3. b[at[m].up] = at[at[m].up]
    BY <2>1 DEF Keeps
  <2>4. QED
    BY <1>1, <2>2, <2>3
<1>5. QED
  BY <1>1, <1>3, <1>4 DEF Followed, t

(* A list that is being parsed still begins where it did.                  *)
LEMMA KeptBegun ==
  ASSUME NEW p \in Texts, NEW q \in Texts, NEW D, NEW at,
         at \in [D -> Label], NEW b, NEW f, f.item \in D,
         Begun(p, at, f), b[f.item].value = at[f.item].value,
         f.head # 0 => /\ b[f.head].name = at[f.head].name
                       /\ b[f.head].up = at[f.head].up
                       /\ b[f.current_item].up = at[f.current_item].up
  PROVE  Begun(p \o q, b, f)
<1> DEFINE t == p \o q
<1>1. /\ at[f.item].value \in Nat /\ Len(p) \in Nat
      /\ Len(t) \in Nat /\ Len(t) >= Len(p)
      /\ \A i \in 1 .. Len(p) : t[i] = p[i]
  BY LabelFacts, LenProperties, TextGrows DEF Texts
<1> HIDE DEF t
<1>2. at[f.item].value < Len(p) /\ p[at[f.item].value + 1] = f.open
  BY DEF Begun
<1>3. at[f.item].value + 1 \in 1 .. Len(p)
  BY <1>1, <1>2
<1>4. t[at[f.item].value + 1] = f.open /\ at[f.item].value < Len(t)
  BY <1>1, <1>2, <1>3
<1>5. QED
  BY <1>4 DEF Begun, t

(* The items in progress, and those of the lists around them.              *)
LEMMA ProgressFacts ==
  ASSUME JsonInv, Parsing
  PROVE  /\ 0 \notin DOMAIN node /\ Len(stack) \in Nat
         /\ root \in DOMAIN node /\ root # 0
         /\ ListItems \subseteq DOMAIN node
         /\ InProgress \subseteq DOMAIN node
         /\ \A i \in 1 .. Len(stack) :
              /\ stack[i] \in Frame
              /\ stack[i].item \in ListItems
              /\ node[stack[i].item].child = 0
              /\ stack[i].head \in {0} \cup DOMAIN node
              /\ stack[i].current_item \in {0} \cup DOMAIN node
              /\ stack[i].head = 0 <=> stack[i].current_item = 0
              /\ stack[i].current_item # 0 =>
                   node[stack[i].current_item].next = 0
         /\ \A i, j \in 1 .. Len(stack) : stack[i].item = stack[j].item
              => i = j
         /\ LastItem(Len(stack)) \notin ListItems
         /\ pc \in {"parse_value", "parse_name"} =>
              /\ item \in InProgress /\ item \notin ListItems
              /\ item = LastItem(Len(stack))
<1>1. Blocks /\ Links /\ Strings /\ Places /\ Frames
  BY DEF JsonInv, HeapInv, Places
<1>2. 0 \notin DOMAIN node /\ Len(stack) \in Nat /\ stack \in Seq(Frame)
        /\ root \in Nat
  BY <1>1, LenProperties DEF Blocks, BlockIds
<1>3. \A i \in 1 .. Len(stack) :
         /\ stack[i] \in Frame
         /\ stack[i].item = LastItem(i - 1)
         /\ stack[i].item \in DOMAIN node
         /\ node[stack[i].item].child = 0
         /\ stack[i].head = 0 <=> stack[i].current_item = 0
         /\ stack[i].current_item \in {0} \cup DOMAIN node
         /\ stack[i].current_item # 0 =>
              node[stack[i].current_item].next = 0
  <2>1. \A i \in 1 .. Len(stack) : stack[i] \in Frame
    BY <1>2, ElementOfSeq
  <2>2. QED
    BY <1>1, <2>1 DEF Frames
<1>4. \A i \in Depths : ListHead(i) \in {0} \cup DOMAIN node
  BY <1>1 DEF Links
<1>5. root \in DOMAIN node /\ root # 0
  <2>1. 0 \in Depths
    BY <1>2 DEF Depths
  <2>2. root # 0
    BY <1>1 DEF Frames
  <2>3. ListHead(0) = root
    BY DEF ListHead
  <2>4. QED
    BY <1>4, <2>1, <2>2, <2>3
<1>6. \A i \in 1 .. Len(stack) : stack[i].head \in {0} \cup DOMAIN node
  <2>1. \A i \in 1 .. Len(stack) : i \in Depths /\ i # 0
    BY <1>2 DEF Depths
  <2>2. QED
    BY <1>4, <2>1 DEF ListHead
<1>7. ListItems \subseteq DOMAIN node
  BY <1>3 DEF ListItems
<1>8. \A i, j \in Depths : i < j => LastItem(i) # LastItem(j)
  BY <1>1 DEF Frames
<1>9. \A i, j \in 1 .. Len(stack) : stack[i].item = stack[j].item => i = j
  <2>1. SUFFICES ASSUME NEW i \in 1 .. Len(stack), NEW j \in 1 .. Len(stack),
          i < j
                 PROVE  stack[i].item # stack[j].item
    <3>1. \A i, j \in 1 .. Len(stack) : i = j \/ i < j \/ j < i
      BY <1>2
    <3>2. QED
      BY <2>1, <3>1
  <2>2. i - 1 \in Depths /\ j - 1 \in Depths /\ i - 1 < j - 1
    BY <1>2, <2>1 DEF Depths
  <2>3. QED
    BY <1>3, <1>8, <2>2
<1>10. LastItem(Len(stack)) \notin ListItems
  <2>1. ASSUME NEW i \in 1 .. Len(stack)
        PROVE  stack[i].item # LastItem(Len(stack))
    <3>1. i - 1 \in Depths /\ Len(stack) \in Depths /\ i - 1 < Len(stack)
      BY <1>2 DEF Depths
    <3>2. QED
      BY <1>3, <1>8, <3>1
  <2>2. QED
    BY <2>1 DEF ListItems
<1>11. pc \in {"parse_value", "parse_name"} =>
         /\ item \in DOMAIN node /\ item = LastItem(Len(stack))
  BY <1>1 DEF Places, ItemIsNew
<1>12. InProgress \subseteq DOMAIN node
  BY <1>7, <1>11 DEF InProgress
<1>13. \A i \in 1 .. Len(stack) : stack[i].item \in ListItems
  BY DEF ListItems
<1>14. QED
  BY <1>2, <1>3, <1>5, <1>6, <1>7, <1>9, <1>10, <1>11, <1>12, <1>13
     DEF InProgress

(* The text after a step is no shorter.                                    *)
LEMMA Longer ==
  ASSUME NEW p \in Texts, NEW q \in Texts
  PROVE  /\ Len(p) \in Nat /\ Len(p \o q) \in Nat
         /\ Len(p) <= Len(p \o q) /\ p \o q \in Texts
<1>1. /\ Len(p) \in Nat /\ Len(q) \in Nat
      /\ Len(p \o q) = Len(p) + Len(q) /\ p \o q \in Texts
  BY TextGrows
<1>2. QED
  BY <1>1

-----------------------------------------------------------------------------
(* A value is read *)

(* A value that says the text q was read for the item: the item ends       *)
(* behind q, and nothing else has moved.                                   *)
LEMMA ValueRead ==
  ASSUME JsonInv, pc = "parse_value", NEW p \in Texts, NEW at, Labelled(p, at),
         NEW q \in Texts, NEW b \in [DOMAIN node -> Label],
         \A m \in DOMAIN node : m # item => b[m] = at[m],
         b[item].name = at[item].name, b[item].value = at[item].value,
         b[item].up = at[item].up, b[item].end = Len(p \o q),
         pc' = "value", stack' = stack, root' = root, item' = item,
         DOMAIN node' = DOMAIN node,
         \A m \in DOMAIN node : m # item => node'[m] = node[m],
         node'[item].next = node[item].next,
           node'[item].prev = node[item].prev,
         node'[item].child = node[item].child,
         node'[item].string = node[item].string,
         \A s \in DOMAIN str : s \in DOMAIN str' /\ str'[s] = str[s],
         Valued(p \o q, b, item)'
  PROVE  Labelled(p \o q, b)'
<1> DEFINE t == p \o q
<1>1. Blocks /\ Links /\ Strings /\ Parsing
  BY DEF JsonInv, HeapInv, Parsing
<1>2. /\ item \in InProgress /\ item \notin ListItems
           /\ item = LastItem(Len(stack))
      /\ item \in DOMAIN node /\ 0 \notin DOMAIN node /\ root \in DOMAIN node
      /\ Len(stack) \in Nat
      /\ \A i \in 1 .. Len(stack) :
              /\ stack[i].item \in ListItems
              /\ stack[i].item \in DOMAIN node
              /\ stack[i].head \in {0} \cup DOMAIN node
              /\ stack[i].current_item \in {0} \cup DOMAIN node
              /\ stack[i].head = 0 <=> stack[i].current_item = 0
  BY <1>1, ProgressFacts
<1>3. /\ Len(p) \in Nat /\ Len(t) \in Nat /\ Len(p) <= Len(t) /\ t \in Texts
  BY Longer
<1>4. /\ at \in [DOMAIN node -> Label]
      /\ \A m \in DOMAIN node :
           Ordered(p, at, m) /\ Named(p, at, m) /\ Followed(p, at, m)
      /\ \A m \in DOMAIN node : m \notin InProgress => Valued(p, at, m)
      /\ \A i \in 1 .. Len(stack) : Begun(p, at, stack[i])
      /\ at[item].value = Len(p)
      /\ \A m \in DOMAIN node : at[m].up # item
      /\ at[root].up = 0 /\ at[root].value = 0
  BY DEF Labelled, Arrived
<1>5. /\ b \in [DOMAIN node -> Label]
      /\ \A m \in DOMAIN node : m # item => b[m] = at[m]
      /\ b[item].name = at[item].name /\ b[item].value = at[item].value
      /\ b[item].up = at[item].up /\ b[item].end = Len(t)
  OBVIOUS
<1>6. ListItems' = ListItems /\ InProgress' = ListItems
        /\ InProgress = ListItems \cup {item}
  BY DEF ListItems, InProgress
<1> HIDE DEF t
<1>7. Keeps(at, b)
  <2>1. ASSUME NEW m \in DOMAIN node
        PROVE  /\ m \in InProgress' => m \in InProgress
               /\ b[m].name = at[m].name /\ b[m].up = at[m].up
               /\ node'[m].child = node[m].child
               /\ node'[m].next = node[m].next
               /\ node'[m].prev = node[m].prev
    BY <1>5, <1>6
  <2>2. \A m \in DOMAIN node : node[m].next # 0 => node[m].next \in DOMAIN node
    BY <1>1, NodeFacts
  <2>3. \A m \in DOMAIN node :
          m \notin InProgress => b[m] = at[m] /\ node'[m] = node[m]
    BY <1>2, <1>5
  <2>4. QED
    BY <1>5, <2>1, <2>2, <2>3 DEF Keeps
<1>8. ASSUME NEW m \in DOMAIN node
      PROVE  Ordered(t, b, m)' /\ Named(t, b, m)' /\ Followed(t, b, m)'
  <2>1. Ordered(p, at, m) /\ Named(p, at, m) /\ Followed(p, at, m)
    BY <1>4
  <2>2. Ordered(t, b, m)'
    <3>1. /\ at[m].name \in Nat /\ at[m].value \in Nat
          /\ at[m].end \in Nat /\ at[m].up \in Nat
      BY <1>4, LabelFacts
    <3>2. CASE m = item
      BY <1>3, <1>4, <1>5, <2>1, <3>1, <3>2 DEF Ordered
    <3>3. CASE m # item
      BY <1>3, <1>5, <2>1, <3>1, <3>3 DEF Ordered
    <3>4. QED
      BY <3>2, <3>3
  <2>3. node'[m].string = node[m].string /\ b[m].value = at[m].value
          /\ node'[m].next = node[m].next
    BY <1>5
  <2>4. Named(t, b, m)'
    BY <1>1, <1>4, <1>7, <2>1, <2>3, KeptName DEF t
  <2>5. at[m].up \in ListItems' \/ at[m].up \notin InProgress
    BY <1>4, <1>6
  <2>6. node[m].next = 0 /\ at[m].up # 0 =>
           \A i \in 1 .. Len(stack') :
             at[m].up = stack'[i].item => m = stack'[i].current_item
    BY <2>1 DEF Followed
  <2>7. Followed(t, b, m)'
    BY <1>1, <1>4, <1>7, <2>1, <2>3, <2>5, <2>6, KeptFollowed DEF t
  <2>8. QED
    BY <2>2, <2>4, <2>7
<1>9. ASSUME NEW m \in DOMAIN node, m \notin InProgress'
      PROVE  Valued(t, b, m)'
  <2>1. CASE m = item
    BY <2>1 DEF t
  <2>2. CASE m # item
    <3>1. m \notin InProgress
      BY <1>6, <1>9, <2>2
    <3>2. QED
      BY <1>1, <1>4, <1>7, <3>1, KeptValue DEF t
  <2>3. QED
    BY <2>1, <2>2
<1>10. ASSUME NEW i \in 1 .. Len(stack')
       PROVE  Begun(t, b, stack'[i])
  <2>1. i \in 1 .. Len(stack) /\ stack'[i] = stack[i]
    OBVIOUS
  <2>. PICK f : f = stack[i]
    OBVIOUS
  <2>2. /\ f.item \in DOMAIN node /\ Begun(p, at, f)
        /\ b[f.item].value = at[f.item].value
        /\ f.head # 0 => /\ b[f.head].name = at[f.head].name
                         /\ b[f.head].up = at[f.head].up
                         /\ b[f.current_item].up = at[f.current_item].up
    BY <1>2, <1>4, <1>5, <2>1
  <2>3. Begun(t, b, f)
    <3>1. at \in [DOMAIN node -> Label]
      BY <1>4
    <3>2. QED
      BY <2>2, <3>1, KeptBegun DEF t
  <2>4. QED
    BY <2>1, <2>3
<1>11. Arrived(t, b)'
  <2>1. LastItem(Len(stack))' = LastItem(Len(stack))
    BY DEF LastItem
  <2>2. b[root].up = 0 /\ b[root].value = 0
    BY <1>2, <1>4, <1>5
  <2>3. QED
    BY <1>2, <1>5, <2>1, <2>2 DEF Arrived
<1>12. QED
  BY <1>5, <1>8, <1>9, <1>10, <1>11 DEF Labelled, t

(* What is kept of an item by most steps.                                  *)
LEMMA KeptItem ==
  ASSUME JsonInv, Parsing, NEW p \in Texts, NEW at, Labelled(p, at),
         NEW q \in Texts, NEW b, Keeps(at, b), NEW m \in DOMAIN node,
         m \in InProgress =>
           /\ node'[m].string = node[m].string
           /\ b[m].value = at[m].value
           /\ b[m].end \in {at[m].end, Len(p \o q)}
  PROVE  /\ Ordered(p \o q, b, m)' /\ Named(p \o q, b, m)'
         /\ m \notin InProgress => Valued(p \o q, b, m)'
<1> DEFINE t == p \o q
<1>1. Blocks /\ Links /\ Strings
  BY DEF JsonInv, HeapInv
<1>2. /\ at \in [DOMAIN node -> Label]
      /\ Ordered(p, at, m) /\ Named(p, at, m) /\ Followed(p, at, m)
      /\ m \notin InProgress => Valued(p, at, m)
  BY DEF Labelled
<1>3. /\ m \notin InProgress => node'[m].string = node[m].string
           /\ b[m] = at[m]
      /\ b[m].name = at[m].name /\ b[m].up = at[m].up
      /\ DOMAIN node \subseteq DOMAIN node'
  BY DEF Keeps
<1>4. /\ node'[m].string = node[m].string
      /\ b[m].value = at[m].value
      /\ b[m].end \in {at[m].end, Len(t)}
  BY <1>3
<1>5. /\ at[m].name \in Nat /\ at[m].value \in Nat
      /\ at[m].end \in Nat /\ at[m].up \in Nat
  BY <1>2, LabelFacts
<1>6. Len(p) \in Nat /\ Len(t) \in Nat /\ Len(p) <= Len(t)
  BY Longer
<1>7. Named(t, b, m)'
  BY <1>1, <1>2, <1>4, KeptName
<1> HIDE DEF t
<1>8. Ordered(t, b, m)'
  BY <1>2, <1>3, <1>4, <1>5, <1>6 DEF Ordered
<1>9. ASSUME m \notin InProgress
      PROVE  Valued(t, b, m)'
  BY <1>1, <1>2, <1>9, KeptValue DEF t
<1>10. QED
  BY <1>7, <1>8, <1>9 DEF t

(* And of the lists in progress.                                           *)
LEMMA StillBegun ==
  ASSUME JsonInv, Parsing, NEW p \in Texts, NEW at, Labelled(p, at),
         NEW q \in Texts, NEW b, Keeps(at, b), NEW i \in 1 .. Len(stack),
         b[stack[i].item].value = at[stack[i].item].value
  PROVE  Begun(p \o q, b, stack[i])
<1>1. /\ at \in [DOMAIN node -> Label] /\ Begun(p, at, stack[i])
  BY DEF Labelled
<1>2. /\ stack[i].item \in ListItems /\ ListItems \subseteq DOMAIN node
      /\ stack[i].head \in {0} \cup DOMAIN node
      /\ stack[i].current_item \in {0} \cup DOMAIN node
      /\ stack[i].head = 0 <=> stack[i].current_item = 0
  BY ProgressFacts
<1>. PICK f : f = stack[i]
  OBVIOUS
<1>3. /\ f.item \in DOMAIN node /\ Begun(p, at, f)
      /\ b[f.item].value = at[f.item].value
      /\ f.head # 0 => /\ b[f.head].name = at[f.head].name
                       /\ b[f.head].up = at[f.head].up
                       /\ b[f.current_item].up = at[f.current_item].up
  BY <1>1, <1>2 DEF Keeps
<1>4. Begun(p \o q, b, f)
  BY <1>1, <1>3, KeptBegun
<1>5. QED
  BY <1>4

-----------------------------------------------------------------------------
(* The tree does not change *)

(* A comma is read, or a list begins.                                      *)
LEMMA KeepsSame ==
  ASSUME JsonInv, Parsing, NEW p, NEW at, Labelled(p, at),
         node' = node, str' = str,
         InProgress' \subseteq InProgress
  PROVE  Keeps(at, at)
<1>1. at \in [DOMAIN node -> Label]
  BY DEF Labelled
<1>2. QED
  BY <1>1 DEF Keeps

(* A comma was read behind an item.                                        *)
LEMMA CommaRead ==
  ASSUME JsonInv, pc = "value", stack # <<>>,
         NEW p \in Texts, NEW at, Labelled(p, at), NEW q, q = <<Comma>>,
         pc' = "next_item", stack' = stack, root' = root, item' = item,
         node' = node, str' = str
  PROVE  Labelled(p \o q, at)' /\ q \in Texts
<1> DEFINE t == p \o q
<1>0. q \in Texts /\ Len(q) = 1 /\ q[1] = Comma
  <2>1. Comma \in Units
    BY Zenon DEF Comma, Units
  <2> HIDE DEF Comma
  <2>2. QED
    BY <2>1 DEF Texts
<1>1. Parsing
  BY DEF Parsing
<1>2. ListItems' = ListItems /\ InProgress' = ListItems
        /\ InProgress = ListItems
  BY DEF ListItems, InProgress
<1>3. Keeps(at, at)
  BY <1>1, <1>2, KeepsSame
<1>4. /\ at \in [DOMAIN node -> Label]
      /\ \A m \in DOMAIN node :
           Ordered(p, at, m) /\ Named(p, at, m) /\ Followed(p, at, m)
      /\ at[root].up = 0 /\ at[root].value = 0
      /\ item = LastItem(Len(stack)) /\ at[item].end = Len(p)
  BY DEF Labelled, Arrived
<1>5. Blocks /\ Links /\ Strings
  BY DEF JsonInv, HeapInv
<1>6. ASSUME NEW m \in DOMAIN node
      PROVE  /\ Ordered(t, at, m)' /\ Named(t, at, m)' /\ Followed(t, at, m)'
             /\ m \notin InProgress' => Valued(t, at, m)'
  <2>1. /\ Ordered(t, at, m)' /\ Named(t, at, m)'
        /\ m \notin InProgress => Valued(t, at, m)'
    BY <1>0, <1>1, <1>3, KeptItem
  <2>2. node[m].next = 0 /\ at[m].up # 0 =>
           \A i \in 1 .. Len(stack') :
             at[m].up = stack'[i].item => m = stack'[i].current_item
    BY <1>4 DEF Followed
  <2>3. Followed(t, at, m)'
    BY <1>0, <1>2, <1>3, <1>4, <1>5, <2>2, KeptFollowed
  <2>4. QED
    BY <1>2, <2>1, <2>3
<1>7. \A i \in 1 .. Len(stack) : Begun(t, at, stack[i])
  BY <1>0, <1>1, <1>3, StillBegun
<1>8. Arrived(t, at)'
  <2>1. /\ Len(p) \in Nat /\ Len(t) = Len(p) + 1 /\ t[Len(p) + 1] = Comma
    <3>1. /\ Len(p) \in Nat /\ Len(t) = Len(p) + Len(q)
          /\ \A i \in 1 .. Len(q) : t[Len(p) + i] = q[i]
      BY <1>0, TextGrows
    <3>2. QED
      BY <1>0, <3>1
  <2>2. LastItem(Len(stack)) = Top.current_item
    <3>1. Len(stack) # 0
      BY EmptySeq DEF JsonInv, HeapInv, Blocks
    <3>2. QED
      BY <3>1 DEF LastItem, Top
  <2>3. LastItem(Len(stack)) # 0
    <3>1. \A i \in 1 .. Len(stack) : stack[i].current_item = 0
            => pc = "next_item"
      BY <1>1 DEF JsonInv, HeapInv, Places, Frames
    <3>2. Len(stack) \in 1 .. Len(stack)
      BY <1>5, TopIsAFrame DEF Blocks
    <3>3. QED
      BY <2>2, <3>1, <3>2 DEF Top
  <2>4. Top' = Top
    BY DEF Top
  <2> HIDE DEF t
  <2>5. QED
    BY <1>4, <2>1, <2>2, <2>3, <2>4 DEF Arrived
<1>9. QED
  BY <1>0, <1>4, <1>6, <1>7, <1>8 DEF Labelled

(* The bracket was read that opens a list.                                 *)
LEMMA ListBegun ==
  ASSUME JsonInv, pc = "parse_value",
         NEW p \in Texts, NEW at, Labelled(p, at), NEW open \in Opening,
         NEW q, q = <<open>>,
         stack' = Append(stack, [open |-> open, item |-> item,
                                 head |-> 0, current_item |-> 0]),
         pc' = "next_item", root' = root, item' = item,
         node' = node, str' = str
  PROVE  Labelled(p \o q, at)' /\ q \in Texts
<1> DEFINE t == p \o q
           frame == [open |-> open, item |-> item, head |-> 0,
             current_item |-> 0]
<1>0. q \in Texts /\ Len(q) = 1 /\ q[1] = open
  <2>1. open \in Units
    BY Zenon DEF Opening, Units
  <2>2. QED
    BY <2>1 DEF Texts
<1>1. Parsing /\ Blocks /\ Links /\ Strings
  BY DEF Parsing, JsonInv, HeapInv
<1>2. /\ item \in InProgress /\ item \notin ListItems /\ item \in DOMAIN node
      /\ Len(stack) \in Nat /\ 0 \notin DOMAIN node
  BY <1>1, ProgressFacts
<1>3. /\ Len(stack') = Len(stack) + 1
      /\ \A i \in 1 .. Len(stack) : stack'[i] = stack[i]
      /\ stack'[Len(stack) + 1] = frame
  <2>1. frame \in Frame /\ stack \in Seq(Frame)
    BY <1>1, <1>2 DEF Frame, Blocks, BlockIds
  <2> HIDE DEF frame
  <2>2. stack' = Append(stack, frame)
    BY DEF frame
  <2>3. QED
    BY <2>1, <2>2, AppendProperties
<1>4. /\ at \in [DOMAIN node -> Label]
      /\ \A m \in DOMAIN node :
           Ordered(p, at, m) /\ Named(p, at, m) /\ Followed(p, at, m)
      /\ at[root].up = 0 /\ at[root].value = 0
      /\ at[item].value = Len(p)
      /\ \A m \in DOMAIN node : at[m].up # item
  BY DEF Labelled, Arrived
<1>5. ListItems' = ListItems \cup {item} /\ InProgress' = InProgress
        /\ InProgress = ListItems \cup {item}
  <2>1. 1 .. Len(stack') = 1 .. Len(stack) \cup {Len(stack) + 1}
    BY <1>2, <1>3
  <2>2. ListItems' = {stack'[i].item :
          i \in 1 .. Len(stack) \cup {Len(stack) + 1}}
    BY <2>1 DEF ListItems
  <2>3. ListItems' = ListItems \cup {item}
    BY <1>3, <2>2 DEF ListItems
  <2>4. QED
    BY <2>3 DEF InProgress
<1>6. Keeps(at, at)
  BY <1>1, <1>5, KeepsSame
<1>7. ASSUME NEW m \in DOMAIN node
      PROVE  /\ Ordered(t, at, m)' /\ Named(t, at, m)' /\ Followed(t, at, m)'
             /\ m \notin InProgress' => Valued(t, at, m)'
  <2>1. /\ Ordered(t, at, m)' /\ Named(t, at, m)'
        /\ m \notin InProgress => Valued(t, at, m)'
    BY <1>0, <1>1, <1>6, KeptItem
  <2>2. ASSUME node[m].next = 0, at[m].up # 0, NEW i \in 1 .. Len(stack'),
               at[m].up = stack'[i].item
        PROVE  m = stack'[i].current_item
    <3>1. i \in 1 .. Len(stack) \/ i = Len(stack) + 1
      BY <1>2, <1>3
    <3>2. i # Len(stack) + 1
      BY <1>3, <1>4, <2>2
    <3>3. QED
      BY <1>3, <1>4, <2>2, <3>1, <3>2 DEF Followed
  <2>3. at[m].up \in ListItems' \/ at[m].up \notin InProgress
    BY <1>5
  <2>4. Followed(t, at, m)'
    BY <1>0, <1>1, <1>4, <1>6, <2>2, <2>3, KeptFollowed
  <2>5. QED
    BY <1>5, <2>1, <2>4
<1>8. Len(p) \in Nat /\ Len(t) = Len(p) + 1 /\ t[Len(p) + 1] = open
  <2>1. /\ Len(p) \in Nat /\ Len(t) = Len(p) + Len(q)
        /\ \A i \in 1 .. Len(q) : t[Len(p) + i] = q[i]
    BY <1>0, TextGrows
  <2>2. QED
    BY <1>0, <2>1
<1>9. \A i \in 1 .. Len(stack) : Begun(t, at, stack[i])
  BY <1>0, <1>1, <1>6, StillBegun
<1>10. ASSUME NEW i \in 1 .. Len(stack')
       PROVE  Begun(t, at, stack'[i])
  <2>1. i \in 1 .. Len(stack) \/ i = Len(stack) + 1
    BY <1>2, <1>3
  <2>2. CASE i \in 1 .. Len(stack)
    BY <1>3, <1>9, <2>2
  <2>3. CASE i = Len(stack) + 1
    <3> HIDE DEF t
    <3>1. QED
      BY <1>3, <1>4, <1>8, <2>3 DEF Begun
  <2>4. QED
    BY <2>1, <2>2, <2>3
<1>11. Arrived(t, at)'
  <2>1. Top' = frame
    BY <1>3 DEF Top
  <2> HIDE DEF t
  <2>2. QED
    BY <1>4, <1>8, <2>1 DEF Arrived
<1>12. QED
  BY <1>0, <1>4, <1>7, <1>10, <1>11 DEF Labelled

-----------------------------------------------------------------------------
(* The name of a member is read *)

(* A name and its colon were read for the item, whose value begins behind  *)
(* them.                                                                   *)
LEMMA NameRead ==
  ASSUME JsonInv, pc = "parse_name", NEW p \in Texts, NEW at, Labelled(p, at),
         NEW w \in Texts, NEW c \in Texts, Len(c) = 1, c[1] = Colon,
         NEW b \in [DOMAIN node -> Label],
         \A m \in DOMAIN node : m # item => b[m] = at[m],
         b[item].name = at[item].name, b[item].up = at[item].up,
         b[item].value = Len((p \o w) \o c), b[item].end = Len((p \o w) \o c),
         pc' = "parse_value", stack' = stack, root' = root, item' = item,
         DOMAIN node' = DOMAIN node,
         \A m \in DOMAIN node : m # item => node'[m] = node[m],
         node'[item].next = node[item].next,
           node'[item].prev = node[item].prev,
         node'[item].child = node[item].child,
         node'[item].string # 0,
         w = Quoted(str'[node'[item].string].content),
         \A s \in DOMAIN str : s \in DOMAIN str' /\ str'[s] = str[s]
  PROVE  Labelled((p \o w) \o c, b)'
<1> DEFINE t == (p \o w) \o c
           q == w \o c
<1>1. Blocks /\ Links /\ Strings /\ Parsing
  BY DEF JsonInv, HeapInv, Parsing
<1>2. /\ item \in InProgress /\ item \notin ListItems
           /\ item = LastItem(Len(stack))
      /\ item \in DOMAIN node /\ 0 \notin DOMAIN node /\ root \in DOMAIN node
      /\ Len(stack) \in Nat
      /\ \A i \in 1 .. Len(stack) : stack[i].item \in ListItems
           /\ stack[i].item \in DOMAIN node
  BY <1>1, ProgressFacts
<1>3. node[item].string = 0
  BY DEF JsonInv, HeapInv, Places, ItemIsNew
<1>5. q \in Texts /\ t = p \o q
  <2>1. q \in Texts
    BY TextGrows
  <2>2. t = p \o q
    BY Associative
  <2>3. QED
    BY <2>1, <2>2
<1>6. /\ Len(p) \in Nat /\ Len(w) \in Nat /\ Len(t) = Len(p) + Len(w) + 1
      /\ t[Len(t)] = Colon
      /\ Between(t, Len(p), Len(t) - 1) = w
  <2> DEFINE r == p \o w
  <2>1. /\ r \in Texts /\ Len(r) = Len(p) + Len(w) /\ Len(p) \in Nat
             /\ Len(w) \in Nat
        /\ Between(r, Len(p), Len(p) + Len(w)) = w
    BY TextGrows
  <2> HIDE DEF r
  <2>2. /\ Len(r \o c) = Len(r) + Len(c)
        /\ \A i \in 1 .. Len(c) : (r \o c)[Len(r) + i] = c[i]
        /\ \A x, y \in Nat : y <= Len(r)
             => Between(r \o c, x, y) = Between(r, x, y)
    BY <2>1, TextGrows
  <2>3. (r \o c)[Len(r) + 1] = Colon
    BY <2>2
  <2>4. Len(r) \in Nat /\ Len(r) <= Len(r)
    BY <2>1
  <2>5. Between(r \o c, Len(p), Len(r)) = Between(r, Len(p), Len(r))
    BY <2>1, <2>2, <2>4
  <2>6. Len(r) + 1 = Len(p) + Len(w) + 1 /\ Len(p) + Len(w) + 1 - 1 = Len(r)
    BY <2>1
  <2>7. t = r \o c
    BY DEF r
  <2> HIDE DEF t
  <2>8. Len(t) = Len(r) + 1 /\ Len(t) - 1 = Len(r)
    BY <2>2, <2>4, <2>7
  <2>9. QED
    BY <2>1, <2>3, <2>5, <2>6, <2>7, <2>8
<1>7. /\ at \in [DOMAIN node -> Label]
      /\ \A m \in DOMAIN node :
           Ordered(p, at, m) /\ Named(p, at, m) /\ Followed(p, at, m)
      /\ at[root].up = 0 /\ at[root].value = 0
      /\ at[item].value = Len(p)
      /\ \A m \in DOMAIN node : at[m].up # item
  BY DEF Labelled, Arrived
<1>8. at[item].name = Len(p)
  BY <1>2, <1>3, <1>7 DEF Named
<1>9. ListItems' = ListItems /\ InProgress' = InProgress
        /\ InProgress = ListItems \cup {item}
  BY DEF ListItems, InProgress
<1> HIDE DEF t, q
<1>10. b[item].value = Len(t) /\ b[item].end = Len(t)
  BY DEF t
<1>11. Keeps(at, b)
  <2>1. ASSUME NEW m \in DOMAIN node
        PROVE  /\ m \in InProgress' => m \in InProgress
               /\ b[m].name = at[m].name /\ b[m].up = at[m].up
               /\ node'[m].child = node[m].child
               /\ node'[m].next = node[m].next
               /\ node'[m].prev = node[m].prev
    BY <1>9
  <2>2. \A m \in DOMAIN node : node[m].next # 0 => node[m].next \in DOMAIN node
    BY <1>1, NodeFacts
  <2>3. \A m \in DOMAIN node :
          m \notin InProgress => b[m] = at[m] /\ node'[m] = node[m]
    BY <1>2
  <2>4. QED
    BY <2>1, <2>2, <2>3 DEF Keeps
<1>12. ASSUME NEW m \in DOMAIN node
       PROVE  /\ Ordered(t, b, m)' /\ Named(t, b, m)' /\ Followed(t, b, m)'
              /\ m \notin InProgress' => Valued(t, b, m)'
  <2>1. m # item => /\ Ordered(t, b, m)' /\ Named(t, b, m)'
                    /\ m \notin InProgress => Valued(t, b, m)'
    BY <1>1, <1>5, <1>11, KeptItem
  <2>2. m = item => Ordered(t, b, m)' /\ Named(t, b, m)'
    <3>1. Len(p) <= Len(t) /\ Len(t) \in Nat /\ Len(p) < Len(t)
      BY <1>6
    <3>2. Ordered(t, b, item)'
      <4>1. at[item].up \in {0} \cup DOMAIN node
        BY <1>2, <1>7 DEF Ordered
      <4>2. QED
        BY <1>8, <1>10, <3>1, <4>1 DEF Ordered
    <3>3. Named(t, b, item)'
      BY <1>6, <1>8, <1>10, <3>1 DEF Named
    <3>4. QED
      BY <3>2, <3>3
  <2>3. node[m].next = 0 /\ at[m].up # 0 =>
           \A i \in 1 .. Len(stack') :
             at[m].up = stack'[i].item => m = stack'[i].current_item
    BY <1>7 DEF Followed
  <2>4. at[m].up \in ListItems' \/ at[m].up \notin InProgress
    BY <1>7, <1>9
  <2>5. node'[m].next = node[m].next
    OBVIOUS
  <2>6. Followed(t, b, m)'
    BY <1>1, <1>5, <1>7, <1>11, <2>3, <2>4, <2>5, KeptFollowed
  <2>7. QED
    BY <1>2, <1>9, <2>1, <2>2, <2>6
<1>13. ASSUME NEW i \in 1 .. Len(stack)
       PROVE  Begun(t, b, stack[i])
  <2>1. b[stack[i].item].value = at[stack[i].item].value
    BY <1>2
  <2>2. QED
    BY <1>1, <1>5, <1>11, <2>1, StillBegun
<1>14. Arrived(t, b)'
  <2>1. b[root].up = 0 /\ b[root].value = 0
    <3>1. root # item
      <4>1. stack # <<>>
        BY DEF JsonInv, HeapInv, Places
      <4>2. Len(stack) # 0
        BY <1>1, <4>1, EmptySeq DEF Blocks
      <4>3. \A i, j \in Depths : i < j => LastItem(i) # LastItem(j)
        BY <1>1 DEF JsonInv, HeapInv, Places, Frames
      <4>4. 0 \in Depths /\ Len(stack) \in Depths /\ 0 < Len(stack)
        BY <1>2, <4>2 DEF Depths
      <4>5. LastItem(0) # LastItem(Len(stack)) /\ LastItem(0) = root
        BY <4>3, <4>4 DEF LastItem
      <4>6. QED
        BY <1>2, <4>5
    <3>2. QED
      BY <1>2, <1>7, <3>1
  <2>2. \A m \in DOMAIN node : b[m].up # item
    BY <1>7
  <2>3. QED
    BY <1>10, <2>1, <2>2 DEF Arrived
<1>15. QED
  BY <1>12, <1>13, <1>14 DEF Labelled, t

-----------------------------------------------------------------------------
(* A list gets another item *)

(* The item that was linked in begins where the text read so far ends.     *)
LEMMA ItemAdded ==
  ASSUME JsonInv, pc = "next_item", NEW p \in Texts, NEW at, Labelled(p, at),
         NEW n \in Nat \ {0}, n \notin DOMAIN node, Attach(n),
         NEW b \in [{n} \cup DOMAIN node -> Label],
         \A m \in DOMAIN node : b[m] = at[m],
         b[n].name = Len(p), b[n].value = Len(p), b[n].end = Len(p),
         b[n].up = Top.item,
         pc' \in {"parse_value", "parse_name"},
         root' = root, item' = n, str' = str
  PROVE  Labelled(p, b)'
<1> DEFINE l == Len(stack)
           cur == Top.current_item
<1>1. Blocks /\ Links /\ Strings /\ Parsing /\ stack # <<>>
  BY DEF JsonInv, HeapInv, Parsing, Places
<1>2. /\ ListItems \subseteq DOMAIN node /\ 0 \notin DOMAIN node
      /\ root \in DOMAIN node
      /\ \A i \in 1 .. l :
              /\ stack[i] \in Frame
              /\ stack[i].item \in ListItems
              /\ stack[i].head \in {0} \cup DOMAIN node
              /\ stack[i].current_item \in {0} \cup DOMAIN node
              /\ stack[i].head = 0 <=> stack[i].current_item = 0
              /\ stack[i].current_item # 0 =>
                   node[stack[i].current_item].next = 0
      /\ \A i, j \in 1 .. l : stack[i].item = stack[j].item => i = j
      /\ LastItem(l) \notin ListItems
  BY <1>1, ProgressFacts
<1>3. l \in 1 .. l /\ l \in Nat /\ Top = stack[l]
  BY <1>1, TopIsAFrame DEF Blocks, Top
<1>4. cur \notin ListItems /\ Top.item \in ListItems
        /\ Top.item \in DOMAIN node
  <2>1. l # 0
    BY <1>3
  <2>2. LastItem(l) = cur
    BY <1>3, <2>1 DEF LastItem
  <2>3. QED
    BY <1>2, <1>3, <2>2
<1>5. /\ DOMAIN node' = {n} \cup DOMAIN node
      /\ \A m \in DOMAIN node :
           /\ node'[m].next = IF m = cur THEN n ELSE node[m].next
           /\ node'[m].prev = node[m].prev
           /\ node'[m].child = node[m].child
           /\ node'[m].type = node[m].type
           /\ node'[m].value = node[m].value
           /\ node'[m].valuestring = node[m].valuestring
           /\ node'[m].string = node[m].string
      /\ node'[n].next = 0 /\ node'[n].string = 0
      /\ node'[n].prev = cur
      /\ Len(stack') = l
      /\ \A i \in 1 .. l - 1 : stack'[i] = stack[i]
      /\ Top'.item = Top.item
      /\ Top'.head = IF Top.head = 0 THEN n ELSE Top.head
      /\ Top'.current_item = n
      /\ stack'[l].open = Top.open
  <2>1. Attached(n)
    BY <1>1, AttachIsAttached
  <2>2. node' = [m \in {n} \cup DOMAIN node |->
                   IF m = n THEN [NewItem EXCEPT !.prev = Top.current_item]
                   ELSE IF m = Top.current_item THEN [node[m] EXCEPT !.next =
                     n]
                   ELSE node[m]]
    BY Zenon DEF Attach
  <2>3. node'[n] = [NewItem EXCEPT !.prev = Top.current_item]
    BY <2>2, Zenon
  <2>4. node'[n].prev = cur
    BY <2>3 DEF NewItem
  <2>5. ASSUME NEW m \in DOMAIN node
        PROVE  /\ node'[m].prev = node[m].prev
               /\ node'[m].type = node[m].type
               /\ node'[m].value = node[m].value
    <3>1. node[m] \in Node
      BY <1>1, NodeFacts
    <3>2. node'[m] = IF m = Top.current_item THEN [node[m] EXCEPT !.next = n]
                     ELSE node[m]
      BY <2>2, Zenon
    <3>3. QED
      BY <3>1, <3>2 DEF Node
  <2>6. stack'[l].open = Top.open
    <3> DEFINE f == [Top EXCEPT !.head = IF Top.head = 0 THEN n ELSE Top.head,
                                !.current_item = n]
    <3>1. stack' = [stack EXCEPT ![Len(stack)] = f]
      BY Zenon DEF Attach, Top
    <3>2. Top \in Frame
      BY <1>2, <1>3
    <3>3. f.open = Top.open
      BY <3>2 DEF Frame
    <3> HIDE DEF f
    <3>4. stack'[l] = f
      BY <1>1, <1>3, <3>1 DEF Blocks
    <3>5. QED
      BY <3>3, <3>4
  <2>7. QED
    BY <2>1, <2>4, <2>5, <2>6 DEF Attached
<1>6. /\ at \in [DOMAIN node -> Label]
      /\ \A m \in DOMAIN node :
           Ordered(p, at, m) /\ Named(p, at, m) /\ Followed(p, at, m)
      /\ \A i \in 1 .. l : Begun(p, at, stack[i])
      /\ at[root].up = 0 /\ at[root].value = 0
      /\ IF cur = 0 THEN Len(p) = at[Top.item].value + 1
         ELSE Len(p) = at[cur].end + 1 /\ p[Len(p)] = Comma
  BY DEF Labelled, Arrived
<1>7. Len(p) \in Nat
  BY LenProperties DEF Texts
<1> HIDE DEF l, cur
<1>8. stack'[l].item = Top.item /\ stack'[l].current_item = n
        /\ stack'[l].head = IF Top.head = 0 THEN n ELSE Top.head
  BY <1>5 DEF Top, l
<1>9. ListItems' = ListItems /\ InProgress = ListItems
        /\ InProgress' = ListItems \cup {n}
  <2>1. \A i \in 1 .. l : stack'[i].item = stack[i].item
    <3>1. \A i \in 1 .. l : i = l \/ i \in 1 .. l - 1
      BY <1>3
    <3>2. QED
      BY <1>3, <1>5, <1>8, <3>1
  <2>2. ListItems' = ListItems
    BY <1>5, <2>1 DEF ListItems, l
  <2>3. QED
    BY <2>2 DEF InProgress
<1>10. cur # 0 => cur \in DOMAIN node /\ at[cur].up = Top.item
         /\ node[cur].next = 0
  <2>1. Begun(p, at, Top) /\ cur = stack[l].current_item
    BY <1>3, <1>6 DEF cur
  <2>2. QED
    BY <1>2, <1>3, <2>1 DEF Begun, cur
<1>11. Keeps(at, b)
  <2>1. ASSUME NEW m \in DOMAIN node
        PROVE  /\ m \in InProgress' => m \in InProgress
               /\ b[m] = at[m]
               /\ node[m].next # 0 => node'[m].next = node[m].next
               /\ at[m].up \notin InProgress => node'[m].next = node[m].next
    BY <1>2, <1>4, <1>5, <1>9, <1>10
  <2>2. \A m \in DOMAIN node : node[m].next # 0 => node[m].next \in DOMAIN node
    BY <1>1, NodeFacts
  <2>3. QED
    BY <1>5, <2>1, <2>2 DEF Keeps
<1>12. <<>> \in Texts /\ p \o <<>> = p
  BY EmptySeq, ConcatEmptySeq DEF Texts
<1>13. ASSUME NEW m \in DOMAIN node
       PROVE  /\ Ordered(p, b, m)' /\ Named(p, b, m)' /\ Followed(p, b, m)'
              /\ m \notin InProgress' => Valued(p, b, m)'
  <2>1. /\ Ordered(p, b, m)' /\ Named(p, b, m)'
        /\ m \notin InProgress => Valued(p, b, m)'
    <3>1. node'[m].string = node[m].string /\ b[m] = at[m]
      BY <1>5
    <3>2. /\ Ordered(p \o <<>>, b, m)' /\ Named(p \o <<>>, b, m)'
          /\ m \notin InProgress => Valued(p \o <<>>, b, m)'
      BY <1>1, <1>11, <1>12, <3>1, KeptItem
    <3>3. QED
      BY <1>12, <3>2
  <2>2. CASE m = cur
    <3>1. at[m].up = Top.item /\ Len(p) = at[m].end + 1 /\ p[Len(p)] = Comma
      BY <1>2, <1>6, <1>10, <2>2
    <3>2. m \notin InProgress'
      BY <1>4, <1>9, <2>2
    <3>3. b[m].end = at[m].end /\ b[m].up = at[m].up /\ b[n].name = Len(p)
            /\ b[n].up = Top.item
      BY <2>2
    <3>4. at[m].end \in Nat
      BY <1>6, LabelFacts
    <3>5. node'[m].next = n /\ node'[n].prev = m /\ n # 0
      BY <1>5, <2>2
    <3>6. Followed(p, b, m)'
      BY <1>7, <3>1, <3>2, <3>3, <3>4, <3>5 DEF Followed
    <3>7. QED
      BY <1>4, <1>9, <2>1, <2>2, <3>6
  <2>3. CASE m # cur
    <3>1. node'[m].next = node[m].next
      BY <1>5, <2>3
    <3>2. ASSUME node[m].next = 0, at[m].up # 0, NEW i \in 1 .. Len(stack'),
                 at[m].up = stack'[i].item
          PROVE  m = stack'[i].current_item
      <4>1. i = l \/ (i # l /\ i \in 1 .. l - 1)
        BY <1>3, <1>5
      <4>2. i \in 1 .. l
        BY <1>5
      <4>3. \A j \in 1 .. l : at[m].up = stack[j].item
              => m = stack[j].current_item
        BY <1>6, <3>2 DEF Followed, l
      <4>4. i # l
        BY <1>3, <1>8, <2>3, <3>2, <4>3 DEF cur
      <4>5. QED
        BY <1>5, <3>2, <4>1, <4>2, <4>3, <4>4
    <3>3. at[m].up \in ListItems' \/ at[m].up \notin InProgress
      BY <1>9
    <3>4. Ordered(p, at, m) /\ Followed(p, at, m)
      BY <1>6
    <3>5. Followed(p \o <<>>, b, m)'
      BY <1>1, <1>6, <1>11, <1>12, <3>1, <3>2, <3>3, <3>4, KeptFollowed
    <3>6. QED
      BY <1>9, <1>12, <2>1, <3>5
  <2>4. QED
    BY <2>2, <2>3
<1>14. Ordered(p, b, n)' /\ Named(p, b, n)' /\ Followed(p, b, n)'
  <2>1. Ordered(p, b, n)'
    BY <1>4, <1>5, <1>7 DEF Ordered
  <2>2. Named(p, b, n)'
    BY <1>5 DEF Named
  <2>3. \A i \in 1 .. Len(stack') : b[n].up = stack'[i].item
          => n = stack'[i].current_item
    <3>1. SUFFICES ASSUME NEW i \in 1 .. l, Top.item = stack'[i].item
                   PROVE  n = stack'[i].current_item
      BY <1>5
    <3>2. i = l \/ i \in 1 .. l - 1
      BY <1>3
    <3>3. CASE i = l
      BY <1>8, <3>3
    <3>4. CASE i \in 1 .. l - 1
      <4>1. stack[i].item = stack[l].item /\ i # l
        BY <1>3, <1>5, <3>1, <3>4
      <4>2. QED
        BY <1>2, <1>3, <4>1
    <3>5. QED
      BY <3>2, <3>3, <3>4
  <2>4. b[n].up \in ListItems'
    BY <1>4, <1>9
  <2>5. Followed(p, b, n)'
    BY <1>5, <2>3, <2>4 DEF Followed
  <2>6. QED
    BY <2>1, <2>2, <2>5
<1>15. ASSUME NEW i \in 1 .. Len(stack')
       PROVE  Begun(p, b, stack'[i])
  <2>1. i \in 1 .. l /\ (i = l \/ i \in 1 .. l - 1)
    BY <1>3, <1>5
  <2>2. Begun(p \o <<>>, b, stack[i])
    <3>1. b[stack[i].item].value = at[stack[i].item].value
      BY <1>2, <2>1
    <3>2. QED
      BY <1>1, <1>11, <1>12, <2>1, <3>1, StillBegun DEF l
  <2>3. CASE i \in 1 .. l - 1
    BY <1>5, <1>12, <2>2, <2>3
  <2>4. CASE i = l
    <3>1. Begun(p, b, Top)
      BY <1>3, <1>12, <2>2, <2>4
    <3>2. /\ b[Top.item].value < Len(p)
          /\ p[b[Top.item].value + 1] = Top.open
          /\ Top.head # 0 => /\ b[Top.head].name = b[Top.item].value + 1
                             /\ b[Top.head].up = Top.item
      BY <3>1 DEF Begun
    <3>3. Top.head = 0 => b[n].name = b[Top.item].value + 1
            /\ b[n].up = Top.item
      <4>1. Top.head = 0 => cur = 0
        BY <1>2, <1>3 DEF cur
      <4>2. QED
        BY <1>4, <1>6, <4>1
    <3>4. b[n].up = Top.item
      OBVIOUS
    <3>5. Begun(p, b, stack'[l])
      BY <1>5, <1>8, <3>2, <3>3, <3>4 DEF Begun
    <3>6. QED
      BY <2>4, <3>5
  <2>5. QED
    BY <2>1, <2>3, <2>4
<1>16. Arrived(p, b)'
  <2>1. b[root].up = 0 /\ b[root].value = 0
    BY <1>2, <1>6
  <2>2. \A m \in DOMAIN node' : b[m].up # n
    <3>1. \A m \in DOMAIN node : at[m].up \in {0} \cup DOMAIN node
      BY <1>6 DEF Ordered
    <3>2. QED
      BY <1>4, <1>5, <3>1
  <2>3. b[n].value = Len(p)
    OBVIOUS
  <2>4. QED
    BY <2>1, <2>2, <2>3 DEF Arrived
<1>17. b \in [DOMAIN node' -> Label] /\ n \in InProgress'
  BY <1>5, <1>9
<1>18. \A m \in DOMAIN node' :
         /\ Ordered(p, b, m)' /\ Named(p, b, m)' /\ Followed(p, b, m)'
         /\ m \notin InProgress' => Valued(p, b, m)'
  BY <1>5, <1>13, <1>14, <1>17
<1>19. QED
  BY <1>15, <1>16, <1>17, <1>18 DEF Labelled

-----------------------------------------------------------------------------
(* A list is complete *)

(* What list_ends makes of the nodes.                                      *)
LEMMA ListEndsNodes ==
  ASSUME Blocks, Links, Frames, pc = "value", list_ends
  PROVE  \A m \in DOMAIN node :
           /\ m # Top.head => node'[m].prev = node[m].prev
           /\ m = Top.head => node'[m].prev = Top.current_item
           /\ m = Top.item => node'[m].type = ListType[Top.open]
           /\ m # Top.item => node'[m].type = node[m].type
           /\ node'[m].value = node[m].value
           /\ node'[m].valuestring = node[m].valuestring
           /\ node'[m].string = node[m].string
<1>1. /\ Top.item \in DOMAIN node /\ Top.head \in DOMAIN node
      /\ node \in [DOMAIN node -> Node]
  BY ListEndsLinks DEF Blocks
<1> DEFINE linked == [node EXCEPT ![Top.head].prev = Top.current_item]
           typed  == [linked EXCEPT ![Top.item].type = ListType[Top.open],
                                    ![Top.item].child = Top.head]
<1>2. node' = typed
  BY Zenon DEF list_ends
<1>3. Top.current_item \in Nat /\ Top.head \in Nat
        /\ ListType[Top.open] \in Types
  <2>1. stack \in Seq(Frame) /\ stack # <<>>
    BY DEF list_ends, Blocks
  <2>2. Top \in Frame
    BY <2>1, TopIsAFrame
  <2>3. Top.current_item \in Nat /\ Top.head \in Nat /\ Top.open \in Opening
    BY <2>2 DEF Frame
  <2>4. QED
    BY <2>3 DEF ListType, Opening, Types
<1>4. /\ linked \in [DOMAIN node -> Node]
      /\ \A m \in DOMAIN node :
           /\ m # Top.head => linked[m].prev = node[m].prev
           /\ m = Top.head => linked[m].prev = Top.current_item
           /\ linked[m].type = node[m].type
           /\ linked[m].value = node[m].value
           /\ linked[m].valuestring = node[m].valuestring
           /\ linked[m].string = node[m].string
  BY <1>1, <1>3 DEF Node
<1> HIDE DEF linked
<1>5. \A m \in DOMAIN node :
        /\ typed[m].prev = linked[m].prev
        /\ m = Top.item => typed[m].type = ListType[Top.open]
        /\ m # Top.item => typed[m].type = linked[m].type
        /\ typed[m].value = linked[m].value
        /\ typed[m].valuestring = linked[m].valuestring
        /\ typed[m].string = linked[m].string
  BY <1>1, <1>3, <1>4 DEF Node
<1> HIDE DEF typed
<1>6. QED
  BY <1>2, <1>4, <1>5

(* The bracket was read that closes the innermost list: the item of that   *)
(* list ends behind it.                                                    *)
LEMMA ListClosed ==
  ASSUME JsonInv, list_ends, NEW p \in Texts, NEW at, Labelled(p, at),
         NEW c \in Texts, Len(c) = 1, c[1] = Closing[Top.open],
         NEW n, n = Top.item,
         NEW b \in [DOMAIN node -> Label],
         \A m \in DOMAIN node : m # n => b[m] = at[m],
         b[n].name = at[n].name, b[n].value = at[n].value,
         b[n].up = at[n].up, b[n].end = Len(p \o c)
  PROVE  Labelled(p \o c, b)'
<1> DEFINE t == p \o c
<1>1. Blocks /\ Links /\ Strings /\ Parsing /\ stack # <<>> /\ Frames
        /\ pc = "value" /\ pc' = "value" /\ root' = root /\ str' = str
        /\ stack' = Pop /\ item' = n
  BY DEF JsonInv, HeapInv, Parsing, Places, list_ends
<1>. PICK l : l = Len(stack)
  OBVIOUS
<1>. PICK h : h = Top.head
  OBVIOUS
<1>. PICK k : k = Top.current_item
  OBVIOUS
<1>. PICK o : o = Top.open
  OBVIOUS
<1>2. /\ l \in 1 .. l /\ l \in Nat /\ Top = stack[l] /\ o \in Opening
      /\ Len(stack') = l - 1 /\ \A i \in 1 .. l - 1 : stack'[i] = stack[i]
  <2>1. /\ Len(stack) \in 1 .. Len(stack) /\ Top \in Frame
             /\ Len(Pop) = Len(stack) - 1
        /\ \A i \in 1 .. Len(stack) - 1 : Pop[i] = stack[i]
    BY <1>1, TopIsAFrame DEF Blocks
  <2>2. Top.open \in Opening
    BY <2>1 DEF Frame
  <2>3. QED
    BY <1>1, <2>1, <2>2 DEF Top
<1>3. /\ ListItems \subseteq DOMAIN node /\ 0 \notin DOMAIN node
      /\ root \in DOMAIN node
      /\ \A i \in 1 .. l :
              /\ stack[i].item \in ListItems
              /\ stack[i].head \in {0} \cup DOMAIN node
              /\ stack[i].current_item \in {0} \cup DOMAIN node
              /\ stack[i].head = 0 <=> stack[i].current_item = 0
              /\ stack[i].current_item # 0 =>
                   node[stack[i].current_item].next = 0
      /\ \A i, j \in 1 .. l : stack[i].item = stack[j].item => i = j
      /\ LastItem(l) \notin ListItems
  BY <1>1, ProgressFacts
<1>4. /\ n \in DOMAIN node /\ h \in DOMAIN node /\ node[n].child = 0
           /\ n \in ListItems
      /\ DOMAIN node' = DOMAIN node
      /\ \A m \in DOMAIN node :
           /\ node'[m].next = node[m].next
           /\ node'[m].child = IF m = n THEN h ELSE node[m].child
           /\ m # h => node'[m].prev = node[m].prev
           /\ m = h => node'[m].prev = k
           /\ m = n => node'[m].type = ListType[o]
           /\ m # n => node'[m].type = node[m].type
           /\ node'[m].value = node[m].value
           /\ node'[m].valuestring = node[m].valuestring
           /\ node'[m].string = node[m].string
  <2>1. /\ Top.item \in DOMAIN node /\ Top.head \in DOMAIN node
        /\ node[Top.item].child = 0
        /\ DOMAIN node' = DOMAIN node
        /\ \A m \in DOMAIN node :
              /\ node'[m].next = node[m].next
              /\ node'[m].child = IF m = Top.item THEN Top.head
                                  ELSE node[m].child
    BY <1>1, ListEndsLinks
  <2>2. \A m \in DOMAIN node :
           /\ m # Top.head => node'[m].prev = node[m].prev
           /\ m = Top.head => node'[m].prev = Top.current_item
           /\ m = Top.item => node'[m].type = ListType[Top.open]
           /\ m # Top.item => node'[m].type = node[m].type
           /\ node'[m].value = node[m].value
           /\ node'[m].valuestring = node[m].valuestring
           /\ node'[m].string = node[m].string
    BY <1>1, ListEndsNodes
  <2>3. QED
    BY <1>2, <1>3, <2>1, <2>2
<1>5. /\ LastItem(l) = k /\ k # 0 /\ k \in DOMAIN node /\ k \notin ListItems
      /\ ListHead(l) = h /\ h # 0
      /\ stack[l].item = n /\ stack[l].head = h /\ stack[l].current_item = k
      /\ stack[l].open = o
      /\ node[k].next = 0
  <2>1. l # 0 /\ h # 0
    BY <1>2, <1>3, <1>4
  <2>2. LastItem(l) = k /\ ListHead(l) = h
    BY <1>2, <2>1 DEF LastItem, ListHead
  <2>3. QED
    BY <1>2, <1>3, <2>1, <2>2
<1>6. /\ at \in [DOMAIN node -> Label]
      /\ \A m \in DOMAIN node :
           Ordered(p, at, m) /\ Named(p, at, m) /\ Followed(p, at, m)
      /\ \A i \in 1 .. l : Begun(p, at, stack[i])
      /\ at[root].up = 0 /\ at[root].value = 0
      /\ at[k].end = Len(p)
  BY <1>1, <1>5 DEF Labelled, Arrived
<1>7. /\ at[n].value < Len(p) /\ p[at[n].value + 1] = o
      /\ at[h].name = at[n].value + 1 /\ at[h].up = n
      /\ at[k].up = n
  <2>1. Begun(p, at, stack[l])
    BY <1>2, <1>6
  <2>2. QED
    BY <1>5, <2>1 DEF Begun
<1>8. /\ Len(p) \in Nat /\ Len(t) = Len(p) + 1 /\ t[Len(p) + 1] = Closing[o]
      /\ \A i \in 1 .. Len(p) : t[i] = p[i]
  <2>1. /\ Len(p) \in Nat /\ Len(t) = Len(p) + Len(c)
        /\ \A i \in 1 .. Len(c) : t[Len(p) + i] = c[i]
        /\ \A i \in 1 .. Len(p) : t[i] = p[i]
    BY TextGrows
  <2>2. QED
    BY <2>1
<1>9. /\ InProgress = ListItems /\ InProgress' = ListItems'
      /\ ListItems' = ListItems \ {n}
  <2>1. \A i \in 1 .. l : i = l \/ (i # l /\ i \in 1 .. l - 1)
    BY <1>2
  <2>2. \A i \in 1 .. l - 1 : i \in 1 .. l /\ i # l
    BY <1>2
  <2>3. ASSUME NEW x \in ListItems, x # n
        PROVE  x \in ListItems'
    <3>1. PICK i \in 1 .. l : x = stack[i].item
      BY DEF ListItems
    <3>2. i \in 1 .. l - 1
      BY <1>5, <2>1, <2>3, <3>1
    <3>3. QED
      BY <1>2, <3>1, <3>2 DEF ListItems
  <2>4. ASSUME NEW x \in ListItems'
        PROVE  x \in ListItems /\ x # n
    <3>1. PICK i \in 1 .. l - 1 : x = stack[i].item
      <4>1. PICK i \in 1 .. Len(stack') : x = stack'[i].item
        BY <2>4 DEF ListItems
      <4>2. i \in 1 .. l - 1 /\ stack'[i] = stack[i]
        BY <1>2, <4>1
      <4>3. QED
        BY <4>1, <4>2
    <3>2. i \in 1 .. l /\ i # l /\ l \in 1 .. l
      BY <1>2, <2>2, <3>1
    <3>3. QED
      BY <1>3, <1>5, <3>1, <3>2
  <2>5. ListItems' = ListItems \ {n}
    BY <2>3, <2>4
  <2>6. QED
    BY <1>1, <2>5 DEF InProgress
<1> HIDE DEF t
<1>10. b[n].end = Len(t) /\ b[n].end = Len(p) + 1
  BY <1>8 DEF t
<1>11. \A m \in DOMAIN node : b[m].name = at[m].name /\ b[m].up = at[m].up
         /\ b[m].value = at[m].value
  OBVIOUS
<1>12. Keeps(at, b)
  <2>1. ASSUME NEW m \in DOMAIN node
        PROVE  /\ m \in InProgress' => m \in InProgress
               /\ b[m].name = at[m].name /\ b[m].up = at[m].up
               /\ node[m].child # 0 => node'[m].child = node[m].child
               /\ node'[m].next = node[m].next
               /\ at[m].up \notin InProgress => node'[m].prev = node[m].prev
    BY <1>4, <1>7, <1>9, <1>11
  <2>2. ASSUME NEW m \in DOMAIN node, node[m].next # 0
        PROVE  node'[node[m].next].prev = node[node[m].next].prev
    <3>1. node[m].next \in DOMAIN node
      BY <1>1, <2>2, NodeFacts
    <3>2. node[m].next # h
      <4>1. l \in Depths
        BY <1>2 DEF Depths
      <4>2. ListHead(l) \notin {node[m].next, node[m].child}
        BY <1>1, <1>5, <4>1 DEF Links
      <4>3. QED
        BY <1>5, <4>2
    <3>3. QED
      BY <1>4, <3>1, <3>2
  <2>3. \A m \in DOMAIN node : m \notin InProgress => m # n
    BY <1>4, <1>9
  <2>4. QED
    BY <1>1, <1>4, <2>1, <2>2, <2>3 DEF Keeps
<1>13. Valued(t, b, n)'
  <2>1. b[n].value + 1 < b[n].end
    BY <1>6, <1>7, <1>8, <1>10, <1>11, <1>4, LabelFacts
  <2>2. t[b[n].value + 1] = o
    <3>1. at[n].value + 1 \in 1 .. Len(p)
      <4>1. at[n].value \in Nat
        BY <1>4, <1>6, LabelFacts
      <4>2. QED
        BY <1>7, <1>8, <4>1
    <3>2. QED
      BY <1>7, <1>8, <1>11, <1>4, <3>1
  <2>3. t[b[n].end] = Closing[o]
    BY <1>8, <1>10
  <2>4. \A S \in SUBSET DOMAIN node' : h \in S /\ Closed(S)' => k \in S
    <3>1. Reaches(h, k)
      <4>1. l \in Depths
        BY <1>2 DEF Depths
      <4>2. \A S \in SUBSET DOMAIN node :
              ListHead(l) \in S /\ Closed(S) => LastItem(l) \in S
        BY <1>1, <1>5, <4>1 DEF Frames
      <4>3. QED
        BY <1>5, <4>2 DEF Reaches
    <3>2. QED
      BY <1>3, <1>4, <1>12, <3>1, KeptReach
  <2>5. /\ node'[n].child = h /\ node'[h].prev = k /\ node'[k].next = 0
        /\ node'[n].type = ListType[o]
    BY <1>4, <1>5
  <2>6. /\ b[h].name = b[n].value + 1 /\ b[h].up = n /\ b[k].up = n
        /\ k \in DOMAIN node'
    BY <1>4, <1>5, <1>7, <1>11
  <2>7. Listed(t, b, n, o)'
    BY <1>5, <2>1, <2>2, <2>3, <2>4, <2>5, <2>6 DEF Listed, Reaches
  <2>8. QED
    BY <1>2, <2>5, <2>7 DEF Valued
<1>14. ASSUME NEW m \in DOMAIN node
       PROVE  /\ Ordered(t, b, m)' /\ Named(t, b, m)' /\ Followed(t, b, m)'
              /\ m \notin InProgress' => Valued(t, b, m)'
  <2>1. m \in InProgress =>
           /\ node'[m].string = node[m].string
           /\ b[m].value = at[m].value
           /\ b[m].end \in {at[m].end, Len(t)}
    BY <1>4, <1>10, <1>11
  <2>2. /\ Ordered(t, b, m)' /\ Named(t, b, m)'
        /\ m \notin InProgress => Valued(t, b, m)'
    BY <1>1, <1>12, <2>1, KeptItem DEF t
  <2>3. m \notin InProgress' => Valued(t, b, m)'
    <3>1. CASE m = n
      BY <1>13, <3>1
    <3>2. CASE m # n
      BY <1>9, <2>2, <3>2
    <3>3. QED
      BY <3>1, <3>2
  <2>4. ASSUME node[m].next = 0, at[m].up # 0, NEW i \in 1 .. Len(stack'),
               at[m].up = stack'[i].item
        PROVE  m = stack'[i].current_item
    <3>1. i \in 1 .. l /\ stack'[i] = stack[i] /\ l = Len(stack)
      BY <1>2
    <3>2. \A j \in 1 .. Len(stack) : at[m].up = stack[j].item
            => m = stack[j].current_item
      BY <1>6, <2>4 DEF Followed
    <3>3. QED
      BY <2>4, <3>1, <3>2
  <2>5. CASE at[m].up # n
    <3>1. at[m].up \in ListItems' \/ at[m].up \notin InProgress
      BY <1>9, <2>5
    <3>2. node'[m].next = node[m].next /\ Ordered(p, at, m)
            /\ Followed(p, at, m)
      BY <1>4, <1>6
    <3>3. Followed(t, b, m)'
      BY <1>1, <1>6, <1>12, <2>4, <3>1, <3>2, KeptFollowed DEF t
    <3>4. QED
      BY <2>2, <2>3, <3>3
  <2>6. CASE at[m].up = n /\ node[m].next = 0
    <3>1. m = k
      <4>1. l \in 1 .. Len(stack) /\ n # 0 /\ Followed(p, at, m)
        BY <1>2, <1>3, <1>4, <1>6
      <4>2. QED
        BY <1>5, <2>6, <4>1 DEF Followed
    <3>2. b[b[m].up].end = b[m].end + 1
      <4>1. m # n
        BY <1>4, <1>5, <3>1
      <4>2. QED
        BY <1>6, <1>10, <1>11, <2>6, <3>1, <4>1
    <3>3. m \notin InProgress'
      BY <1>5, <1>9, <3>1
    <3>4. node'[m].next = 0 /\ b[m].up = at[m].up
      BY <1>4, <1>11, <2>6
    <3>5. Followed(t, b, m)'
      BY <2>4, <2>6, <3>2, <3>3, <3>4 DEF Followed
    <3>6. QED
      BY <2>2, <2>3, <3>5
  <2>7. CASE at[m].up = n /\ node[m].next # 0
    <3>1. /\ m \notin InProgress /\ at[m].end < Len(p)
          /\ p[at[m].end + 1] = Comma
          /\ at[node[m].next].name = at[m].end + 1
          /\ at[node[m].next].up = at[m].up
          /\ node[node[m].next].prev = m
      BY <1>6, <2>7 DEF Followed
    <3>2. /\ node[m].next \in DOMAIN node /\ at[m].end \in Nat
      BY <1>1, <1>6, <2>7, NodeFacts, LabelFacts
    <3>3. /\ node'[node[m].next].prev = m /\ node'[m].next = node[m].next
          /\ b[m] = at[m] /\ m \notin InProgress'
          /\ b[node[m].next].name = at[m].end + 1
          /\ b[node[m].next].up = at[m].up
      BY <1>11, <1>12, <2>7, <3>1, <3>2 DEF Keeps
    <3>4. at[m].end + 1 \in 1 .. Len(p) /\ at[m].end < Len(t)
      BY <1>8, <3>1, <3>2
    <3>5. t[at[m].end + 1] = Comma
      BY <1>8, <3>1, <3>4
    <3>6. Followed(t, b, m)'
      BY <2>7, <3>3, <3>4, <3>5 DEF Followed
    <3>7. QED
      BY <2>2, <2>3, <3>6
  <2>8. QED
    BY <2>5, <2>6, <2>7
<1>15. ASSUME NEW i \in 1 .. Len(stack')
       PROVE  Begun(t, b, stack'[i])
  <2>1. i \in 1 .. l - 1 /\ i \in 1 .. l /\ stack'[i] = stack[i]
          /\ stack[i].item \in DOMAIN node
    BY <1>2, <1>3
  <2>2. b[stack[i].item].value = at[stack[i].item].value
    BY <1>11, <2>1
  <2>3. Begun(t, b, stack[i])
    BY <1>1, <1>12, <2>1, <2>2, StillBegun DEF t
  <2>4. QED
    BY <2>1, <2>3
<1>16. Arrived(t, b)'
  <2>1. n = LastItem(Len(stack))'
    <3>1. n = LastItem(l - 1)
      BY <1>1, <1>2, <1>5 DEF Frames
    <3>2. CASE l = 1
      BY <1>1, <1>2, <3>1, <3>2 DEF LastItem
    <3>3. CASE l # 1
      <4>1. l - 1 \in 1 .. l - 1 /\ l - 1 # 0
        BY <1>2, <3>3
      <4>2. QED
        BY <1>1, <1>2, <3>1, <4>1 DEF LastItem
    <3>4. QED
      BY <3>2, <3>3
  <2>2. b[root].up = 0 /\ b[root].value = 0
    BY <1>3, <1>6, <1>11
  <2>3. QED
    BY <1>1, <1>10, <2>1, <2>2 DEF Arrived
<1>17. b \in [DOMAIN node' -> Label]
  BY <1>4
<1>18. QED
  BY <1>4, <1>14, <1>15, <1>16, <1>17 DEF Labelled, t

-----------------------------------------------------------------------------
(* What the steps read *)

(* What is read next, and where in the text the tree is then.              *)
LEMMA ToldNext ==
  ASSUME text' = text, NEW p, NEW at, Labelled(p, at)',
         Says(Read(IF pc' = "next_item" THEN offset' ELSE offset' - 1), p)
  PROVE  Told'
BY DEF Told, Consumed, Read

(* A unit that is neither a blank nor begins a string says itself.         *)
LEMMA ReadPlain ==
  ASSUME text \in Texts, NEW k \in 1 .. Len(text), NEW p,
         Says(Read(k - 1), p), text[k] \notin {Quote, Blank}
  PROVE  Says(Read(k), p \o <<text[k]>>) /\ <<text[k]>> \in Texts
<1>1. Says(Read(k), p \o IF text[k] = Blank THEN <<>> ELSE <<text[k]>>)
  BY ReadUnit
<1>2. text[k] \in Units \cup {NUL}
  BY ElementOfSeq DEF Texts
<1>3. <<text[k]>> \in Texts
  BY <1>2 DEF Texts
<1>4. QED
  BY <1>1, <1>3

(* What a value says that is not a list with something in it.              *)
Simple(n, q) ==
  \/ Plain(n, q)
  \/ \E open \in Opening :
       /\ node[n].type = ListType[open] /\ node[n].child = 0
       /\ Len(q) = 2 /\ q[1] = open /\ q[2] = Closing[open]

(* One step reads a value.                                                 *)
LEMMA SimpleRead ==
  ASSUME JsonInv, pc = "parse_value", Told, text' = text,
         pc' = "value", stack' = stack, root' = root, item' = item,
         NEW q \in Texts,
         \A p : Says(Read(offset - 1), p) => Says(Read(offset' - 1), p \o q),
         DOMAIN node' = DOMAIN node,
         \A m \in DOMAIN node : m # item => node'[m] = node[m],
         node'[item].next = node[item].next,
           node'[item].prev = node[item].prev,
         node'[item].child = node[item].child,
         node'[item].string = node[item].string,
         \A s \in DOMAIN str : s \in DOMAIN str' /\ str'[s] = str[s],
         Simple(item, q)'
  PROVE  Told'
<1>1. PICK p, at : Says(Read(offset - 1), p) /\ Labelled(p, at)
  BY DEF Told, Consumed
<1>2. p \in Texts /\ at \in [DOMAIN node -> Label] /\ at[item].value = Len(p)
  BY <1>1 DEF Says, Labelled, Arrived
<1>3. item \in DOMAIN node
  BY ProgressFacts DEF Parsing
<1> DEFINE t == p \o q
<1>4. /\ Len(p) \in Nat /\ Len(q) \in Nat /\ Len(t) = Len(p) + Len(q)
      /\ \A i \in 1 .. Len(q) : t[Len(p) + i] = q[i]
      /\ Between(t, Len(p), Len(p) + Len(q)) = q
  BY <1>2, TextGrows
<1> HIDE DEF t
<1>. PICK b : b = [at EXCEPT ![item].end = Len(t)]
  OBVIOUS
<1>5. /\ b \in [DOMAIN node -> Label]
      /\ \A m \in DOMAIN node : m # item => b[m] = at[m]
      /\ b[item].name = at[item].name /\ b[item].value = at[item].value
      /\ b[item].up = at[item].up /\ b[item].end = Len(t)
  <2>1. Len(t) \in Nat
    BY <1>4
  <2>2. QED
    BY <1>2, <1>3, <2>1 DEF Label
<1>6. Valued(t, b, item)'
  <2>. PICK n : n = item'
    OBVIOUS
  <2>1. /\ b[n].value = Len(p) /\ b[n].end = Len(p) + Len(q) /\ n = item
        /\ Between(t, b[n].value, b[n].end) = q
    BY <1>2, <1>4, <1>5
  <2>2. Simple(n, q)'
    OBVIOUS
  <2>3. ASSUME NEW open \in Opening,
               node'[n].type = ListType[open], node'[n].child = 0,
               Len(q) = 2, q[1] = open, q[2] = Closing[open]
        PROVE  Listed(t, b, n, open)'
    <3>1. 1 \in 1 .. Len(q) /\ 2 \in 1 .. Len(q)
      BY <2>3
    <3>2. t[Len(p) + 1] = open /\ t[Len(p) + 2] = Closing[open]
      BY <1>4, <2>3, <3>1
    <3>3. b[n].value + 1 < b[n].end
      BY <1>4, <2>1, <2>3
    <3>4. QED
      BY <2>1, <2>3, <3>2, <3>3 DEF Listed
  <2>4. Valued(t, b, n)'
    <3>1. CASE \E open \in Opening :
                 /\ node'[n].type = ListType[open] /\ node'[n].child = 0
                 /\ Len(q) = 2 /\ q[1] = open /\ q[2] = Closing[open]
      BY <2>3, <3>1 DEF Valued
    <3>2. CASE Plain(n, q)'
      BY <2>1, <3>2 DEF Valued
    <3>3. QED
      BY <2>2, <3>1, <3>2 DEF Simple
  <2>5. QED
    BY <2>1, <2>4
<1>7. Labelled(t, b)'
  BY <1>1, <1>2, <1>5, <1>6, ValueRead DEF t
<1>8. Says(Read(offset' - 1), t)
  BY <1>1 DEF t
<1>9. QED
  BY <1>7, <1>8, ToldNext

(* parse_literal: the item says the literal.                               *)
LEMMA LiteralTold ==
  ASSUME JsonInv, Told, parse_literal
  PROVE  Told'
<1>1. /\ pc = "parse_value" /\ text[offset] = Literal
      /\ node' = [node EXCEPT ![item].type = "True"]
      /\ offset' = offset + 1 /\ pc' = "value"
      /\ UNCHANGED <<text, stack, item, root, str>>
  BY DEF parse_literal
<1>2. /\ item \in DOMAIN node /\ node \in [DOMAIN node -> Node]
      /\ node[item].child = 0
  BY <1>1, ProgressFacts
     DEF Parsing, JsonInv, HeapInv, Blocks, Places, ItemIsNew
<1>3. offset \in 1 .. Len(text) /\ text \in Texts /\ offset' - 1 = offset
  BY <1>1, LenProperties DEF JsonInv, JsonTypeOK, ReadsInBuffer, TextInv, Texts
<1>. PICK q : q = <<text[offset]>>
  OBVIOUS
<1>4. \A p : Says(Read(offset - 1), p) =>
               Says(Read(offset' - 1), p \o q) /\ q \in Texts
  <2>1. Literal \notin {Quote, Blank}
    BY DEF Literal, Quote, Blank
  <2>2. QED
    BY <1>1, <1>3, <2>1, ReadPlain
<1>5. q \in Texts
  BY <1>1, <1>4 DEF Told, Consumed
<1>6. q = <<Literal>>
  BY <1>1
<1>7. /\ DOMAIN node' = DOMAIN node
      /\ \A m \in DOMAIN node : m # item => node'[m] = node[m]
      /\ node'[item].next = node[item].next
           /\ node'[item].prev = node[item].prev
      /\ node'[item].child = node[item].child
      /\ node'[item].string = node[item].string
      /\ node'[item].type = "True"
  BY <1>1, <1>2 DEF Node
<1>8. Simple(item, q)'
  BY <1>1, <1>2, <1>6, <1>7 DEF Simple, Plain
<1>9. QED
  BY <1>1, <1>4, <1>5, <1>7, <1>8, SimpleRead

(* parse_number: the item says the digits it has read.                     *)
LEMMA NumberTold ==
  ASSUME JsonInv, Told, parse_number, pc' = "value"
  PROVE  Told'
<1> DEFINE first == IF text[offset] = "-" THEN offset + 1 ELSE offset
           after == {j \in first .. Len(text) : text[j] # "1"}
           end == Min(after)
<1>. PICK q : q = SubSeq(text, offset, end - 1)
  OBVIOUS
<1>1. /\ pc = "parse_value" /\ text[offset] \in {"-", "1"} /\ end > first
      /\ node' = [node EXCEPT ![item].type = "Number", ![item].value = q]
      /\ offset' = end
      /\ UNCHANGED <<text, stack, item, root, str>>
  BY Zenon DEF parse_number, ReturnsFalse
<1>2. /\ item \in DOMAIN node /\ node \in [DOMAIN node -> Node]
      /\ node[item].child = 0
  BY <1>1, ProgressFacts
     DEF Parsing, JsonInv, HeapInv, Blocks, Places, ItemIsNew
<1>3. /\ offset \in 1 .. Len(text) /\ text \in Texts /\ Len(text) \in Nat
      /\ TextInv /\ text[Len(text)] = NUL
  BY <1>1, LenProperties DEF JsonInv, JsonTypeOK, ReadsInBuffer, TextInv, Texts
<1>4. first \in offset .. Len(text)
  <2>1. text[offset] # NUL
    BY <1>1 DEF NUL
  <2>2. offset + 1 \in 1 .. Len(text)
    BY <1>3, <2>1, MoreFollows
  <2>3. QED
    BY <1>3, <2>2
<1>5. /\ end \in first .. Len(text) /\ text[end] # "1"
      /\ \A j \in first .. end - 1 : text[j] = "1"
  <2>1. after \in SUBSET Nat /\ Len(text) \in after
    <3>1. text[Len(text)] # "1" /\ Len(text) \in first .. Len(text)
      <4>1. text[Len(text)] # "1"
        BY <1>3 DEF NUL
      <4> HIDE DEF first
      <4>2. QED
        BY <1>3, <1>4, <4>1
    <3>2. \A j \in first .. Len(text) : j \in Nat
      <4> HIDE DEF first
      <4>1. QED
        BY <1>3, <1>4
    <3>3. QED
      BY <3>1, <3>2
  <2>2. end \in after /\ \A j \in after : end <= j
    BY <2>1, NatMin
  <2> HIDE DEF end, first
  <2>3. end \in first .. Len(text) /\ text[end] # "1"
    BY <2>2
  <2>4. ASSUME NEW j \in first .. end - 1, text[j] # "1"
        PROVE  FALSE
    <3>1. j \in first .. Len(text)
      BY <1>3, <1>4, <2>3
    <3>2. j \in after
      BY <2>4, <3>1
    <3>3. QED
      BY <1>3, <1>4, <2>2, <2>3, <3>2
  <2>5. QED
    BY <2>3, <2>4
<1>6. \A j \in offset .. end - 1 : text[j] \in {"-", "1"}
  <2>1. first = offset \/ first = offset + 1
    OBVIOUS
  <2> HIDE DEF first, end
  <2>2. \A j \in offset .. end - 1 : j = offset \/ j \in first .. end - 1
    BY <1>3, <1>4, <1>5, <2>1
  <2>3. QED
    BY <1>1, <1>5, <2>2
<1> HIDE DEF first, after, end
<1>7. /\ offset - 1 \in 0 .. Len(text) /\ end - 1 \in offset - 1 .. Len(text)
      /\ offset - 1 + 1 = offset /\ end \in Nat
  BY <1>3, <1>4, <1>5
<1>8. \A p : Says(Read(offset - 1), p) => Says(Read(offset' - 1), p \o q)
  <2>1. \A j \in offset .. end - 1 : text[j] \notin {Quote, Blank}
    BY <1>6 DEF Quote, Blank
  <2>2. ASSUME NEW p, Says(Read(offset - 1), p)
        PROVE  Says(Read(end - 1), p \o SubSeq(text, offset - 1 + 1, end - 1))
    BY <1>3, <1>7, <2>1, <2>2, ReadRun
  <2>3. QED
    BY <1>1, <1>7, <2>2
<1>9. q \in Texts
  <2>1. \A j \in offset .. end - 1 : j \in 1 .. Len(text)
    BY <1>3, <1>4, <1>5
  <2>2. \A j \in offset .. end - 1 : text[j] \in Units \cup {NUL}
    BY <1>3, <2>1, ElementOfSeq DEF Texts
  <2>3. offset \in Int /\ end - 1 \in Int
    BY <1>3, <1>7
  <2>4. QED
    BY <2>2, <2>3, SubSeqProperties DEF Texts
<1>10. /\ DOMAIN node' = DOMAIN node
       /\ \A m \in DOMAIN node : m # item => node'[m] = node[m]
       /\ node'[item].next = node[item].next
            /\ node'[item].prev = node[item].prev
       /\ node'[item].child = node[item].child
       /\ node'[item].string = node[item].string
       /\ node'[item].type = "Number" /\ node'[item].value = q
  BY <1>1, <1>2 DEF Node
<1>11. Simple(item, q)'
  BY <1>1, <1>2, <1>10 DEF Simple, Plain
<1>12. QED
  BY <1>1, <1>8, <1>9, <1>10, <1>11, SimpleRead

(* A string that is kept gets a block of its own.                          *)
LEMMA StringKept ==
  ASSUME JsonInv, pc \in {"parse_value", "parse_name"},
         NEW parsed, StringParsed(parsed)
  PROVE  /\ FreeBlock(str) \in Nat \ {0} /\ FreeBlock(str) # 0
         /\ parse_string(offset).ok
         /\ node' = [node EXCEPT ![item] = parsed]
         /\ \A s \in DOMAIN str : s \in DOMAIN str' /\ str'[s] = str[s]
         /\ str'[FreeBlock(str)] = parse_string(offset).block
<1> DEFINE s == FreeBlock(str)
<1>1. s \in Nat \ {0} /\ s \notin DOMAIN str
  BY FreeBlockIsFree DEF JsonInv, HeapInv, Blocks
<1> HIDE DEF s
<1>2. /\ parse_string(offset).ok
      /\ str' = Put(str, s, parse_string(offset).block)
      /\ node' = [node EXCEPT ![item] = parsed]
  BY DEF StringParsed, s
<1>3. /\ \A b \in DOMAIN str : b \in DOMAIN str' /\ str'[b] = str[b]
      /\ str'[s] = parse_string(offset).block
  BY <1>1, <1>2 DEF Put
<1>4. QED
  BY <1>1, <1>2, <1>3 DEF s

(* A string that was parsed, quoted, is text.                              *)
LEMMA ContentIsText ==
  ASSUME TextInv, NEW k \in 1 .. Len(text), parse_string(k).ok
  PROVE  Quoted(parse_string(k).block.content) \in Texts
<1>1. LET r == parse_string(k)
      IN /\ Quoted(r.block.content) = SubSeq(text, k, r.end)
         /\ Says(SubSeq(text, k, r.end), SubSeq(text, k, r.end))
  BY StringIsText
<1>2. QED
  BY <1>1 DEF Says

(* parse_value_string: the item says the string in quotes.                 *)
LEMMA StringTold ==
  ASSUME JsonInv, Told, parse_value_string, pc' = "value"
  PROVE  Told'
<1>. PICK s : s = FreeBlock(str)
  OBVIOUS
<1>1. /\ pc = "parse_value"
      /\ StringParsed([node[item] EXCEPT !.valuestring = FreeBlock(str),
                                         !.type = "String"])
      /\ offset' = parse_string(offset).end + 1
      /\ UNCHANGED <<text, stack, item, root>>
  BY DEF parse_value_string, StringFails
<1>2. /\ s \in Nat \ {0}
      /\ parse_string(offset).ok
      /\ node' = [node EXCEPT ![item] = [node[item] EXCEPT !.valuestring = s,
                                                           !.type = "String"]]
      /\ \A x \in DOMAIN str : x \in DOMAIN str' /\ str'[x] = str[x]
      /\ str'[s] = parse_string(offset).block
  BY <1>1, StringKept
<1>3. /\ item \in DOMAIN node /\ node \in [DOMAIN node -> Node]
      /\ node[item].child = 0
  BY <1>1, ProgressFacts
     DEF Parsing, JsonInv, HeapInv, Blocks, Places, ItemIsNew
<1>4. offset \in 1 .. Len(text) /\ TextInv
  BY <1>1, LenProperties DEF JsonInv, JsonTypeOK, ReadsInBuffer, TextInv, Texts
<1>. PICK q : q = Quoted(parse_string(offset).block.content)
  OBVIOUS
<1>5. q \in Texts
  BY <1>2, <1>4, ContentIsText
<1>6. \A p : Says(Read(offset - 1), p) => Says(Read(offset' - 1), p \o q)
  <2>1. \A p : Says(Read(offset - 1), p)
          => Says(Read(parse_string(offset).end), p \o q)
    BY <1>2, <1>4, ReadString
  <2>2. parse_string(offset).end \in Nat
    BY <1>2, StringEnds DEF JsonInv
  <2>3. offset' - 1 = parse_string(offset).end
    BY <1>1, <2>2
  <2>4. QED
    BY <2>1, <2>3
<1>7. /\ DOMAIN node' = DOMAIN node
      /\ \A m \in DOMAIN node : m # item => node'[m] = node[m]
      /\ node'[item].next = node[item].next
           /\ node'[item].prev = node[item].prev
      /\ node'[item].child = node[item].child
      /\ node'[item].string = node[item].string
      /\ node'[item].type = "String" /\ node'[item].valuestring = s
  BY <1>2, <1>3 DEF Node
<1>8. Simple(item, q)'
  BY <1>1, <1>2, <1>3, <1>7 DEF Simple, Plain
<1>9. QED
  BY <1>1, <1>2, <1>5, <1>6, <1>7, <1>8, SimpleRead

(* What is behind a bracket that opens.                                    *)
LEMMA ReadOpen ==
  ASSUME JsonInv, OneTerminator, pc = "parse_value", text[offset] \in Opening,
         NEW p, Says(Read(offset - 1), p), NEW q, q = <<text[offset]>>,
         NEW i, i = buffer_skip_whitespace(text, offset + 1)
  PROVE  /\ i \in offset + 1 .. Len(text) /\ offset \in 1 .. Len(text)
         /\ q \in Texts /\ Says(Read(i - 1), p \o q)
<1>1. /\ offset \in 1 .. Len(text) /\ text \in Texts /\ Len(text) \in Nat
      /\ TextInv
  BY LenProperties DEF JsonInv, JsonTypeOK, ReadsInBuffer, TextInv, Texts
<1>2. text[offset] \notin {Quote, Blank, NUL}
  BY Zenon DEF Opening, Quote, Blank, NUL
<1>3. Says(Read(offset), p \o q) /\ q \in Texts
  BY <1>1, <1>2, ReadPlain
<1>4. offset + 1 \in 1 .. Len(text) /\ offset + 1 - 1 = offset
  BY <1>1, <1>2, MoreFollows
<1>5. Says(Read(buffer_skip_whitespace(text, offset + 1) - 1), p \o q)
  BY <1>1, <1>3, <1>4, ReadBlanks
<1>6. buffer_skip_whitespace(text, offset + 1) \in offset + 1 .. Len(text)
  BY <1>1, <1>2, SkipInText
<1>7. QED
  BY <1>1, <1>3, <1>5, <1>6

(* parse_list, of a list with nothing in it: the item says the brackets.   *)
LEMMA EmptyListTold ==
  ASSUME JsonInv, OneTerminator, Told, parse_list, pc' = "value"
  PROVE  Told'
<1>. PICK open : open = text[offset]
  OBVIOUS
<1>. PICK i : i = buffer_skip_whitespace(text, offset + 1)
  OBVIOUS
<1>1. /\ pc = "parse_value" /\ open \in Opening
      /\ text[i] = Closing[open]
      /\ node' = [node EXCEPT ![item].type = ListType[open]]
      /\ offset' = i + 1
      /\ UNCHANGED <<text, stack, item, root, str>>
  BY DEF parse_list, ReturnsFalse
<1>2. /\ item \in DOMAIN node /\ node \in [DOMAIN node -> Node]
           /\ node[item].child = 0
  BY <1>1, ProgressFacts DEF Parsing, JsonInv, HeapInv, Blocks, Places,
    ItemIsNew
<1>. PICK q : q = <<open>>
  OBVIOUS
<1>. PICK r : r = <<Closing[open]>>
  OBVIOUS
<1>3. \A p : Says(Read(offset - 1), p) =>
               /\ i \in offset + 1 .. Len(text) /\ offset \in 1 .. Len(text)
               /\ q \in Texts /\ Says(Read(i - 1), p \o q)
  BY <1>1, ReadOpen
<1>4. PICK p0 : Says(Read(offset - 1), p0)
  BY <1>1 DEF Told, Consumed
<1>5. /\ i \in offset + 1 .. Len(text) /\ i \in 1 .. Len(text) /\ q \in Texts
      /\ text \in Texts /\ offset' - 1 = i
  <2>1. i \in offset + 1 .. Len(text) /\ offset \in 1 .. Len(text)
          /\ q \in Texts
    BY <1>3, <1>4
  <2>2. Len(text) \in Nat /\ text \in Texts
    BY LenProperties DEF JsonInv, TextInv, Texts
  <2>3. QED
    BY <1>1, <2>1, <2>2
<1>6. text[i] \notin {Quote, Blank}
  <2>1. Closing[open] \in {"]", "}"}
    BY <1>1, Zenon DEF Closing
  <2>2. QED
    BY <1>1, <2>1, Zenon DEF Quote, Blank
<1>7. r \in Texts /\ \A p : Says(Read(offset - 1), p)
        => Says(Read(i), (p \o q) \o r)
  <2>1. \A p : Says(Read(offset - 1), p)
          => Says(Read(i), (p \o q) \o <<text[i]>>) /\ <<text[i]>> \in Texts
    BY <1>3, <1>5, <1>6, ReadPlain
  <2>2. r = <<text[i]>>
    BY <1>1
  <2>3. QED
    BY <1>4, <2>1, <2>2
<1>. PICK qr : qr = q \o r
  OBVIOUS
<1>8. qr \in Texts /\ \A p : Says(Read(offset - 1), p)
        => Says(Read(offset' - 1), p \o qr)
  <2>1. qr \in Texts
    BY <1>5, <1>7, TextGrows
  <2>2. ASSUME NEW p, Says(Read(offset - 1), p)
        PROVE  Says(Read(offset' - 1), p \o qr)
    <3>1. p \in Texts
      BY <2>2 DEF Says
    <3>2. (p \o q) \o r = p \o (q \o r)
      BY <1>5, <1>7, <3>1, Associative
    <3>3. Says(Read(i), (p \o q) \o r)
      BY <1>7, <2>2
    <3>4. QED
      BY <1>5, <3>2, <3>3
  <2>3. QED
    BY <2>1, <2>2
<1>9. Len(qr) = 2 /\ qr[1] = open /\ qr[2] = Closing[open]
  <2>1. Len(q) = 1 /\ q[1] = open /\ Len(r) = 1 /\ r[1] = Closing[open]
    OBVIOUS
  <2>2. /\ Len(qr) = Len(q) + Len(r)
        /\ \A j \in 1 .. Len(q) : qr[j] = q[j]
        /\ \A j \in 1 .. Len(r) : qr[Len(q) + j] = r[j]
    BY <1>5, <1>7, TextGrows
  <2>3. QED
    BY <2>1, <2>2
<1>10. /\ DOMAIN node' = DOMAIN node
       /\ \A m \in DOMAIN node : m # item => node'[m] = node[m]
       /\ node'[item].next = node[item].next
            /\ node'[item].prev = node[item].prev
       /\ node'[item].child = node[item].child
       /\ node'[item].string = node[item].string
       /\ node'[item].type = ListType[open]
  BY <1>1, <1>2 DEF Node
<1>11. Simple(item, qr)'
  BY <1>1, <1>2, <1>9, <1>10 DEF Simple
<1>12. QED
  BY <1>1, <1>8, <1>10, <1>11, SimpleRead

(* parse_list, of a list with something in it.                             *)
LEMMA ListBegunTold ==
  ASSUME JsonInv, OneTerminator, Told, parse_list, pc' = "next_item"
  PROVE  Told'
<1>. PICK open : open = text[offset]
  OBVIOUS
<1>. PICK i : i = buffer_skip_whitespace(text, offset + 1)
  OBVIOUS
<1>1. /\ pc = "parse_value" /\ open \in Opening
      /\ stack' = Append(stack, [open |-> open, item |-> item,
                                 head |-> 0, current_item |-> 0])
      /\ offset' = i - 1
      /\ UNCHANGED <<text, item, root, node, str>>
  BY DEF parse_list, ReturnsFalse, heap
<1>2. PICK p, at : Says(Read(offset - 1), p) /\ Labelled(p, at)
  BY <1>1 DEF Told, Consumed
<1>. PICK q : q = <<open>>
  OBVIOUS
<1>3. /\ i \in offset + 1 .. Len(text) /\ offset \in 1 .. Len(text)
      /\ q \in Texts /\ Says(Read(i - 1), p \o q)
  BY <1>1, <1>2, ReadOpen
<1>4. p \in Texts
  BY <1>2 DEF Says
<1>5. Labelled(p \o q, at)'
  BY <1>1, <1>2, <1>4, ListBegun
<1>6. QED
  BY <1>1, <1>3, <1>5, ToldNext

(* next_item: the new item begins behind what was read.                    *)
LEMMA NextItemTold ==
  ASSUME JsonInv, OneTerminator, Told, next_item, pc' # "fail"
  PROVE  Told'
<1>. PICK n : n = FreeBlock(node)
  OBVIOUS
<1>1. /\ pc = "next_item" /\ Attach(n) /\ item' = n
      /\ offset' = buffer_skip_whitespace(text, offset + 1)
      /\ pc' \in {"parse_name", "parse_value"}
      /\ UNCHANGED <<text, root, str>>
  BY DEF next_item
<1>2. n \in Nat \ {0} /\ n \notin DOMAIN node
  BY FreeBlockIsFree DEF JsonInv, HeapInv, Blocks
<1>3. PICK p, at : Says(Read(offset), p) /\ Labelled(p, at)
  BY <1>1 DEF Told, Consumed
<1>4. p \in Texts /\ Len(p) \in Nat /\ at \in [DOMAIN node -> Label]
  BY <1>3, LenProperties DEF Says, Texts, Labelled
<1>5. Top.item \in DOMAIN node /\ Top.item \in Nat
  <2>1. stack # <<>> /\ stack \in Seq(Frame)
    BY <1>1 DEF JsonInv, HeapInv, Places, Blocks
  <2>2. Len(stack) \in 1 .. Len(stack)
    BY <2>1, TopIsAFrame
  <2>3. stack[Len(stack)].item \in DOMAIN node
    BY <1>1, <2>2, ProgressFacts DEF Parsing
  <2>4. QED
    BY <2>1, <2>3, TopIsAFrame DEF Top, Frame
<1>6. PICK new : new = [name |-> Len(p), value |-> Len(p), end |-> Len(p),
        up |-> Top.item]
  OBVIOUS
<1>7. PICK b : b = [m \in {n} \cup DOMAIN node |-> IF m =
        n THEN new ELSE at[m]]
  OBVIOUS
<1>8. /\ b \in [{n} \cup DOMAIN node -> Label]
      /\ \A m \in DOMAIN node : b[m] = at[m]
      /\ b[n] = new
  <2>1. new \in Label
    BY <1>4, <1>5, <1>6 DEF Label
  <2>2. QED
    BY <1>2, <1>4, <1>7, <2>1
<1>9. Labelled(p, b)'
  <2>1. /\ b[n].name = Len(p) /\ b[n].value = Len(p) /\ b[n].end = Len(p)
        /\ b[n].up = Top.item
    BY <1>8, <1>6
  <2>2. root' = root /\ str' = str /\ pc' \in {"parse_value", "parse_name"}
    BY <1>1
  <2>3. QED
    BY <1>1, <1>2, <1>3, <1>4, <1>8, <2>1, <2>2, ItemAdded
<1>10. Says(Read(offset' - 1), p)
  <2>1. /\ offset + 1 \in 1 .. Len(text) /\ offset + 1 - 1 = offset
        /\ text \in Texts /\ offset \in Nat
    BY <1>1, LenProperties DEF JsonInv, JsonTypeOK, ReadsInBuffer, TextInv,
      Texts
  <2>. PICK j : j = offset + 1
    OBVIOUS
  <2>2. j \in 1 .. Len(text) /\ Says(Read(j - 1), p)
    BY <1>3, <2>1
  <2>3. Says(Read(buffer_skip_whitespace(text, j) - 1), p)
    BY <2>1, <2>2, ReadBlanks
  <2>4. QED
    BY <1>1, <2>3
<1>11. QED
  BY <1>1, <1>9, <1>10, ToldNext

(* parse_name: behind the quoted name and the colon the value begins.      *)
LEMMA NameTold ==
  ASSUME JsonInv, OneTerminator, Told, parse_name, pc' = "parse_value"
  PROVE  Told'
<1>. PICK s : s = FreeBlock(str)
  OBVIOUS
<1>. PICK end : end = parse_string(offset).end
  OBVIOUS
<1>. PICK colon : colon = buffer_skip_whitespace(text, end + 1)
  OBVIOUS
<1>1. /\ pc = "parse_name"
      /\ StringParsed([node[item] EXCEPT !.string = FreeBlock(str),
                                         !.type = "String"])
      /\ text[colon] = Colon
      /\ offset' = buffer_skip_whitespace(text, colon + 1)
      /\ UNCHANGED <<text, stack, item, root>>
  BY Zenon DEF parse_name, StringFails, Colon
<1>2. /\ s \in Nat \ {0}
      /\ parse_string(offset).ok
      /\ node' = [node EXCEPT ![item] = [node[item] EXCEPT !.string = s,
                                                           !.type = "String"]]
      /\ \A x \in DOMAIN str : x \in DOMAIN str' /\ str'[x] = str[x]
      /\ str'[s] = parse_string(offset).block
  BY <1>1, StringKept
<1>3. /\ item \in DOMAIN node /\ node \in [DOMAIN node -> Node]
  BY <1>1, ProgressFacts DEF Parsing, JsonInv, HeapInv, Blocks
<1>4. /\ offset \in 1 .. Len(text) /\ TextInv /\ text \in Texts
      /\ Len(text) \in Nat
  BY <1>1, LenProperties DEF JsonInv, JsonTypeOK, ReadsInBuffer, TextInv, Texts
<1>5. PICK p, at : Says(Read(offset - 1), p) /\ Labelled(p, at)
  BY <1>1 DEF Told, Consumed
<1>6. PICK w : w = Quoted(parse_string(offset).block.content)
  OBVIOUS
<1>7. w \in Texts /\ p \in Texts
  BY <1>2, <1>4, <1>5, <1>6, ContentIsText DEF Says
<1>8. Says(Read(end), p \o w)
  BY <1>2, <1>4, <1>5, <1>6, ReadString
<1>9. end \in Nat /\ end + 1 \in 1 .. Len(text) /\ end + 1 - 1 = end
  BY <1>2, <1>4, StringEnds
<1>10. colon \in 1 .. Len(text) /\ Says(Read(colon - 1), p \o w)
  <2>1. PICK j : j = end + 1
    OBVIOUS
  <2>2. j \in 1 .. Len(text) /\ Says(Read(j - 1), p \o w)
    BY <1>8, <1>9, <2>1
  <2>3. Says(Read(buffer_skip_whitespace(text, j) - 1), p \o w)
    BY <1>4, <2>2, ReadBlanks
  <2>4. colon \in j .. Len(text)
    BY <1>4, <2>1, <2>2, SkipInText
  <2>5. QED
    BY <1>4, <2>1, <2>2, <2>3, <2>4
<1>11. text[colon] \notin {Quote, Blank, NUL}
  <2>1. Colon \notin {Quote, Blank, NUL}
    BY Zenon DEF Colon, Quote, Blank, NUL
  <2>2. QED
    BY <1>1, <2>1
<1>12. PICK c : c = <<text[colon]>>
  OBVIOUS
<1>13. c \in Texts /\ Says(Read(colon), (p \o w) \o c)
  BY <1>4, <1>10, <1>11, <1>12, ReadPlain
<1>14. Len(c) = 1 /\ c[1] = Colon
  <2>1. Len(c) = 1 /\ c[1] = text[colon]
    BY <1>12
  <2>2. QED
    BY <1>1, <2>1
<1>15. Says(Read(offset' - 1), (p \o w) \o c)
  <2>1. colon + 1 \in 1 .. Len(text) /\ colon + 1 - 1 = colon
    BY <1>4, <1>10, <1>11, MoreFollows
  <2>2. PICK j : j = colon + 1
    OBVIOUS
  <2>3. j \in 1 .. Len(text) /\ j - 1 = colon
    <3>1. colon \in Nat
      BY <1>4, <1>10
    <3>2. j \in 1 .. Len(text)
      BY <2>1, <2>2, Zenon
    <3>3. QED
      BY <2>2, <3>1, <3>2
  <2>4. Says(Read(j - 1), (p \o w) \o c)
    BY <1>13, <2>3, Zenon
  <2>5. Says(Read(buffer_skip_whitespace(text, j) - 1), (p \o w) \o c)
    BY <1>4, <2>3, <2>4, ReadBlanks
  <2>6. QED
    BY <1>1, <2>2, <2>5, Zenon
<1>16. /\ DOMAIN node' = DOMAIN node
       /\ \A m \in DOMAIN node : m # item => node'[m] = node[m]
       /\ node'[item].next = node[item].next
            /\ node'[item].prev = node[item].prev
       /\ node'[item].child = node[item].child
       /\ node'[item].string = s
  BY <1>2, <1>3 DEF Node
<1>17. /\ node'[item].string # 0
       /\ w = Quoted(str'[node'[item].string].content)
  BY <1>2, <1>6, <1>16
<1>18. PICK k : k = Len((p \o w) \o c)
  OBVIOUS
<1>19. k \in Nat
  <2>1. (p \o w) \o c \in Texts
    BY <1>15 DEF Says
  <2>2. QED
    BY <1>18, <2>1, LenProperties DEF Texts
<1>20. PICK b : b = [at EXCEPT ![item].end = k, ![item].value = k]
  OBVIOUS
<1>21. /\ b \in [DOMAIN node -> Label]
       /\ \A m \in DOMAIN node : m # item => b[m] = at[m]
       /\ b[item].name = at[item].name /\ b[item].value = k
       /\ b[item].up = at[item].up /\ b[item].end = k
  <2>1. at \in [DOMAIN node -> Label]
    BY <1>5 DEF Labelled
  <2>2. QED
    BY <1>3, <1>19, <1>20, <2>1 DEF Label
<1>22. Labelled((p \o w) \o c, b)'
  BY <1>1, <1>2, <1>5, <1>7, <1>13, <1>14, <1>16, <1>17, <1>18, <1>21,
     NameRead
<1>23. QED
  BY <1>1, <1>15, <1>22, ToldNext

(* list_ends: the item of the list says all that was read since its        *)
(* bracket.                                                                *)
LEMMA ListEndsTold ==
  ASSUME JsonInv, OneTerminator, Told, list_ends
  PROVE  Told'
<1>. PICK here : here = buffer_skip_whitespace(text, offset)
  OBVIOUS
<1>1. /\ pc = "value" /\ stack # <<>> /\ text[here] = Closing[Top.open]
      /\ offset' = here + 1 /\ pc' = "value" /\ text' = text
  BY DEF list_ends
<1>2. /\ offset \in 1 .. Len(text) /\ TextInv /\ text \in Texts
      /\ Len(text) \in Nat
  BY <1>1, LenProperties DEF JsonInv, JsonTypeOK, ReadsInBuffer, TextInv, Texts
<1>3. PICK p, at : Says(Read(offset - 1), p) /\ Labelled(p, at)
  BY <1>1 DEF Told, Consumed
<1>4. p \in Texts /\ at \in [DOMAIN node -> Label]
  BY <1>3 DEF Says, Labelled
<1>5. here \in 1 .. Len(text) /\ Says(Read(here - 1), p)
  <2>1. here \in offset .. Len(text)
    BY <1>2, SkipInText
  <2>2. QED
    BY <1>2, <1>3, <2>1, ReadBlanks
<1>6. stack \in Seq(Frame) /\ Top \in Frame /\ Len(stack) \in 1 .. Len(stack)
  BY <1>1, TopIsAFrame DEF JsonInv, HeapInv, Blocks
<1>7. text[here] \notin {Quote, Blank}
  <2>1. Top.open \in Opening
    BY <1>6 DEF Frame
  <2>2. Closing[Top.open] \in {"]", "}"}
    BY <2>1, Zenon DEF Closing
  <2>3. QED
    BY <1>1, <2>2, Zenon DEF Quote, Blank
<1>8. PICK c : c = <<text[here]>>
  OBVIOUS
<1>9. c \in Texts /\ Says(Read(here), p \o c)
  BY <1>2, <1>5, <1>7, <1>8, ReadPlain
<1>10. Len(c) = 1 /\ c[1] = Closing[Top.open]
  <2>1. Len(c) = 1 /\ c[1] = text[here]
    BY <1>8
  <2>2. QED
    BY <1>1, <2>1
<1>11. PICK n, k : n = Top.item /\ k = Len(p \o c)
  OBVIOUS
<1>12. n \in DOMAIN node /\ k \in Nat
  <2>1. stack[Len(stack)].item \in DOMAIN node
    BY <1>1, <1>6, ProgressFacts DEF Parsing
  <2>2. k \in Nat
    BY <1>4, <1>9, <1>11, Longer
  <2>3. QED
    BY <1>11, <2>1, <2>2 DEF Top
<1>13. PICK b : b = [at EXCEPT ![n].end = k]
  OBVIOUS
<1>14. /\ b \in [DOMAIN node -> Label]
       /\ \A m \in DOMAIN node : m # n => b[m] = at[m]
       /\ b[n].name = at[n].name /\ b[n].value = at[n].value
       /\ b[n].up = at[n].up /\ b[n].end = k
  BY <1>4, <1>12, <1>13 DEF Label
<1>15. Labelled(p \o c, b)'
  BY <1>3, <1>4, <1>9, <1>10, <1>11, <1>14, ListClosed
<1>16. offset' - 1 = here /\ pc' # "next_item"
  BY <1>1, <1>5
<1>17. Says(Read(offset' - 1), p \o c)
  BY <1>9, <1>16, Zenon
<1>18. QED
  BY <1>1, <1>15, <1>16, <1>17, ToldNext, Zenon

(* list_goes_on: the next item is to come behind the comma.                *)
LEMMA CommaTold ==
  ASSUME JsonInv, OneTerminator, Told, list_goes_on, pc' = "next_item"
  PROVE  Told'
<1>. PICK here : here = buffer_skip_whitespace(text, offset)
  OBVIOUS
<1>1. /\ pc = "value" /\ stack # <<>> /\ text[here] = Comma
      /\ offset' = here
      /\ UNCHANGED <<text, stack, item, root, node, str>>
  BY Zenon DEF list_goes_on, Comma, heap
<1>2. /\ offset \in 1 .. Len(text) /\ TextInv /\ text \in Texts
      /\ Len(text) \in Nat
  BY <1>1, LenProperties DEF JsonInv, JsonTypeOK, ReadsInBuffer, TextInv, Texts
<1>3. PICK p, at : Says(Read(offset - 1), p) /\ Labelled(p, at)
  BY <1>1 DEF Told, Consumed
<1>4. p \in Texts
  BY <1>3 DEF Says
<1>5. here \in 1 .. Len(text) /\ Says(Read(here - 1), p)
  <2>1. here \in offset .. Len(text)
    BY <1>2, SkipInText
  <2>2. QED
    BY <1>2, <1>3, <2>1, ReadBlanks
<1>6. text[here] \notin {Quote, Blank}
  <2>1. Comma \notin {Quote, Blank}
    BY Zenon DEF Comma, Quote, Blank
  <2>2. QED
    BY <1>1, <2>1
<1>7. PICK c : c = <<text[here]>>
  OBVIOUS
<1>8. c \in Texts /\ Says(Read(here), p \o c)
  BY <1>2, <1>5, <1>6, <1>7, ReadPlain
<1>9. c = <<Comma>>
  BY <1>1, <1>7
<1>10. Labelled(p \o c, at)'
  BY <1>1, <1>3, <1>4, <1>9, CommaRead
<1>11. QED
  BY <1>1, <1>8, <1>10, ToldNext

(* Where nothing moves but the parser.                                     *)
LEMMA NothingMoves ==
  ASSUME UNCHANGED <<stack, node, str>>, InProgress' = InProgress,
         NEW p, NEW at, Labelled(p, at), Arrived(p, at)'
  PROVE  Labelled(p, at)'
<1>1. ListItems' = ListItems
  BY DEF ListItems
<1>2. SUFFICES ASSUME NEW m \in DOMAIN node
               PROVE  /\ Ordered(p, at, m)' /\ Named(p, at, m)'
                      /\ Followed(p, at, m)'
                      /\ m \notin InProgress' => Valued(p, at, m)'
  <2>1. \A i \in 1 .. Len(stack') : Begun(p, at, stack'[i])
    BY DEF Labelled
  <2>2. at \in [DOMAIN node' -> Label]
    BY DEF Labelled
  <2>3. QED
    BY <1>2, <2>1, <2>2 DEF Labelled
<1>3. /\ Ordered(p, at, m) /\ Named(p, at, m) /\ Followed(p, at, m)
      /\ m \notin InProgress => Valued(p, at, m)
  BY DEF Labelled
<1>4. Ordered(p, at, m)' /\ Named(p, at, m)'
  BY <1>3 DEF Ordered, Named
<1>5. Followed(p, at, m)'
  BY <1>1, <1>3 DEF Followed
<1>6. Valued(p, at, m) => Valued(p, at, m)'
  BY DEF Valued, Plain, Listed, Reaches, Closed
<1>7. QED
  BY <1>3, <1>4, <1>5, <1>6

(* The value is complete.                                                  *)
LEMMA ReturnsTold ==
  ASSUME JsonInv, Told, parse_returns
  PROVE  Told'
<1>1. /\ pc = "value" /\ stack = <<>> /\ pc' = "parsed"
      /\ UNCHANGED <<text, offset, stack, item, root, node, str>>
  BY DEF parse_returns, heap
<1>2. PICK p, at : Says(Read(offset - 1), p) /\ Labelled(p, at)
  BY <1>1 DEF Told, Consumed
<1>3. item = root /\ at[item].end = Len(p)
  <2>1. LastItem(Len(stack)) = root
    BY <1>1, EmptySeq DEF LastItem
  <2>2. QED
    BY <1>1, <1>2, <2>1 DEF Labelled, Arrived
<1>4. InProgress' = InProgress
  BY <1>1 DEF ListItems, InProgress
<1>5. Arrived(p, at)'
  BY <1>1, <1>2, <1>3 DEF Labelled, Arrived
<1>6. Labelled(p, at)'
  BY <1>1, <1>2, <1>4, <1>5, NothingMoves
<1>7. QED
  BY <1>1, <1>2, <1>6, ToldNext

(* A step in which nothing happens.                                        *)
LEMMA TreeSaysStutter ==
  ASSUME TreeSays, UNCHANGED jsonVars
  PROVE  TreeSays'
<1>1. UNCHANGED <<pc, text, offset, stack, item, root, node, str>>
  BY DEF jsonVars, heap
<1>2. OneTerminator'
  BY <1>1 DEF TreeSays, OneTerminator
<1>3. SUFFICES ASSUME Told
               PROVE  Told'
  BY <1>1, <1>2 DEF TreeSays, Parsing
<1>4. PICK p, at : Says(Read(Consumed), p) /\ Labelled(p, at)
  BY <1>3 DEF Told
<1>5. InProgress' = InProgress
  BY <1>1 DEF ListItems, InProgress
<1>6. Arrived(p, at)'
  <2>1. LastItem(Len(stack))' = LastItem(Len(stack)) /\ Top' = Top
    BY <1>1 DEF LastItem, Top
  <2>2. QED
    BY <1>1, <1>4, <2>1 DEF Labelled, Arrived
<1>7. Labelled(p, at)'
  BY <1>1, <1>4, <1>5, <1>6, NothingMoves
<1>8. QED
  BY <1>1, <1>4, <1>7, ToldNext DEF Consumed

(* Before the first value there are only blanks, which say nothing.        *)
LEMMA NothingRead ==
  TextInv /\ OneTerminator
    => Says(Read(buffer_skip_whitespace(text, 1) - 1), <<>>)
<1> SUFFICES ASSUME TextInv, OneTerminator
             PROVE  Says(Read(buffer_skip_whitespace(text, 1) - 1), <<>>)
  OBVIOUS
<1>1. text \in Texts /\ 1 \in 1 .. Len(text)
  BY LenProperties DEF TextInv, Texts
<1>2. Read(1 - 1) = <<>>
  BY SubSeqEmpty DEF Read
<1>3. QED
  BY <1>1, <1>2, ReadBlanks, SaysNothing

(* The same after the step.                                                *)
LEMMA NothingReadNext ==
  (TextInv /\ OneTerminator
     => Says(Read(buffer_skip_whitespace(text, 1) - 1), <<>>))'
BY NothingRead, PTL

-----------------------------------------------------------------------------
(* Every step *)

(* Before anything is read the tree is one item with nothing in it.        *)
LEMMA ParseTold ==
  ASSUME JsonInv, JsonInv', OneTerminator', NEW in \in Inputs,
         cJSON_Parse(in), pc' # "fail"
  PROVE  Told'
<1> PICK n : n = FreeBlock(node)
  OBVIOUS
<1>1. DOMAIN node = {} /\ stack = <<>>
  BY NothingLeft DEF JsonInv, cJSON_Parse
<1>2. /\ offset' = buffer_skip_whitespace(text', 1)
      /\ node' = Put(node, n, NewItem) /\ root' = n /\ item' = n
      /\ pc' = "parse_value" /\ stack' = <<>>
  BY <1>1 DEF cJSON_Parse
<1>3. n # 0
  BY FreeBlockIsFree DEF JsonInv, HeapInv, Blocks
<1>4. DOMAIN node' = {n} /\ node'[n].next = 0 /\ node'[n].string = 0
  BY <1>1, <1>2 DEF Put, NewItem
<1>5. Says(Read(offset - 1), <<>>)'
  BY <1>2, NothingReadNext DEF JsonInv, Read
<1>6. Len(stack') = 0 /\ ListItems' = {} /\ InProgress' = {n}
  <2>1. Len(stack') = 0
    BY <1>2, EmptySeq
  <2>2. QED
    BY <1>2, <2>1 DEF ListItems, InProgress
<1>7. PICK at : at = [m \in {n} |-> [name |-> 0, value |-> 0, end |-> 0,
                                     up |-> 0]]
  OBVIOUS
<1>8. /\ at \in [DOMAIN node' -> Label]
      /\ at[n].name = 0 /\ at[n].value = 0 /\ at[n].end = 0 /\ at[n].up = 0
  BY <1>4, <1>7 DEF Label
<1>9. Len(<<>>) = 0
  OBVIOUS
<1>10. Ordered(<<>>, at, n)' /\ Named(<<>>, at, n)' /\ Followed(<<>>, at, n)'
  BY <1>4, <1>6, <1>8, <1>9 DEF Ordered, Named, Followed
<1>11. Arrived(<<>>, at)'
  BY <1>2, <1>3, <1>4, <1>8, <1>9 DEF Arrived
<1>12. Labelled(<<>>, at)'
  BY <1>4, <1>6, <1>8, <1>10, <1>11 DEF Labelled
<1>13. QED
  BY <1>2, <1>5, <1>12 DEF Told, Consumed

(* Only at the end is the tree complete.                                   *)
LEMMA OnlyReturns ==
  ASSUME JsonNext, pc' = "parsed"
  PROVE  parse_returns
<1>1. CASE parse_value
  BY <1>1, Zenon
     DEF parse_value, parse_literal, parse_value_string, parse_number,
         parse_list, parse_nothing, ReturnsFalse, StringFails
<1>2. CASE parse_array_or_object
  BY <1>2, Zenon
     DEF parse_array_or_object, next_item, parse_name, list_ends,
         list_goes_on, list_fails, StringFails
<1>3. CASE \E in \in Inputs : cJSON_Parse(in)
  BY <1>3, Zenon DEF cJSON_Parse
<1>4. CASE parse_fails \/ app_deletes
  BY <1>4, Zenon DEF parse_fails, app_deletes, ParseOver
<1>5. QED
  BY <1>1, <1>2, <1>3, <1>4, Zenon DEF JsonNext

(* The tree goes on saying what was read.                                  *)
LEMMA TreeSaysStep ==
  ASSUME JsonInv, JsonInv', TreeSays, JsonNext
  PROVE  TreeSays'
<1>1. OneTerminator /\ OneTerminator'
  BY OneTerminatorStays DEF TreeSays
<1>2. SUFFICES ASSUME pc' \notin {"fail", "idle"}
               PROVE  Told'
  <2>1. pc' = "parsed" => root' # 0
    BY OnlyReturns
       DEF parse_returns, JsonInv, HeapInv, Places, Parsing, Frames
  <2>2. QED
    BY <1>1, <1>2, <2>1 DEF TreeSays, Parsing
<1>3. CASE parse_value
  <2>1. Told
    BY <1>3 DEF TreeSays, Parsing, parse_value, parse_literal,
                parse_value_string, parse_number, parse_list, parse_nothing
  <2>2. CASE parse_literal
    BY <2>1, <2>2, LiteralTold
  <2>3. CASE parse_value_string
    <3>1. pc' = "value"
      BY <1>2, <2>3, Zenon DEF parse_value_string, StringFails
    <3>2. QED
      BY <2>1, <2>3, <3>1, StringTold
  <2>4. CASE parse_number
    <3>1. pc' = "value"
      BY <1>2, <2>4, Zenon DEF parse_number, ReturnsFalse
    <3>2. QED
      BY <2>1, <2>4, <3>1, NumberTold
  <2>5. CASE parse_list
    <3>1. pc' \in {"value", "next_item"}
      BY <1>2, <2>5, Zenon DEF parse_list, ReturnsFalse
    <3>2. QED
      BY <1>1, <2>1, <2>5, <3>1, EmptyListTold, ListBegunTold
  <2>6. CASE parse_nothing
    BY <1>2, <2>6, Zenon DEF parse_nothing, ReturnsFalse
  <2>7. QED
    BY <1>3, <2>2, <2>3, <2>4, <2>5, <2>6 DEF parse_value
<1>4. CASE parse_array_or_object
  <2>1. CASE next_item
    <3>1. Told
      BY <2>1 DEF TreeSays, Parsing, next_item
    <3>2. QED
      BY <1>1, <1>2, <2>1, <3>1, NextItemTold
  <2>2. CASE parse_name
    <3>1. Told
      BY <2>2, Zenon DEF TreeSays, Parsing, parse_name
    <3>2. pc' = "parse_value"
      BY <1>2, <2>2, Zenon DEF parse_name, StringFails
    <3>3. QED
      BY <1>1, <2>2, <3>1, <3>2, NameTold
  <2>3. CASE list_ends
    <3>1. Told
      BY <2>3 DEF TreeSays, Parsing, list_ends
    <3>2. QED
      BY <1>1, <2>3, <3>1, ListEndsTold
  <2>4. CASE list_goes_on
    <3>1. Told
      BY <2>4, Zenon DEF TreeSays, Parsing, list_goes_on
    <3>2. pc' = "next_item"
      BY <1>2, <2>4, Zenon DEF list_goes_on
    <3>3. QED
      BY <1>1, <2>4, <3>1, <3>2, CommaTold
  <2>5. CASE list_fails
    BY <1>2, <2>5, Zenon DEF list_fails
  <2>6. QED
    BY <1>4, <2>1, <2>2, <2>3, <2>4, <2>5 DEF parse_array_or_object
<1>5. ASSUME NEW in \in Inputs, cJSON_Parse(in)
      PROVE  Told'
  BY <1>1, <1>2, <1>5, ParseTold
<1>6. CASE parse_returns
  <2>1. Told
    BY <1>6 DEF TreeSays, Parsing, parse_returns
  <2>2. QED
    BY <1>6, <2>1, ReturnsTold
<1>7. CASE parse_fails \/ app_deletes
  BY <1>2, <1>7, Zenon DEF parse_fails, app_deletes, ParseOver
<1>8. QED
  BY <1>3, <1>4, <1>5, <1>6, <1>7 DEF JsonNext

-----------------------------------------------------------------------------
(* The tree written out is what was read *)

(* Two parts of a text next to each other.                                 *)
LEMMA Adjacent ==
  ASSUME NEW p \in Texts, NEW a \in Nat, NEW b \in Nat, NEW c \in Nat,
         a <= b, b <= c, c <= Len(p)
  PROVE  Between(p, a, b) \o Between(p, b, c) = Between(p, a, c)
<1>1. Len(p) \in Nat /\ p \in Seq(Units \cup {NUL})
  BY LenProperties DEF Texts
<1>2. /\ a + 1 \in 1 .. Len(p) + 1 /\ b \in a + 1 - 1 .. Len(p)
      /\ c \in b .. Len(p)
  BY <1>1
<1>3. QED
  BY <1>1, <1>2, ConcatAdjacentSubSeq DEF Between

(* A part of a text, one unit of it, nothing and all of it.                *)
LEMMA Parts ==
  ASSUME NEW p \in Texts
  PROVE  /\ \A a, b \in Nat : b <= Len(p) => Between(p, a, b) \in Texts
         /\ \A a \in Nat : a < Len(p) => Between(p, a, a + 1) = <<p[a + 1]>>
         /\ \A a \in Nat : Between(p, a, a) = <<>>
         /\ Between(p, 0, Len(p)) = p
<1>1. Len(p) \in Nat /\ p \in Seq(Units \cup {NUL})
  BY LenProperties DEF Texts
<1>2. ASSUME NEW a \in Nat, NEW b \in Nat, b <= Len(p)
      PROVE  Between(p, a, b) \in Texts
  <2>1. \A i \in a + 1 .. b : i \in 1 .. Len(p)
    BY <1>1, <1>2
  <2>2. \A i \in a + 1 .. b : p[i] \in Units \cup {NUL}
    BY <1>1, <2>1, ElementOfSeq
  <2>3. QED
    BY <2>2, SubSeqProperties DEF Between, Texts
<1>3. ASSUME NEW a \in Nat, a < Len(p)
      PROVE  Between(p, a, a + 1) = <<p[a + 1]>>
  <2> DEFINE s == SubSeq(p, a + 1, a + 1)
  <2>1. a + 1 \in 1 .. Len(p) /\ a + 1 \in Int /\ a + 1 - (a + 1) + 1 = 1
    BY <1>1, <1>3
  <2>2. \A i \in a + 1 .. a + 1 : p[i] \in Units \cup {NUL}
    BY <1>1, <2>1, ElementOfSeq
  <2>3. /\ s \in Seq(Units \cup {NUL}) /\ Len(s) = 1
        /\ s[1] = p[a + 1 + 1 - 1]
    BY <2>1, <2>2, SubSeqProperties
  <2>4. a + 1 + 1 - 1 = a + 1
    OBVIOUS
  <2> HIDE DEF s
  <2>5. s = <<p[a + 1]>>
    BY <2>3, <2>4
  <2>6. QED
    BY <2>5 DEF s, Between
<1>4. ASSUME NEW a \in Nat
      PROVE  Between(p, a, a) = <<>>
  BY <1>1, SubSeqEmpty DEF Between
<1>5. Between(p, 0, Len(p)) = p
  BY <1>1, SubSeqFull DEF Between
<1>6. QED
  BY <1>2, <1>3, <1>4, <1>5

(* The tree is complete, and p what it was read from.                      *)
Complete(p, at) ==
  /\ Blocks /\ Links /\ Strings
  /\ p \in Texts /\ Labelled(p, at)
  /\ ListItems = {} /\ InProgress = {}
  /\ root \in DOMAIN node
  /\ at[root].up = 0 /\ at[root].value = 0 /\ at[root].end = Len(p)

(* What that says of one node and those next to it.                        *)
LEMMA PlaceFacts ==
  ASSUME NEW p, NEW at, Complete(p, at), NEW m \in DOMAIN node
  PROVE  /\ at[m].name \in Nat /\ at[m].value \in Nat /\ at[m].end \in Nat
         /\ at[m].name <= at[m].value /\ at[m].value <= at[m].end
         /\ Len(p) \in Nat /\ at[m].end <= Len(p)
         /\ at[m].up \in {0} \cup DOMAIN node /\ 0 \notin DOMAIN node
         /\ node[m].next # 0 =>
              /\ node[m].next \in DOMAIN node
              /\ at[m].end < Len(p) /\ p[at[m].end + 1] = Comma
              /\ at[node[m].next].name = at[m].end + 1
              /\ at[node[m].next].up = at[m].up
              /\ node[node[m].next].prev = m
         /\ node[m].next = 0 /\ at[m].up # 0 =>
              at[at[m].up].end = at[m].end + 1
         /\ Valued(p, at, m)
         /\ node[m].child \in {0} \cup DOMAIN node
         /\ node[m].child # 0 =>
              \E open \in Opening :
                node[m].type = ListType[open] /\ Listed(p, at, m, open)
<1>1. /\ Ordered(p, at, m) /\ Followed(p, at, m) /\ Valued(p, at, m)
      /\ at \in [DOMAIN node -> Label]
  BY DEF Complete, Labelled
<1>2. /\ at[m].name \in Nat /\ at[m].value \in Nat /\ at[m].end \in Nat
      /\ Len(p) \in Nat
  BY <1>1, LabelFacts, LenProperties DEF Complete, Texts
<1>3. /\ node[m].next \in {0} \cup DOMAIN node /\ 0 \notin DOMAIN node
      /\ node[m].child \in {0} \cup DOMAIN node
  BY NodeFacts DEF Complete
<1>4. node[m].child # 0 => ~Plain(m, Between(p, at[m].value, at[m].end))
  BY DEF Plain
<1>5. node[m].child # 0 =>
        \E open \in Opening :
          node[m].type = ListType[open] /\ Listed(p, at, m, open)
  BY <1>1, <1>4 DEF Valued
<1>6. node[m].next # 0 =>
         /\ at[m].end < Len(p) /\ p[at[m].end + 1] = Comma
         /\ at[node[m].next].name = at[m].end + 1
         /\ at[node[m].next].up = at[m].up
         /\ node[node[m].next].prev = m
  BY <1>1 DEF Followed
<1>7. node[m].next = 0 /\ at[m].up # 0 => at[at[m].up].end = at[m].end + 1
  BY <1>1 DEF Followed, Complete
<1>8. /\ at[m].name <= at[m].value /\ at[m].value <= at[m].end
      /\ at[m].end <= Len(p) /\ at[m].up \in {0} \cup DOMAIN node
  BY <1>1 DEF Ordered
<1>9. QED
  BY <1>1, <1>2, <1>3, <1>5, <1>6, <1>7, <1>8

(* What holds of a node as soon as it holds of all that begin later, holds *)
(* of every node.                                                          *)
LEMMA BackToFront ==
  ASSUME NEW p, NEW at, Complete(p, at), NEW S,
         \A m \in DOMAIN node :
           (\A k \in DOMAIN node : at[k].name > at[m].name => k \in S)
             => m \in S
  PROVE  \A m \in DOMAIN node : m \in S
<1> DEFINE R == {j \in Nat : \A m \in DOMAIN node : at[m].name = j => m \in S}
<1>1. Len(p) \in Nat
  BY LenProperties DEF Complete, Texts
<1>2. \A m \in DOMAIN node : at[m].name \in Nat /\ at[m].name <= Len(p)
  BY PlaceFacts
<1>3. \A j \in Nat : j > Len(p) => j \in R
  BY <1>1, <1>2
<1>4. ASSUME NEW j \in 0 .. Len(p), \A i \in Nat : i > j => i \in R
      PROVE  j \in R
  BY <1>1, <1>2, <1>4
<1> HIDE DEF R
<1>5. R = Nat
  <2>1. R \in SUBSET Nat
    BY DEF R
  <2>2. QED
    BY <1>1, <1>3, <1>4, <2>1, Downwards
<1>6. QED
  BY <1>2, <1>5 DEF R

(* Where the list ends that a node is in.                                  *)
ListEnd(at, m) == at[at[m].up].end - 1

(* A node of a list ends before the list does.                             *)
LEMMA InItsList ==
  ASSUME NEW p, NEW at, Complete(p, at)
  PROVE  \A m \in DOMAIN node : at[m].up # 0 =>
           /\ ListEnd(at, m) \in Nat /\ at[m].end <= ListEnd(at, m)
           /\ ListEnd(at, m) <= Len(p)
<1> DEFINE S == {m \in DOMAIN node : at[m].up # 0
      => at[m].end <= ListEnd(at, m)}
<1>1. ASSUME NEW m \in DOMAIN node,
             \A k \in DOMAIN node : at[k].name > at[m].name => k \in S
      PROVE  m \in S
  <2> SUFFICES ASSUME at[m].up # 0
               PROVE  at[m].end <= ListEnd(at, m)
    OBVIOUS
  <2>1. CASE node[m].next = 0
    BY <2>1, PlaceFacts DEF ListEnd
  <2>2. CASE node[m].next # 0
    <3>. PICK k : k = node[m].next
      OBVIOUS
    <3>1. /\ k \in DOMAIN node /\ at[k].name = at[m].end + 1
          /\ at[k].up = at[m].up /\ at[m].name <= at[m].end
          /\ at[m].name \in Nat /\ at[m].end \in Nat
          /\ at[k].name \in Nat /\ at[k].end \in Nat /\ at[k].name <= at[k].end
      <4>1. k \in DOMAIN node /\ at[k].name = at[m].end + 1
              /\ at[k].up = at[m].up
        BY <2>2, PlaceFacts
      <4>2. /\ at[m].name <= at[m].value /\ at[m].value <= at[m].end
            /\ at[m].name \in Nat /\ at[m].end \in Nat /\ at[m].value \in Nat
            /\ at[k].name \in Nat /\ at[k].end \in Nat /\ at[k].value \in Nat
            /\ at[k].name <= at[k].value /\ at[k].value <= at[k].end
        BY <4>1, PlaceFacts
      <4>3. QED
        BY <4>1, <4>2
    <3>2. at[k].end <= ListEnd(at, k) /\ ListEnd(at, k) = ListEnd(at, m)
      BY <1>1, <3>1 DEF ListEnd
    <3>3. ListEnd(at, m) \in Int
      <4>1. at[m].up \in DOMAIN node
        BY PlaceFacts
      <4>2. at[at[m].up].end \in Nat
        BY <4>1, PlaceFacts
      <4>3. QED
        BY <4>2 DEF ListEnd
    <3>4. QED
      BY <3>1, <3>2, <3>3
  <2>3. QED
    BY <2>1, <2>2
<1>2. \A m \in DOMAIN node : m \in S
  <2> HIDE DEF S
  <2>1. QED
    BY <1>1, BackToFront
<1>3. ASSUME NEW m \in DOMAIN node, at[m].up # 0
      PROVE  /\ ListEnd(at, m) \in Nat /\ at[m].end <= ListEnd(at, m)
             /\ ListEnd(at, m) <= Len(p)
  <2>1. at[m].up \in DOMAIN node
    BY <1>3, PlaceFacts
  <2>2. /\ at[at[m].up].end \in Nat /\ at[at[m].up].end <= Len(p)
        /\ at[m].end \in Nat /\ Len(p) \in Nat
    BY <2>1, PlaceFacts
  <2>3. at[m].end <= ListEnd(at, m)
    BY <1>2, <1>3
  <2>4. QED
    BY <2>2, <2>3 DEF ListEnd
<1>4. QED
  BY <1>3

(* The root is not in a list, has no name, and is the only one.            *)
LEMMA RootAlone ==
  ASSUME NEW p, NEW at, Complete(p, at)
  PROVE  /\ node[root].next = 0 /\ node[root].string = 0
         /\ at[root].name = 0
         /\ \A m \in DOMAIN node : m # root => at[m].up # 0
<1>1. /\ root \in DOMAIN node /\ at[root].value = 0 /\ at[root].up = 0
      /\ at[root].end = Len(p) /\ Len(p) \in Nat
      /\ at[root].name \in Nat /\ at[root].name <= at[root].value
  BY PlaceFacts DEF Complete
<1>2. node[root].next = 0
  BY <1>1, PlaceFacts
<1>3. at[root].name = 0
  BY <1>1
<1>4. node[root].string = 0
  <2>1. Named(p, at, root)
    BY <1>1 DEF Complete, Labelled
  <2>2. QED
    BY <1>1, <2>1 DEF Named
<1>5. ASSUME NEW m \in DOMAIN node, m # root
      PROVE  at[m].up # 0
  <2> DEFINE S == {k \in DOMAIN node : k = root \/ at[k].up # 0}
  <2>1. ASSUME NEW k \in S
        PROVE  /\ node[k].next \in DOMAIN node => node[k].next \in S
               /\ node[k].child \in DOMAIN node => node[k].child \in S
    <3>1. 0 \notin DOMAIN node
      BY <2>1, PlaceFacts
    <3>2. node[k].next \in DOMAIN node => at[node[k].next].up # 0
      BY <1>2, <2>1, <3>1, PlaceFacts
    <3>3. node[k].child \in DOMAIN node => at[node[k].child].up = k
      BY <2>1, <3>1, PlaceFacts DEF Listed
    <3>4. QED
      BY <2>1, <3>1, <3>2, <3>3
  <2>2. Closed(S)
    BY <2>1 DEF Closed
  <2>3. \A i \in Depths : ListHead(i) \in {0} \cup S
    <3>1. ASSUME NEW i \in Depths
          PROVE  i = 0
      <4>1. i \in 1 .. Len(stack) => stack[i].item \in ListItems
        BY DEF ListItems
      <4>2. Len(stack) \in Nat
        BY LenProperties DEF Complete, Blocks
      <4>3. QED
        BY <4>1, <4>2 DEF Complete, Depths
    <3>2. QED
      BY <1>1, <3>1 DEF ListHead
  <2>4. S = DOMAIN node
    <3> HIDE DEF S
    <3>1. S \in SUBSET DOMAIN node
      BY DEF S
    <3>2. QED
      BY <2>2, <2>3, <3>1 DEF Complete, Links
  <2>5. QED
    BY <1>5, <2>4
<1>6. QED
  BY <1>2, <1>3, <1>4, <1>5

(* The text of an item and those after it.                                 *)
Place(p, at, m) ==
  IF m = 0 THEN <<>>
  ELSE Between(p, at[m].name, IF at[m].up = 0 THEN at[m].end
                              ELSE ListEnd(at, m))

(* The parts that Written makes of an item.                                *)
NameText(m) ==
  IF node[m].string = 0 THEN <<>>
  ELSE Quoted(str[node[m].string].content) \o <<Colon>>

RestText(m, list) ==
  IF node[m].next = 0 THEN <<>> ELSE <<Comma>> \o list[node[m].next]

ItemText(m, list) ==
  IF m = 0 THEN <<>>
  ELSE NameText(m) \o ValueText(m, list) \o RestText(m, list)

(* What ValueText makes of each type.                                      *)
LEMMA ValueTexts ==
  ASSUME NEW m, NEW list
  PROVE  /\ node[m].type = "True" => ValueText(m, list) = <<Literal>>
         /\ node[m].type = "Number" => ValueText(m, list) = node[m].value
         /\ node[m].type = "String" =>
              ValueText(m, list) = Quoted(str[node[m].valuestring].content)
         /\ \A open \in Opening : node[m].type = ListType[open] =>
              ValueText(m, list) =
                <<open>> \o list[node[m].child] \o <<Closing[open]>>
<1>1. node[m].type = "True" => ValueText(m, list) = <<Literal>>
  BY Zenon DEF ValueText
<1>2. node[m].type = "Number" => ValueText(m, list) = node[m].value
  BY Zenon DEF ValueText
<1>3. node[m].type = "String" =>
        ValueText(m, list) = Quoted(str[node[m].valuestring].content)
  BY Zenon DEF ValueText
<1>4. ASSUME NEW open \in Opening, node[m].type = ListType[open]
      PROVE  ValueText(m, list) =
               <<open>> \o list[node[m].child] \o <<Closing[open]>>
  <2>1. CASE open = "["
    <3>1. ListType[open] = "Array" /\ Closing[open] = "]"
      BY <1>4, <2>1, Zenon DEF ListType, Closing
    <3>2. ValueText(m, list) = <<"[">> \o list[node[m].child] \o <<"]">>
      BY <1>4, <3>1, Zenon DEF ValueText
    <3>3. QED
      BY <2>1, <3>1, <3>2, Zenon
  <2>2. CASE open = "{"
    <3>1. ListType[open] = "Object" /\ Closing[open] = "}"
      BY <1>4, <2>2, Zenon DEF ListType, Closing
    <3>2. ValueText(m, list) = <<"{">> \o list[node[m].child] \o <<"}">>
      BY <1>4, <3>1, Zenon DEF ValueText
    <3>3. QED
      BY <2>2, <3>1, <3>2, Zenon
  <2>3. QED
    BY <1>4, <2>1, <2>2, Zenon DEF Opening
<1>5. QED
  BY <1>1, <1>2, <1>3, <1>4, Zenon

(* A value says what is in its place, if its list does.                    *)
LEMMA ValueInPlace ==
  ASSUME NEW p, NEW at, Complete(p, at), NEW m \in DOMAIN node, NEW g,
         g[node[m].child] = Place(p, at, node[m].child)
  PROVE  ValueText(m, g) = Between(p, at[m].value, at[m].end)
<1>1. PICK v, e : v = at[m].value /\ e = at[m].end
  OBVIOUS
<1>2. p \in Texts
  BY DEF Complete
<1>3. /\ v \in Nat /\ e \in Nat /\ v <= e /\ e <= Len(p) /\ Len(p) \in Nat
      /\ Valued(p, at, m) /\ 0 \notin DOMAIN node
  BY <1>1, PlaceFacts
<1>4. CASE Plain(m, Between(p, v, e))
  BY <1>1, <1>4, ValueTexts DEF Plain
<1>5. ASSUME NEW open \in Opening, node[m].type = ListType[open],
             Listed(p, at, m, open)
      PROVE  ValueText(m, g) = Between(p, v, e)
  <2>. PICK c : c = node[m].child
    OBVIOUS
  <2>1. ValueText(m, g) = <<open>> \o g[c] \o <<Closing[open]>>
    BY <1>5, ValueTexts
  <2>2. v + 1 < e /\ p[v + 1] = open /\ p[e] = Closing[open]
    BY <1>1, <1>5 DEF Listed
  <2>3. g[c] = Between(p, v + 1, e - 1)
    <3>1. CASE c = 0
      <4>1. e = v + 2
        BY <1>1, <1>5, <3>1 DEF Listed
      <4>2. v + 1 \in Nat /\ e - 1 = v + 1
        BY <1>3, <4>1
      <4>3. Between(p, v + 1, v + 1) = <<>>
        BY <4>2, Parts DEF Complete
      <4>4. QED
        BY <3>1, <4>2, <4>3 DEF Place
    <3>2. CASE c # 0
      <4>1. at[c].name = v + 1 /\ at[c].up = m /\ m # 0
        BY <1>1, <1>3, <1>5, <3>2 DEF Listed
      <4>2. QED
        BY <1>1, <3>2, <4>1 DEF Place, ListEnd
    <3>3. QED
      BY <3>1, <3>2
  <2>4. /\ v + 1 \in Nat /\ e - 1 \in Nat /\ v < Len(p) /\ e - 1 < Len(p)
        /\ v <= v + 1 /\ v + 1 <= e - 1 /\ e - 1 <= e /\ e - 1 + 1 = e
        /\ e - 1 <= Len(p) /\ v <= e - 1
    BY <1>3, <2>2
  <2>5. <<open>> = Between(p, v, v + 1)
    BY <1>3, <2>2, <2>4, Parts DEF Complete
  <2>6. <<Closing[open]>> = Between(p, e - 1, e)
    <3>1. Between(p, e - 1, e - 1 + 1) = <<p[e - 1 + 1]>>
      BY <2>4, Parts DEF Complete
    <3>2. QED
      BY <2>2, <2>4, <3>1
  <2>7. Between(p, v, v + 1) \o Between(p, v + 1, e - 1) = Between(p, v, e - 1)
    BY <1>2, <1>3, <2>4, Adjacent
  <2>8. Between(p, v, e - 1) \o Between(p, e - 1, e) = Between(p, v, e)
    BY <1>2, <1>3, <2>4, Adjacent
  <2>9. QED
    BY <2>1, <2>3, <2>5, <2>6, <2>7, <2>8
<1>6. QED
  BY <1>1, <1>3, <1>4, <1>5 DEF Valued

(* The name of an item says what is in its place.                          *)
LEMMA NameInPlace ==
  ASSUME NEW p, NEW at, Complete(p, at), NEW m \in DOMAIN node
  PROVE  NameText(m) = Between(p, at[m].name, at[m].value)
<1>1. PICK n, v : n = at[m].name /\ v = at[m].value
  OBVIOUS
<1>2. p \in Texts
  BY DEF Complete
<1>3. n \in Nat /\ v \in Nat /\ n <= v /\ v <= Len(p) /\ Len(p) \in Nat
  <2>1. /\ n \in Nat /\ v \in Nat /\ at[m].end \in Nat /\ Len(p) \in Nat
        /\ n <= v /\ v <= at[m].end /\ at[m].end <= Len(p)
    BY <1>1, PlaceFacts
  <2>2. QED
    BY <2>1
<1>4. Named(p, at, m)
  BY DEF Complete, Labelled
<1>5. CASE node[m].string = 0
  <2>1. v = n
    BY <1>1, <1>4, <1>5 DEF Named
  <2>2. Between(p, n, n) = <<>>
    BY <1>3, Parts DEF Complete
  <2>3. QED
    BY <1>1, <1>5, <2>1, <2>2 DEF NameText
<1>6. CASE node[m].string # 0
  <2>1. /\ n < v /\ p[v] = Colon
        /\ Between(p, n, v - 1) = Quoted(str[node[m].string].content)
    BY <1>1, <1>4, <1>6 DEF Named
  <2>2. /\ v - 1 \in Nat /\ v - 1 < Len(p) /\ n <= v - 1 /\ v - 1 <= v
        /\ v - 1 + 1 = v
    BY <1>3, <2>1
  <2>3. <<Colon>> = Between(p, v - 1, v)
    <3>1. Between(p, v - 1, v - 1 + 1) = <<p[v - 1 + 1]>>
      BY <2>2, Parts DEF Complete
    <3>2. QED
      BY <2>1, <2>2, <3>1
  <2>4. Between(p, n, v - 1) \o Between(p, v - 1, v) = Between(p, n, v)
    BY <1>2, <1>3, <2>2, Adjacent
  <2>5. QED
    BY <1>1, <1>6, <2>1, <2>3, <2>4 DEF NameText
<1>7. QED
  BY <1>5, <1>6

(* An item says what is in its place, if its list and those after it do.   *)
LEMMA ItemInPlace ==
  ASSUME NEW p, NEW at, Complete(p, at), NEW m \in DOMAIN node, NEW g,
         g[node[m].child] = Place(p, at, node[m].child),
         g[node[m].next] = Place(p, at, node[m].next)
  PROVE  ItemText(m, g) = Place(p, at, m)
<1>1. PICK n, v, e, k, z :
             /\ n = at[m].name /\ v = at[m].value /\ e = at[m].end
             /\ k = node[m].next
             /\ z = IF at[m].up = 0 THEN e ELSE ListEnd(at, m)
  OBVIOUS
<1>2. p \in Texts
  BY DEF Complete
<1>3. /\ n \in Nat /\ v \in Nat /\ e \in Nat /\ n <= v /\ v <= e
      /\ e <= Len(p) /\ Len(p) \in Nat /\ n <= e /\ 0 \notin DOMAIN node
  <2>1. /\ n \in Nat /\ v \in Nat /\ e \in Nat /\ n <= v /\ v <= e
        /\ e <= Len(p) /\ Len(p) \in Nat /\ 0 \notin DOMAIN node
    BY <1>1, PlaceFacts
  <2>2. QED
    BY <2>1
<1>4. z \in Nat /\ e <= z /\ z <= Len(p)
  BY <1>1, <1>3, InItsList
<1>5. RestText(m, g) = Between(p, e, z)
  <2>1. CASE k = 0
    <3>1. z = e
      <4>1. node[m].next = 0
        BY <1>1, <2>1
      <4>2. at[m].up # 0 => at[at[m].up].end = at[m].end + 1
        BY <4>1, PlaceFacts
      <4>3. QED
        BY <1>1, <1>3, <4>2 DEF ListEnd
    <3>2. Between(p, e, e) = <<>>
      BY <1>3, Parts DEF Complete
    <3>3. QED
      BY <1>1, <2>1, <3>1, <3>2 DEF RestText
  <2>2. CASE k # 0
    <3>1. /\ k \in DOMAIN node /\ e < Len(p) /\ p[e + 1] = Comma
          /\ at[k].name = e + 1 /\ at[k].up = at[m].up
      BY <1>1, <2>2, PlaceFacts
    <3>2. at[m].up # 0
      <4>1. m # root
        BY <1>1, <2>2, RootAlone
      <4>2. QED
        BY <4>1, RootAlone
    <3>3. g[k] = Between(p, e + 1, z)
      BY <1>1, <2>2, <3>1, <3>2 DEF Place, ListEnd
    <3>4. e + 1 <= z
      <4>1. /\ at[k].end <= ListEnd(at, k) /\ ListEnd(at, k) = z
            /\ at[k].end \in Nat /\ at[k].value \in Nat
            /\ e + 1 <= at[k].value /\ at[k].value <= at[k].end
        BY <1>1, <3>1, <3>2, InItsList, PlaceFacts DEF ListEnd
      <4>2. QED
        BY <1>3, <1>4, <4>1
    <3>5. <<Comma>> = Between(p, e, e + 1)
      BY <1>3, <3>1, Parts DEF Complete
    <3>6. Between(p, e, e + 1) \o Between(p, e + 1, z) = Between(p, e, z)
      <4>1. e + 1 \in Nat /\ e <= e + 1
        BY <1>3
      <4>2. QED
        BY <1>2, <1>3, <1>4, <3>4, <4>1, Adjacent
    <3>7. QED
      BY <1>1, <2>2, <3>3, <3>5, <3>6 DEF RestText
  <2>3. QED
    BY <2>1, <2>2
<1>6. ValueText(m, g) = Between(p, v, e)
  BY <1>1, ValueInPlace
<1>7. NameText(m) = Between(p, n, v)
  BY <1>1, NameInPlace
<1>8. Between(p, n, v) \o Between(p, v, e) = Between(p, n, e)
  BY <1>2, <1>3, Adjacent
<1>9. Between(p, n, e) \o Between(p, e, z) = Between(p, n, z)
  BY <1>2, <1>3, <1>4, Adjacent
<1>10. m # 0
  BY <1>3
<1>11. Place(p, at, m) = Between(p, n, z)
  BY <1>1, <1>10 DEF Place
<1>12. QED
  BY <1>5, <1>6, <1>7, <1>8, <1>9, <1>10, <1>11 DEF ItemText

(* The tree written out is the text it was read from.                      *)
LEMMA WrittenIs ==
  ASSUME NEW p, NEW at, Complete(p, at)
  PROVE  Written(root) = p
<1> DEFINE D == {0} \cup DOMAIN node
           Fix(h) == h = [m \in D |-> ItemText(m, h)]
           list == CHOOSE h : Fix(h)
           f == [m \in D |-> Place(p, at, m)]
<1>1. Written(root) = ValueText(root, list)
  BY Zenon DEF Written, ItemText, NameText, RestText, Comma, Colon
<1>2. \A m \in DOMAIN node :
        node[m].next \in D /\ node[m].child \in D /\ m # 0
  BY PlaceFacts
<1>3. Fix(f)
  <2>1. ASSUME NEW m \in D
        PROVE  ItemText(m, f) = Place(p, at, m)
    <3>1. CASE m = 0
      BY <3>1 DEF ItemText, Place
    <3>2. CASE m # 0
      <4>1. m \in DOMAIN node
        BY <3>2
      <4>2. /\ f[node[m].child] = Place(p, at, node[m].child)
            /\ f[node[m].next] = Place(p, at, node[m].next)
        BY <1>2, <4>1
      <4> HIDE DEF f
      <4>3. QED
        BY <4>1, <4>2, ItemInPlace
    <3>3. QED
      BY <3>1, <3>2
  <2>2. f = [m \in D |-> ItemText(m, f)]
    <3>1. f = [m \in D |-> Place(p, at, m)]
      OBVIOUS
    <3> HIDE DEF f
    <3>2. QED
      BY <2>1, <3>1, Zenon
  <2>3. QED
    BY <2>2
<1>4. Fix(list)
  <2> HIDE DEF Fix, f
  <2>1. QED
    BY <1>3, Zenon
<1> HIDE DEF list
<1>5. list[0] = Place(p, at, 0)
  BY <1>4 DEF ItemText, Place
<1>6. \A m \in DOMAIN node : list[m] = ItemText(m, list)
  BY <1>4
<1> DEFINE S == {m \in DOMAIN node : list[m] = Place(p, at, m)}
<1>7. ASSUME NEW m \in DOMAIN node,
             \A k \in DOMAIN node : at[k].name > at[m].name => k \in S
      PROVE  m \in S
  <2>1. /\ at[m].name \in Nat /\ at[m].value \in Nat /\ at[m].end \in Nat
        /\ at[m].name <= at[m].value /\ at[m].value <= at[m].end
    BY PlaceFacts
  <2>2. list[node[m].next] = Place(p, at, node[m].next)
    <3>1. CASE node[m].next # 0
      <4>1. node[m].next \in DOMAIN node
              /\ at[node[m].next].name = at[m].end + 1
        BY <3>1, PlaceFacts
      <4>2. at[node[m].next].name > at[m].name
        BY <2>1, <4>1
      <4>3. QED
        BY <1>7, <4>1, <4>2
    <3>2. QED
      BY <1>5, <3>1
  <2>3. list[node[m].child] = Place(p, at, node[m].child)
    <3>1. CASE node[m].child # 0
      <4>1. node[m].child \in DOMAIN node
              /\ at[node[m].child].name = at[m].value + 1
        BY <3>1, PlaceFacts DEF Listed
      <4>2. at[node[m].child].name > at[m].name
        BY <2>1, <4>1
      <4>3. QED
        BY <1>7, <4>1, <4>2
    <3>2. QED
      BY <1>5, <3>1
  <2>4. QED
    BY <1>6, <2>2, <2>3, ItemInPlace
<1>8. \A m \in DOMAIN node : list[m] = Place(p, at, m)
  <2>1. \A m \in DOMAIN node : m \in S
    <3> HIDE DEF S
    <3>1. QED
      BY <1>7, BackToFront
  <2>2. QED
    BY <2>1
<1>9. root \in DOMAIN node /\ at[root].value = 0 /\ at[root].end = Len(p)
  BY DEF Complete
<1>10. list[node[root].child] = Place(p, at, node[root].child)
  BY <1>2, <1>5, <1>8, <1>9
<1>11. ValueText(root, list) = Between(p, 0, Len(p))
  BY <1>9, <1>10, ValueInPlace
<1>12. QED
  BY <1>1, <1>11, Parts DEF Complete

-----------------------------------------------------------------------------
(* The theorem *)

(* When the parser has returned the tree is complete.                      *)
LEMMA ReturnedComplete ==
  ASSUME JsonInv, TreeSays, pc = "parsed"
  PROVE  \E p, at : /\ Complete(p, at)
                    /\ Written(root) = WithoutBlanks(SubSeq(text, 1,
                         offset - 1))
<1>1. PICK p, at : Says(Read(offset - 1), p) /\ Labelled(p, at)
  BY DEF TreeSays, Told, Consumed
<1>2. stack = <<>> /\ Len(stack) = 0
  BY EmptySeq DEF JsonInv, HeapInv, Places
<1>3. ListItems = {} /\ InProgress = {}
  BY <1>2 DEF ListItems, InProgress
<1>4. root \in DOMAIN node
  <2>1. 0 \in Depths /\ ListHead(0) = root
    BY <1>2 DEF Depths, ListHead
  <2>2. QED
    BY <2>1 DEF TreeSays, JsonInv, HeapInv, Links
<1>5. Complete(p, at)
  <2>1. p \in Texts
    BY <1>1 DEF Says
  <2>2. at[root].up = 0 /\ at[root].value = 0 /\ at[root].end = Len(p)
    BY <1>1 DEF Labelled, Arrived
  <2>3. QED
    BY <1>1, <1>3, <1>4, <2>1, <2>2 DEF Complete, JsonInv, HeapInv
<1>6. Written(root) = WithoutBlanks(SubSeq(text, 1, offset - 1))
  BY <1>1, <1>5, WrittenIs, SaysIs DEF Read
<1>7. QED
  BY <1>5, <1>6

(* The tree is what the text says, and its lists are linked both ways.     *)
LEMMA TreeIsFaithful ==
  ASSUME JsonInv, TreeSays
  PROVE  Faithful
<1>1. SUFFICES ASSUME pc = "parsed"
               PROVE  Faithful
  BY DEF Faithful
<1>2. PICK p, at : /\ Complete(p, at)
                   /\ Written(root) =
                        WithoutBlanks(SubSeq(text, 1, offset - 1))
  BY <1>1, ReturnedComplete
<1>3. ASSUME NEW n \in DOMAIN node, node[n].next # 0
      PROVE  node[node[n].next].prev = n
  BY <1>2, <1>3, PlaceFacts
<1>4. ASSUME NEW n \in DOMAIN node, node[n].child # 0
      PROVE  LET last == node[node[n].child].prev
             IN node[last].next = 0 /\ last \in Tree(node[n].child)
  <2>1. PICK first, last : /\ first = node[n].child
                           /\ last = node[first].prev
    OBVIOUS
  <2>2. first # 0 /\ last \in DOMAIN node /\ node[last].next = 0
          /\ Reaches(first, last)
    BY <1>2, <1>4, <2>1, PlaceFacts DEF Listed
  <2>3. last \in Tree(first)
    BY <2>2 DEF Tree, Reaches
  <2>4. QED
    BY <2>1, <2>2, <2>3
<1>5. QED
  BY <1>1, <1>2, <1>3, <1>4 DEF Faithful

(* The tree that cJSON_Parse returns says what its text says up to where   *)
(* the parser stopped, every name, string and number of it in its order    *)
(* and nothing else, and the lists in it are linked both ways: for every   *)
(* text, every nesting limit and every allocation that may fail.           *)
THEOREM TreeFaithful == JsonSpec => []Faithful
<1>1. JsonInit => TreeSays
  <2>1. JsonInit => pc = "idle" /\ text = <<NUL>>
    BY DEF JsonInit
  <2>2. text = <<NUL>> => OneTerminator
    BY DEF OneTerminator
  <2>3. QED
    BY <2>1, <2>2 DEF TreeSays, Parsing
<1>2. JsonInv /\ JsonInv' /\ TreeSays /\ [JsonNext]_jsonVars => TreeSays'
  BY TreeSaysStep, TreeSaysStutter
<1>3. JsonInv /\ TreeSays => Faithful
  BY TreeIsFaithful
<1>4. QED
  BY <1>1, <1>2, <1>3, JsonInvariant, PTL DEF JsonSpec

-----------------------------------------------------------------------------
(* cJSON_Minify *)

(* The units of a text with comments, and the texts that end with the one  *)
(* terminator in them.                                                     *)
Chars == Units \cup {NUL, Slash, Star, Tab, Newline}

Terminated == {s \in Seq(Chars) : /\ Len(s) > 0 /\ s[Len(s)] = NUL
                                  /\ \A i \in 1 .. Len(s) - 1 : s[i] # NUL}

(* The signs of cJSON_Minify differ, and a JSON text has no others than    *)
(* blanks and quotes.                                                      *)
LEMMA SignsDiffer ==
  /\ NUL \notin {Slash, Star, Tab, Newline, Blank, Quote}
  /\ Slash \notin {Star, Tab, Newline, Blank, Quote}
  /\ Star # Quote /\ Newline \notin {Star, Slash, Quote}
  /\ Quote \notin {Blank, Tab, Newline, Backslash}
  /\ Backslash \notin {Blank, NUL}
  /\ \A u \in Units : u \notin {NUL, Slash, Tab, Newline}
<1>1. /\ NUL \notin {Slash, Star, Tab, Newline, Blank, Quote}
      /\ Slash \notin {Star, Tab, Newline, Blank, Quote}
  BY Zenon DEF NUL, Slash, Star, Tab, Newline, Blank, Quote
<1>2. /\ Star # Quote /\ Newline \notin {Star, Slash, Quote}
      /\ Quote \notin {Blank, Tab, Newline, Backslash}
      /\ Backslash \notin {Blank, NUL}
  BY Zenon DEF NUL, Slash, Star, Tab, Newline, Blank, Quote, Backslash
<1>3. \A u \in Units : u \notin {NUL, Slash, Tab, Newline}
  BY DEF Units, NUL, Slash, Tab, Newline, Quote, Backslash, Blank, Literal
<1>4. QED
  BY <1>1, <1>2, <1>3

(* What cJSON_Minify takes in one go ends further on, at the terminator at *)
(* the latest.                                                             *)
LEMMA SkipsGoOn ==
  ASSUME NEW t \in Terminated, NEW i \in 1 .. Len(t) - 1
  PROVE  /\ minify_string(t, i) \in i + 1 .. Len(t)
         /\ t[i + 1] = Slash => skip_oneline_comment(t, i) \in i + 1 .. Len(t)
         /\ t[i + 1] = Star => skip_multiline_comment(t, i) \in i + 1 .. Len(t)
<1>1. Len(t) \in Nat /\ t[Len(t)] = NUL
  BY LenProperties DEF Terminated
<1> DEFINE L == Len(t)
<1> HIDE DEF L
<1>2. L \in Nat /\ i \in 1 .. L - 1 /\ t[L] = NUL /\ i + 1 \in 1 .. L
  BY <1>1 DEF L
<1>3. NUL # Quote /\ NUL # Newline /\ NUL # Slash
  BY SignsDiffer
<1>4. ASSUME NEW S \in SUBSET (i + 1 .. L)
      PROVE  Min(S \cup {L}) \in i + 1 .. L
  <2>1. S \cup {L} \in SUBSET Nat /\ S \cup {L} # {}
        /\ \A x \in S \cup {L} : x \in i + 1 .. L
    BY <1>2, <1>4
  <2>2. QED
    BY <2>1, NatMin
<1>5. Min({j + 1 : j \in {k \in i + 1 .. L :
                             t[k] = Quote /\ t[k - 1] # Backslash}}
            \cup {L}) \in i + 1 .. L
  <2>1. \A k \in i + 1 .. L : t[k] = Quote => k + 1 \in i + 1 .. L
    BY <1>2, <1>3
  <2>2. QED
    BY <1>4, <2>1
<1>6. Min({j + 1 : j \in {k \in i + 2 .. L : t[k] = Newline}}
            \cup {L}) \in i + 1 .. L
  <2>1. \A k \in i + 2 .. L : t[k] = Newline => k + 1 \in i + 1 .. L
    BY <1>2, <1>3
  <2>2. QED
    BY <1>4, <2>1
<1>7. Min({j + 2 : j \in {k \in i + 2 .. L - 1 :
                             t[k] = Star /\ t[k + 1] = Slash}}
            \cup {L}) \in i + 1 .. L
  <2>1. \A k \in i + 2 .. L - 1 : t[k + 1] = Slash => k + 2 \in i + 1 .. L
    BY <1>2, <1>3
  <2>2. QED
    BY <1>4, <2>1
<1>8. QED
  BY <1>5, <1>6, <1>7 DEF minify_string, skip_oneline_comment,
       skip_multiline_comment, L

(* The equation of cJSON_Minify, place by place. *)
MinifyAt(f, t, i) ==
  CASE t[i] = NUL -> <<>>
    [] t[i] \in {Blank, Tab, Newline} -> f[i + 1]
    [] t[i] = Slash ->
         f[CASE t[i + 1] = Slash -> skip_oneline_comment(t, i)
             [] t[i + 1] = Star  -> skip_multiline_comment(t, i)
             [] OTHER -> i + 1]
    [] t[i] = Quote ->
         LET behind == minify_string(t, i)
         IN SubSeq(t, i, behind - 1) \o f[behind]
    [] OTHER -> <<t[i]>> \o f[i + 1]

(* Its cases do not overlap: the terminator, what is skipped alone, ... *)
LEMMA MinifyCases ==
  ASSUME NEW f, NEW t, NEW i
  PROVE  /\ t[i] = NUL => MinifyAt(f, t, i) = <<>>
         /\ t[i] \in {Blank, Tab, Newline} => MinifyAt(f, t, i) = f[i + 1]
         /\ t[i] \notin {NUL, Blank, Tab, Newline, Slash, Quote}
              => MinifyAt(f, t, i) = <<t[i]>> \o f[i + 1]
<1>1. /\ NUL \notin {Slash, Tab, Newline, Blank, Quote}
      /\ Slash \notin {Tab, Newline, Blank}
      /\ Quote \notin {Blank, Tab, Newline}
  BY SignsDiffer
<1>2. t[i] = NUL => MinifyAt(f, t, i) = <<>>
  BY <1>1, Zenon DEF MinifyAt
<1>3. t[i] \in {Blank, Tab, Newline} => MinifyAt(f, t, i) = f[i + 1]
  BY <1>1, Zenon DEF MinifyAt
<1>4. t[i] \notin {NUL, Blank, Tab, Newline, Slash, Quote}
        => MinifyAt(f, t, i) = <<t[i]>> \o f[i + 1]
  BY Zenon DEF MinifyAt
<1>5. QED
  BY <1>2, <1>3, <1>4

(* ... a comment of one line, ... *)
LEMMA MinifyLine ==
  ASSUME NEW f, NEW t, NEW i, t[i] = Slash, t[i + 1] = Slash
  PROVE  MinifyAt(f, t, i) = f[skip_oneline_comment(t, i)]
<1>1. /\ Slash \notin {Tab, Newline, Blank, Quote} /\ NUL # Slash
      /\ Star # Slash
  BY SignsDiffer
<1>2. t[i] = Slash /\ t[i + 1] = Slash
        => MinifyAt(f, t, i) = f[skip_oneline_comment(t, i)]
  BY <1>1, Zenon DEF MinifyAt
<1>3. QED
  BY <1>2

(* ... a comment of several lines, ... *)
LEMMA MinifyLines ==
  ASSUME NEW f, NEW t, NEW i, t[i] = Slash, t[i + 1] = Star
  PROVE  MinifyAt(f, t, i) = f[skip_multiline_comment(t, i)]
<1>1. /\ Slash \notin {Tab, Newline, Blank, Quote} /\ NUL # Slash
      /\ Star # Slash
  BY SignsDiffer
<1>2. t[i] = Slash /\ t[i + 1] = Star
        => MinifyAt(f, t, i) = f[skip_multiline_comment(t, i)]
  BY <1>1, Zenon DEF MinifyAt
<1>3. QED
  BY <1>2

(* ... and a string. *)
LEMMA MinifyQuoted ==
  ASSUME NEW f, NEW t, NEW i, t[i] = Quote
  PROVE  MinifyAt(f, t, i) = SubSeq(t, i, minify_string(t, i) - 1)
                               \o f[minify_string(t, i)]
<1>1. Quote \notin {NUL, Blank, Tab, Newline, Slash}
  BY SignsDiffer
<1>2. QED
  BY <1>1, Zenon DEF MinifyAt

(* There is such a function, and cJSON_Minify returns its first value.     *)
LEMMA MinifyFunction ==
  ASSUME NEW t \in Terminated
  PROVE  \E f : /\ \A i \in 1 .. Len(t) : f[i] = MinifyAt(f, t, i)
                /\ cJSON_Minify(t) = f[1]
<1> DEFINE L == Len(t)
           D == 1 .. L
           V == Seq(Chars)
           rank == [i \in D |-> L - i]
           phi == [g \in [D -> V] |-> [i \in D |-> MinifyAt(g, t, i)]]
<1>1. /\ L \in Nat /\ t[L] = NUL
      /\ \A i \in D : t[i] \in Chars
  BY LenProperties, ElementOfSeq DEF Terminated
<1>2. /\ rank \in [D -> Nat] /\ \A i \in D : rank[i] <= L
      /\ \A i, j \in D : j > i => rank[j] < rank[i]
  BY <1>1
<1>3. ASSUME NEW i \in D, t[i] # NUL
      PROVE  /\ i + 1 \in D /\ minify_string(t, i) \in D
             /\ minify_string(t, i) > i
             /\ \A k :
                  k = (CASE t[i + 1] = Slash -> skip_oneline_comment(t, i)
                         [] t[i + 1] = Star  -> skip_multiline_comment(t, i)
                         [] OTHER -> i + 1) => k \in D /\ k > i
  <2>1. i \in 1 .. L - 1
    BY <1>1, <1>3
  <2>2. /\ minify_string(t, i) \in i + 1 .. L
        /\ t[i + 1] = Slash => skip_oneline_comment(t, i) \in i + 1 .. L
        /\ t[i + 1] = Star => skip_multiline_comment(t, i) \in i + 1 .. L
    BY <2>1, SkipsGoOn
  <2>3. QED
    BY <1>1, <2>1, <2>2
<1> HIDE DEF L
<1>4. ASSUME NEW g \in [D -> V], NEW i \in D
      PROVE  MinifyAt(g, t, i) \in V
  <2>1. CASE t[i] = NUL
    BY <2>1, MinifyCases, EmptySeq
  <2>2. CASE t[i] # NUL
    <3>1. g[i + 1] \in V
      BY <1>3, <2>2
    <3>2. g[CASE t[i + 1] = Slash -> skip_oneline_comment(t, i)
             [] t[i + 1] = Star  -> skip_multiline_comment(t, i)
             [] OTHER -> i + 1] \in V
      BY <1>3, <2>2
    <3>3. <<t[i]>> \o g[i + 1] \in V
      <4>1. <<t[i]>> \in V
        BY <1>1
      <4>2. QED
        BY <3>1, <4>1, ConcatProperties
    <3>4. SubSeq(t, i, minify_string(t, i) - 1) \o g[minify_string(t, i)] \in V
      <4>1. minify_string(t, i) \in D /\ g[minify_string(t, i)] \in V
        BY <1>3, <2>2
      <4>2. PICK b : b = minify_string(t, i)
        OBVIOUS
      <4>3. \A k \in i .. b - 1 : t[k] \in Chars
        BY <1>1, <4>1, <4>2
      <4>4. SubSeq(t, i, b - 1) \in V
        <5>1. i \in Int /\ b - 1 \in Int
          BY <1>1, <4>1, <4>2
        <5>2. QED
          BY <4>3, <5>1, SubSeqProperties
      <4>5. QED
        BY <4>1, <4>2, <4>4, ConcatProperties
    <3> HIDE DEF V, D
    <3>5. QED
      BY <2>2, <3>1, <3>2, <3>3, <3>4, Zenon DEF MinifyAt
  <2>3. QED
    BY <2>1, <2>2
<1>5. ASSUME NEW g \in [D -> V], NEW h \in [D -> V], NEW i \in D,
             \A k \in D : rank[k] < rank[i] => g[k] = h[k]
      PROVE  MinifyAt(g, t, i) = MinifyAt(h, t, i)
  <2>1. \A k \in D : k > i => g[k] = h[k]
    BY <1>2, <1>5
  <2>2. CASE t[i] # NUL
    <3>1. i + 1 > i
      BY <1>1
    <3>2. /\ g[i + 1] = h[i + 1]
          /\ g[minify_string(t, i)] = h[minify_string(t, i)]
      BY <1>3, <2>1, <2>2, <3>1
    <3>3. PICK k : k = (CASE t[i + 1] = Slash -> skip_oneline_comment(t, i)
                          [] t[i + 1] = Star  -> skip_multiline_comment(t, i)
                          [] OTHER -> i + 1)
      OBVIOUS
    <3>4. g[k] = h[k]
      BY <1>3, <2>1, <2>2, <3>3
    <3> HIDE DEF V, D
    <3>5. QED
      BY <3>2, <3>3, <3>4, Zenon DEF MinifyAt
  <2>3. CASE t[i] = NUL
    BY <2>3, MinifyCases
  <2>4. QED
    BY <2>2, <2>3
<1> HIDE DEF rank
<1>6. phi \in [[D -> V] -> [D -> V]]
  <2> HIDE DEF D, V
  <2>1. QED
    BY <1>4
<1>7. \A g, h \in [D -> V] : \A i \in D :
        (\A k \in D : rank[k] < rank[i] => g[k] = h[k])
          => phi[g][i] = phi[h][i]
  <2> HIDE DEF D, V
  <2>1. SUFFICES ASSUME NEW g \in [D -> V], NEW h \in [D -> V], NEW i \in D,
                        \A k \in D : rank[k] < rank[i] => g[k] = h[k]
                 PROVE  phi[g][i] = phi[h][i]
    OBVIOUS
  <2>2. MinifyAt(g, t, i) = MinifyAt(h, t, i)
    BY <1>5, <2>1
  <2>3. QED
    BY <2>2
<1>8. V # {}
  BY EmptySeq
<1>9. PICK f \in [D -> V] : f = phi[f]
  <2> HIDE DEF phi, V, D
  <2>1. WellDefined(phi, D, V, rank, L)
    BY <1>1, <1>2, <1>6, <1>7, <1>8 DEF WellDefined
  <2>2. QED
    BY <2>1, Recursion
<1> DEFINE Fix(h) == h = [i \in D |-> MinifyAt(h, t, i)]
           from == CHOOSE h : Fix(h)
<1>10. Fix(f)
  BY <1>9
<1>11. Fix(from)
  BY <1>10
<1>12. cJSON_Minify(t) = from[1]
  BY Zenon DEF cJSON_Minify, MinifyAt, L
<1> HIDE DEF from
<1>13. \A i \in D : from[i] = MinifyAt(from, t, i)
  BY <1>11
<1>14. QED
  BY <1>12, <1>13 DEF L

(* What has no terminator in it, before what ends with one. *)
LEMMA BeforeTerminated ==
  ASSUME NEW c \in Seq(Chars \ {NUL}), NEW r \in Terminated
  PROVE  c \o r \in Terminated
<1>1. c \in Seq(Chars) /\ Len(c) \in Nat
        /\ \A i \in 1 .. Len(c) : c[i] # NUL
  <2>1. Len(c) \in Nat /\ \A i \in 1 .. Len(c) : c[i] \in Chars \ {NUL}
    BY LenProperties, ElementOfSeq
  <2>2. c \in Seq(Chars)
    OBVIOUS
  <2>3. QED
    BY <2>1, <2>2
<1>2. r \in Seq(Chars) /\ Len(r) \in Nat /\ Len(r) > 0 /\ r[Len(r)] = NUL
        /\ \A i \in 1 .. Len(r) - 1 : r[i] # NUL
  BY LenProperties DEF Terminated
<1> DEFINE s == c \o r
<1>3. /\ s \in Seq(Chars) /\ Len(s) = Len(c) + Len(r)
      /\ \A i \in 1 .. Len(c) + Len(r) :
           s[i] = IF i <= Len(c) THEN c[i] ELSE r[i - Len(c)]
  BY <1>1, <1>2, ConcatProperties
<1> HIDE DEF s
<1>4. Len(s) > 0 /\ s[Len(s)] = NUL
  <2>1. /\ Len(s) \in 1 .. Len(c) + Len(r) /\ ~(Len(s) <= Len(c))
        /\ Len(s) - Len(c) = Len(r)
    BY <1>1, <1>2, <1>3
  <2>2. QED
    BY <1>2, <1>3, <2>1
<1>5. ASSUME NEW i \in 1 .. Len(s) - 1
      PROVE  s[i] # NUL
  <2>1. i \in 1 .. Len(c) + Len(r)
    BY <1>1, <1>2, <1>3
  <2>2. CASE i <= Len(c)
    <3>1. i \in 1 .. Len(c)
      BY <2>2, <1>1
    <3>2. QED
      BY <1>1, <1>3, <2>1, <2>2, <3>1
  <2>3. CASE ~(i <= Len(c))
    <3>1. i - Len(c) \in 1 .. Len(r) - 1
      BY <1>1, <1>2, <1>3, <2>3
    <3>2. QED
      BY <1>2, <1>3, <2>1, <2>3, <3>1
  <2>4. QED
    BY <2>2, <2>3
<1>6. QED
  BY <1>3, <1>4, <1>5 DEF Terminated, s

(* There is no terminator in a comment. *)
LEMMA CommentsAreTexts == Comments \subseteq Seq(Chars \ {NUL})
<1>1. {Blank, Slash, Star, Quote, Newline, Tab} \subseteq Chars \ {NUL}
  <2>1. NUL \notin {Slash, Star, Tab, Newline, Blank, Quote}
    BY SignsDiffer
  <2>2. Blank \in Units /\ Quote \in Units
    BY Zenon DEF Units
  <2>3. QED
    BY <2>1, <2>2 DEF Chars
<1> DEFINE S == Chars \ {NUL}
<1> HIDE DEF S
<1>2. /\ Blank \in S /\ Slash \in S /\ Star \in S /\ Quote \in S
      /\ Newline \in S /\ Tab \in S
  BY <1>1 DEF S
<1>3. /\ <<Blank>> \in Seq(S)
      /\ <<Slash, Star, Quote, Star, Star, Slash>> \in Seq(S)
      /\ <<Slash, Slash, Quote, Slash, Star, Newline, Tab>> \in Seq(S)
  BY <1>2
<1>4. QED
  BY <1>3 DEF Comments, S

(* The equation of Commented, place by place. *)
CommentedAt(f, t, c, i, out) ==
  LET turns == t[i] = Quote /\ (out \/ t[i - 1] # Backslash)
  IN IF i = Len(t) + 1 THEN <<NUL>>
     ELSE IF out /\ t[i] = Blank THEN c \o f[i + 1][out]
     ELSE <<t[i]>> \o f[i + 1][out # turns]

(* There is such a function, and Commented is its first value. *)
LEMMA CommentedFunction ==
  ASSUME NEW t \in Seq(Units), NEW c \in Comments
  PROVE  \E f \in [1 .. Len(t) + 1 -> [BOOLEAN -> Terminated]] :
           /\ \A i \in 1 .. Len(t) + 1, out \in BOOLEAN :
                f[i][out] = CommentedAt(f, t, c, i, out)
           /\ Commented(t, c) = f[1][TRUE]
<1> DEFINE L == Len(t)
           D == 1 .. L + 1
           V == [BOOLEAN -> Terminated]
           rank == [i \in D |-> L + 1 - i]
           phi == [g \in [D -> V] |->
                     [i \in D |->
                        [o \in BOOLEAN |-> CommentedAt(g, t, c, i, o)]]]
<1>1. L \in Nat /\ \A i \in 1 .. L : t[i] \in Units
  BY LenProperties, ElementOfSeq
<1>2. /\ rank \in [D -> Nat] /\ \A i \in D : rank[i] <= L + 1
      /\ \A i, j \in D : j > i => rank[j] < rank[i]
  BY <1>1
<1>3. <<NUL>> \in Terminated
  <2>1. NUL \in Chars
    BY DEF Chars
  <2>2. QED
    BY <2>1 DEF Terminated
<1>4. ASSUME NEW i \in D, i # L + 1
      PROVE  i + 1 \in D /\ i + 1 > i /\ t[i] \in Units
  BY <1>1, <1>4
<1>5. ASSUME NEW g, NEW i \in D, NEW o \in BOOLEAN,
             i # L + 1 => \A out \in BOOLEAN : g[i + 1][out] \in Terminated
      PROVE  CommentedAt(g, t, c, i, o) \in Terminated
  <2>1. CASE i = L + 1
    BY <1>3, <2>1 DEF CommentedAt
  <2>2. CASE i # L + 1
    <3>1. c \o g[i + 1][o] \in Terminated
      BY <1>5, <2>2, BeforeTerminated, CommentsAreTexts
    <3>2. <<t[i]>> \in Seq(Chars \ {NUL})
      <4>1. t[i] \in Chars \ {NUL}
        BY <1>4, <2>2, SignsDiffer DEF Chars
      <4>2. QED
        BY <4>1
    <3>3. \A out \in BOOLEAN : <<t[i]>> \o g[i + 1][out] \in Terminated
      BY <1>5, <2>2, <3>2, BeforeTerminated
    <3>4. PICK turns : turns = (t[i] = Quote /\ (o \/ t[i - 1] # Backslash))
      OBVIOUS
    <3>5. (o # turns) \in BOOLEAN
      OBVIOUS
    <3>6. CommentedAt(g, t, c, i, o) =
            IF o /\ t[i] = Blank THEN c \o g[i + 1][o]
            ELSE <<t[i]>> \o g[i + 1][o # turns]
      BY <2>2, <3>4, Zenon DEF CommentedAt
    <3> HIDE DEF L, D
    <3>7. QED
      BY <3>1, <3>3, <3>5, <3>6, Zenon
  <2>3. QED
    BY <2>1, <2>2
<1>6. ASSUME NEW g, NEW h, NEW i \in D,
             i # L + 1 => g[i + 1] = h[i + 1]
      PROVE  \A o \in BOOLEAN :
               CommentedAt(g, t, c, i, o) = CommentedAt(h, t, c, i, o)
  BY <1>6, Zenon DEF CommentedAt
<1> HIDE DEF rank
<1>7. phi \in [[D -> V] -> [D -> V]]
  <2> SUFFICES ASSUME NEW g \in [D -> V], NEW i \in D, NEW o \in BOOLEAN
               PROVE  CommentedAt(g, t, c, i, o) \in Terminated
    OBVIOUS
  <2>1. i # L + 1 => \A out \in BOOLEAN : g[i + 1][out] \in Terminated
    BY <1>4
  <2>2. QED
    BY <1>5, <2>1
<1>8. \A g, h \in [D -> V] : \A i \in D :
        (\A k \in D : rank[k] < rank[i] => g[k] = h[k])
          => phi[g][i] = phi[h][i]
  <2>1. SUFFICES ASSUME NEW g \in [D -> V], NEW h \in [D -> V], NEW i \in D,
                        \A k \in D : rank[k] < rank[i] => g[k] = h[k]
                 PROVE  phi[g][i] = phi[h][i]
    OBVIOUS
  <2>2. i # L + 1 => g[i + 1] = h[i + 1]
    BY <1>2, <1>4, <2>1
  <2>3. \A o \in BOOLEAN :
          CommentedAt(g, t, c, i, o) = CommentedAt(h, t, c, i, o)
    BY <1>6, <2>2
  <2>4. QED
    BY <2>3
<1>9. V # {}
  <2>1. [o \in BOOLEAN |-> <<NUL>>] \in V
    BY <1>3
  <2>2. QED
    BY <2>1
<1>10. PICK f \in [D -> V] : f = phi[f]
  <2> HIDE DEF phi, V, D, L
  <2>1. WellDefined(phi, D, V, rank, L + 1)
    <3>1. L + 1 \in Nat
      BY <1>1
    <3>2. QED
      BY <1>2, <1>7, <1>8, <1>9, <3>1 DEF WellDefined
  <2>2. QED
    BY <2>1, Recursion
<1> DEFINE Fix(h) ==
             h = [i \in D |-> [o \in BOOLEAN |-> CommentedAt(h, t, c, i, o)]]
           from == CHOOSE h : Fix(h)
<1>11. Fix(f)
  BY <1>10
<1>12. Fix(from)
  BY <1>11
<1>13. Commented(t, c) = from[1][TRUE]
  BY Zenon DEF Commented, CommentedAt
<1> HIDE DEF from, D
<1>14. ASSUME NEW i \in D, NEW o \in BOOLEAN
       PROVE  from[i][o] = CommentedAt(from, t, c, i, o)
  BY <1>12
<1> DEFINE S == {k \in Nat :
                   k \in D => \A o \in BOOLEAN : from[k][o] \in Terminated}
<1>15. \A j \in Nat : j > L + 1 => j \in S
  BY <1>1 DEF D
<1>16. ASSUME NEW j \in 0 .. L + 1, \A k \in Nat : k > j => k \in S
       PROVE  j \in S
  <2> SUFFICES ASSUME j \in D, NEW o \in BOOLEAN
               PROVE  from[j][o] \in Terminated
    BY <1>1
  <2>1. j # L + 1 => \A out \in BOOLEAN : from[j + 1][out] \in Terminated
    <3>1. j # L + 1 => j + 1 \in D /\ j + 1 > j /\ j + 1 \in Nat
      BY <1>1, <1>4
    <3>2. QED
      BY <1>16, <3>1
  <2>2. QED
    BY <1>5, <1>14, <2>1
<1> HIDE DEF S
<1>17. S = Nat
  <2>1. S \in SUBSET Nat /\ L + 1 \in Nat
    BY <1>1 DEF S
  <2>2. QED
    BY <1>15, <1>16, <2>1, Downwards
<1>18. \A i \in D, o \in BOOLEAN : from[i][o] \in Terminated
  <2>1. \A i \in D : i \in Nat
    BY <1>1 DEF D
  <2>2. QED
    BY <1>17, <2>1 DEF S
<1>19. from \in [D -> V]
  <2>1. from = [i \in D |-> [o \in BOOLEAN |-> from[i][o]]]
    BY <1>12, <1>14
  <2>2. QED
    BY <1>18, <2>1
<1>20. QED
  BY <1>13, <1>14, <1>19 DEF D

(* From the place p on, the text t is s. *)
IsFrom(t, p, s) ==
  /\ p \in 1 .. Len(t) /\ Len(s) = Len(t) - p + 1
  /\ \A k \in 1 .. Len(s) : s[k] = t[p + k - 1]

(* If that begins with c, c is there, and then what follows it.            *)
LEMMA FromBoth ==
  ASSUME NEW t \in Terminated, NEW p, NEW c \in Seq(Chars),
         NEW r \in Terminated, IsFrom(t, p, c \o r)
  PROVE  /\ p \in Nat /\ Len(c) \in Nat /\ IsFrom(t, p + Len(c), r)
         /\ \A k \in 1 .. Len(c) : t[p + k - 1] = c[k]
<1>1. /\ Len(t) \in Nat /\ Len(c) \in Nat /\ Len(r) \in Nat /\ Len(r) > 0
  BY LenProperties DEF Terminated
<1>2. /\ Len(c \o r) = Len(c) + Len(r)
      /\ \A i \in 1 .. Len(c) + Len(r) :
           (c \o r)[i] = IF i <= Len(c) THEN c[i] ELSE r[i - Len(c)]
  BY ConcatProperties DEF Terminated
<1>3. /\ p \in 1 .. Len(t) /\ Len(c) + Len(r) = Len(t) - p + 1
      /\ \A k \in 1 .. Len(c) + Len(r) : (c \o r)[k] = t[p + k - 1]
  BY <1>2 DEF IsFrom
<1> DEFINE k == Len(c)
           l == Len(r)
           s == c \o r
<1> HIDE DEF k, l, s
<1>4. /\ k \in Nat /\ l \in Nat /\ l > 0 /\ p \in 1 .. Len(t)
      /\ Len(t) \in Nat /\ k + l = Len(t) - p + 1
      /\ \A i \in 1 .. k + l :
           s[i] = (IF i <= k THEN c[i] ELSE r[i - k]) /\ s[i] = t[p + i - 1]
  BY <1>1, <1>2, <1>3 DEF k, l, s
<1>5. p + k \in 1 .. Len(t) /\ l = Len(t) - (p + k) + 1
  BY <1>4
<1>6. ASSUME NEW i \in 1 .. l
      PROVE  r[i] = t[p + k + i - 1]
  <2> DEFINE q == k + i
  <2>1. /\ q \in 1 .. k + l /\ ~(q <= k) /\ q - k = i
        /\ p + q - 1 = p + k + i - 1
    BY <1>4
  <2> HIDE DEF q
  <2>2. s[q] = r[q - k] /\ s[q] = t[p + q - 1]
    BY <1>4, <2>1
  <2>3. QED
    BY <2>1, <2>2
<1>7. ASSUME NEW i \in 1 .. k
      PROVE  t[p + i - 1] = c[i]
  <2>1. i \in 1 .. k + l /\ i <= k
    BY <1>4
  <2>2. s[i] = c[i] /\ s[i] = t[p + i - 1]
    BY <1>4, <2>1
  <2>3. QED
    BY <2>2
<1>8. QED
  BY <1>4, <1>5, <1>6, <1>7 DEF IsFrom, k, l

(* A part of a text, with something behind it, from its first unit on.     *)
LEMMA PartFirst ==
  ASSUME NEW t \in Seq(Chars), NEW e \in 1 .. Len(t), NEW j \in 1 .. e,
         NEW r \in Seq(Chars)
  PROVE  SubSeq(t, j, e) \o r = <<t[j]>> \o (SubSeq(t, j + 1, e) \o r)
<1> DEFINE rest == SubSeq(t, j + 1, e)
<1>1. /\ Len(t) \in Nat /\ j \in 1 .. Len(t) /\ e \in j .. Len(t)
      /\ \A k \in j .. e : t[k] \in Chars
  <2>1. Len(t) \in Nat /\ \A k \in j .. e : k \in 1 .. Len(t)
    BY LenProperties
  <2>2. QED
    BY <2>1, ElementOfSeq
<1>2. rest \in Seq(Chars)
  <2>1. j + 1 \in Int /\ e \in Int /\ \A k \in j + 1 .. e : t[k] \in Chars
    BY <1>1
  <2>2. QED
    BY <2>1, SubSeqProperties
<1>3. SubSeq(t, j, e) = <<t[j]>> \o rest
  BY <1>1, SubSeqRecursiveFirst
<1>4. <<t[j]>> \in Seq(Chars)
  BY <1>1
<1> HIDE DEF rest
<1>5. (<<t[j]>> \o rest) \o r = <<t[j]>> \o (rest \o r)
  BY <1>2, <1>4, ConcatAssociative
<1>6. QED
  BY <1>3, <1>5 DEF rest

(* What follows the same unit in the same text is the same.                *)
LEMMA SameRest ==
  ASSUME NEW x \in Chars, NEW a \in Seq(Chars), NEW b \in Seq(Chars),
         <<x>> \o a = <<x>> \o b
  PROVE  a = b
<1> DEFINE d == <<x>>
<1>1. d \in Seq(Chars) /\ Len(d) = 1
  OBVIOUS
<1>2. d \o a = d \o b
  OBVIOUS
<1> HIDE DEF d
<1>3. /\ Len(a) \in Nat /\ Len(b) \in Nat
      /\ Len(d \o a) = 1 + Len(a) /\ Len(d \o b) = 1 + Len(b)
      /\ \A i \in 1 .. 1 + Len(a) :
           (d \o a)[i] = IF i <= 1 THEN d[i] ELSE a[i - 1]
      /\ \A i \in 1 .. 1 + Len(b) :
           (d \o b)[i] = IF i <= 1 THEN d[i] ELSE b[i - 1]
  <2>1. Len(a) \in Nat /\ Len(b) \in Nat
    BY LenProperties
  <2>2. /\ Len(d \o a) = Len(d) + Len(a)
        /\ \A i \in 1 .. Len(d) + Len(a) :
             (d \o a)[i] = IF i <= Len(d) THEN d[i] ELSE a[i - Len(d)]
    BY <1>1, ConcatProperties
  <2>3. /\ Len(d \o b) = Len(d) + Len(b)
        /\ \A i \in 1 .. Len(d) + Len(b) :
             (d \o b)[i] = IF i <= Len(d) THEN d[i] ELSE b[i - Len(d)]
    BY <1>1, ConcatProperties
  <2>4. QED
    BY <1>1, <2>1, <2>2, <2>3
<1>4. Len(a) = Len(b)
  BY <1>2, <1>3
<1>5. ASSUME NEW i \in 1 .. Len(a)
      PROVE  a[i] = b[i]
  <2>1. i + 1 \in 1 .. 1 + Len(a) /\ ~(i + 1 <= 1) /\ i + 1 - 1 = i
    BY <1>3
  <2>2. QED
    BY <1>2, <1>3, <1>4, <2>1
<1>6. QED
  BY <1>4, <1>5, SeqEqual

(* A text that has a blank in place of its end has another one behind it,  *)
(* its comments in place of the others, and WithoutBlanks takes it the     *)
(* same way to its end: f is that of the text, g of the text with the      *)
(* blank.  They agree where a string that has begun ends.                  *)
Reading(t, c, f, g, w) ==
  /\ t \in Seq(Units) /\ c \in Comments
  /\ f \in [1 .. Len(t) + 1 -> [Modes -> Texts]] /\ BlanksEq(f, t)
  /\ g \in [1 .. Len(t) + 2 -> [Modes -> Texts]]
  /\ BlanksEq(g, t \o <<Blank>>)
  /\ w \in [1 .. Len(t) + 1 -> [BOOLEAN -> Terminated]]
  /\ \A i \in 1 .. Len(t) + 1, out \in BOOLEAN :
       w[i][out] = CommentedAt(w, t, c, i, out)

Agree(f, g, i, v) == f[i][v] = g[i][v]

(* A unit is read, ... *)
LEMMA ReadingUnit ==
  ASSUME NEW t, NEW c, NEW f, NEW g, NEW w, Reading(t, c, f, g, w),
         NEW i \in 1 .. Len(t), NEW v \in Modes, Agree(f, g, i, v)
  PROVE  /\ i + 1 \in 1 .. Len(t) + 1 /\ t[i] \in Units
         /\ v = "out" /\ t[i] = Blank =>
              f[i][v] = f[i + 1][v] /\ Agree(f, g, i + 1, v)
         /\ ~(v = "out" /\ t[i] = Blank) =>
              /\ f[i][v] = <<t[i]>> \o f[i + 1][After(v, t[i])]
              /\ Agree(f, g, i + 1, After(v, t[i]))
<1> DEFINE L == Len(t)
           u == t \o <<Blank>>
<1>1. L \in Nat /\ \A k \in 1 .. L : t[k] \in Units
  BY LenProperties, ElementOfSeq DEF Reading
<1>2. Len(u) = L + 1 /\ u[i] = t[i]
  <2>1. Blank \in Units
    BY Zenon DEF Units
  <2>2. t \in Seq(Units)
    BY DEF Reading
  <2>3. QED
    BY <1>1, <2>1, <2>2
<1>3. /\ i \in 1 .. L + 1 /\ i # L + 1 /\ i + 1 \in 1 .. L + 1
      /\ i \in 1 .. L + 1 + 1 /\ i # L + 1 + 1 /\ i + 1 \in 1 .. L + 2
      /\ t[i] \in Units
  BY <1>1
<1>4. After(v, t[i]) \in Modes
  BY DEF After, Modes
<1> HIDE DEF L, u
<1>5. f[i][v] = IF v = "out" /\ t[i] = Blank THEN f[i + 1][v]
                ELSE <<t[i]>> \o f[i + 1][After(v, t[i])]
  <2>1. BlanksEq(f, t)
    BY DEF Reading
  <2>2. QED
    BY <1>3, <2>1, Zenon DEF BlanksEq, L
<1>6. g[i][v] = IF v = "out" /\ t[i] = Blank THEN g[i + 1][v]
                ELSE <<t[i]>> \o g[i + 1][After(v, t[i])]
  <2>1. BlanksEq(g, u)
    BY DEF Reading, u
  <2>2. g[i][v] = IF v = "out" /\ u[i] = Blank THEN g[i + 1][v]
                  ELSE <<u[i]>> \o g[i + 1][After(v, u[i])]
    BY <1>2, <1>3, <2>1, Zenon DEF BlanksEq
  <2>3. QED
    BY <1>2, <2>2
<1>7. f[i][v] = g[i][v]
  BY DEF Agree
<1>8. CASE ~(v = "out" /\ t[i] = Blank)
  <2>1. <<t[i]>> \o f[i + 1][After(v, t[i])] =
          <<t[i]>> \o g[i + 1][After(v, t[i])]
    BY <1>5, <1>6, <1>8, <1>7
  <2>2. /\ f[i + 1][After(v, t[i])] \in Texts
        /\ g[i + 1][After(v, t[i])] \in Texts
    BY <1>3, <1>4 DEF Reading, L
  <2>3. PICK a, b : /\ a = f[i + 1][After(v, t[i])]
                    /\ b = g[i + 1][After(v, t[i])]
    OBVIOUS
  <2>4. a \in Seq(Chars) /\ b \in Seq(Chars)
    <3>1. a \in Seq(Units \cup {NUL}) /\ b \in Seq(Units \cup {NUL})
      BY <2>2, <2>3 DEF Texts
    <3>2. Units \cup {NUL} \subseteq Chars
      BY Zenon DEF Chars
    <3>3. QED
      BY <3>1, <3>2
  <2>5. t[i] \in Chars
    BY <1>3 DEF Chars
  <2>6. a = b
    BY <2>1, <2>3, <2>4, <2>5, SameRest
  <2>7. QED
    BY <1>3, <1>5, <1>8, <2>3, <2>6 DEF L, Agree
<1>9. CASE v = "out" /\ t[i] = Blank
  BY <1>3, <1>5, <1>6, <1>9, <1>7 DEF L, Agree
<1>10. QED
  BY <1>8, <1>9

(* ... and at the end of the text it is out of its strings. *)
LEMMA ReadingEnds ==
  ASSUME NEW t, NEW c, NEW f, NEW g, NEW w, Reading(t, c, f, g, w)
  PROVE  /\ f[Len(t) + 1]["out"] = <<>>
         /\ w[Len(t) + 1][TRUE] = <<NUL>>
         /\ \A v \in {"in", "escape"} : ~Agree(f, g, Len(t) + 1, v)
<1> DEFINE L == Len(t)
           u == t \o <<Blank>>
<1>1. L \in Nat /\ t \in Seq(Units)
  BY LenProperties DEF Reading
<1>2. Len(u) = L + 1 /\ u[L + 1] = Blank
  <2>1. Blank \in Units
    BY Zenon DEF Units
  <2>2. QED
    BY <1>1, <2>1
<1>3. L + 1 \in 1 .. L + 1 /\ L + 1 \in 1 .. L + 1 + 1 /\ L + 1 # L + 1 + 1
  BY <1>1
<1> HIDE DEF L, u
<1>4. \A v \in Modes : f[L + 1][v] = <<>>
  <2>1. BlanksEq(f, t)
    BY DEF Reading
  <2>2. QED
    BY <1>3, <2>1, Zenon DEF BlanksEq, L
<1>5. w[L + 1][TRUE] = <<NUL>>
  <2>1. w[L + 1][TRUE] = CommentedAt(w, t, c, L + 1, TRUE)
    BY <1>3 DEF Reading, L
  <2>2. QED
    BY <2>1, Zenon DEF CommentedAt, L
<1>6. ASSUME NEW v \in {"in", "escape"}
      PROVE  g[L + 1][v] # <<>>
  <2>1. v \in Modes /\ v # "out" /\ After(v, Blank) \in Modes
    BY DEF Modes, After
  <2>2. g[L + 1][v] = <<Blank>> \o g[L + 1 + 1][After(v, Blank)]
    <3>1. BlanksEq(g, u)
      BY DEF Reading, u
    <3>2. QED
      BY <1>2, <1>3, <2>1, <3>1, Zenon DEF BlanksEq
  <2>3. g[L + 1 + 1][After(v, Blank)] \in Texts
    <3>1. L + 1 + 1 \in 1 .. Len(t) + 2
      BY <1>1 DEF L
    <3>2. g \in [1 .. Len(t) + 2 -> [Modes -> Texts]]
      BY DEF Reading
    <3>3. QED
      BY <2>1, <3>1, <3>2
  <2>4. PICK r : r = g[L + 1 + 1][After(v, Blank)]
    OBVIOUS
  <2>5. r \in Seq(Units \cup {NUL}) /\ <<Blank>> \in Seq(Units \cup {NUL})
    <3>1. Blank \in Units
      BY Zenon DEF Units
    <3>2. QED
      BY <2>3, <2>4, <3>1 DEF Texts
  <2>6. Len(<<Blank>> \o r) = 1 + Len(r) /\ Len(r) \in Nat
    BY <2>5, LenProperties, ConcatProperties
  <2>7. QED
    BY <2>2, <2>4, <2>6
<1>7. QED
  BY <1>4, <1>5, <1>6 DEF L, Modes, Agree

(* The place e ends a string that is read from j on.                       *)
EndsString(t, j, e) ==
  /\ e \in j .. Len(t) /\ t[e] = Quote /\ t[e - 1] # Backslash
  /\ \A k \in j .. e - 1 : ~(t[k] = Quote /\ t[k - 1] # Backslash)

(* Before a place in a string: the mode is "escape" behind a backslash, and *)
(* behind an escaped one it is not.                                        *)
Consistent(t, j, v) ==
  /\ v = "escape" => t[j - 1] = Backslash
  /\ v = "in" /\ t[j - 1] = Backslash => j >= 3 /\ t[j - 2] = Backslash

(* A string is left as it is to its end by both.                           *)
Kept(t, f, g, w, j, v) ==
  \E e : /\ EndsString(t, j, e)
         /\ w[j][FALSE] = SubSeq(t, j, e) \o w[e + 1][TRUE]
         /\ f[j][v] = SubSeq(t, j, e) \o f[e + 1]["out"]
         /\ Agree(f, g, e + 1, "out")

(* In the rest of a string, at its end. *)
LEMMA StringEndKept ==
  ASSUME NEW t, NEW c, NEW f, NEW g, NEW w, Reading(t, c, f, g, w),
         NEW j \in 2 .. Len(t), t[j] = Quote, t[j - 1] # Backslash,
         Agree(f, g, j, "in")
  PROVE  Kept(t, f, g, w, j, "in")
<1>1. Len(t) \in Nat /\ t \in Seq(Units)
  BY LenProperties DEF Reading
<1>2. /\ j \in 1 .. Len(t) /\ j \in 1 .. Len(t) + 1 /\ j # Len(t) + 1
      /\ "in" \in Modes
  BY <1>1 DEF Modes
<1>3. After("in", Quote) = "out" /\ "in" # "out"
  BY DEF After, Quote, Backslash
<1>4. /\ f[j]["in"] = <<t[j]>> \o f[j + 1]["out"]
      /\ Agree(f, g, j + 1, "out")
  <2>1. After("in", t[j]) = "out" /\ ~("in" = "out" /\ t[j] = Blank)
    BY <1>3
  <2>2. /\ f[j]["in"] = <<t[j]>> \o f[j + 1][After("in", t[j])]
        /\ Agree(f, g, j + 1, After("in", t[j]))
    BY <1>2, <2>1, ReadingUnit
  <2>3. QED
    BY <2>1, <2>2
<1>5. w[j][FALSE] = <<t[j]>> \o w[j + 1][TRUE]
  <2>1. w[j][FALSE] = CommentedAt(w, t, c, j, FALSE)
    BY <1>2 DEF Reading
  <2>2. (t[j] = Quote /\ (FALSE \/ t[j - 1] # Backslash)) = TRUE
    OBVIOUS
  <2>3. CommentedAt(w, t, c, j, FALSE) = <<t[j]>> \o w[j + 1][FALSE # TRUE]
    BY <1>2, <2>2, Zenon DEF CommentedAt
  <2>4. (FALSE # TRUE) = TRUE
    OBVIOUS
  <2>5. QED
    BY <2>1, <2>3, <2>4
<1>6. SubSeq(t, j, j) = <<t[j]>>
  <2>1. j \in 1 .. Len(t) /\ j \in j .. Len(t) /\ t[j] \in Units
    BY <1>1, <1>2, ElementOfSeq
  <2>2. SubSeq(t, j, j) = <<t[j]>> \o SubSeq(t, j + 1, j)
    BY <1>1, <2>1, SubSeqRecursiveFirst
  <2>3. SubSeq(t, j + 1, j) = <<>>
    BY <1>1, <2>1, SubSeqEmpty
  <2>4. <<t[j]>> \in Seq(Units)
    BY <2>1
  <2>5. <<t[j]>> \o <<>> = <<t[j]>>
    BY <2>4, ConcatEmptySeq
  <2>6. QED
    BY <2>2, <2>3, <2>5
<1>7. EndsString(t, j, j)
  BY <1>1, <1>2 DEF EndsString
<1>8. QED
  BY <1>4, <1>5, <1>6, <1>7 DEF Kept

(* Before that, a unit of it. *)
LEMMA StringUnitKept ==
  ASSUME NEW t, NEW c, NEW f, NEW g, NEW w, Reading(t, c, f, g, w),
         NEW j \in 2 .. Len(t), ~(t[j] = Quote /\ t[j - 1] # Backslash),
         NEW v \in {"in", "escape"}, Agree(f, g, j, v),
         Kept(t, f, g, w, j + 1, After(v, t[j]))
  PROVE  Kept(t, f, g, w, j, v)
<1>1. Len(t) \in Nat /\ t \in Seq(Units)
  BY LenProperties DEF Reading
<1>2. /\ j \in 1 .. Len(t) /\ j \in 1 .. Len(t) + 1 /\ j # Len(t) + 1
      /\ v \in Modes /\ v # "out"
  BY <1>1 DEF Modes
<1>3. f[j][v] = <<t[j]>> \o f[j + 1][After(v, t[j])]
  BY <1>2, ReadingUnit
<1>4. w[j][FALSE] = <<t[j]>> \o w[j + 1][FALSE]
  <2>1. w[j][FALSE] = CommentedAt(w, t, c, j, FALSE)
    BY <1>2 DEF Reading
  <2>2. (t[j] = Quote /\ (FALSE \/ t[j - 1] # Backslash)) = FALSE
    OBVIOUS
  <2>3. CommentedAt(w, t, c, j, FALSE) = <<t[j]>> \o w[j + 1][FALSE # FALSE]
    BY <1>2, <2>2, Zenon DEF CommentedAt
  <2>4. (FALSE # FALSE) = FALSE
    OBVIOUS
  <2>5. QED
    BY <2>1, <2>3, <2>4
<1>5. PICK e :
        /\ EndsString(t, j + 1, e)
        /\ w[j + 1][FALSE] = SubSeq(t, j + 1, e) \o w[e + 1][TRUE]
        /\ f[j + 1][After(v, t[j])] =
             SubSeq(t, j + 1, e) \o f[e + 1]["out"]
        /\ Agree(f, g, e + 1, "out")
  BY DEF Kept
<1>6. e \in 1 .. Len(t) /\ j \in 1 .. e /\ e + 1 \in 1 .. Len(t) + 1
  BY <1>1, <1>2, <1>5 DEF EndsString
<1>7. EndsString(t, j, e)
  <2>1. ASSUME NEW k \in j .. e - 1
        PROVE  ~(t[k] = Quote /\ t[k - 1] # Backslash)
    <3>1. k = j \/ k \in j + 1 .. e - 1
      BY <1>2
    <3>2. QED
      BY <1>5, <3>1 DEF EndsString
  <2>2. QED
    BY <1>5, <1>6, <2>1 DEF EndsString
<1>8. /\ t \in Seq(Chars)
      /\ w[e + 1][TRUE] \in Seq(Chars) /\ f[e + 1]["out"] \in Seq(Chars)
  <2>1. Units \subseteq Chars /\ Units \cup {NUL} \subseteq Chars
    BY Zenon DEF Chars
  <2>2. t \in Seq(Chars)
    BY <1>1, <2>1
  <2>3. w[e + 1][TRUE] \in Terminated
    BY <1>6 DEF Reading
  <2>4. f[e + 1]["out"] \in Texts
    <3>1. f \in [1 .. Len(t) + 1 -> [Modes -> Texts]] /\ "out" \in Modes
      BY DEF Reading, Modes
    <3>2. QED
      BY <1>6, <3>1
  <2>5. PICK a : a = f[e + 1]["out"]
    OBVIOUS
  <2>6. a \in Seq(Units \cup {NUL})
    BY <2>4, <2>5 DEF Texts
  <2>7. a \in Seq(Chars)
    BY <2>1, <2>6
  <2>8. QED
    BY <2>2, <2>3, <2>5, <2>7 DEF Terminated
<1>9. /\ SubSeq(t, j, e) \o w[e + 1][TRUE] =
           <<t[j]>> \o (SubSeq(t, j + 1, e) \o w[e + 1][TRUE])
      /\ SubSeq(t, j, e) \o f[e + 1]["out"] =
           <<t[j]>> \o (SubSeq(t, j + 1, e) \o f[e + 1]["out"])
  BY <1>6, <1>8, PartFirst
<1>10. QED
  BY <1>3, <1>4, <1>5, <1>7, <1>9 DEF Kept

(* So a string that ends is left as it is. *)
LEMMA StringLeftAlone ==
  ASSUME NEW t, NEW c, NEW f, NEW g, NEW w, Reading(t, c, f, g, w),
         ~Misread(t)
  PROVE  \A j \in 2 .. Len(t) + 1, v \in {"in", "escape"} :
           Consistent(t, j, v) /\ Agree(f, g, j, v) => Kept(t, f, g, w, j, v)
<1> DEFINE L == Len(t)
           Good(j, v) == Consistent(t, j, v) /\ Agree(f, g, j, v)
                           => Kept(t, f, g, w, j, v)
           S == {j \in Nat : j \in 2 .. L + 1 =>
                   \A v \in {"in", "escape"} : Good(j, v)}
<1>1. L \in Nat
  BY LenProperties DEF Reading
<1>2. \A j \in Nat : j > L + 1 => j \in S
  BY <1>1
<1>3. ASSUME NEW j \in 0 .. L + 1, \A k \in Nat : k > j => k \in S
      PROVE  j \in S
  <2> SUFFICES ASSUME j \in 2 .. L + 1, NEW v \in {"in", "escape"},
                      Consistent(t, j, v), Agree(f, g, j, v)
               PROVE  Kept(t, f, g, w, j, v)
    BY <1>1
  <2>1. j # L + 1
    BY ReadingEnds
  <2>2. /\ j \in 2 .. Len(t) /\ j \in 1 .. Len(t)
        /\ j + 1 \in 2 .. L + 1 /\ j + 1 > j /\ j + 1 \in Nat
    BY <1>1, <2>1
  <2>3. ~(v = "out" /\ t[j] = Blank) /\ v \in Modes
    BY DEF Modes
  <2>4. Agree(f, g, j + 1, After(v, t[j]))
    BY <2>2, <2>3, ReadingUnit
  <2>5. CASE t[j] = Quote /\ t[j - 1] # Backslash
    <3>1. v = "in"
      BY <2>5 DEF Consistent
    <3>2. QED
      BY <2>2, <2>5, <3>1, StringEndKept
  <2>6. CASE ~(t[j] = Quote /\ t[j - 1] # Backslash)
    <3>1. v = "in" => t[j] # Quote
      <4>1. SUFFICES ASSUME v = "in", t[j] = Quote
                     PROVE  FALSE
        OBVIOUS
      <4>2. t[j - 1] = Backslash /\ j >= 3 /\ t[j - 2] = Backslash
        BY <2>6, <4>1 DEF Consistent
      <4>3. SubSeq(t, j - 2, j) = <<Backslash, Backslash, Quote>>
        <5>1. t \in Seq(Units) /\ j \in 3 .. Len(t)
          BY <2>2, <4>2 DEF Reading
        <5> DEFINE m == j - 2
                   a == SubSeq(t, m, j)
        <5>2. /\ a \in Seq(Units) /\ Len(a) = 3
              /\ \A k \in 1 .. 3 : a[k] = t[j - 3 + k]
          <6>1. /\ m \in Int /\ j \in Int /\ m <= j /\ j - m + 1 = 3
                /\ \A k \in m .. j : k \in 1 .. Len(t)
                /\ \A k \in 1 .. 3 : m + k - 1 = j - 3 + k
            BY <1>1, <5>1
          <6>2. \A k \in m .. j : t[k] \in Units
            BY <5>1, <6>1, ElementOfSeq
          <6> HIDE DEF m
          <6>3. /\ a \in Seq(Units)
                /\ Len(a) = IF m <= j THEN j - m + 1 ELSE 0
                /\ \A k \in 1 .. j - m + 1 : a[k] = t[m + k - 1]
            BY <6>1, <6>2, SubSeqProperties
          <6> HIDE DEF a
          <6>4. QED
            BY <6>1, <6>3
        <5> HIDE DEF a
        <5>3. /\ j - 3 + 1 = j - 2 /\ j - 3 + 2 = j - 1 /\ j - 3 + 3 = j
              /\ 1 \in 1 .. 3 /\ 2 \in 1 .. 3 /\ 3 \in 1 .. 3
          BY <1>1, <5>1
        <5>4. a[1] = Backslash /\ a[2] = Backslash /\ a[3] = Quote
          BY <4>1, <4>2, <5>2, <5>3
        <5>5. a = <<Backslash, Backslash, Quote>>
          BY <5>2, <5>4
        <5>6. QED
          BY <5>5 DEF a
      <4>4. QED
        BY <2>2, <4>2, <4>3 DEF Misread
    <3>2. /\ After(v, t[j]) \in {"in", "escape"}
          /\ After(v, t[j]) = "escape" => v = "in" /\ t[j] = Backslash
          /\ v = "in" /\ t[j] = Backslash => After(v, t[j]) = "escape"
      BY <3>1 DEF After
    <3>3. Consistent(t, j + 1, After(v, t[j]))
      <4>1. j + 1 - 1 = j /\ j + 1 - 2 = j - 1 /\ j + 1 >= 3
        BY <2>2
      <4>2. After(v, t[j]) = "in" /\ t[j] = Backslash => v = "escape"
        BY <3>2
      <4>3. QED
        BY <3>2, <4>1, <4>2 DEF Consistent
    <3>4. j + 1 \in S
      BY <1>3, <2>2
    <3>5. Kept(t, f, g, w, j + 1, After(v, t[j]))
      BY <2>2, <2>4, <3>2, <3>3, <3>4
    <3>6. QED
      BY <2>2, <2>6, <3>5, StringUnitKept
  <2>7. QED
    BY <2>5, <2>6
<1> HIDE DEF S
<1>4. S = Nat
  <2>1. S \in SUBSET Nat /\ L + 1 \in Nat
    BY <1>1 DEF S
  <2>2. QED
    BY <1>2, <1>3, <2>1, Downwards
<1>5. \A j \in 2 .. L + 1 : j \in Nat
  BY <1>1
<1>6. QED
  BY <1>4, <1>5 DEF S

(* A comment is skipped. *)
LEMMA CommentSkipped ==
  ASSUME NEW t \in Terminated, NEW h,
         \A i \in 1 .. Len(t) : h[i] = MinifyAt(h, t, i),
         NEW c \in Comments, NEW r \in Terminated, NEW p, IsFrom(t, p, c \o r)
  PROVE  IsFrom(t, p + Len(c), r) /\ h[p] = h[p + Len(c)]
<1>1. c \in Seq(Chars)
  <2>1. c \in Seq(Chars \ {NUL})
    BY CommentsAreTexts
  <2>2. QED
    BY <2>1
<1>2. /\ p \in Nat /\ Len(c) \in Nat /\ IsFrom(t, p + Len(c), r)
      /\ \A k \in 1 .. Len(c) : t[p + k - 1] = c[k]
  BY <1>1, FromBoth
<1>3. Len(t) \in Nat /\ p + Len(c) \in 1 .. Len(t) /\ p \in 1 .. Len(t)
  BY LenProperties, <1>2 DEF IsFrom, Terminated
<1>4. CASE c = <<Blank>>
  <2>1. Len(c) = 1 /\ c[1] = Blank
    BY <1>4
  <2>2. t[p] = Blank
    <3>1. 1 \in 1 .. Len(c) /\ p + 1 - 1 = p
      BY <1>2, <2>1
    <3>2. QED
      BY <1>2, <2>1, <3>1
  <2>3. h[p] = h[p + 1]
    BY <1>3, <2>2, MinifyCases
  <2>4. QED
    BY <1>2, <2>1, <2>3
<1>5. CASE c = <<Slash, Star, Quote, Star, Star, Slash>>
  <2>1. /\ Len(c) = 6 /\ c[1] = Slash /\ c[2] = Star /\ c[3] = Quote
        /\ c[4] = Star /\ c[5] = Star /\ c[6] = Slash
    BY <1>5
  <2>2. /\ t[p] = Slash /\ t[p + 1] = Star /\ t[p + 2] = Quote
        /\ t[p + 3] = Star /\ t[p + 4] = Star /\ t[p + 5] = Slash
    <3>1. /\ \A k \in 1 .. 6 : t[p + k - 1] = c[k]
          /\ p + 1 - 1 = p /\ p + 2 - 1 = p + 1 /\ p + 3 - 1 = p + 2
          /\ p + 4 - 1 = p + 3 /\ p + 5 - 1 = p + 4 /\ p + 6 - 1 = p + 5
          /\ 1 \in 1 .. 6 /\ 2 \in 1 .. 6 /\ 3 \in 1 .. 6
          /\ 4 \in 1 .. 6 /\ 5 \in 1 .. 6 /\ 6 \in 1 .. 6
      BY <1>2, <2>1
    <3>2. QED
      BY <2>1, <3>1
  <2>3. skip_multiline_comment(t, p) = p + 6
    <3> DEFINE L == Len(t)
               S == {j + 2 : j \in {k \in p + 2 .. L - 1 :
                                      t[k] = Star /\ t[k + 1] = Slash}}
                      \cup {L}
    <3>1. L \in Nat /\ p + 6 \in 1 .. L /\ p \in Nat
      BY <1>2, <1>3, <2>1
    <3>2. Star # Quote /\ Slash # Star
      BY SignsDiffer
    <3>3. p + 6 \in S
      <4>1. p + 4 \in p + 2 .. L - 1 /\ p + 4 + 1 = p + 5 /\ p + 4 + 2 = p + 6
        BY <3>1
      <4>2. QED
        BY <2>2, <4>1
    <3>4. S \in SUBSET Nat
      BY <3>1
    <3>5. \A x \in S : p + 6 <= x
      <4>1. ASSUME NEW k \in p + 2 .. L - 1, t[k] = Star, t[k + 1] = Slash
            PROVE  p + 6 <= k + 2
        <5>1. k # p + 2
          BY <2>2, <3>2, <4>1
        <5>2. k # p + 3
          <6>1. p + 3 + 1 = p + 4
            BY <3>1
          <6>2. QED
            BY <2>2, <3>2, <4>1, <6>1
        <5>3. QED
          BY <3>1, <5>1, <5>2
      <4>2. QED
        BY <3>1, <4>1
    <3> HIDE DEF S
    <3>6. Min(S) \in S /\ \A x \in S : Min(S) <= x
      BY <3>3, <3>4, NatMin
    <3>7. Min(S) = p + 6
      <4>1. PICK x : x = Min(S)
        OBVIOUS
      <4>2. x \in Nat /\ p + 6 <= x /\ x <= p + 6
        BY <3>3, <3>4, <3>5, <3>6, <4>1
      <4>3. QED
        BY <3>1, <4>1, <4>2
    <3>8. QED
      BY <3>7 DEF skip_multiline_comment, S
  <2>4. h[p] = h[p + 6]
    <3>1. h[p] = MinifyAt(h, t, p)
      BY <1>3
    <3>2. MinifyAt(h, t, p) = h[skip_multiline_comment(t, p)]
      BY <2>2, MinifyLines
    <3>3. QED
      BY <2>3, <3>1, <3>2
  <2>5. QED
    BY <1>2, <2>1, <2>4
<1>6. CASE c = <<Slash, Slash, Quote, Slash, Star, Newline, Tab>>
  <2>1. /\ Len(c) = 7 /\ c[1] = Slash /\ c[2] = Slash /\ c[3] = Quote
        /\ c[4] = Slash /\ c[5] = Star /\ c[6] = Newline /\ c[7] = Tab
    BY <1>6
  <2>2. /\ t[p] = Slash /\ t[p + 1] = Slash /\ t[p + 2] = Quote
        /\ t[p + 3] = Slash /\ t[p + 4] = Star /\ t[p + 5] = Newline
        /\ t[p + 6] = Tab
    <3>1. /\ \A k \in 1 .. 7 : t[p + k - 1] = c[k]
          /\ p + 1 - 1 = p /\ p + 2 - 1 = p + 1 /\ p + 3 - 1 = p + 2
          /\ p + 4 - 1 = p + 3 /\ p + 5 - 1 = p + 4 /\ p + 6 - 1 = p + 5
          /\ p + 7 - 1 = p + 6
          /\ 1 \in 1 .. 7 /\ 2 \in 1 .. 7 /\ 3 \in 1 .. 7 /\ 4 \in 1 .. 7
          /\ 5 \in 1 .. 7 /\ 6 \in 1 .. 7 /\ 7 \in 1 .. 7
      BY <1>2, <2>1
    <3>2. QED
      BY <2>1, <3>1
  <2>3. skip_oneline_comment(t, p) = p + 6
    <3> DEFINE L == Len(t)
               S == {j + 1 : j \in {k \in p + 2 .. L : t[k] = Newline}}
                      \cup {L}
    <3>1. L \in Nat /\ p + 7 \in 1 .. L /\ p \in Nat
      BY <1>2, <1>3, <2>1
    <3>2. Newline \notin {Quote, Slash, Star}
      BY SignsDiffer
    <3>3. p + 6 \in S
      <4>1. p + 5 \in p + 2 .. L /\ p + 5 + 1 = p + 6
        BY <3>1
      <4>2. QED
        BY <2>2, <4>1
    <3>4. S \in SUBSET Nat
      BY <3>1
    <3>5. \A x \in S : p + 6 <= x
      <4>1. ASSUME NEW k \in p + 2 .. L, t[k] = Newline
            PROVE  p + 6 <= k + 1
        <5>1. k # p + 2 /\ k # p + 3 /\ k # p + 4
          BY <2>2, <3>2, <4>1
        <5>2. QED
          BY <3>1, <5>1
      <4>2. QED
        BY <3>1, <4>1
    <3> HIDE DEF S
    <3>6. Min(S) \in S /\ \A x \in S : Min(S) <= x
      BY <3>3, <3>4, NatMin
    <3>7. Min(S) = p + 6
      <4>1. PICK x : x = Min(S)
        OBVIOUS
      <4>2. x \in Nat /\ p + 6 <= x /\ x <= p + 6
        BY <3>3, <3>4, <3>5, <3>6, <4>1
      <4>3. QED
        BY <3>1, <4>1, <4>2
    <3>8. QED
      BY <3>7 DEF skip_oneline_comment, S
  <2>4. h[p] = h[p + 6]
    <3>1. h[p] = MinifyAt(h, t, p)
      BY <1>3
    <3>2. MinifyAt(h, t, p) = h[skip_oneline_comment(t, p)]
      BY <2>2, MinifyLine
    <3>3. QED
      BY <2>3, <3>1, <3>2
  <2>5. h[p + 6] = h[p + 7]
    <3> DEFINE q == p + 6
    <3>1. q \in 1 .. Len(t) /\ q + 1 = p + 7 /\ t[q] = Tab
      <4>1. p + 7 \in 1 .. Len(t)
        BY <1>3, <2>1
      <4>2. QED
        BY <1>2, <1>3, <2>2, <4>1
    <3> HIDE DEF q
    <3>2. h[q] = MinifyAt(h, t, q)
      BY <3>1
    <3>3. MinifyAt(h, t, q) = h[q + 1]
      BY <3>1, MinifyCases
    <3>4. QED
      BY <3>1, <3>2, <3>3 DEF q
  <2>6. QED
    BY <1>2, <2>1, <2>4, <2>5
<1>7. QED
  BY <1>4, <1>5, <1>6 DEF Comments

(* From p on, m has the n units that t has behind the place i.             *)
SamePart(m, p, t, i, n) == \A k \in 0 .. n : m[p + k] = t[i + k]

(* A string that is in the text is taken to its end. *)
LEMMA StringFound ==
  ASSUME NEW m \in Terminated, NEW t \in Seq(Units), NEW i \in 1 .. Len(t),
         NEW n \in Nat \ {0}, EndsString(t, i + 1, i + n),
         NEW p \in Nat \ {0}, p + n + 1 \in 1 .. Len(m),
         SamePart(m, p, t, i, n)
  PROVE  /\ minify_string(m, p) = p + n + 1
         /\ SubSeq(m, p, p + n) = SubSeq(t, i, i + n)
<1> DEFINE L == Len(m)
           e == i + n
           S == {j + 1 : j \in {k \in p + 1 .. L :
                                  m[k] = Quote /\ m[k - 1] # Backslash}}
                  \cup {L}
<1>1. /\ e \in i + 1 .. Len(t) /\ t[e] = Quote /\ t[e - 1] # Backslash
      /\ \A k \in i + 1 .. e - 1 : ~(t[k] = Quote /\ t[k - 1] # Backslash)
  BY DEF EndsString
<1>2. /\ L \in Nat /\ Len(t) \in Nat /\ n \in Nat \ {0} /\ i + n = e
      /\ p + n + 1 \in 1 .. L /\ \A k \in 0 .. n : m[p + k] = t[i + k]
      /\ i \in Nat /\ p \in Nat
  <2>1. L \in Nat /\ Len(t) \in Nat
    BY LenProperties DEF Terminated
  <2>2. QED
    BY <2>1 DEF SamePart
<1> HIDE DEF L, e
<1>3. p + n + 1 \in S
  <2>1. /\ p + n \in p + 1 .. L /\ n \in 0 .. n /\ n - 1 \in 0 .. n
        /\ p + (n - 1) = p + n - 1 /\ i + (n - 1) = e - 1
    BY <1>1, <1>2
  <2>2. m[p + n] = Quote /\ m[p + n - 1] # Backslash
    <3>1. m[p + n] = t[i + n] /\ m[p + (n - 1)] = t[i + (n - 1)]
      BY <1>2, <2>1
    <3>2. QED
      BY <1>1, <1>2, <2>1, <3>1
  <2>3. PICK j : j = p + n
    OBVIOUS
  <2>4. j \in p + 1 .. L /\ m[j] = Quote
    BY <2>1, <2>2, <2>3
  <2>5. m[j - 1] # Backslash
    BY <1>2, <2>2, <2>3
  <2>6. j + 1 \in S
    BY <2>4, <2>5
  <2>7. QED
    BY <2>3, <2>6
<1>4. S \in SUBSET Nat
  BY <1>2
<1>5. \A x \in S : p + n + 1 <= x
  <2>1. ASSUME NEW k \in p + 1 .. L, m[k] = Quote, m[k - 1] # Backslash
        PROVE  p + n + 1 <= k + 1
    <3>1. SUFFICES ASSUME k < p + n
                   PROVE  FALSE
      BY <1>2
    <3> DEFINE q == k - p
    <3>2. /\ q \in 0 .. n /\ q - 1 \in 0 .. n /\ p + q = k
          /\ p + (q - 1) = k - 1 /\ i + (q - 1) = i + q - 1
          /\ i + q \in i + 1 .. e - 1
      BY <1>1, <1>2, <3>1
    <3> HIDE DEF q
    <3>3. m[p + q] = t[i + q] /\ m[p + (q - 1)] = t[i + (q - 1)]
      BY <1>2, <3>2
    <3>4. t[i + q] = Quote /\ t[i + q - 1] # Backslash
      BY <2>1, <3>2, <3>3
    <3>5. QED
      BY <1>1, <3>2, <3>4
  <2>2. QED
    BY <1>2, <2>1
<1> HIDE DEF S
<1>6. Min(S) = p + n + 1
  <2>1. Min(S) \in S /\ \A x \in S : Min(S) <= x
    BY <1>3, <1>4, NatMin
  <2>2. PICK x : x = Min(S)
    OBVIOUS
  <2>3. x \in Nat /\ p + n + 1 <= x /\ x <= p + n + 1
    BY <1>3, <1>4, <1>5, <2>1, <2>2
  <2>4. QED
    BY <1>2, <2>2, <2>3
<1>7. minify_string(m, p) = p + n + 1
  BY <1>6 DEF minify_string, S, L
<1>8. SubSeq(m, p, p + n) = SubSeq(t, i, e)
  <2> DEFINE a == SubSeq(m, p, p + n)
             b == SubSeq(t, i, e)
  <2>1. /\ m \in Seq(Chars) /\ t \in Seq(Chars)
        /\ \A k \in p .. p + n : m[k] \in Chars
        /\ \A k \in i .. e : t[k] \in Chars
    <3>1. m \in Seq(Chars)
      BY DEF Terminated
    <3>2. t \in Seq(Chars)
      <4>1. Units \subseteq Chars
        BY Zenon DEF Chars
      <4>2. QED
        BY <4>1
    <3>3. /\ \A k \in p .. p + n : k \in 1 .. Len(m)
          /\ \A k \in i .. e : k \in 1 .. Len(t)
      BY <1>1, <1>2 DEF L
    <3>4. QED
      BY <3>1, <3>2, <3>3, ElementOfSeq
  <2>2. /\ a \in Seq(Chars) /\ Len(a) = n + 1
        /\ \A k \in 1 .. n + 1 : a[k] = m[p + k - 1]
    <3> DEFINE z == p + n
    <3>1. /\ p \in Int /\ z \in Int /\ p <= z /\ z - p + 1 = n + 1
      BY <1>2
    <3> HIDE DEF z
    <3>2. /\ SubSeq(m, p, z) \in Seq(Chars)
          /\ Len(SubSeq(m, p, z)) = IF p <= z THEN z - p + 1 ELSE 0
          /\ \A k \in 1 .. z - p + 1 : SubSeq(m, p, z)[k] = m[p + k - 1]
      BY <2>1, <3>1, SubSeqProperties DEF z
    <3>3. QED
      BY <3>1, <3>2 DEF z
  <2>3. /\ b \in Seq(Chars) /\ Len(b) = n + 1
        /\ \A k \in 1 .. n + 1 : b[k] = t[i + k - 1]
    <3>1. /\ i \in Int /\ e \in Int /\ i <= e /\ e - i + 1 = n + 1
      BY <1>1, <1>2
    <3>2. /\ b \in Seq(Chars)
          /\ Len(b) = IF i <= e THEN e - i + 1 ELSE 0
          /\ \A k \in 1 .. e - i + 1 : b[k] = t[i + k - 1]
      BY <2>1, <3>1, SubSeqProperties
    <3> HIDE DEF b
    <3>3. QED
      BY <3>1, <3>2
  <2> HIDE DEF a, b
  <2>4. ASSUME NEW k \in 1 .. n + 1
        PROVE  a[k] = b[k]
    <3> DEFINE q == k - 1
    <3>1. q \in 0 .. n /\ p + q = p + k - 1 /\ i + q = i + k - 1
      BY <1>2
    <3> HIDE DEF q
    <3>2. m[p + q] = t[i + q]
      BY <1>2, <3>1
    <3>3. QED
      BY <2>2, <2>3, <3>1, <3>2
  <2>5. a = b
    BY <2>2, <2>3, <2>4, SeqEqual
  <2>6. QED
    BY <2>5 DEF a, b
<1>9. QED
  BY <1>7, <1>8 DEF e

(* m is the text with the comments, and h what cJSON_Minify makes of it    *)
(* from each of its places on.                                             *)
Minifying(m, h) ==
  m \in Terminated /\ \A i \in 1 .. Len(m) : h[i] = MinifyAt(h, m, i)

(* What is left from the place i of the text on is what it is without its  *)
(* blanks.                                                                 *)
Left(f, w, m, h, i) ==
  \A p : IsFrom(m, p, w[i][TRUE]) => h[p] = f[i]["out"]

(* At the end of the text, ... *)
LEMMA EndLeft ==
  ASSUME NEW t, NEW c, NEW f, NEW g, NEW w, Reading(t, c, f, g, w),
         NEW m, NEW h, Minifying(m, h)
  PROVE  Left(f, w, m, h, Len(t) + 1)
<1>1. f[Len(t) + 1]["out"] = <<>> /\ w[Len(t) + 1][TRUE] = <<NUL>>
  BY ReadingEnds
<1>2. ASSUME NEW p, IsFrom(m, p, <<NUL>>)
      PROVE  h[p] = <<>>
  <2>1. p \in 1 .. Len(m) /\ m[p] = NUL
    <3>1. /\ p \in 1 .. Len(m) /\ Len(<<NUL>>) = Len(m) - p + 1
          /\ \A k \in 1 .. Len(<<NUL>>) : <<NUL>>[k] = m[p + k - 1]
      BY <1>2, Zenon DEF IsFrom
    <3>2. p + 1 - 1 = p
      BY <3>1
    <3>3. Len(<<NUL>>) = 1 /\ 1 \in 1 .. 1 /\ <<NUL>>[1] = NUL
      OBVIOUS
    <3>4. QED
      BY <3>1, <3>2, <3>3
  <2>2. h[p] = MinifyAt(h, m, p)
    BY <2>1 DEF Minifying
  <2>3. QED
    BY <2>1, <2>2, MinifyCases
<1>3. QED
  BY <1>1, <1>2 DEF Left

(* ... from a blank on, ... *)
LEMMA BlankLeft ==
  ASSUME NEW t, NEW c, NEW f, NEW g, NEW w, Reading(t, c, f, g, w),
         NEW m, NEW h, Minifying(m, h), NEW i \in 1 .. Len(t), t[i] = Blank,
         Agree(f, g, i, "out"), Left(f, w, m, h, i + 1)
  PROVE  Left(f, w, m, h, i)
<1>1. "out" \in Modes
  BY DEF Modes
<1>2. i + 1 \in 1 .. Len(t) + 1 /\ f[i]["out"] = f[i + 1]["out"]
  <2>1. /\ i + 1 \in 1 .. Len(t) + 1
        /\ "out" = "out" /\ t[i] = Blank =>
             f[i]["out"] = f[i + 1]["out"] /\ Agree(f, g, i + 1, "out")
    BY <1>1, ReadingUnit
  <2>2. QED
    BY <2>1
<1>3. w[i][TRUE] = c \o w[i + 1][TRUE]
  <2>1. i \in 1 .. Len(t) + 1 /\ i # Len(t) + 1
    <3>1. Len(t) \in Nat
      BY LenProperties DEF Reading
    <3>2. QED
      BY <3>1
  <2>2. w[i][TRUE] = CommentedAt(w, t, c, i, TRUE)
    BY <2>1 DEF Reading
  <2>3. QED
    BY <2>1, <2>2, Zenon DEF CommentedAt
<1>4. c \in Comments /\ w[i + 1][TRUE] \in Terminated
  BY <1>2 DEF Reading
<1>5. PICK r : r = w[i + 1][TRUE]
  OBVIOUS
<1>6. ASSUME NEW p, IsFrom(m, p, c \o r)
      PROVE  h[p] = f[i]["out"]
  <2>1. m \in Terminated /\ \A k \in 1 .. Len(m) : h[k] = MinifyAt(h, m, k)
    BY DEF Minifying
  <2>2. c \in Comments /\ r \in Terminated
    BY <1>4, <1>5
  <2>3. IsFrom(m, p + Len(c), r) /\ h[p] = h[p + Len(c)]
    BY <1>6, <2>1, <2>2, CommentSkipped
  <2>4. h[p + Len(c)] = f[i + 1]["out"]
    BY <1>5, <2>3 DEF Left
  <2>5. QED
    BY <1>2, <2>3, <2>4
<1>7. QED
  BY <1>3, <1>5, <1>6 DEF Left

(* A unit is there, and then what follows it. *)
LEMMA FromUnit ==
  ASSUME NEW m \in Terminated, NEW p, NEW x \in Chars, NEW r \in Terminated,
         IsFrom(m, p, <<x>> \o r)
  PROVE  p \in Nat /\ IsFrom(m, p + 1, r) /\ m[p] = x
<1> DEFINE d == <<x>>
<1>1. Len(d) = 1 /\ d[1] = x
  OBVIOUS
<1>2. d \in Seq(Chars)
  OBVIOUS
<1>3. IsFrom(m, p, d \o r)
  OBVIOUS
<1> HIDE DEF d
<1>4. /\ p \in Nat /\ IsFrom(m, p + Len(d), r)
      /\ \A k \in 1 .. Len(d) : m[p + k - 1] = d[k]
  BY <1>2, <1>3, FromBoth
<1>5. 1 \in 1 .. Len(d) /\ p + 1 - 1 = p
  BY <1>1, <1>4
<1>6. QED
  BY <1>1, <1>4, <1>5

(* ... from another unit on that is not a quote, ... *)
LEMMA UnitLeft ==
  ASSUME NEW t, NEW c, NEW f, NEW g, NEW w, Reading(t, c, f, g, w),
         NEW m, NEW h, Minifying(m, h), NEW i \in 1 .. Len(t),
         t[i] # Blank, t[i] # Quote,
         Agree(f, g, i, "out"), Left(f, w, m, h, i + 1)
  PROVE  Left(f, w, m, h, i)
<1>1. "out" \in Modes /\ After("out", t[i]) = "out"
  BY DEF Modes, After
<1>2. /\ i + 1 \in 1 .. Len(t) + 1 /\ t[i] \in Units
      /\ f[i]["out"] = <<t[i]>> \o f[i + 1]["out"]
  BY <1>1, ReadingUnit
<1>3. w[i][TRUE] = <<t[i]>> \o w[i + 1][TRUE]
  <2>1. i \in 1 .. Len(t) + 1 /\ i # Len(t) + 1
    <3>1. Len(t) \in Nat
      BY LenProperties DEF Reading
    <3>2. QED
      BY <3>1
  <2>2. w[i][TRUE] = CommentedAt(w, t, c, i, TRUE)
    BY <2>1 DEF Reading
  <2>3. (t[i] = Quote /\ (TRUE \/ t[i - 1] # Backslash)) = FALSE
    OBVIOUS
  <2>4. CommentedAt(w, t, c, i, TRUE) = <<t[i]>> \o w[i + 1][TRUE # FALSE]
    BY <2>1, <2>3, Zenon DEF CommentedAt
  <2>5. (TRUE # FALSE) = TRUE
    OBVIOUS
  <2>6. QED
    BY <2>2, <2>4, <2>5
<1>4. w[i + 1][TRUE] \in Terminated
  BY <1>2 DEF Reading
<1>5. PICK r, u : r = w[i + 1][TRUE] /\ u = t[i]
  OBVIOUS
<1>6. u \in Units /\ u \in Chars /\ r \in Terminated
  BY <1>2, <1>4, <1>5 DEF Chars
<1>7. ASSUME NEW p, IsFrom(m, p, <<u>> \o r)
      PROVE  h[p] = f[i]["out"]
  <2>1. m \in Terminated
    BY DEF Minifying
  <2>2. p \in Nat /\ IsFrom(m, p + 1, r) /\ m[p] = u
    BY <1>6, <1>7, <2>1, FromUnit
  <2>3. p \in 1 .. Len(m)
    BY <1>7 DEF IsFrom
  <2>4. h[p] = MinifyAt(h, m, p)
    BY <2>3 DEF Minifying
  <2>5. m[p] \notin {NUL, Blank, Tab, Newline, Slash, Quote}
    BY <1>5, <1>6, <2>2, SignsDiffer
  <2>6. MinifyAt(h, m, p) = <<m[p]>> \o h[p + 1]
    BY <2>5, MinifyCases
  <2>7. h[p + 1] = f[i + 1]["out"]
    BY <1>5, <2>2 DEF Left
  <2>8. QED
    BY <1>2, <1>5, <2>2, <2>4, <2>6, <2>7
<1>8. QED
  BY <1>3, <1>5, <1>7 DEF Left

(* What is r behind the units of t from i to e.                            *)
PartThen(t, i, e, r) == SubSeq(t, i, e) \o r

(* A string that is taken to its end is followed by what is there.         *)
LEMMA FromString ==
  ASSUME NEW m, NEW h, Minifying(m, h), NEW t \in Seq(Units),
         NEW i \in 1 .. Len(t), t[i] = Quote, NEW e, EndsString(t, i + 1, e),
         NEW r \in Terminated, NEW p, IsFrom(m, p, PartThen(t, i, e, r))
  PROVE  \E b : IsFrom(m, b, r) /\ h[p] = PartThen(t, i, e, h[b])
<1>1. m \in Terminated /\ \A k \in 1 .. Len(m) : h[k] = MinifyAt(h, m, k)
  BY DEF Minifying
<1>2. /\ Len(t) \in Nat /\ i \in Int /\ e \in Int /\ i + 1 <= e
      /\ e <= Len(t) /\ \A k \in i .. e : k \in 1 .. Len(t)
  BY LenProperties DEF EndsString
<1>3. \A k \in i .. e : t[k] \in Chars
  BY <1>2, ElementOfSeq DEF Chars
<1> DEFINE d == SubSeq(t, i, e)
           n == e - i
           b == p + n + 1
<1>4. /\ d \in Seq(Chars) /\ Len(d) = IF i <= e THEN e - i + 1 ELSE 0
      /\ \A k \in 1 .. e - i + 1 : d[k] = t[i + k - 1]
  BY <1>2, <1>3, SubSeqProperties
<1>5. IsFrom(m, p, d \o r)
  BY DEF PartThen
<1> HIDE DEF d
<1>6. d \in Seq(Chars)
  BY <1>4
<1>7. /\ p \in Nat /\ IsFrom(m, p + Len(d), r)
      /\ \A k \in 1 .. Len(d) : m[p + k - 1] = d[k]
  BY <1>1, <1>5, <1>6, FromBoth
<1>8. n \in Nat \ {0} /\ Len(d) = n + 1 /\ i + n = e
  BY <1>2, <1>4
<1> HIDE DEF n
<1>9. /\ b \in 1 .. Len(m) /\ p \in 1 .. Len(m) /\ p > 0
      /\ IsFrom(m, b, r) /\ b - 1 = p + n
  <2>1. p + Len(d) = b /\ b - 1 = p + n
    BY <1>7, <1>8
  <2>2. IsFrom(m, b, r)
    BY <1>7, <2>1
  <2>3. b \in 1 .. Len(m) /\ p \in 1 .. Len(m)
    BY <1>5, <2>2 DEF IsFrom
  <2>4. QED
    BY <2>1, <2>2, <2>3
<1>10. ASSUME NEW k \in 0 .. n
       PROVE  m[p + k] = t[i + k]
  <2> DEFINE q == k + 1
  <2>1. /\ q \in 1 .. Len(d) /\ q \in 1 .. e - i + 1
        /\ p + q - 1 = p + k /\ i + q - 1 = i + k
    BY <1>2, <1>7, <1>8 DEF n
  <2> HIDE DEF q
  <2>2. m[p + q - 1] = d[q] /\ d[q] = t[i + q - 1]
    BY <1>4, <1>7, <2>1
  <2>3. QED
    BY <2>1, <2>2
<1>11. /\ minify_string(m, p) = b
       /\ SubSeq(m, p, b - 1) = d
  <2>1. /\ m \in Terminated /\ p \in Nat \ {0} /\ n \in Nat \ {0}
        /\ p + n + 1 \in 1 .. Len(m)
    BY <1>1, <1>7, <1>8, <1>9
  <2>2. EndsString(t, i + 1, i + n) /\ SamePart(m, p, t, i, n)
    BY <1>8, <1>10 DEF SamePart
  <2>3. /\ minify_string(m, p) = p + n + 1
        /\ SubSeq(m, p, p + n) = SubSeq(t, i, i + n)
    BY <2>1, <2>2, StringFound
  <2>4. QED
    BY <1>8, <1>9, <2>3 DEF d
<1>12. m[p] = Quote
  <2>1. 0 \in 0 .. n /\ p + 0 = p /\ i + 0 = i
    BY <1>2, <1>7, <1>8
  <2>2. m[p + 0] = t[i + 0]
    BY <1>10, <2>1
  <2>3. QED
    BY <2>1, <2>2
<1>13. h[p] = SubSeq(m, p, minify_string(m, p) - 1) \o h[minify_string(m, p)]
  <2>1. h[p] = MinifyAt(h, m, p)
    BY <1>1, <1>9
  <2>2. QED
    BY <1>12, <2>1, MinifyQuoted
<1> HIDE DEF b
<1>14. h[p] = d \o h[b]
  BY <1>11, <1>13, Zenon
<1>15. h[p] = PartThen(t, i, e, h[b])
  BY <1>14 DEF d, PartThen
<1>16. QED
  BY <1>9, <1>15

(* ... and from a string on. *)
LEMMA StringLeft ==
  ASSUME NEW t, NEW c, NEW f, NEW g, NEW w, Reading(t, c, f, g, w),
         ~Misread(t), NEW m, NEW h, Minifying(m, h), NEW i \in 1 .. Len(t),
         t[i] = Quote, Agree(f, g, i, "out"),
         \A k \in i + 1 .. Len(t) + 1 :
           Agree(f, g, k, "out") => Left(f, w, m, h, k)
  PROVE  Left(f, w, m, h, i)
<1>1. /\ Len(t) \in Nat /\ t \in Seq(Units) /\ i \in 1 .. Len(t) + 1
      /\ i # Len(t) + 1 /\ i + 1 \in 2 .. Len(t) + 1 /\ i + 1 - 1 = i
  <2>1. Len(t) \in Nat /\ t \in Seq(Units)
    BY LenProperties DEF Reading
  <2>2. QED
    BY <2>1
<1>2. Quote # Blank /\ Quote # Backslash
  BY SignsDiffer
<1>3. "out" \in Modes /\ After("out", t[i]) = "in"
  BY DEF Modes, After
<1>4. /\ f[i]["out"] = <<t[i]>> \o f[i + 1]["in"]
      /\ Agree(f, g, i + 1, "in")
  <2>1. ~("out" = "out" /\ t[i] = Blank)
    BY <1>2
  <2>2. /\ f[i]["out"] = <<t[i]>> \o f[i + 1][After("out", t[i])]
        /\ Agree(f, g, i + 1, After("out", t[i]))
    BY <1>3, <2>1, ReadingUnit
  <2>3. QED
    BY <1>3, <2>2
<1>5. w[i][TRUE] = <<t[i]>> \o w[i + 1][FALSE]
  <2>1. w[i][TRUE] = CommentedAt(w, t, c, i, TRUE)
    BY <1>1 DEF Reading
  <2>2. (t[i] = Quote /\ (TRUE \/ t[i - 1] # Backslash)) = TRUE
    OBVIOUS
  <2>3. t[i] # Blank
    BY <1>2
  <2>4. CommentedAt(w, t, c, i, TRUE) = <<t[i]>> \o w[i + 1][TRUE # TRUE]
    BY <1>1, <2>2, <2>3, Zenon DEF CommentedAt
  <2>5. (TRUE # TRUE) = FALSE
    OBVIOUS
  <2>6. QED
    BY <2>1, <2>4, <2>5
<1>6. Consistent(t, i + 1, "in")
  BY <1>1, <1>2 DEF Consistent
<1>7. Kept(t, f, g, w, i + 1, "in")
  BY <1>1, <1>4, <1>6, StringLeftAlone
<1>8. PICK e :
        /\ EndsString(t, i + 1, e)
        /\ w[i + 1][FALSE] = SubSeq(t, i + 1, e) \o w[e + 1][TRUE]
        /\ f[i + 1]["in"] = SubSeq(t, i + 1, e) \o f[e + 1]["out"]
        /\ Agree(f, g, e + 1, "out")
  BY <1>7 DEF Kept
<1>9. /\ e \in 1 .. Len(t) /\ i \in 1 .. e
      /\ e + 1 \in 1 .. Len(t) + 1 /\ e + 1 \in i + 1 .. Len(t) + 1
  BY <1>1, <1>8 DEF EndsString
<1>10. /\ t \in Seq(Chars) /\ w[e + 1][TRUE] \in Terminated
       /\ w[e + 1][TRUE] \in Seq(Chars) /\ f[e + 1]["out"] \in Seq(Chars)
  <2>1. Units \subseteq Chars /\ Units \cup {NUL} \subseteq Chars
    BY Zenon DEF Chars
  <2>2. t \in Seq(Chars)
    BY <1>1, <2>1
  <2>3. w[e + 1][TRUE] \in Terminated
    BY <1>9 DEF Reading
  <2>4. f[e + 1]["out"] \in Texts
    <3>1. f \in [1 .. Len(t) + 1 -> [Modes -> Texts]]
      BY DEF Reading
    <3>2. QED
      BY <1>3, <1>9, <3>1
  <2>5. PICK a : a = f[e + 1]["out"]
    OBVIOUS
  <2>6. a \in Seq(Units \cup {NUL})
    BY <2>4, <2>5 DEF Texts
  <2>7. a \in Seq(Chars)
    BY <2>1, <2>6
  <2>8. QED
    BY <2>2, <2>3, <2>5, <2>7 DEF Terminated
<1>11. /\ w[i][TRUE] = SubSeq(t, i, e) \o w[e + 1][TRUE]
       /\ f[i]["out"] = SubSeq(t, i, e) \o f[e + 1]["out"]
  <2>1. /\ SubSeq(t, i, e) \o w[e + 1][TRUE] =
             <<t[i]>> \o (SubSeq(t, i + 1, e) \o w[e + 1][TRUE])
        /\ SubSeq(t, i, e) \o f[e + 1]["out"] =
             <<t[i]>> \o (SubSeq(t, i + 1, e) \o f[e + 1]["out"])
    BY <1>9, <1>10, PartFirst
  <2>2. QED
    BY <1>4, <1>5, <1>8, <2>1
<1>12. Left(f, w, m, h, e + 1)
  BY <1>8, <1>9
<1>13. PICK r : r = w[e + 1][TRUE]
  OBVIOUS
<1>14. ASSUME NEW p, IsFrom(m, p, PartThen(t, i, e, r))
       PROVE  h[p] = f[i]["out"]
  <2>1. r \in Terminated /\ t \in Seq(Units) /\ EndsString(t, i + 1, e)
    BY <1>1, <1>8, <1>10, <1>13
  <2>2. PICK b : IsFrom(m, b, r) /\ h[p] = PartThen(t, i, e, h[b])
    BY <1>14, <2>1, FromString
  <2>3. h[b] = f[e + 1]["out"]
    BY <1>12, <1>13, <2>2 DEF Left
  <2>4. QED
    BY <1>11, <2>2, <2>3 DEF PartThen
<1>15. w[i][TRUE] = PartThen(t, i, e, r)
  BY <1>11, <1>13 DEF PartThen
<1>16. QED
  BY <1>14, <1>15 DEF Left

(* So from every place on that both readings take for outside of a string, *)
(* by induction from the end of the text.                                  *)
LEMMA CommentsGone ==
  ASSUME NEW t, NEW c, NEW f, NEW g, NEW w, Reading(t, c, f, g, w),
         ~Misread(t), NEW m, NEW h, Minifying(m, h)
  PROVE  \A i \in 1 .. Len(t) + 1 :
           Agree(f, g, i, "out") => Left(f, w, m, h, i)
<1> DEFINE L == Len(t)
           S == {i \in Nat : i \in 1 .. L + 1 =>
                   (Agree(f, g, i, "out") => Left(f, w, m, h, i))}
<1>1. L \in Nat
  BY LenProperties DEF Reading
<1>2. \A i \in Nat : i > L + 1 => i \in S
  BY <1>1
<1>3. ASSUME NEW i \in 0 .. L + 1, \A k \in Nat : k > i => k \in S
      PROVE  i \in S
  <2> SUFFICES ASSUME i \in 1 .. L + 1, Agree(f, g, i, "out")
               PROVE  Left(f, w, m, h, i)
    BY <1>1
  <2>1. \A k \in i + 1 .. Len(t) + 1 :
          Agree(f, g, k, "out") => Left(f, w, m, h, k)
    <3>1. \A k \in i + 1 .. L + 1 : k \in Nat /\ k > i /\ k \in 1 .. L + 1
      BY <1>1
    <3>2. QED
      BY <1>3, <3>1
  <2>2. CASE i = L + 1
    BY <2>2, EndLeft
  <2>3. CASE i # L + 1
    <3>1. i \in 1 .. Len(t) /\ i + 1 \in i + 1 .. Len(t) + 1
      BY <1>1, <2>3
    <3>2. CASE t[i] = Quote
      BY <2>1, <3>1, <3>2, StringLeft
    <3>3. CASE t[i] # Quote
      <4>1. Agree(f, g, i + 1, "out")
        <5>1. "out" \in Modes /\ After("out", t[i]) = "out"
          BY <3>3 DEF Modes, After
        <5>2. CASE t[i] = Blank
          <6>1. "out" = "out" /\ t[i] = Blank => Agree(f, g, i + 1, "out")
            BY <3>1, <5>1, ReadingUnit
          <6>2. QED
            BY <5>2, <6>1
        <5>3. CASE t[i] # Blank
          <6>1. ~("out" = "out" /\ t[i] = Blank)
                  => Agree(f, g, i + 1, After("out", t[i]))
            BY <3>1, <5>1, ReadingUnit
          <6>2. QED
            BY <5>1, <5>3, <6>1
        <5>4. QED
          BY <5>2, <5>3
      <4>2. Left(f, w, m, h, i + 1)
        BY <2>1, <3>1, <4>1
      <4>3. QED
        BY <3>1, <3>3, <4>2, BlankLeft, UnitLeft
    <3>4. QED
      BY <3>2, <3>3
  <2>4. QED
    BY <2>2, <2>3
<1> HIDE DEF S
<1>4. S = Nat
  <2>1. S \in SUBSET Nat /\ L + 1 \in Nat
    BY <1>1 DEF S
  <2>2. QED
    BY <1>2, <1>3, <2>1, Downwards
<1>5. \A i \in 1 .. L + 1 : i \in Nat
  BY <1>1
<1>6. QED
  BY <1>4, <1>5 DEF S

(* What says something is out of its strings at its end: a blank behind it *)
(* says nothing.                                                           *)
LEMMA BlankBehind ==
  ASSUME NEW t, NEW d, Says(t, d)
  PROVE  WithoutBlanks(t \o <<Blank>>) = WithoutBlanks(t)
<1>1. Says(<<Blank>>, <<>>)
  <2>1. Blank \in Units
    BY Zenon DEF Units
  <2>2. ASSUME NEW x \in Units, x = Blank
        PROVE  Says(<<x>>, <<>>)
    <3>1. x \in Units \cup {NUL} /\ x # Quote
      BY <2>2, SignsDiffer
    <3>2. Says(<<x>>, IF x = Blank THEN <<>> ELSE <<x>>)
      BY <3>1, SaysUnit
    <3>3. QED
      BY <2>2, <3>2
  <2>3. QED
    BY <2>1, <2>2
<1>2. Says(t \o <<Blank>>, d \o <<>>)
  BY <1>1, SaysBoth
<1>3. d \o <<>> = d
  BY ConcatEmptySeq DEF Says, Texts
<1>4. WithoutBlanks(t \o <<Blank>>) = d \o <<>>
  BY <1>2, SaysIs
<1>5. WithoutBlanks(t) = d
  BY SaysIs
<1>6. QED
  BY <1>3, <1>4, <1>5

(* cJSON_Minify, of what says something.                                   *)
LEMMA MinifiedIs ==
  ASSUME NEW t \in Seq(Units), NEW c \in Comments, ~Misread(t),
         NEW d, Says(t, d)
  PROVE  cJSON_Minify(Commented(t, c)) = WithoutBlanks(t)
<1>1. PICK f \in [1 .. Len(t) + 1 -> [Modes -> Texts]] :
        BlanksEq(f, t) /\ WithoutBlanks(t) = f[1]["out"]
  <2>1. t \in Texts
    BY DEF Says
  <2>2. QED
    BY <2>1, BlanksFunction
<1>2. PICK g \in [1 .. Len(t) + 2 -> [Modes -> Texts]] :
        /\ BlanksEq(g, t \o <<Blank>>)
        /\ WithoutBlanks(t \o <<Blank>>) = g[1]["out"]
  <2> DEFINE u == t \o <<Blank>>
  <2>1. u \in Texts /\ Len(u) + 1 = Len(t) + 2
    <3>1. Blank \in Units
      BY Zenon DEF Units
    <3>2. u \in Seq(Units) /\ Len(u) = Len(t) + 1 /\ Len(t) \in Nat
      BY <3>1
    <3> HIDE DEF u
    <3>3. u \in Texts
      BY <3>2 DEF Texts
    <3>4. QED
      BY <3>2, <3>3
  <2> HIDE DEF u
  <2>2. PICK g \in [1 .. Len(u) + 1 -> [Modes -> Texts]] :
          BlanksEq(g, u) /\ WithoutBlanks(u) = g[1]["out"]
    BY <2>1, BlanksFunction
  <2>3. QED
    BY <2>1, <2>2 DEF u
<1>3. PICK w \in [1 .. Len(t) + 1 -> [BOOLEAN -> Terminated]] :
        /\ \A i \in 1 .. Len(t) + 1, out \in BOOLEAN :
             w[i][out] = CommentedAt(w, t, c, i, out)
        /\ Commented(t, c) = w[1][TRUE]
  BY CommentedFunction
<1>4. Reading(t, c, f, g, w)
  BY <1>1, <1>2, <1>3 DEF Reading
<1>5. Agree(f, g, 1, "out")
  BY <1>1, <1>2, BlankBehind DEF Agree
<1>6. 1 \in 1 .. Len(t) + 1
  <2>1. Len(t) \in Nat
    BY LenProperties
  <2>2. QED
    BY <2>1
<1>7. PICK m : m = Commented(t, c)
  OBVIOUS
<1>8. m \in Terminated /\ m = w[1][TRUE]
  <2>1. w[1] \in [BOOLEAN -> Terminated]
    BY <1>6
  <2>2. w[1][TRUE] \in Terminated
    BY <2>1
  <2>3. QED
    BY <1>3, <1>7, <2>2
<1>9. PICK h : /\ \A i \in 1 .. Len(m) : h[i] = MinifyAt(h, m, i)
               /\ cJSON_Minify(m) = h[1]
  BY <1>8, MinifyFunction
<1>10. Minifying(m, h)
  BY <1>8, <1>9 DEF Minifying
<1>11. Left(f, w, m, h, 1)
  BY <1>4, <1>5, <1>6, <1>10, CommentsGone
<1>12. IsFrom(m, 1, m)
  <2>1. Len(m) \in Nat /\ Len(m) > 0
    BY <1>8, LenProperties DEF Terminated
  <2>2. 1 \in 1 .. Len(m) /\ Len(m) = Len(m) - 1 + 1
    BY <2>1
  <2>3. \A k \in 1 .. Len(m) : m[k] = m[1 + k - 1]
    BY <2>1
  <2>4. QED
    BY <2>2, <2>3 DEF IsFrom
<1>13. h[1] = f[1]["out"]
  BY <1>8, <1>11, <1>12 DEF Left
<1>14. QED
  BY <1>1, <1>7, <1>9, <1>13

(* The text of a tree that was parsed, up to where the parser stopped.     *)
StopsInText == pc = "parsed" => offset <= Len(text)

(* No step makes the parser stop behind the terminator.                    *)
LEMMA StopsInTextStep ==
  ASSUME JsonInv, JsonInv', StopsInText, [JsonNext]_jsonVars
  PROVE  StopsInText'
<1>1. CASE JsonNext
  <2>1. SUFFICES ASSUME pc' = "parsed"
                 PROVE  offset' <= Len(text')
    BY DEF StopsInText
  <2>2. parse_returns
    BY <1>1, <2>1, OnlyReturns
  <2>3. QED
    BY <2>2 DEF parse_returns, JsonInv, ReadsInBuffer
<1>2. CASE UNCHANGED jsonVars
  BY <1>2 DEF StopsInText, jsonVars
<1>3. QED
  BY <1>1, <1>2

(* There is no terminator in it.                                           *)
LEMMA ParsedUnits ==
  ASSUME JsonInv, TreeSays, StopsInText, pc = "parsed"
  PROVE  Read(offset - 1) \in Seq(Units)
<1>1. /\ text \in Seq(Units \cup {NUL}) /\ Len(text) \in Nat
      /\ offset \in Nat /\ offset <= Len(text)
      /\ \A i \in 1 .. Len(text) - 1 : text[i] # NUL
  BY LenProperties
     DEF JsonInv, TextInv, Texts, JsonTypeOK, StopsInText, TreeSays,
         OneTerminator
<1>2. \A i \in 1 .. offset - 1 : i \in 1 .. Len(text) /\ text[i] # NUL
  BY <1>1
<1>3. \A i \in 1 .. offset - 1 : text[i] \in Units
  BY <1>1, <1>2, ElementOfSeq
<1>4. 1 \in Int /\ offset - 1 \in Int
  BY <1>1
<1>5. SubSeq(text, 1, offset - 1) \in Seq(Units)
  BY <1>3, <1>4, SubSeqProperties
<1>6. QED
  BY <1>5 DEF Read

(* Each text that was parsed is minified right.                            *)
LEMMA ParsedIsMinified ==
  ASSUME JsonInv, TreeSays, StopsInText
  PROVE  MinifyKeepsStrings
<1>1. SUFFICES ASSUME pc = "parsed", ~Misread(Read(offset - 1)),
                      NEW c \in Comments
               PROVE  cJSON_Minify(Commented(Read(offset - 1), c)) =
                        WithoutBlanks(Read(offset - 1))
  BY DEF MinifyKeepsStrings, Read
<1>2. PICK p : Says(Read(offset - 1), p)
  BY <1>1 DEF TreeSays, Told, Consumed
<1>3. Read(offset - 1) \in Seq(Units)
  BY <1>1, ParsedUnits
<1>4. QED
  BY <1>1, <1>2, <1>3, MinifiedIs

(* cJSON_Minify takes the blanks and the comments out of what was parsed   *)
(* and leaves its strings alone, as long as none of them ends in an        *)
(* escaped backslash: for every text.                                      *)
THEOREM MinifyRight == JsonSpec => []MinifyKeepsStrings
<1>1. JsonInit => TreeSays /\ StopsInText
  <2>1. JsonInit => pc = "idle" /\ text = <<NUL>>
    BY DEF JsonInit
  <2>2. text = <<NUL>> => OneTerminator
    BY DEF OneTerminator
  <2>3. QED
    BY <2>1, <2>2 DEF TreeSays, Parsing, StopsInText
<1>2. JsonInv /\ JsonInv' /\ TreeSays /\ [JsonNext]_jsonVars => TreeSays'
  BY TreeSaysStep, TreeSaysStutter
<1>3. JsonInv /\ JsonInv' /\ StopsInText /\ [JsonNext]_jsonVars
        => StopsInText'
  BY StopsInTextStep
<1>4. JsonInv /\ TreeSays /\ StopsInText => MinifyKeepsStrings
  BY ParsedIsMinified
<1>5. QED
  BY <1>1, <1>2, <1>3, <1>4, JsonInvariant, PTL DEF JsonSpec
=============================================================================
