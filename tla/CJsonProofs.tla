---------------------------- MODULE CJsonProofs ----------------------------
(***************************************************************************)
(* Theorems about the parser of CJson, for every text, every nesting limit *)
(* and every allocation that may fail: it reads no byte behind the         *)
(* terminator, and every block of the heap has one owner, so that nothing  *)
(* is leaked and nothing deleted twice.                                    *)
(*                                                                         *)
(* The invariant has four parts.  TextInv and ReadsInBuffer say where the  *)
(* parser is in the text.  Links says that the nodes are a forest: no two  *)
(* pointers to a node, and every node below the root or below a list that  *)
(* is being parsed.  Strings says the same of the strings.  Frames says    *)
(* how the lists being parsed hang together.                               *)
(***************************************************************************)
EXTENDS CJson, TLAPS, SequenceTheorems, FiniteSetTheorems,
        WellFoundedInduction

Texts == Seq(Units \cup {NUL})
Types == {"Invalid", "True", "Number", "String", "Array", "Object"}

Node == [type : Types, next : Nat, prev : Nat, child : Nat,
         valuestring : Nat, string : Nat, value : Texts]

Frame == [open : Opening, item : Nat, head : Nat, current_item : Nat]

(* The terminator is the last unit of the text. *)
TextInv ==
  /\ text \in Texts /\ Len(text) > 0
  /\ text[Len(text)] = NUL

(* The first node of the list being parsed at depth i and its last one; at *)
(* depth 0 both are the root.                                              *)
ListHead(i) == IF i = 0 THEN root ELSE stack[i].head
LastItem(i) == IF i = 0 THEN root ELSE stack[i].current_item

Depths == 0 .. Len(stack)

BlockIds == SUBSET (Nat \ {0})

Blocks ==
  /\ node \in [DOMAIN node -> Node]
  /\ DOMAIN node \in BlockIds /\ IsFiniteSet(DOMAIN node)
  /\ DOMAIN str \in BlockIds /\ IsFiniteSet(DOMAIN str)
  /\ root \in Nat
  /\ stack \in Seq(Frame)

(* All pointers to nodes lead to nodes, no two to the same one, and what   *)
(* no closed set with all the lists in it is without is everything.        *)
Links ==
  /\ \A m \in DOMAIN node : {node[m].next, node[m].child} \subseteq
                              {0} \cup DOMAIN node
  /\ \A m, k \in DOMAIN node :
       /\ node[m].next  # 0 /\ node[m].next  = node[k].next  => m = k
       /\ node[m].child # 0 /\ node[m].child = node[k].child => m = k
       /\ node[m].next  # 0 => node[m].next # node[k].child
  /\ \A i \in Depths : ListHead(i) \in {0} \cup DOMAIN node
  /\ \A i, j \in Depths :
       i # j /\ ListHead(i) # 0 => ListHead(i) # ListHead(j)
  /\ \A i \in Depths, m \in DOMAIN node :
       ListHead(i) # 0 => ListHead(i) \notin {node[m].next, node[m].child}
  /\ \A S \in SUBSET DOMAIN node :
       Closed(S) /\ (\A i \in Depths : ListHead(i) \in {0} \cup S)
         => S = DOMAIN node

(* The same for the strings, of which each belongs to a node.              *)
Strings ==
  /\ StringsOf(DOMAIN node) \ {0} = DOMAIN str
  /\ \A m, k \in DOMAIN node :
       LET s == node[m].valuestring
           t == node[m].string
       IN /\ s # 0 /\ s = node[k].valuestring => m = k
          /\ t # 0 /\ t = node[k].string      => m = k
          /\ s # 0 => s # node[k].string

Parsing == pc \in {"parse_value", "next_item", "parse_name", "value"}

(* A list being parsed is that of the last item of the list around it,     *)
(* which has no child yet; its own last item has none after it; and the    *)
(* last item is in the list.                                               *)
Frames ==
  /\ root # 0
  /\ \A i \in 1 .. Len(stack) :
       /\ stack[i].item = LastItem(i - 1)
       /\ stack[i].item \in DOMAIN node
       /\ node[stack[i].item].child = 0
       /\ stack[i].head = 0 <=> stack[i].current_item = 0
       /\ stack[i].current_item = 0 => i = Len(stack) /\ pc = "next_item"
       /\ stack[i].current_item # 0 =>
            /\ stack[i].current_item \in DOMAIN node
            /\ node[stack[i].current_item].next = 0
  /\ \A i, j \in Depths : i < j => LastItem(i) # LastItem(j)
  /\ \A i \in Depths : LastItem(i) # 0 =>
       \A S \in SUBSET DOMAIN node :
         ListHead(i) \in S /\ Closed(S) => LastItem(i) \in S

(* The item that is next has nothing to lose. *)
ItemIsNew ==
  /\ item = LastItem(Len(stack))
  /\ item \in DOMAIN node
  /\ node[item].child = 0
  /\ node[item].valuestring = 0
  /\ pc = "parse_name" => node[item].string = 0

Places ==
  /\ pc \in {"idle", "parsed"} => stack = <<>>
  /\ pc = "idle" => root = 0
  /\ pc \in {"next_item", "parse_name"} => stack # <<>>
  /\ Parsing => Frames
  /\ pc \in {"parse_value", "parse_name"} => ItemIsNew

DepthInv ==
  /\ depth \in 0 .. CJSON_NESTING_LIMIT
  /\ Len(stack) <= depth

HeapInv ==
  /\ Blocks
  /\ Links
  /\ Strings
  /\ DepthInv
  /\ Places

JsonInv ==
  /\ JsonTypeOK
  /\ TextInv
  /\ ReadsInBuffer
  /\ HeapInv

-----------------------------------------------------------------------------
(* The operators *)

(* The least of a set of naturals is one of them.                          *)
LEMMA NatMin ==
  ASSUME NEW S \in SUBSET Nat, S # {}
  PROVE  /\ Min(S) \in S
         /\ \A x \in S : Min(S) <= x
<1>1. \E x \in S : \A y \in S : ~(<<y, x>> \in OpToRel(<, Nat))
  BY NatLessThanWellFounded, WFMin
<1>2. \E x \in S : \A y \in S : x <= y
  <2>1. PICK x \in S : \A y \in S : ~(<<y, x>> \in OpToRel(<, Nat))
    BY <1>1
  <2>2. ASSUME NEW y \in S
        PROVE  x <= y
    <3>1. x \in Nat /\ y \in Nat
      OBVIOUS
    <3>2. ~(y < x)
      BY <2>1, <3>1 DEF OpToRel
    <3>3. QED
      BY <3>1, <3>2
  <2>3. QED
    BY <2>2
<1>3. QED
  BY <1>2 DEF Min

(* malloc returns a block that is not in use.                              *)
LEMMA FreeBlockIsFree ==
  ASSUME NEW f, IsFiniteSet(DOMAIN f)
  PROVE  FreeBlock(f) \in Nat \ {0} /\ FreeBlock(f) \notin DOMAIN f
<1> DEFINE c == Cardinality(DOMAIN f)
           S == (1 .. c + 1) \ DOMAIN f
<1>1. c \in Nat
  BY FS_CardinalityType
<1>2. IsFiniteSet(1 .. c + 1) /\ Cardinality(1 .. c + 1) = c + 1
  BY <1>1, FS_Interval
<1>3. ASSUME S = {}
      PROVE  FALSE
  <2>1. 1 .. c + 1 \in SUBSET DOMAIN f
    BY <1>3
  <2>2. Cardinality(1 .. c + 1) <= c
    BY <2>1, FS_Subset
  <2>3. QED
    BY <1>1, <1>2, <2>2
<1>4. S \in SUBSET Nat
  BY <1>1
<1>5. Min(S) \in S
  BY <1>3, <1>4, NatMin
<1>6. QED
  BY <1>1, <1>5 DEF FreeBlock

(* Skipping blanks does not leave the text.                                *)
LEMMA SkipStays ==
  ASSUME NEW S, NEW t \in Seq(S), NEW i \in 1 .. Len(t)
  PROVE  buffer_skip_whitespace(t, i) \in i .. Len(t)
<1> DEFINE more == {j \in i .. Len(t) : t[j] \notin {Blank, NUL}}
           M == more \cup {Len(t)}
<1>1. Len(t) \in Nat /\ i \in Nat /\ i <= Len(t) /\ ~(i > Len(t))
  BY LenProperties
<1>2. M \in SUBSET Nat /\ M \subseteq i .. Len(t) /\ M # {}
  <2>1. more \subseteq i .. Len(t)
    BY Zenon
  <2>2. Len(t) \in i .. Len(t) /\ i .. Len(t) \subseteq Nat
    BY <1>1
  <2>3. QED
    BY <2>1, <2>2, Zenon
<1>3. Min(M) \in M
  BY <1>2, NatMin
<1>4. buffer_skip_whitespace(t, i) = Min(M)
  BY <1>1, Zenon DEF buffer_skip_whitespace
<1>5. QED
  BY <1>2, <1>3, <1>4

(* Where there is a unit that is not the terminator, another one follows.  *)
LEMMA MoreFollows ==
  ASSUME TextInv, NEW i \in 1 .. Len(text), text[i] # NUL
  PROVE  i + 1 \in 1 .. Len(text)
BY LenProperties DEF TextInv, Texts

(* Skipping blanks from inside the text, and from behind a unit that is    *)
(* not the terminator.                                                     *)
LEMMA SkipInText ==
  ASSUME TextInv, NEW i \in 1 .. Len(text)
  PROVE  /\ buffer_skip_whitespace(text, i) \in i .. Len(text)
         /\ text[i] # NUL =>
              buffer_skip_whitespace(text, i + 1) \in i + 1 .. Len(text)
<1>1. buffer_skip_whitespace(text, i) \in i .. Len(text)
  BY SkipStays DEF TextInv, Texts
<1>2. ASSUME text[i] # NUL
      PROVE  buffer_skip_whitespace(text, i + 1) \in i + 1 .. Len(text)
  <2>1. i + 1 \in 1 .. Len(text)
    BY <1>2, MoreFollows
  <2>2. QED
    BY <2>1, SkipStays DEF TextInv, Texts
<1>3. QED
  BY <1>1, <1>2

(* A string that was parsed ends in a quote, so that something follows.    *)
LEMMA StringEnds ==
  ASSUME TextInv, parse_string(offset).ok
  PROVE  /\ parse_string(offset).end \in 1 .. Len(text)
         /\ parse_string(offset).end + 1 \in 1 .. Len(text)
         /\ text[parse_string(offset).end] # NUL
<1> DEFINE end == Max(Scan(offset))
<1>1. end \in DOMAIN text /\ text[end] = Quote
  BY Zenon DEF parse_string
<1>2. parse_string(offset).end = end
  BY DEF parse_string
<1>3. end \in 1 .. Len(text) /\ text[end] # NUL
  BY <1>1, LenProperties DEF TextInv, Texts, Quote, NUL
<1>4. end + 1 \in 1 .. Len(text)
  BY <1>3, MoreFollows
<1>5. QED
  BY <1>2, <1>3, <1>4

(* The innermost list being parsed and those around it.                    *)
LEMMA TopIsAFrame ==
  ASSUME stack \in Seq(Frame), stack # <<>>
  PROVE  /\ Len(stack) \in 1 .. Len(stack)
         /\ Top \in Frame
         /\ Pop \in Seq(Frame)
         /\ Len(Pop) = Len(stack) - 1
         /\ \A i \in 1 .. Len(stack) - 1 : Pop[i] = stack[i]
<1>1. Len(stack) \in Nat /\ Len(stack) > 0
  BY EmptySeq, LenProperties
<1>2. stack[Len(stack)] \in Frame
  BY <1>1, ElementOfSeq
<1>3. /\ SubSeq(stack, 1, Len(stack) - 1) \in Seq(Frame)
      /\ Len(SubSeq(stack, 1, Len(stack) - 1)) = Len(stack) - 1
      /\ \A i \in 1 .. Len(stack) - 1 :
           SubSeq(stack, 1, Len(stack) - 1)[i] = stack[i]
  <2>1. \A i \in 1 .. Len(stack) - 1 : 1 + i - 1 = i /\ i \in 1 .. Len(stack)
    BY <1>1
  <2>2. 1 \in 1 .. Len(stack) /\ Len(stack) - 1 \in 1 - 1 .. Len(stack)
          /\ Len(stack) - 1 - 1 + 1 = Len(stack) - 1
    BY <1>1
  <2>3. QED
    BY <2>1, <2>2, SubSeqProperties
<1>4. QED
  BY <1>1, <1>2, <1>3 DEF Top, Pop

-----------------------------------------------------------------------------
(* Where the parser is in the text *)

(* Every step leaves the parser in the text, with as much of it in front   *)
(* as the next step will read without looking.                             *)
LEMMA TextStep ==
  ASSUME JsonTypeOK, TextInv, ReadsInBuffer, stack \in Seq(Frame), JsonNext
  PROVE  /\ TextInv'
         /\ ReadsInBuffer'
         /\ offset' \in 1 .. Len(text') + 1
         /\ failed' \in BOOLEAN
         /\ pc' \in {"idle", "parse_value", "next_item", "parse_name",
                     "value", "fail", "parsed"}
<1> DEFINE L == Len(text)
<1>1. L \in Nat /\ offset \in 1 .. L + 1 /\ failed \in BOOLEAN
  BY LenProperties DEF TextInv, Texts, JsonTypeOK
<1>2. pc \in {"parse_value", "parse_name", "value"} => offset \in 1 .. L
  BY <1>1 DEF ReadsInBuffer
<1>3. pc = "next_item" => offset \in 1 .. L /\ offset + 1 \in 1 .. L
  BY <1>1 DEF ReadsInBuffer
<1>4. ASSUME text' = text, failed' \in BOOLEAN, offset' \in 1 .. L + 1,
             pc' \in {"parse_value", "parse_name", "value"} => offset' <= L,
             pc' = "next_item" => offset' < L,
             pc' \in {"parse_value", "next_item", "parse_name", "value",
                      "fail", "parsed"}
      PROVE  /\ TextInv'
             /\ ReadsInBuffer'
             /\ offset' \in 1 .. Len(text') + 1
             /\ failed' \in BOOLEAN
             /\ pc' \in {"idle", "parse_value", "next_item", "parse_name",
                         "value", "fail", "parsed"}
  BY <1>4 DEF TextInv, ReadsInBuffer
<1>5. ASSUME NEW in \in Inputs, cJSON_Parse(in)
      PROVE  /\ TextInv'
             /\ ReadsInBuffer'
             /\ offset' \in 1 .. Len(text') + 1
             /\ failed' \in BOOLEAN
             /\ pc' \in {"idle", "parse_value", "next_item", "parse_name",
                         "value", "fail", "parsed"}
  <2>1. in.text \in Texts /\ NUL \in Units \cup {NUL}
    BY CJsonAssumption, SeqMonotonic DEF Texts
  <2>2. /\ text' = Append(in.text, NUL)
        /\ offset' = buffer_skip_whitespace(text', 1)
        /\ pc' \in {"parse_value", "fail"}
        /\ failed' \in BOOLEAN
    BY <1>5 DEF cJSON_Parse
  <2>3. /\ text' \in Texts /\ Len(text') = Len(in.text) + 1
        /\ text'[Len(text')] = NUL /\ Len(in.text) \in Nat
    BY <2>1, <2>2, AppendProperties, LenProperties DEF Texts
  <2>4. offset' \in 1 .. Len(text')
    <3>1. 1 \in 1 .. Len(text')
      BY <2>3
    <3>2. QED
      BY <2>2, <2>3, <3>1, SkipStays DEF Texts
  <2>5. QED
    BY <2>2, <2>3, <2>4 DEF TextInv, ReadsInBuffer
<1>6. CASE parse_value
  <2>1. pc = "parse_value" /\ offset \in 1 .. L
    BY <1>2, <1>6
       DEF parse_value, parse_literal, parse_value_string, parse_number,
           parse_list, parse_nothing
  <2>2. CASE ReturnsFalse
    BY <1>1, <1>4, <2>2 DEF ReturnsFalse
  <2>3. CASE StringFails
    BY <1>1, <1>4, <2>3 DEF StringFails
  <2>4. CASE parse_literal
    <3>1. text[offset] # NUL /\ offset' = offset + 1
      BY <2>4 DEF parse_literal, Literal, NUL
    <3>2. offset' \in 1 .. L
      BY <2>1, <3>1, MoreFollows
    <3>3. QED
      BY <1>1, <1>4, <2>4, <3>2 DEF parse_literal
  <2>5. CASE parse_value_string /\ ~StringFails
    <3>1. parse_string(offset).ok /\ offset' = parse_string(offset).end + 1
            /\ text' = text /\ failed' = failed /\ pc' = "value"
      BY <2>5 DEF parse_value_string, StringParsed
    <3>2. offset' \in 1 .. L
      BY <3>1, StringEnds
    <3>3. QED
      BY <1>1, <1>4, <3>1, <3>2
  <2>6. CASE parse_number /\ ~ReturnsFalse
    <3> DEFINE first == IF text[offset] = "-" THEN offset + 1 ELSE offset
               after == {j \in first .. Len(text) : text[j] # "1"}
    <3>1. offset' = Min(after) /\ text[offset] \in {"-", "1"}
            /\ text' = text /\ failed' = failed /\ pc' = "value"
      BY <2>6, Zenon DEF parse_number
    <3>2. text[offset] # NUL
      BY <3>1 DEF NUL
    <3>3. first \in 1 .. L
      BY <1>1, <2>1, <3>2, MoreFollows
    <3>4. L \in first .. L /\ text[L] # "1" /\ first .. L \subseteq Nat
            /\ first .. L \subseteq 1 .. L
      <4>1. text[L] # "1"
        BY DEF TextInv, NUL
      <4> HIDE DEF first
      <4>2. QED
        BY <1>1, <3>3, <4>1
    <3>5. after # {} /\ after \in SUBSET Nat /\ after \subseteq 1 .. L
      BY <3>4, Zenon
    <3>6. Min(after) \in 1 .. L
      BY <3>5, NatMin
    <3>7. QED
      BY <1>1, <1>4, <3>1, <3>6
  <2>7. CASE parse_list /\ ~ReturnsFalse
    <3>1. text[offset] \in Opening /\ text[offset] # NUL
      BY <2>7 DEF parse_list, Opening, NUL
    <3> DEFINE inside == buffer_skip_whitespace(text, offset + 1)
    <3>2. inside \in offset + 1 .. L
      BY <2>1, <3>1, SkipInText
    <3>3. /\ text' = text /\ failed' = failed
          /\ \/ /\ text[inside] = Closing[text[offset]]
                /\ offset' = inside + 1
                /\ pc' = "value"
             \/ /\ offset' = inside - 1
                /\ pc' = "next_item"
      BY <2>7 DEF parse_list
    <3>4. Closing[text[offset]] # NUL
      BY <3>1 DEF Closing, Opening, NUL
    <3> HIDE DEF inside
    <3>5. inside \in 1 .. L
      BY <2>1, <3>2
    <3>6. CASE pc' = "value"
      <4>1. offset' \in 1 .. L
        BY <3>3, <3>4, <3>5, <3>6, MoreFollows
      <4>2. QED
        BY <1>1, <1>4, <3>3, <3>6, <4>1
    <3>7. CASE pc' = "next_item"
      BY <1>1, <1>4, <2>1, <3>2, <3>3, <3>7
    <3>8. QED
      BY <3>3, <3>6, <3>7
  <2>8. QED
    BY <1>6, <2>2, <2>3, <2>4, <2>5, <2>6, <2>7
       DEF parse_value, parse_nothing
<1>7. CASE next_item
  <2>1. CASE pc' = "fail"
    BY <1>1, <1>4, <1>7, <2>1 DEF next_item
  <2>2. CASE pc' # "fail"
    <3>1. offset + 1 \in 1 .. L
      BY <1>3, <1>7 DEF next_item
    <3>2. /\ offset' = buffer_skip_whitespace(text, offset + 1)
          /\ pc' \in {"parse_name", "parse_value"}
          /\ text' = text /\ failed' = failed
      BY <1>7, <2>2 DEF next_item
    <3>3. offset' \in offset + 1 .. L
      BY <3>1, <3>2, SkipInText
    <3>4. QED
      BY <1>1, <1>4, <3>2, <3>3
  <2>3. QED
    BY <2>1, <2>2
<1>8. CASE parse_name
  <2>1. CASE StringFails
    BY <1>1, <1>4, <2>1 DEF StringFails
  <2>2. CASE ~StringFails
    <3> DEFINE end == parse_string(offset).end
               colon == buffer_skip_whitespace(text, end + 1)
    <3>1. /\ parse_string(offset).ok
          /\ text' = text /\ failed' = failed
          /\ \/ /\ text[colon] = ":"
                /\ offset' = buffer_skip_whitespace(text, colon + 1)
                /\ pc' = "parse_value"
             \/ offset' = colon /\ pc' = "fail"
      BY <1>8, <2>2 DEF parse_name, StringParsed
    <3>2. end \in 1 .. L /\ text[end] # NUL
      BY <3>1, StringEnds
    <3> HIDE DEF end
    <3>3. colon \in end + 1 .. L
      BY <3>2, SkipInText
    <3> HIDE DEF colon
    <3>4. colon \in 1 .. L
      BY <3>2, <3>3
    <3>5. CASE /\ text[colon] = ":"
               /\ offset' = buffer_skip_whitespace(text, colon + 1)
               /\ pc' = "parse_value"
      <4>1. text[colon] # NUL
        BY <3>5 DEF NUL
      <4>2. offset' \in colon + 1 .. L
        BY <3>4, <3>5, <4>1, SkipInText
      <4>3. QED
        BY <1>1, <1>4, <3>1, <3>4, <3>5, <4>2
    <3>6. CASE offset' = colon /\ pc' = "fail"
      BY <1>1, <1>4, <3>1, <3>4, <3>6
    <3>7. QED
      BY <3>1, <3>5, <3>6
  <2>3. QED
    BY <2>1, <2>2
<1>9. CASE list_ends \/ list_goes_on
  <2>1. pc = "value" /\ offset \in 1 .. L /\ stack # <<>>
    BY <1>2, <1>9 DEF list_ends, list_goes_on
  <2> DEFINE here == buffer_skip_whitespace(text, offset)
  <2>2. here \in offset .. L
    BY <2>1, SkipInText
  <2>3. /\ text' = text /\ failed' = failed
        /\ \/ /\ list_goes_on
              /\ offset' = here
              /\ \/ text[here] = "," /\ pc' = "next_item"
                 \/ pc' = "fail"
           \/ /\ list_ends
              /\ text[here] = Closing[Top.open]
              /\ offset' = here + 1
              /\ pc' = "value"
    BY <1>9 DEF list_ends, list_goes_on
  <2> HIDE DEF here
  <2>4. here \in 1 .. L
    BY <2>1, <2>2
  <2>5. CASE text[here] = "," /\ pc' = "next_item" /\ offset' = here
    <3>1. here + 1 \in 1 .. L
      BY <2>4, <2>5, MoreFollows DEF NUL
    <3>2. offset' \in 1 .. L + 1 /\ offset' < L
      <4>1. L \in Nat
        BY <1>1
      <4>2. offset' = here
        BY <2>5
      <4>3. QED
        BY <2>4, <3>1, <4>1, <4>2
    <3>3. QED
      BY <1>1, <1>4, <2>3, <2>5, <3>2
  <2>6. CASE pc' = "fail" /\ offset' = here
    BY <1>1, <1>4, <2>3, <2>4, <2>6
  <2>7. CASE text[here] = Closing[Top.open] /\ offset' = here + 1
               /\ pc' = "value"
    <3>1. Top.open \in Opening
      BY <2>1, TopIsAFrame DEF Frame
    <3>2. text[here] # NUL
      BY <2>7, <3>1 DEF Closing, Opening, NUL
    <3>3. here + 1 \in 1 .. L
      BY <2>4, <3>2, MoreFollows
    <3>4. QED
      BY <1>1, <1>4, <2>3, <2>7, <3>3
  <2>8. QED
    BY <2>3, <2>5, <2>6, <2>7
<1>10. CASE list_fails \/ parse_returns
  BY <1>1, <1>2, <1>4, <1>10 DEF list_fails, parse_returns
<1>11. CASE parse_fails \/ app_deletes
  <2>1. text' = <<NUL>>
    BY <1>11 DEF parse_fails, app_deletes, ParseOver
  <2>2. /\ text' \in Texts /\ Len(text') = 1
        /\ text'[Len(text')] = NUL
    BY <2>1 DEF Texts
  <2>3. offset' = 1 /\ pc' = "idle" /\ failed' = FALSE
    BY <1>11 DEF parse_fails, app_deletes, ParseOver
  <2>4. ReadsInBuffer'
    BY <2>3 DEF ReadsInBuffer
  <2>5. TextInv'
    BY <2>2 DEF TextInv
  <2>6. offset' \in 1 .. Len(text') + 1
    BY <2>2, <2>3
  <2>7. QED
    BY <2>3, <2>4, <2>5, <2>6
<1>12. QED
  BY <1>5, <1>6, <1>7, <1>8, <1>9, <1>10, <1>11
     DEF JsonNext, parse_array_or_object

-----------------------------------------------------------------------------
(* Steps that leave the links alone *)

LinksKept ==
  /\ DOMAIN node' = DOMAIN node
  /\ \A m \in DOMAIN node : /\ node'[m].next = node[m].next
                            /\ node'[m].child = node[m].child

StringsKept ==
  /\ DOMAIN node' = DOMAIN node
  /\ DOMAIN str' = DOMAIN str
  /\ \A m \in DOMAIN node : /\ node'[m].valuestring = node[m].valuestring
                            /\ node'[m].string = node[m].string

(* Where no pointer changes, the same sets are closed.                     *)
LEMMA ClosedKept ==
  ASSUME LinksKept, NEW S \in SUBSET DOMAIN node
  PROVE  Closed(S)' <=> Closed(S)
<1>1. \A m \in S : {node'[m].next, node'[m].child} \cap DOMAIN node'
                     = {node[m].next, node[m].child} \cap DOMAIN node
  BY DEF LinksKept
<1>2. QED
  BY <1>1, Zenon DEF Closed

(* Where no pointer changes and at most an empty list is begun, the nodes  *)
(* are the forest they were.                                               *)
LEMMA LinksStay ==
  ASSUME Links, LinksKept, Depths \subseteq Depths',
         \A i \in Depths' : ListHead(i)' = IF i \in Depths THEN ListHead(i)
                                           ELSE 0
  PROVE  Links'
<1>1. \A m \in DOMAIN node' : {node'[m].next, node'[m].child} \subseteq
                                {0} \cup DOMAIN node'
  BY DEF Links, LinksKept
<1>2. \A m, k \in DOMAIN node' :
        /\ node'[m].next  # 0 /\ node'[m].next  = node'[k].next  => m = k
        /\ node'[m].child # 0 /\ node'[m].child = node'[k].child => m = k
        /\ node'[m].next  # 0 => node'[m].next # node'[k].child
  BY DEF Links, LinksKept
<1>3. \A i \in Depths' : ListHead(i)' \in {0} \cup DOMAIN node'
  BY DEF Links, LinksKept
<1>4. \A i, j \in Depths' :
        i # j /\ ListHead(i)' # 0 => ListHead(i)' # ListHead(j)'
  BY DEF Links
<1>5. \A i \in Depths', m \in DOMAIN node' :
        ListHead(i)' # 0 =>
          ListHead(i)' \notin {node'[m].next, node'[m].child}
  BY DEF Links, LinksKept
<1>6. \A S \in SUBSET DOMAIN node' :
        Closed(S)' /\ (\A i \in Depths' : ListHead(i)' \in {0} \cup S)
          => S = DOMAIN node'
  <2>1. SUFFICES ASSUME NEW S \in SUBSET DOMAIN node, Closed(S)',
                        \A i \in Depths' : ListHead(i)' \in {0} \cup S
                 PROVE  S = DOMAIN node
    BY DEF LinksKept
  <2>2. Closed(S)
    BY <2>1, ClosedKept
  <2>3. \A i \in Depths : ListHead(i) \in {0} \cup S
    BY <2>1
  <2>4. QED
    BY <2>2, <2>3 DEF Links
<1>7. QED
  BY <1>1, <1>2, <1>3, <1>4, <1>5, <1>6 DEF Links

(* Where no string changes hands, each still belongs to one node.          *)
LEMMA StringsStay ==
  ASSUME Strings, StringsKept
  PROVE  Strings'
<1>1. StringsOf(DOMAIN node)' = StringsOf(DOMAIN node)
  BY DEF StringsOf, StringsKept
<1>2. StringsOf(DOMAIN node)' \ {0} = DOMAIN str'
  BY <1>1 DEF Strings, StringsKept
<1>3. \A m, k \in DOMAIN node' :
        LET s == node'[m].valuestring
            t == node'[m].string
        IN /\ s # 0 /\ s = node'[k].valuestring => m = k
           /\ t # 0 /\ t = node'[k].string      => m = k
           /\ s # 0 => s # node'[k].string
  BY DEF Strings, StringsKept
<1>4. QED
  BY <1>2, <1>3 DEF Strings

-----------------------------------------------------------------------------
(* cJSON_Delete *)

(* The tree of a node that nothing points at: it holds its node, nothing   *)
(* leads out of it, and nothing else leads into it.                        *)
LEMMA TreeIsAPart ==
  ASSUME Links, 0 \notin DOMAIN node, NEW p \in {0} \cup DOMAIN node,
         \A m \in DOMAIN node :
           p # 0 => p \notin {node[m].next, node[m].child}
  PROVE  /\ Tree(p) \subseteq DOMAIN node
         /\ Closed(Tree(p))
         /\ p # 0 => p \in Tree(p)
         /\ \A m \in Tree(p), k \in DOMAIN node :
              m \in {node[k].next, node[k].child} => k \in Tree(p)
         /\ \A m \in Tree(p) \ {p} : \E k \in DOMAIN node :
              m \in {node[k].next, node[k].child}
<1>1. CASE p = 0
  <2>1. Tree(p) = {}
    BY <1>1, Zenon DEF Tree
  <2>2. QED
    BY <1>1, <2>1 DEF Closed
<1>2. CASE p # 0
  <2> DEFINE around == {S \in SUBSET DOMAIN node : p \in S /\ Closed(S)}
             T == {m \in DOMAIN node : \A S \in around : m \in S}
  <2>1. p \in DOMAIN node
    BY <1>2
  <2>2. p \in T
    BY <2>1, Zenon
  <2>3. Tree(p) = T
    <3>1. Tree(p) = {p} \cup T
      BY <1>2, Zenon DEF Tree
    <3>2. QED
      BY <2>2, <3>1, Zenon
  <2>4. Closed(T)
    <3>1. SUFFICES ASSUME NEW m \in T, NEW x \in DOMAIN node,
                          x \in {node[m].next, node[m].child},
                          NEW S \in around
                   PROVE  x \in S
      BY Zenon DEF Closed
    <3>2. m \in S /\ Closed(S)
      BY Zenon
    <3>3. QED
      BY <3>1, <3>2, Zenon DEF Closed
  <2>5. ASSUME NEW m \in T, m # p
        PROVE  \E k \in T : m \in {node[k].next, node[k].child}
    <3>1. SUFFICES ASSUME \A k \in T : m \notin {node[k].next, node[k].child}
                   PROVE  FALSE
      BY Zenon
    <3>2. Closed(T \ {m})
      BY <2>4, <3>1 DEF Closed
    <3>3. T \ {m} \in around
      BY <2>2, <2>5, <3>2
    <3>4. QED
      BY <3>3
  <2> HIDE DEF around, T
  <2>6. T \subseteq DOMAIN node
    BY DEF T
  <2>7. ASSUME NEW m \in T, NEW k \in DOMAIN node,
               m \in {node[k].next, node[k].child}
        PROVE  k \in T
    <3>1. m # p /\ m # 0 /\ m \in DOMAIN node
      BY <1>2, <2>6, <2>7
    <3>2. PICK l \in T : m \in {node[l].next, node[l].child}
      BY <2>5, <3>1
    <3>3. k = l
      BY <2>6, <2>7, <3>1, <3>2 DEF Links
    <3>4. QED
      BY <3>2, <3>3
  <2>8. QED
    BY <1>2, <2>2, <2>3, <2>4, <2>5, <2>6, <2>7
<1>3. QED
  BY <1>1, <1>2

(* cJSON_Delete of a list leaves a forest: the other lists are as they     *)
(* were and what is left is below them.                                    *)
LEMMA LinksDelete ==
  ASSUME Links, 0 \notin DOMAIN node,
         cJSON_Delete(ListHead(Len(stack))), Len(stack) \in Nat,
         \A i \in Depths' :
           \/ ListHead(i)' = 0
           \/ i \in Depths \ {Len(stack)} /\ ListHead(i)' = ListHead(i),
         \A i \in Depths \ {Len(stack)} :
           i \in Depths' /\ ListHead(i)' = ListHead(i)
  PROVE  Links'
<1> DEFINE p == ListHead(Len(stack))
           T == Tree(p)
<1>1. Len(stack) \in Depths
  BY DEF Depths
<1>2. /\ p \in {0} \cup DOMAIN node
      /\ \A m \in DOMAIN node :
           p # 0 => p \notin {node[m].next, node[m].child}
  BY <1>1 DEF Links
<1>3. /\ T \subseteq DOMAIN node
      /\ Closed(T)
      /\ p # 0 => p \in T
      /\ \A m \in T, k \in DOMAIN node :
           m \in {node[k].next, node[k].child} => k \in T
      /\ \A m \in T \ {p} : \E k \in DOMAIN node :
           m \in {node[k].next, node[k].child}
  BY <1>2, TreeIsAPart
<1> HIDE DEF T
<1>4. /\ DOMAIN node' = DOMAIN node \ T
      /\ \A m \in DOMAIN node \ T : node'[m] = node[m]
  BY DEF cJSON_Delete, Restrict, T
<1>5. \A i \in Depths \ {Len(stack)} : ListHead(i) \notin T
  BY <1>1, <1>3 DEF Links
<1> HIDE DEF p
<1>6. \A m \in DOMAIN node' : {node'[m].next, node'[m].child} \subseteq
                                {0} \cup DOMAIN node'
  BY <1>3, <1>4 DEF Links
<1>7. \A m, k \in DOMAIN node' :
        /\ node'[m].next  # 0 /\ node'[m].next  = node'[k].next  => m = k
        /\ node'[m].child # 0 /\ node'[m].child = node'[k].child => m = k
        /\ node'[m].next  # 0 => node'[m].next # node'[k].child
  BY <1>4 DEF Links
<1>8. \A i \in Depths' : ListHead(i)' \in {0} \cup DOMAIN node'
  BY <1>4, <1>5 DEF Links
<1>9. \A i, j \in Depths' :
        i # j /\ ListHead(i)' # 0 => ListHead(i)' # ListHead(j)'
  BY DEF Links
<1>10. \A i \in Depths', m \in DOMAIN node' :
         ListHead(i)' # 0 =>
           ListHead(i)' \notin {node'[m].next, node'[m].child}
  BY <1>4 DEF Links
<1>11. \A S \in SUBSET DOMAIN node' :
         Closed(S)' /\ (\A i \in Depths' : ListHead(i)' \in {0} \cup S)
           => S = DOMAIN node'
  <2>1. SUFFICES ASSUME NEW S \in SUBSET DOMAIN node', Closed(S)',
                        \A i \in Depths' : ListHead(i)' \in {0} \cup S
                 PROVE  S = DOMAIN node'
    OBVIOUS
  <2>2. \A m \in S :
          {node'[m].next, node'[m].child} \cap DOMAIN node' \subseteq S
    BY <2>1 DEF Closed
  <2>3. \A m \in S : {node[m].next, node[m].child} \cap DOMAIN node
                       \subseteq S \cup T
    BY <1>4, <2>2
  <2>4. \A m \in T : {node[m].next, node[m].child} \cap DOMAIN node
                       \subseteq S \cup T
    BY <1>3 DEF Closed
  <2>5. Closed(S \cup T)
    BY <2>3, <2>4 DEF Closed
  <2>6. \A i \in Depths : ListHead(i) \in {0} \cup S \cup T
    BY <1>3, <2>1 DEF p
  <2>7. S \cup T \in SUBSET DOMAIN node
    BY <1>3, <1>4
  <2>8. S \cup T = DOMAIN node
    BY <2>5, <2>6, <2>7 DEF Links
  <2>9. QED
    BY <1>4, <2>8
<1>12. QED
  BY <1>6, <1>7, <1>8, <1>9, <1>10, <1>11 DEF Links

(* It frees the strings of the nodes it frees, and no others.              *)
LEMMA StringsDelete ==
  ASSUME Strings, NEW p, Tree(p) \subseteq DOMAIN node, cJSON_Delete(p)
  PROVE  Strings'
<1> DEFINE T == Tree(p)
<1>1. /\ DOMAIN node' = DOMAIN node \ T
      /\ \A m \in DOMAIN node \ T : node'[m] = node[m]
      /\ DOMAIN str' = DOMAIN str \ StringsOf(T)
  BY DEF cJSON_Delete, Restrict
<1> HIDE DEF T
<1>2. StringsOf(DOMAIN node)' = StringsOf(DOMAIN node \ T)
  BY <1>1 DEF StringsOf
<1>3. StringsOf(DOMAIN node \ T) \ {0} = DOMAIN str \ StringsOf(T)
  <2>1. StringsOf(DOMAIN node \ T) \cap StringsOf(T) \subseteq {0}
    BY DEF Strings, StringsOf, T
  <2>2. StringsOf(DOMAIN node) = StringsOf(DOMAIN node \ T) \cup StringsOf(T)
    BY DEF StringsOf, T
  <2>3. 0 \notin DOMAIN str
    BY DEF Strings
  <2>4. QED
    BY <2>1, <2>2, <2>3 DEF Strings
<1>4. \A m, k \in DOMAIN node' :
        LET s == node'[m].valuestring
            t == node'[m].string
        IN /\ s # 0 /\ s = node'[k].valuestring => m = k
           /\ t # 0 /\ t = node'[k].string      => m = k
           /\ s # 0 => s # node'[k].string
  BY <1>1 DEF Strings
<1>5. QED
  BY <1>1, <1>2, <1>3, <1>4 DEF Strings

(* The blocks that are left are what they were.                            *)
LEMMA BlocksDelete ==
  ASSUME Blocks, NEW p, cJSON_Delete(p), root' \in Nat, stack' \in Seq(Frame)
  PROVE  Blocks'
<1>1. /\ node' = [m \in DOMAIN node \ Tree(p) |-> node[m]]
      /\ DOMAIN str' = DOMAIN str \ StringsOf(Tree(p))
  BY DEF cJSON_Delete, Restrict
<1>2. node' \in [DOMAIN node' -> Node] /\ DOMAIN node' \subseteq DOMAIN node
  BY <1>1 DEF Blocks
<1>3. DOMAIN str' \subseteq DOMAIN str
  BY <1>1
<1>4. IsFiniteSet(DOMAIN node') /\ IsFiniteSet(DOMAIN str')
  BY <1>2, <1>3, FS_Subset DEF Blocks
<1>5. QED
  BY <1>2, <1>3, <1>4 DEF Blocks, BlockIds

-----------------------------------------------------------------------------
(* A new node at the end of a list *)

(* What Attach does to the pointers and to the lists being parsed.         *)
Attached(n) ==
  /\ DOMAIN node' = {n} \cup DOMAIN node
  /\ \A m \in DOMAIN node :
       /\ node'[m].next = IF m = Top.current_item THEN n ELSE node[m].next
       /\ node'[m].child = node[m].child
       /\ node'[m].valuestring = node[m].valuestring
       /\ node'[m].string = node[m].string
  /\ node'[n].next = 0 /\ node'[n].child = 0
  /\ node'[n].valuestring = 0 /\ node'[n].string = 0
  /\ root' = root
  /\ Len(stack') = Len(stack)
  /\ \A i \in 1 .. Len(stack) - 1 : stack'[i] = stack[i]
  /\ Top'.item = Top.item
  /\ Top'.head = IF Top.head = 0 THEN n ELSE Top.head
  /\ Top'.current_item = n

(* The last step of parse_array's loop, lines 1479 to 1491, does to the    *)
(* heap what Attached says: the new node is the list's only or last one.   *)
LEMMA AttachIsAttached ==
  ASSUME Blocks, stack # <<>>, NEW n \in Nat \ {0}, n \notin DOMAIN node,
         Attach(n), root' = root, str' = str
  PROVE  Blocks' /\ Attached(n)
<1>1. /\ node \in [DOMAIN node -> Node] /\ DOMAIN node \subseteq Nat
      /\ Top \in Frame /\ stack \in Seq(Frame)
      /\ Len(stack) \in 1 .. Len(stack)
  BY TopIsAFrame DEF Blocks, BlockIds
<1>2. node' = [m \in {n} \cup DOMAIN node |->
                 IF m = n THEN [NewItem EXCEPT !.prev = Top.current_item]
                 ELSE IF m = Top.current_item THEN [node[m] EXCEPT !.next = n]
                 ELSE node[m]]
  BY Zenon DEF Attach
<1> DEFINE new == [NewItem EXCEPT !.prev = Top.current_item]
<1>3. /\ new \in Node
      /\ new.next = 0 /\ new.child = 0
      /\ new.valuestring = 0 /\ new.string = 0
  <2>1. Top.current_item \in Nat /\ <<>> \in Texts
    BY <1>1, EmptySeq DEF Frame, Texts
  <2>2. QED
    BY <2>1 DEF NewItem, Node, Types
<1> HIDE DEF new
<1>4. \A m \in DOMAIN node :
        /\ [node[m] EXCEPT !.next = n] \in Node
        /\ [node[m] EXCEPT !.next = n].next = n
        /\ [node[m] EXCEPT !.next = n].child = node[m].child
        /\ [node[m] EXCEPT !.next = n].valuestring = node[m].valuestring
        /\ [node[m] EXCEPT !.next = n].string = node[m].string
  <2>1. \A r \in Node : /\ [r EXCEPT !.next = n] \in Node
                        /\ [r EXCEPT !.next = n].next = n
                        /\ [r EXCEPT !.next = n].child = r.child
                        /\ [r EXCEPT !.next = n].valuestring = r.valuestring
                        /\ [r EXCEPT !.next = n].string = r.string
    BY DEF Node
  <2>2. QED
    BY <1>1, <2>1, Zenon
<1>5. /\ DOMAIN node' = {n} \cup DOMAIN node
      /\ node'[n] = new
      /\ \A m \in DOMAIN node :
           node'[m] = IF m = Top.current_item THEN [node[m] EXCEPT !.next = n]
                      ELSE node[m]
  BY <1>2, Zenon DEF new
<1>6. node' \in [DOMAIN node' -> Node]
  <2>1. \A m \in DOMAIN node' : node'[m] \in Node
    BY <1>1, <1>3, <1>4, <1>5, Zenon
  <2>2. node' = [m \in DOMAIN node' |-> node'[m]]
    BY <1>2, <1>5, Zenon
  <2>3. QED
    BY <2>1, <2>2, Zenon
<1>7. /\ stack' \in Seq(Frame) /\ Len(stack') = Len(stack)
      /\ \A i \in 1 .. Len(stack) - 1 : stack'[i] = stack[i]
      /\ Top'.item = Top.item
      /\ Top'.head = IF Top.head = 0 THEN n ELSE Top.head
      /\ Top'.current_item = n
  <2> DEFINE f == [Top EXCEPT !.head = IF Top.head = 0 THEN n ELSE Top.head,
                              !.current_item = n]
  <2>1. /\ f \in Frame
        /\ f.item = Top.item
        /\ f.head = IF Top.head = 0 THEN n ELSE Top.head
        /\ f.current_item = n
    BY <1>1 DEF Frame
  <2>2. stack' = [stack EXCEPT ![Len(stack)] = f]
    BY Zenon DEF Attach, Top
  <2> HIDE DEF f
  <2>3. /\ stack' \in Seq(Frame) /\ Len(stack') = Len(stack)
        /\ \A i \in 1 .. Len(stack) :
             stack'[i] = IF i = Len(stack) THEN f ELSE stack[i]
    BY <1>1, <2>1, <2>2, ExceptSeq
  <2>4. Top' = f
    BY <1>1, <2>3 DEF Top
  <2>5. \A i \in 1 .. Len(stack) - 1 : i \in 1 .. Len(stack) /\ i # Len(stack)
    BY <1>1
  <2>6. QED
    BY <2>1, <2>3, <2>4, <2>5
<1>8. IsFiniteSet(DOMAIN node')
  BY <1>5, FS_AddElement DEF Blocks
<1>9. Blocks'
  BY <1>5, <1>6, <1>7, <1>8 DEF Blocks, BlockIds
<1>10. Attached(n)
  <2>1. \A m \in DOMAIN node :
          /\ node'[m].next = IF m = Top.current_item THEN n ELSE node[m].next
          /\ node'[m].child = node[m].child
          /\ node'[m].valuestring = node[m].valuestring
          /\ node'[m].string = node[m].string
    <3>1. SUFFICES ASSUME NEW m \in DOMAIN node
                   PROVE  /\ node'[m].next = IF m = Top.current_item THEN n
                                             ELSE node[m].next
                          /\ node'[m].child = node[m].child
                          /\ node'[m].valuestring = node[m].valuestring
                          /\ node'[m].string = node[m].string
      BY Zenon
    <3>2. CASE m = Top.current_item
      BY <1>4, <1>5, <3>2, Zenon
    <3>3. CASE m # Top.current_item
      BY <1>5, <3>3, Zenon
    <3>4. QED
      BY <3>2, <3>3
  <2>2. /\ node'[n].next = 0 /\ node'[n].child = 0
        /\ node'[n].valuestring = 0 /\ node'[n].string = 0
    BY <1>3, <1>5, Zenon
  <2>3. QED
    BY <1>5, <1>7, <2>1, <2>2, Zenon DEF Attached
<1>11. QED
  BY <1>9, <1>10

(* The lists around the one that gets a new node are the same, and the     *)
(* sets that were closed are those closed now, less the new node.          *)
LEMMA AttachedLists ==
  ASSUME Blocks, Links, Frames, stack # <<>>,
         NEW n \in Nat \ {0}, n \notin DOMAIN node, Attached(n)
  PROVE  /\ Len(stack) \in Depths \ {0} /\ Depths' = Depths
         /\ ListHead(Len(stack)) = Top.head
         /\ LastItem(Len(stack)) = Top.current_item
         /\ \A i \in Depths :
              /\ ListHead(i)' = IF i # Len(stack) THEN ListHead(i)
                                ELSE IF Top.head = 0 THEN n ELSE Top.head
              /\ LastItem(i)' = IF i # Len(stack) THEN LastItem(i) ELSE n
         /\ \A S \in SUBSET DOMAIN node' :
              Closed(S)' => Closed(S \ {n}) /\ S \ {n} \subseteq DOMAIN node
<1>1. /\ stack \in Seq(Frame)
      /\ Len(stack) \in Nat /\ Len(stack) \in 1 .. Len(stack)
  BY TopIsAFrame, LenProperties DEF Blocks
<1>2. Len(stack) \in Depths \ {0} /\ Depths' = Depths
  BY <1>1 DEF Depths, Attached
<1>3. \A i \in Depths \ {Len(stack)} :
        ListHead(i)' = ListHead(i) /\ LastItem(i)' = LastItem(i)
  <2>1. SUFFICES ASSUME NEW i \in Depths \ {Len(stack)}
                 PROVE  /\ ListHead(i)' = ListHead(i)
                        /\ LastItem(i)' = LastItem(i)
    OBVIOUS
  <2>2. CASE i = 0
    BY <2>2 DEF ListHead, LastItem, Attached
  <2>3. CASE i # 0
    <3>1. i \in 1 .. Len(stack) - 1
      BY <1>1, <2>3 DEF Depths
    <3>2. stack'[i] = stack[i]
      BY <3>1 DEF Attached
    <3>3. QED
      BY <2>3, <3>2 DEF ListHead, LastItem
  <2>4. QED
    BY <2>2, <2>3
<1>4. /\ ListHead(Len(stack)) = Top.head
      /\ LastItem(Len(stack)) = Top.current_item
      /\ \A i \in Depths : i = Len(stack) =>
           ListHead(i)' = Top'.head /\ LastItem(i)' = Top'.current_item
  BY <1>2 DEF ListHead, LastItem, Top, Attached
<1>5. ASSUME NEW S \in SUBSET DOMAIN node', Closed(S)'
      PROVE  Closed(S \ {n}) /\ S \ {n} \subseteq DOMAIN node
  <2>1. S \ {n} \subseteq DOMAIN node
    BY DEF Attached
  <2>2. SUFFICES ASSUME NEW m \in S \ {n}, NEW x \in DOMAIN node,
                        x \in {node[m].next, node[m].child}
                 PROVE  x \in S \ {n}
    BY <2>1, Zenon DEF Closed
  <2>3. {node'[m].next, node'[m].child} \cap DOMAIN node' \subseteq S
    BY <1>5 DEF Closed
  <2>4. 0 \notin DOMAIN node
    BY DEF Blocks, BlockIds
  <2>5. m = Top.current_item => node[m].next = 0
    <3>1. stack[Len(stack)].current_item # 0 =>
            node[stack[Len(stack)].current_item].next = 0
      BY <1>1 DEF Frames
    <3>2. QED
      BY <2>1, <2>4, <3>1 DEF Top
  <2>6. x \in {node'[m].next, node'[m].child} /\ x \in DOMAIN node'
    BY <2>1, <2>2, <2>4, <2>5 DEF Attached
  <2>7. QED
    BY <2>2, <2>3, <2>6
<1>6. QED
  BY <1>2, <1>3, <1>4, <1>5 DEF Attached

(* A node that is put at the end of a list leaves the nodes a forest.      *)
LEMMA LinksAttach ==
  ASSUME Blocks, Links, Frames, stack # <<>>,
         NEW n \in Nat \ {0}, n \notin DOMAIN node, Attached(n)
  PROVE  Links'
<1> DEFINE l == Len(stack)
           c == Top.current_item
           h == Top.head
<1>1. /\ l \in Depths \ {0} /\ Depths' = Depths
      /\ ListHead(l) = h
      /\ \A i \in Depths :
           ListHead(i)' = IF i # l THEN ListHead(i) ELSE IF h = 0 THEN n ELSE h
      /\ \A S \in SUBSET DOMAIN node' :
           Closed(S)' => Closed(S \ {n}) /\ S \ {n} \subseteq DOMAIN node
  BY AttachedLists
<1>2. /\ h = 0 <=> c = 0
      /\ c # 0 => c \in DOMAIN node /\ node[c].next = 0
  BY <1>1 DEF Frames, Top, Depths
<1>3. 0 \notin DOMAIN node
  BY DEF Blocks, BlockIds
<1>4. /\ DOMAIN node' = {n} \cup DOMAIN node
      /\ \A m \in DOMAIN node :
           /\ node'[m].next = IF m = c THEN n ELSE node[m].next
           /\ node'[m].child = node[m].child
      /\ node'[n].next = 0 /\ node'[n].child = 0
  BY DEF Attached
<1> HIDE DEF l, c, h
<1>5. \A m \in DOMAIN node :
        {node[m].next, node[m].child} \subseteq {0} \cup DOMAIN node
  BY DEF Links
<1>6. \A m \in DOMAIN node' : {node'[m].next, node'[m].child} \subseteq
                                {0} \cup DOMAIN node'
  BY <1>4, <1>5
<1>7. \A m, k \in DOMAIN node' :
        /\ node'[m].next  # 0 /\ node'[m].next  = node'[k].next  => m = k
        /\ node'[m].child # 0 /\ node'[m].child = node'[k].child => m = k
        /\ node'[m].next  # 0 => node'[m].next # node'[k].child
  BY <1>4, <1>5 DEF Links
<1>8. \A i \in Depths' : ListHead(i)' \in {0} \cup DOMAIN node'
  BY <1>1, <1>4 DEF Links
<1>9. \A i, j \in Depths' :
        i # j /\ ListHead(i)' # 0 => ListHead(i)' # ListHead(j)'
  BY <1>1 DEF Links
<1>10. \A i \in Depths', m \in DOMAIN node' :
         ListHead(i)' # 0 =>
           ListHead(i)' \notin {node'[m].next, node'[m].child}
  <2>1. \A i \in Depths, m \in DOMAIN node :
          ListHead(i) # 0 => ListHead(i) \notin {node[m].next, node[m].child}
    BY DEF Links
  <2>2. \A i \in Depths : ListHead(i) # n
    BY DEF Links
  <2>3. c \notin DOMAIN node \/ h # 0
    BY <1>2, <1>3
  <2>4. \A m \in DOMAIN node : n \notin {node[m].next, node[m].child}
    BY <1>5
  <2>5. QED
    BY <1>1, <1>4, <2>1, <2>2, <2>3, <2>4
<1>11. \A S \in SUBSET DOMAIN node' :
         Closed(S)' /\ (\A i \in Depths' : ListHead(i)' \in {0} \cup S)
           => S = DOMAIN node'
  <2>1. SUFFICES ASSUME NEW S \in SUBSET DOMAIN node', Closed(S)',
                        \A i \in Depths' : ListHead(i)' \in {0} \cup S
                 PROVE  S = DOMAIN node'
    OBVIOUS
  <2>2. \A i \in Depths : ListHead(i) \in {0} \cup (S \ {n})
    BY <1>1, <2>1 DEF Links
  <2>3. Closed(S \ {n}) /\ S \ {n} \in SUBSET DOMAIN node
    BY <1>1, <2>1
  <2>4. S \ {n} = DOMAIN node
    BY <2>2, <2>3 DEF Links
  <2>5. n \in S
    <3>1. CASE h = 0
      BY <1>1, <2>1, <3>1
    <3>2. CASE h # 0
      <4>1. c \in S /\ node'[c].next = n
        BY <1>2, <1>4, <2>4, <3>2
      <4>2. {node'[c].next, node'[c].child} \cap DOMAIN node' \subseteq S
        BY <2>1, <4>1 DEF Closed
      <4>3. QED
        BY <1>4, <4>1, <4>2
    <3>3. QED
      BY <3>1, <3>2
  <2>6. QED
    BY <1>4, <2>4, <2>5
<1>12. QED
  BY <1>6, <1>7, <1>8, <1>9, <1>10, <1>11 DEF Links

(* A node that is put at the end of a list has no strings yet.             *)
LEMMA StringsAttach ==
  ASSUME Strings, NEW n, n \notin DOMAIN node, Attached(n), str' = str
  PROVE  Strings'
<1>1. /\ DOMAIN node' = {n} \cup DOMAIN node
      /\ \A m \in DOMAIN node : /\ node'[m].valuestring = node[m].valuestring
                                /\ node'[m].string = node[m].string
      /\ node'[n].valuestring = 0 /\ node'[n].string = 0
  BY DEF Attached
<1>2. StringsOf(DOMAIN node)' = {0} \cup StringsOf(DOMAIN node)
  BY <1>1 DEF StringsOf
<1>3. \A m, k \in DOMAIN node' :
        LET s == node'[m].valuestring
            t == node'[m].string
        IN /\ s # 0 /\ s = node'[k].valuestring => m = k
           /\ t # 0 /\ t = node'[k].string      => m = k
           /\ s # 0 => s # node'[k].string
  BY <1>1 DEF Strings
<1>4. StringsOf(DOMAIN node)' \ {0} = DOMAIN str'
  BY <1>2 DEF Strings
<1>5. QED
  BY <1>3, <1>4 DEF Strings

(* The lists still hang together, and the item that is next is the new one. *)
LEMMA FramesAttach ==
  ASSUME Blocks, Links, Frames, stack # <<>>,
         NEW n \in Nat \ {0}, n \notin DOMAIN node, Attached(n), item' = n
  PROVE  Frames' /\ ItemIsNew'
<1> DEFINE l == Len(stack)
           c == Top.current_item
           h == Top.head
<1>1. /\ l \in Depths \ {0} /\ Depths' = Depths
      /\ ListHead(l) = h /\ LastItem(l) = c
      /\ \A i \in Depths :
           /\ ListHead(i)' = IF i # l THEN ListHead(i)
                             ELSE IF h = 0 THEN n ELSE h
           /\ LastItem(i)' = IF i # l THEN LastItem(i) ELSE n
      /\ \A S \in SUBSET DOMAIN node' :
           Closed(S)' => Closed(S \ {n}) /\ S \ {n} \subseteq DOMAIN node
  BY AttachedLists
<1>2. l \in 1 .. l /\ l \in Nat /\ Depths = 0 .. l
  BY <1>1 DEF Depths
<1>3. /\ DOMAIN node' = {n} \cup DOMAIN node
      /\ \A m \in DOMAIN node :
           /\ node'[m].next = IF m = c THEN n ELSE node[m].next
           /\ node'[m].child = node[m].child
      /\ node'[n].next = 0 /\ node'[n].child = 0
      /\ node'[n].valuestring = 0 /\ node'[n].string = 0
      /\ root' = root /\ Len(stack') = l
      /\ \A i \in 1 .. l - 1 : stack'[i] = stack[i]
      /\ stack'[l].item = stack[l].item
      /\ stack'[l].head = IF h = 0 THEN n ELSE h
      /\ stack'[l].current_item = n
  BY DEF Attached, Top
<1>4. 0 \notin DOMAIN node
  BY DEF Blocks, BlockIds
<1>5. \A i \in 1 .. l :
        /\ stack[i].item = LastItem(i - 1)
        /\ stack[i].item \in DOMAIN node
        /\ node[stack[i].item].child = 0
        /\ stack[i].head = 0 <=> stack[i].current_item = 0
        /\ i # l => stack[i].current_item # 0
        /\ stack[i].current_item # 0 =>
             /\ stack[i].current_item \in DOMAIN node
             /\ node[stack[i].current_item].next = 0
  BY DEF Frames
<1>6. \A i, j \in Depths : i < j => LastItem(i) # LastItem(j)
  BY DEF Frames
<1>7. \A i \in Depths : LastItem(i) # 0 =>
        \A S \in SUBSET DOMAIN node :
          ListHead(i) \in S /\ Closed(S) => LastItem(i) \in S
  BY DEF Frames
<1>8. root # 0 /\ \A i \in Depths : ListHead(i) \in {0} \cup DOMAIN node
  BY DEF Links, Frames
<1>9. h = stack[l].head /\ c = stack[l].current_item
  BY DEF Top
<1> HIDE DEF l, c, h
<1>10. \A i \in Depths : LastItem(i) \in {0} \cup DOMAIN node
  <2>1. LastItem(0) = ListHead(0) /\ 0 \in Depths
    BY <1>2 DEF LastItem, ListHead
  <2>2. \A i \in 1 .. l : LastItem(i) = stack[i].current_item
    BY DEF LastItem
  <2>3. QED
    BY <1>2, <1>5, <1>8, <2>1, <2>2
<1>11. \A i \in 1 .. l :
         i # l => stack[i].current_item = LastItem(i) /\ LastItem(i) # c
  <2>1. \A i \in 1 .. l : LastItem(i) = stack[i].current_item /\ i \in Depths
    BY <1>2 DEF LastItem
  <2>2. \A i \in 1 .. l : i # l => i < l
    BY <1>2
  <2>3. QED
    BY <1>1, <1>6, <2>1, <2>2
<1>12. \A i \in 1 .. l :
         /\ stack'[i].item = stack[i].item
         /\ i - 1 \in Depths /\ i - 1 # l
         /\ i # l => i \in 1 .. l - 1 /\ stack'[i] = stack[i]
  <2>1. \A i \in 1 .. l : /\ i - 1 \in Depths /\ i - 1 # l
                          /\ i # l => i \in 1 .. l - 1
    BY <1>2
  <2>2. QED
    BY <1>3, <2>1
<1>13. \A i \in 1 .. Len(stack') :
         /\ stack'[i].item = LastItem(i - 1)'
         /\ stack'[i].item \in DOMAIN node'
         /\ node'[stack'[i].item].child = 0
         /\ stack'[i].head = 0 <=> stack'[i].current_item = 0
         /\ stack'[i].current_item # 0
         /\ stack'[i].current_item \in DOMAIN node'
         /\ node'[stack'[i].current_item].next = 0
  <2>1. SUFFICES ASSUME NEW i \in 1 .. l
                 PROVE  /\ stack'[i].item = LastItem(i - 1)'
                        /\ stack'[i].item \in DOMAIN node'
                        /\ node'[stack'[i].item].child = 0
                        /\ stack'[i].head = 0 <=> stack'[i].current_item = 0
                        /\ stack'[i].current_item # 0
                        /\ stack'[i].current_item \in DOMAIN node'
                        /\ node'[stack'[i].current_item].next = 0
    BY <1>3
  <2>2. /\ stack'[i].item = LastItem(i - 1)'
        /\ stack'[i].item \in DOMAIN node'
        /\ node'[stack'[i].item].child = 0
    BY <1>1, <1>3, <1>5, <1>12
  <2>3. CASE i = l
    BY <1>3, <1>4, <1>5, <1>9, <2>2, <2>3
  <2>4. CASE i # l
    BY <1>3, <1>4, <1>5, <1>11, <1>12, <2>2, <2>4
  <2>5. QED
    BY <2>3, <2>4
<1>14. \A i, j \in Depths' : i < j => LastItem(i)' # LastItem(j)'
  <2>1. \A i \in Depths : LastItem(i) # n
    BY <1>10
  <2>2. \A j \in Depths : ~(l < j)
    BY <1>2
  <2>3. QED
    BY <1>1, <1>6, <2>1, <2>2
<1>15. \A i \in Depths' : LastItem(i)' # 0 =>
         \A S \in SUBSET DOMAIN node' :
           ListHead(i)' \in S /\ Closed(S)' => LastItem(i)' \in S
  <2>1. SUFFICES ASSUME NEW i \in Depths, LastItem(i)' # 0,
                        NEW S \in SUBSET DOMAIN node',
                        ListHead(i)' \in S, Closed(S)'
                 PROVE  LastItem(i)' \in S
    BY <1>1
  <2>2. Closed(S \ {n}) /\ S \ {n} \in SUBSET DOMAIN node
    BY <1>1, <2>1
  <2>3. CASE i # l
    BY <1>1, <1>7, <1>8, <2>1, <2>2, <2>3
  <2>4. CASE i = l /\ h = 0
    BY <1>1, <2>1, <2>4
  <2>5. CASE i = l /\ h # 0
    <3>1. h \in S /\ h \in DOMAIN node
      BY <1>1, <1>8, <2>1, <2>5
    <3>2. c # 0 /\ c \in DOMAIN node
      BY <1>2, <1>5, <1>9, <2>5
    <3>3. c \in S
      BY <1>1, <1>7, <2>2, <2>5, <3>1, <3>2
    <3>4. {node'[c].next, node'[c].child} \cap DOMAIN node' \subseteq S
      BY <2>1, <3>3 DEF Closed
    <3>5. QED
      BY <1>1, <1>3, <2>5, <3>2, <3>4
  <2>6. QED
    BY <2>3, <2>4, <2>5
<1>16. Frames'
  BY <1>3, <1>8, <1>13, <1>14, <1>15 DEF Frames
<1>17. ItemIsNew'
  <2>1. LastItem(Len(stack))' = n
    BY <1>1, <1>3
  <2>2. QED
    BY <1>3, <2>1 DEF ItemIsNew
<1>18. QED
  BY <1>16, <1>17

-----------------------------------------------------------------------------
(* A list that is complete becomes the child of its item *)

(* What the end of a list does to the pointers.                            *)
LEMMA ListEndsLinks ==
  ASSUME Blocks, Links, Frames, pc = "value", list_ends
  PROVE  /\ Blocks'
         /\ StringsKept
         /\ Top.item \in DOMAIN node /\ Top.head \in DOMAIN node
         /\ node[Top.item].child = 0
         /\ DOMAIN node' = DOMAIN node
         /\ \A m \in DOMAIN node :
              /\ node'[m].next = node[m].next
              /\ node'[m].child = IF m = Top.item THEN Top.head
                                  ELSE node[m].child
<1>1. /\ stack # <<>> /\ stack \in Seq(Frame) /\ stack' = Pop
      /\ root' = root /\ str' = str
  BY DEF list_ends, Blocks
<1>2. Len(stack) \in 1 .. Len(stack) /\ Top \in Frame /\ Pop \in Seq(Frame)
  BY <1>1, TopIsAFrame
<1>3. /\ Top.item \in DOMAIN node
      /\ node[Top.item].child = 0
      /\ Top.current_item # 0
      /\ Top.head # 0
  BY <1>2 DEF Frames, Top
<1>4. Top.head \in DOMAIN node
  <2>1. Len(stack) \in Depths /\ Len(stack) # 0
    BY <1>2 DEF Depths
  <2>2. ListHead(Len(stack)) = Top.head
    BY <2>1 DEF ListHead, Top
  <2>3. QED
    BY <1>3, <2>1, <2>2 DEF Links
<1> DEFINE linked == [node EXCEPT ![Top.head].prev = Top.current_item]
           typed  == [linked EXCEPT ![Top.item].type = ListType[Top.open],
                                    ![Top.item].child = Top.head]
<1>5. node' = typed
  BY Zenon DEF list_ends
<1>6. /\ node \in [DOMAIN node -> Node]
      /\ Top.current_item \in Nat /\ Top.head \in Nat
      /\ ListType[Top.open] \in Types
  <2>1. Top.current_item \in Nat /\ Top.head \in Nat /\ Top.open \in Opening
    BY <1>2 DEF Frame
  <2>2. ListType[Top.open] \in Types
    BY <2>1 DEF ListType, Opening, Types
  <2>3. QED
    BY <2>1, <2>2 DEF Blocks
<1>7. /\ linked \in [DOMAIN node -> Node]
      /\ \A m \in DOMAIN node : /\ linked[m].next = node[m].next
                                /\ linked[m].child = node[m].child
                                /\ linked[m].valuestring = node[m].valuestring
                                /\ linked[m].string = node[m].string
  BY <1>4, <1>6 DEF Node
<1> HIDE DEF linked
<1>8. /\ typed \in [DOMAIN node -> Node]
      /\ \A m \in DOMAIN node :
           /\ typed[m].next = node[m].next
           /\ typed[m].child = IF m = Top.item THEN Top.head ELSE node[m].child
           /\ typed[m].valuestring = node[m].valuestring
           /\ typed[m].string = node[m].string
  <2>1. /\ Top.item \in DOMAIN node /\ Top.head \in Nat
        /\ ListType[Top.open] \in Types
        /\ linked \in [DOMAIN node -> Node]
    BY <1>3, <1>6, <1>7
  <2>2. typed \in [DOMAIN node -> Node]
    BY <2>1 DEF Node
  <2>3. \A m \in DOMAIN node :
          /\ typed[m].next = linked[m].next
          /\ typed[m].child = IF m = Top.item THEN Top.head
                              ELSE linked[m].child
          /\ typed[m].valuestring = linked[m].valuestring
          /\ typed[m].string = linked[m].string
    BY <2>1 DEF Node
  <2> HIDE DEF typed
  <2>4. QED
    BY <1>7, <2>2, <2>3
<1> HIDE DEF typed
<1>9. DOMAIN typed = DOMAIN node
  BY <1>8
<1>10. Blocks'
  BY <1>1, <1>2, <1>5, <1>8, <1>9 DEF Blocks
<1>11. StringsKept
  BY <1>1, <1>5, <1>8, <1>9 DEF StringsKept
<1>12. QED
  BY <1>3, <1>4, <1>5, <1>8, <1>9, <1>10, <1>11

(* The tree is still a forest, its lists still hang together.              *)
LEMMA ListEnds ==
  ASSUME Blocks, Links, Frames, pc = "value", list_ends
  PROVE  Links' /\ Frames'
<1> DEFINE l == Len(stack)
           h == Top.head
           t == Top.item
<1>1. /\ t \in DOMAIN node /\ h \in DOMAIN node /\ node[t].child = 0
      /\ DOMAIN node' = DOMAIN node
      /\ \A m \in DOMAIN node :
           /\ node'[m].next = node[m].next
           /\ node'[m].child = IF m = t THEN h ELSE node[m].child
      /\ 0 \notin DOMAIN node
  BY ListEndsLinks DEF Blocks, BlockIds
<1>2. /\ l \in 1 .. l
      /\ root' = root /\ Len(stack') = l - 1
      /\ \A i \in 1 .. l - 1 : stack'[i] = stack[i]
  BY TopIsAFrame DEF list_ends, Blocks
<1>3. Depths = 0 .. l /\ Depths' = 0 .. l - 1
  BY <1>2 DEF Depths
<1>4. /\ \A i \in Depths' : i \in Depths /\ i # l
      /\ \A i \in Depths : i # l => i \in Depths'
      /\ l \in Depths /\ l - 1 \in Depths
  BY <1>2, <1>3
<1>5. \A i \in Depths' : /\ ListHead(i)' = ListHead(i)
                         /\ LastItem(i)' = LastItem(i)
  <2>1. \A i \in Depths' : i = 0 \/ i \in 1 .. l - 1
    BY <1>2, <1>3
  <2>2. QED
    BY <1>2, <2>1 DEF ListHead, LastItem
<1>6. ListHead(l) = h /\ LastItem(l - 1) = t /\ t # 0 /\ h # 0
  <2>1. ListHead(l) = h
    BY <1>2 DEF ListHead, Top
  <2>2. LastItem(l - 1) = t
    BY <1>2 DEF Frames, Top
  <2>3. QED
    BY <1>1, <2>1, <2>2
<1> HIDE DEF l, h, t
<1>7. \A S \in SUBSET DOMAIN node :
        Closed(S)' => Closed(S) /\ (t \in S => h \in S)
  <2>1. SUFFICES ASSUME NEW S \in SUBSET DOMAIN node, Closed(S)'
                 PROVE  Closed(S) /\ (t \in S => h \in S)
    OBVIOUS
  <2>2. \A m \in S :
          {node'[m].next, node'[m].child} \cap DOMAIN node' \subseteq S
    BY <2>1 DEF Closed
  <2>3. \A m \in S : {node[m].next, node[m].child} \cap DOMAIN node \subseteq S
    BY <1>1, <2>2
  <2>4. QED
    BY <1>1, <2>2, <2>3 DEF Closed
<1>8. \A m \in DOMAIN node' : {node'[m].next, node'[m].child} \subseteq
                                {0} \cup DOMAIN node'
  BY <1>1 DEF Links
<1>9. \A m, k \in DOMAIN node' :
        /\ node'[m].next  # 0 /\ node'[m].next  = node'[k].next  => m = k
        /\ node'[m].child # 0 /\ node'[m].child = node'[k].child => m = k
        /\ node'[m].next  # 0 => node'[m].next # node'[k].child
  <2>1. \A m \in DOMAIN node : h \notin {node[m].next, node[m].child}
    BY <1>4, <1>6 DEF Links
  <2>2. \A m, k \in DOMAIN node :
          /\ node[m].next  # 0 /\ node[m].next  = node[k].next  => m = k
          /\ node[m].child # 0 /\ node[m].child = node[k].child => m = k
          /\ node[m].next  # 0 => node[m].next # node[k].child
    BY DEF Links
  <2>3. QED
    BY <1>1, <2>1, <2>2
<1>10. /\ \A i \in Depths' : ListHead(i)' \in {0} \cup DOMAIN node'
       /\ \A i, j \in Depths' :
            i # j /\ ListHead(i)' # 0 => ListHead(i)' # ListHead(j)'
  BY <1>1, <1>4, <1>5 DEF Links
<1>11. \A i \in Depths', m \in DOMAIN node' :
         ListHead(i)' # 0 =>
           ListHead(i)' \notin {node'[m].next, node'[m].child}
  <2>1. \A i \in Depths, m \in DOMAIN node :
          ListHead(i) # 0 => ListHead(i) \notin {node[m].next, node[m].child}
    BY DEF Links
  <2>2. \A i \in Depths' : ListHead(i) # h
    BY <1>4, <1>6 DEF Links
  <2>3. QED
    BY <1>1, <1>4, <1>5, <2>1, <2>2
<1>12. \A S \in SUBSET DOMAIN node' :
         Closed(S)' /\ (\A i \in Depths' : ListHead(i)' \in {0} \cup S)
           => S = DOMAIN node'
  <2>1. SUFFICES ASSUME NEW S \in SUBSET DOMAIN node, Closed(S)',
                        \A i \in Depths' : ListHead(i)' \in {0} \cup S
                 PROVE  S = DOMAIN node
    BY <1>1
  <2>2. Closed(S) /\ (t \in S => h \in S)
    BY <1>7, <2>1
  <2>3. ListHead(l - 1) # 0 /\ l - 1 \in Depths'
    <3>1. l - 1 \in Depths' /\ (l - 1 = 0 \/ l - 1 \in 1 .. l)
      BY <1>2, <1>3
    <3>2. \A i \in 1 .. l : i # l => stack[i].head # 0
      BY DEF Frames, l
    <3>3. root # 0
      BY DEF Frames
    <3>4. l - 1 # l
      BY <1>2
    <3>5. QED
      BY <3>1, <3>2, <3>3, <3>4 DEF ListHead
  <2>4. ListHead(l - 1) \in S
    BY <1>5, <2>1, <2>3
  <2>5. t \in S
    BY <1>4, <1>6, <2>2, <2>4 DEF Frames
  <2>6. \A i \in Depths : ListHead(i) \in {0} \cup S
    BY <1>4, <1>5, <1>6, <2>1, <2>2, <2>5
  <2>7. QED
    BY <2>2, <2>6 DEF Links
<1>13. Links'
  BY <1>8, <1>9, <1>10, <1>11, <1>12 DEF Links
<1>14. \A i \in 1 .. Len(stack') :
         /\ stack'[i].item = LastItem(i - 1)'
         /\ stack'[i].item \in DOMAIN node'
         /\ node'[stack'[i].item].child = 0
         /\ stack'[i].head = 0 <=> stack'[i].current_item = 0
         /\ stack'[i].current_item # 0
         /\ stack'[i].current_item \in DOMAIN node'
         /\ node'[stack'[i].current_item].next = 0
  <2>1. SUFFICES ASSUME NEW i \in 1 .. l - 1
                 PROVE  /\ stack'[i].item = LastItem(i - 1)'
                        /\ stack'[i].item \in DOMAIN node'
                        /\ node'[stack'[i].item].child = 0
                        /\ stack'[i].head = 0 <=> stack'[i].current_item = 0
                        /\ stack'[i].current_item # 0
                        /\ stack'[i].current_item \in DOMAIN node'
                        /\ node'[stack'[i].current_item].next = 0
    BY <1>2
  <2>2. /\ i \in 1 .. l /\ stack'[i] = stack[i] /\ i # l
        /\ i - 1 \in Depths' /\ i - 1 < l - 1
    BY <1>2, <1>3
  <2>3. /\ stack[i].item = LastItem(i - 1)
        /\ stack[i].item \in DOMAIN node
        /\ node[stack[i].item].child = 0
        /\ stack[i].head = 0 <=> stack[i].current_item = 0
        /\ stack[i].current_item # 0
        /\ stack[i].current_item \in DOMAIN node
        /\ node[stack[i].current_item].next = 0
    BY <2>2 DEF Frames, l
  <2>4. stack[i].item # t
    BY <1>4, <1>6, <2>2, <2>3 DEF Frames
  <2>5. QED
    BY <1>1, <1>5, <2>2, <2>3, <2>4
<1>15. /\ \A i, j \in Depths' : i < j => LastItem(i)' # LastItem(j)'
       /\ root' # 0
  BY <1>2, <1>4, <1>5 DEF Frames
<1>16. \A i \in Depths' : LastItem(i)' # 0 =>
         \A S \in SUBSET DOMAIN node' :
           ListHead(i)' \in S /\ Closed(S)' => LastItem(i)' \in S
  BY <1>1, <1>4, <1>5, <1>7 DEF Frames
<1>17. QED
  BY <1>13, <1>14, <1>15, <1>16 DEF Frames

-----------------------------------------------------------------------------
(* Steps between the lists *)

(* A new string goes to a node that had none in its place.                 *)
LEMMA StringsGain ==
  ASSUME Strings, item \in DOMAIN node,
         NEW s \in Nat \ {0}, s \notin DOMAIN str,
         DOMAIN node' = DOMAIN node, DOMAIN str' = {s} \cup DOMAIN str,
         \/ /\ node[item].valuestring = 0
            /\ \A m \in DOMAIN node :
                 /\ node'[m].valuestring = IF m = item THEN s
                                           ELSE node[m].valuestring
                 /\ node'[m].string = node[m].string
         \/ /\ node[item].string = 0
            /\ \A m \in DOMAIN node :
                 /\ node'[m].string = IF m = item THEN s ELSE node[m].string
                 /\ node'[m].valuestring = node[m].valuestring
  PROVE  Strings'
<1>1. \A m \in DOMAIN node : /\ node[m].valuestring # s
                             /\ node[m].string # s
  BY DEF Strings, StringsOf
<1>2. \A m, k \in DOMAIN node' :
        LET v == node'[m].valuestring
            t == node'[m].string
        IN /\ v # 0 /\ v = node'[k].valuestring => m = k
           /\ t # 0 /\ t = node'[k].string      => m = k
           /\ v # 0 => v # node'[k].string
  BY <1>1 DEF Strings
<1>3. StringsOf(DOMAIN node)' \ {0} = {s} \cup (StringsOf(DOMAIN node) \ {0})
  BY DEF StringsOf
<1>4. QED
  BY <1>2, <1>3 DEF Strings

(* Between two lists nothing changes in how they hang together.            *)
LEMMA FramesStay ==
  ASSUME Frames, LinksKept, root' = root, stack' = stack, pc # "next_item"
  PROVE  Frames'
<1>1. /\ Depths' = Depths
      /\ \A i \in Depths : /\ ListHead(i)' = ListHead(i)
                           /\ LastItem(i)' = LastItem(i)
      /\ \A i \in 1 .. Len(stack) : LastItem(i - 1)' = LastItem(i - 1)
  BY DEF Depths, ListHead, LastItem
<1>2. \A i \in 1 .. Len(stack) :
         /\ stack[i].item = LastItem(i - 1)
         /\ stack[i].item \in DOMAIN node
         /\ node[stack[i].item].child = 0
         /\ stack[i].head = 0 <=> stack[i].current_item = 0
         /\ stack[i].current_item # 0
         /\ stack[i].current_item \in DOMAIN node
         /\ node[stack[i].current_item].next = 0
  BY DEF Frames
<1>3. \A i \in 1 .. Len(stack') :
         /\ stack'[i].item = LastItem(i - 1)'
         /\ stack'[i].item \in DOMAIN node'
         /\ node'[stack'[i].item].child = 0
         /\ stack'[i].head = 0 <=> stack'[i].current_item = 0
         /\ stack'[i].current_item # 0
         /\ stack'[i].current_item \in DOMAIN node'
         /\ node'[stack'[i].current_item].next = 0
  BY <1>1, <1>2 DEF LinksKept
<1>4. \A i, j \in Depths' : i < j => LastItem(i)' # LastItem(j)'
  BY <1>1 DEF Frames
<1>5. \A i \in Depths' : LastItem(i)' # 0 =>
        \A S \in SUBSET DOMAIN node' :
          ListHead(i)' \in S /\ Closed(S)' => LastItem(i)' \in S
  <2>1. \A S \in SUBSET DOMAIN node : Closed(S)' <=> Closed(S)
    BY ClosedKept
  <2>2. DOMAIN node' = DOMAIN node
    BY DEF LinksKept
  <2>3. QED
    BY <1>1, <2>1, <2>2 DEF Frames
<1>6. root' # 0
  BY DEF Frames
<1>7. QED
  BY <1>3, <1>4, <1>5, <1>6 DEF Frames

(* A list that is begun is empty, and it is that of the item.              *)
LEMMA ListBegins ==
  ASSUME Blocks, Links, Frames, ItemIsNew, pc # "next_item",
         node' = node, root' = root, NEW open \in Opening,
         stack' = Append(stack, [open |-> open, item |-> item,
                                 head |-> 0, current_item |-> 0]),
         pc' = "next_item"
  PROVE  /\ stack' \in Seq(Frame) /\ Len(stack') = Len(stack) + 1
         /\ Links' /\ Frames'
<1> DEFINE f == [open |-> open, item |-> item, head |-> 0, current_item |-> 0]
           l == Len(stack)
<1>1. /\ stack \in Seq(Frame) /\ l \in Nat
      /\ f \in Frame
      /\ f.item = item /\ f.head = 0 /\ f.current_item = 0
  BY LenProperties DEF Blocks, BlockIds, ItemIsNew, Frame
<1> HIDE DEF f
<1>2. stack' = Append(stack, f)
  BY DEF f
<1>3. /\ stack' \in Seq(Frame) /\ Len(stack') = l + 1
      /\ \A i \in 1 .. l : stack'[i] = stack[i]
      /\ stack'[l + 1] = f
  BY <1>1, <1>2, AppendProperties
<1>4. Depths = 0 .. l /\ Depths' = 0 .. l + 1
  BY <1>3 DEF Depths
<1>5. \A i \in Depths : /\ ListHead(i)' = ListHead(i)
                        /\ LastItem(i)' = LastItem(i)
  <2>1. \A i \in Depths : i = 0 \/ i \in 1 .. l
    BY <1>1, <1>4
  <2>2. QED
    BY <1>3, <2>1 DEF ListHead, LastItem
<1>6. \A i \in Depths' : i \notin Depths =>
        i = l + 1 /\ ListHead(i)' = 0 /\ LastItem(i)' = 0
  <2>1. \A i \in Depths' : i \notin Depths => i = l + 1 /\ i # 0
    BY <1>1, <1>4
  <2>2. QED
    BY <1>1, <1>3, <2>1 DEF ListHead, LastItem
<1>7. LinksKept
  BY DEF LinksKept
<1>8. Depths \subseteq Depths'
  BY <1>1, <1>4
<1>9. Links'
  BY <1>5, <1>6, <1>7, <1>8, LinksStay
<1>10. \A i \in Depths : LastItem(i) # 0 /\ (i < l + 1) /\ ~(l + 1 < i)
  <2>1. \A i \in Depths : i = 0 \/ i \in 1 .. l
    BY <1>1, <1>4
  <2>2. \A i \in 1 .. l : stack[i].current_item # 0
    BY DEF Frames
  <2>3. \A i \in Depths : LastItem(i) # 0
    BY <2>1, <2>2 DEF Frames, LastItem
  <2>4. QED
    BY <1>1, <1>4, <2>3
<1>11. \A i \in 1 .. Len(stack') :
         /\ stack'[i].item = LastItem(i - 1)'
         /\ stack'[i].item \in DOMAIN node'
         /\ node'[stack'[i].item].child = 0
         /\ stack'[i].head = 0 <=> stack'[i].current_item = 0
         /\ stack'[i].current_item = 0 => i = Len(stack') /\ pc' = "next_item"
         /\ stack'[i].current_item # 0 =>
              /\ stack'[i].current_item \in DOMAIN node'
              /\ node'[stack'[i].current_item].next = 0
  <2>1. SUFFICES ASSUME NEW i \in 1 .. l + 1
                 PROVE  /\ stack'[i].item = LastItem(i - 1)'
                        /\ stack'[i].item \in DOMAIN node
                        /\ node[stack'[i].item].child = 0
                        /\ stack'[i].head = 0 <=> stack'[i].current_item = 0
                        /\ stack'[i].current_item = 0 => i = l + 1
                        /\ stack'[i].current_item # 0 =>
                             /\ stack'[i].current_item \in DOMAIN node
                             /\ node[stack'[i].current_item].next = 0
    BY <1>3
  <2>2. i - 1 \in Depths
    BY <1>1, <1>4
  <2>3. CASE i \in 1 .. l
    <3>1. /\ stack[i].item = LastItem(i - 1)
          /\ stack[i].item \in DOMAIN node
          /\ node[stack[i].item].child = 0
          /\ stack[i].head = 0 <=> stack[i].current_item = 0
          /\ stack[i].current_item # 0
          /\ stack[i].current_item \in DOMAIN node
          /\ node[stack[i].current_item].next = 0
      BY <2>3 DEF Frames
    <3>2. QED
      BY <1>3, <1>5, <2>2, <2>3, <3>1
  <2>4. CASE i = l + 1
    <3>1. i - 1 = l
      BY <1>1, <2>4
    <3>2. item = LastItem(l) /\ item \in DOMAIN node /\ node[item].child = 0
      BY DEF ItemIsNew
    <3>3. QED
      BY <1>1, <1>3, <1>5, <2>2, <2>4, <3>1, <3>2
  <2>5. QED
    BY <1>1, <2>3, <2>4
<1>12. \A i, j \in Depths' : i < j => LastItem(i)' # LastItem(j)'
  BY <1>5, <1>6, <1>10 DEF Frames
<1>13. \A i \in Depths' : LastItem(i)' # 0 =>
         \A S \in SUBSET DOMAIN node' :
           ListHead(i)' \in S /\ Closed(S)' => LastItem(i)' \in S
  <2>1. \A S \in SUBSET DOMAIN node : Closed(S)' <=> Closed(S)
    BY <1>7, ClosedKept
  <2>2. QED
    BY <1>5, <1>6, <2>1 DEF Frames
<1>14. root' # 0
  BY DEF Frames
<1>15. QED
  BY <1>3, <1>9, <1>11, <1>12, <1>13, <1>14 DEF Frames

-----------------------------------------------------------------------------
(* The actions *)

(* An error leaves the heap to those who clean it up.                      *)
LEMMA FailStep ==
  ASSUME HeapInv, UNCHANGED <<node, str, stack, root, depth>>,
         pc' \in {"fail", "parsed"}, pc' = "parsed" => stack = <<>>
  PROVE  HeapInv'
<1>1. LinksKept /\ StringsKept
  BY DEF LinksKept, StringsKept
<1>2. Depths' = Depths /\ \A i \in Depths : ListHead(i)' = ListHead(i)
  BY DEF Depths, ListHead
<1>3. Links'
  BY <1>1, <1>2, LinksStay DEF HeapInv
<1>4. Strings'
  BY <1>1, StringsStay DEF HeapInv
<1>5. Blocks' /\ DepthInv'
  BY DEF HeapInv, Blocks, DepthInv
<1>6. Places'
  BY DEF Places, Parsing
<1>7. QED
  BY <1>3, <1>4, <1>5, <1>6 DEF HeapInv

(* A step that only writes something into the item, or nothing at all.     *)
LEMMA ItemStep ==
  ASSUME HeapInv, pc \in {"parse_value", "parse_name", "value"},
         UNCHANGED <<stack, root, depth>>,
         LinksKept, Blocks', Strings',
         pc' \in {"parse_value", "next_item", "value"},
         pc' = "next_item" => stack # <<>>,
         pc' = "parse_value" => ItemIsNew'
  PROVE  HeapInv'
<1>1. Depths' = Depths /\ \A i \in Depths : ListHead(i)' = ListHead(i)
  BY DEF Depths, ListHead
<1>2. Links'
  BY <1>1, LinksStay DEF HeapInv
<1>3. DepthInv'
  BY DEF HeapInv, DepthInv
<1>4. pc # "next_item" /\ Frames
  BY DEF HeapInv, Places, Parsing
<1>5. Frames'
  BY <1>4, FramesStay
<1>6. Places'
  BY <1>5 DEF Places, Parsing
<1>7. QED
  BY <1>2, <1>3, <1>6 DEF HeapInv

(* A new type, and perhaps a number, in the item.                          *)
LEMMA TypedStep ==
  ASSUME HeapInv, pc = "parse_value", pc' = "value",
         UNCHANGED <<stack, root, depth, str>>,
         NEW type \in Types, NEW value \in Texts,
         \/ node' = [node EXCEPT ![item].type = type]
         \/ node' = [node EXCEPT ![item].type = type, ![item].value = value]
  PROVE  HeapInv'
<1>1. node \in [DOMAIN node -> Node] /\ item \in DOMAIN node
  BY DEF HeapInv, Blocks, Places, ItemIsNew
<1>2. /\ node' \in [DOMAIN node -> Node]
      /\ \A m \in DOMAIN node : /\ node'[m].next = node[m].next
                                /\ node'[m].child = node[m].child
                                /\ node'[m].valuestring = node[m].valuestring
                                /\ node'[m].string = node[m].string
  <2>1. CASE node' = [node EXCEPT ![item].type = type]
    <3>1. node' \in [DOMAIN node -> Node]
      BY <1>1, <2>1 DEF Node
    <3>2. \A m \in DOMAIN node :
            /\ node'[m].next = node[m].next
            /\ node'[m].child = node[m].child
            /\ node'[m].valuestring = node[m].valuestring
            /\ node'[m].string = node[m].string
      BY <1>1, <2>1 DEF Node
    <3>3. QED
      BY <3>1, <3>2
  <2>2. CASE node' = [node EXCEPT ![item].type = type, ![item].value = value]
    <3>1. node' \in [DOMAIN node -> Node]
      BY <1>1, <2>2 DEF Node
    <3>2. \A m \in DOMAIN node :
            /\ node'[m].next = node[m].next
            /\ node'[m].child = node[m].child
            /\ node'[m].valuestring = node[m].valuestring
            /\ node'[m].string = node[m].string
      BY <1>1, <2>2 DEF Node
    <3>3. QED
      BY <3>1, <3>2
  <2>3. QED
    BY <2>1, <2>2
<1>3. DOMAIN node' = DOMAIN node
  BY <1>2
<1>4. LinksKept /\ StringsKept
  BY <1>2, <1>3 DEF LinksKept, StringsKept
<1>5. Strings'
  BY <1>4, StringsStay DEF HeapInv
<1>6. Blocks'
  BY <1>2, <1>3 DEF HeapInv, Blocks
<1>7. QED
  BY <1>4, <1>5, <1>6, ItemStep

(* A string that is kept goes to the item, as its value or as its name.    *)
LEMMA StringStep ==
  ASSUME HeapInv, pc \in {"parse_value", "parse_name"},
         UNCHANGED <<stack, root, depth, item>>,
         \/ /\ pc = "parse_value" /\ pc' = "value"
            /\ StringParsed([node[item] EXCEPT !.valuestring = FreeBlock(str),
                                               !.type = "String"])
         \/ /\ pc = "parse_name" /\ pc' \in {"parse_value", "fail"}
            /\ StringParsed([node[item] EXCEPT !.string = FreeBlock(str),
                                               !.type = "String"])
  PROVE  HeapInv'
<1> DEFINE s == FreeBlock(str)
<1>1. s \in Nat \ {0} /\ s \notin DOMAIN str
  BY FreeBlockIsFree DEF HeapInv, Blocks
<1>2. ItemIsNew /\ item \in DOMAIN node /\ node \in [DOMAIN node -> Node]
  BY DEF HeapInv, Blocks, Places, ItemIsNew
<1>3. DOMAIN str' = {s} \cup DOMAIN str
  BY DEF StringParsed, Put
<1>4. IsFiniteSet(DOMAIN str')
  <2>1. IsFiniteSet(DOMAIN str) /\ DOMAIN str' = DOMAIN str \cup {s}
    BY <1>3 DEF HeapInv, Blocks
  <2> HIDE DEF s
  <2>2. QED
    BY <2>1, FS_AddElement
<1>5. CASE pc = "parse_value"
  <2>1. node' = [node EXCEPT ![item] = [node[item] EXCEPT
                   !.valuestring = s, !.type = "String"]]
    BY <1>5 DEF StringParsed
  <2> HIDE DEF s
  <2>2. node' \in [DOMAIN node -> Node]
    BY <1>1, <1>2, <2>1 DEF Node, Types
  <2>3. \A m \in DOMAIN node :
          /\ node'[m].next = node[m].next
          /\ node'[m].child = node[m].child
          /\ node'[m].valuestring = IF m = item THEN s
                                    ELSE node[m].valuestring
          /\ node'[m].string = node[m].string
    BY <1>1, <1>2, <2>1 DEF Node
  <2>4. DOMAIN node' = DOMAIN node
    BY <2>2
  <2>5. LinksKept
    BY <2>3, <2>4 DEF LinksKept
  <2>6. Strings'
    BY <1>1, <1>2, <1>3, <2>3, <2>4, StringsGain DEF HeapInv, ItemIsNew
  <2>7. Blocks'
    BY <1>1, <1>3, <1>4, <2>2, <2>4 DEF HeapInv, Blocks, BlockIds
  <2>8. QED
    BY <1>5, <2>5, <2>6, <2>7, ItemStep
<1>6. CASE pc = "parse_name"
  <2>1. node' = [node EXCEPT ![item] = [node[item] EXCEPT
                   !.string = s, !.type = "String"]]
    BY <1>6 DEF StringParsed
  <2> HIDE DEF s
  <2>2. node' \in [DOMAIN node -> Node]
    BY <1>1, <1>2, <2>1 DEF Node, Types
  <2>3. \A m \in DOMAIN node :
          /\ node'[m].next = node[m].next
          /\ node'[m].child = node[m].child
          /\ node'[m].string = IF m = item THEN s ELSE node[m].string
          /\ node'[m].valuestring = node[m].valuestring
    BY <1>1, <1>2, <2>1 DEF Node
  <2>4. DOMAIN node' = DOMAIN node
    BY <2>2
  <2>5. LinksKept
    BY <2>3, <2>4 DEF LinksKept
  <2>6. Strings'
    BY <1>1, <1>2, <1>3, <1>6, <2>3, <2>4, StringsGain DEF HeapInv, ItemIsNew
  <2>7. Blocks'
    BY <1>1, <1>3, <1>4, <2>2, <2>4 DEF HeapInv, Blocks, BlockIds
  <2>8. CASE pc' = "parse_value"
    <3>1. item' = LastItem(Len(stack))'
      BY <1>2 DEF ItemIsNew, LastItem
    <3>2. ItemIsNew'
      BY <1>2, <2>3, <2>4, <2>8, <3>1 DEF ItemIsNew
    <3>3. QED
      BY <1>6, <2>5, <2>6, <2>7, <2>8, <3>2, ItemStep
  <2>9. CASE pc' = "fail"
    <3>1. Depths' = Depths /\ \A i \in Depths : ListHead(i)' = ListHead(i)
      BY DEF Depths, ListHead
    <3>2. Links'
      BY <2>5, <3>1, LinksStay DEF HeapInv
    <3>3. DepthInv' /\ Places'
      BY <2>9 DEF HeapInv, DepthInv, Places, Parsing
    <3>4. QED
      BY <2>6, <2>7, <3>2, <3>3 DEF HeapInv
  <2>10. QED
    BY <1>6, <2>8, <2>9
<1>7. QED
  BY <1>5, <1>6

(* parse_value keeps the heap in order, whatever the text and whether or   *)
(* not there is memory.                                                    *)
LEMMA ValueStep ==
  ASSUME JsonInv, parse_value
  PROVE  HeapInv'
<1>1. HeapInv /\ pc = "parse_value"
  BY DEF JsonInv, parse_value, parse_literal, parse_value_string,
         parse_number, parse_list, parse_nothing
<1>2. CASE ReturnsFalse
  BY <1>1, <1>2, FailStep DEF ReturnsFalse, heap
<1>3. CASE StringFails
  BY <1>1, <1>3, FailStep DEF StringFails, heap
<1>4. <<>> \in Texts /\ "True" \in Types /\ "Number" \in Types
  BY EmptySeq DEF Texts, Types
<1>5. CASE parse_literal
  <2>1. /\ node' = [node EXCEPT ![item].type = "True"]
        /\ pc' = "value" /\ UNCHANGED <<stack, root, depth, str>>
    BY <1>5 DEF parse_literal
  <2>2. QED
    BY <1>1, <1>4, <2>1, TypedStep
<1>6. CASE parse_value_string /\ ~StringFails
  <2>1. /\ StringParsed([node[item] EXCEPT !.valuestring = FreeBlock(str),
                                           !.type = "String"])
        /\ pc' = "value" /\ UNCHANGED <<stack, root, depth, item>>
    BY <1>6 DEF parse_value_string
  <2>2. QED
    BY <1>1, <2>1, StringStep
<1>7. CASE parse_number /\ ~ReturnsFalse
  <2> DEFINE first == IF text[offset] = "-" THEN offset + 1 ELSE offset
             end   == Min({j \in first .. Len(text) : text[j] # "1"})
             value == SubSeq(text, offset, end - 1)
  <2>1. /\ node' = [node EXCEPT ![item].type = "Number",
                                ![item].value = value]
        /\ pc' = "value" /\ UNCHANGED <<stack, root, depth, str, text>>
        /\ offset' = end
    BY <1>7, Zenon DEF parse_number
  <2> HIDE DEF end
  <2>2. value \in Texts
    <3>1. JsonNext /\ JsonTypeOK /\ TextInv /\ ReadsInBuffer
            /\ stack \in Seq(Frame)
      BY <1>7 DEF JsonNext, parse_value, JsonInv, HeapInv, Blocks
    <3>2. offset' \in 1 .. Len(text') + 1
      BY <3>1, TextStep
    <3>3. end \in 1 .. Len(text) + 1 /\ offset \in 1 .. Len(text) + 1
            /\ text \in Texts /\ Len(text) \in Nat
      BY <2>1, <3>1, <3>2, LenProperties DEF JsonTypeOK, TextInv, Texts
    <3>4. \A i \in offset .. end - 1 : i \in 1 .. Len(text)
      BY <3>3
    <3>5. \A i \in offset .. end - 1 : text[i] \in Units \cup {NUL}
      BY <3>3, <3>4, ElementOfSeq DEF Texts
    <3>6. QED
      BY <3>3, <3>5, SubSeqProperties DEF Texts
  <2> HIDE DEF value
  <2>3. QED
    BY <1>1, <1>4, <2>1, <2>2, TypedStep
<1>8. CASE parse_list /\ ~ReturnsFalse
  <2> DEFINE open == text[offset]
             f == [open |-> open, item |-> item,
                   head |-> 0, current_item |-> 0]
  <2>1. open \in Opening /\ ~TooDeep
    BY <1>8 DEF parse_list
  <2>2. \/ /\ node' = [node EXCEPT ![item].type = ListType[open]]
           /\ pc' = "value" /\ UNCHANGED <<stack, root, depth, str>>
        \/ /\ depth' = depth + 1
           /\ stack' = Append(stack, f)
           /\ pc' = "next_item"
           /\ UNCHANGED <<root, node, str>>
    BY <1>8 DEF parse_list, heap
  <2> HIDE DEF open
  <2>3. CASE pc' = "value"
    <3>1. ListType[open] \in Types
      BY <2>1 DEF ListType, Opening, Types
    <3>2. QED
      BY <1>1, <1>4, <2>2, <2>3, <3>1, TypedStep
  <2>4. CASE pc' = "next_item"
    <3>1. depth' = depth + 1 /\ stack' = Append(stack, f)
            /\ UNCHANGED <<root, node, str>>
      BY <2>2, <2>4
    <3>2. Blocks /\ Links /\ Strings /\ Frames /\ ItemIsNew
      BY <1>1 DEF HeapInv, Places, Parsing
    <3>3. /\ stack' \in Seq(Frame) /\ Len(stack') = Len(stack) + 1
          /\ Links' /\ Frames'
      BY <1>1, <2>1, <2>4, <3>1, <3>2, ListBegins
    <3>4. DepthInv'
      BY <1>1, <2>1, <3>1, <3>2, <3>3, CJsonAssumption, LenProperties
         DEF HeapInv, DepthInv, TooDeep, Blocks
    <3>5. Blocks' /\ Strings'
      BY <3>1, <3>2, <3>3, StringsStay DEF Blocks, StringsKept
    <3>6. stack' # <<>>
      BY <3>2, <3>3, LenProperties, EmptySeq DEF Blocks
    <3>7. Places'
      BY <2>4, <3>3, <3>6 DEF Places, Parsing
    <3>8. QED
      BY <3>3, <3>4, <3>5, <3>7 DEF HeapInv
  <2>5. QED
    BY <2>2, <2>3, <2>4
<1>9. QED
  BY <1>2, <1>3, <1>5, <1>6, <1>7, <1>8 DEF parse_value, parse_nothing

(* The loops of parse_array and parse_object keep it in order.             *)
LEMMA ListStep ==
  ASSUME JsonInv, parse_array_or_object
  PROVE  HeapInv'
<1>1. /\ HeapInv /\ Blocks /\ Links /\ Strings /\ DepthInv
      /\ Parsing => Frames
      /\ pc \in {"next_item", "parse_name"} => stack # <<>>
      /\ stack \in Seq(Frame) /\ 0 \notin DOMAIN node
  BY DEF JsonInv, HeapInv, Places, Blocks, BlockIds
<1>2. CASE next_item
  <2> DEFINE n == FreeBlock(node)
  <2>1. CASE pc' = "fail"
    BY <1>1, <1>2, <2>1, FailStep DEF next_item, heap
  <2>2. CASE pc' # "fail"
    <3>1. /\ pc = "next_item" /\ Attach(n) /\ item' = n
          /\ pc' \in {"parse_name", "parse_value"}
          /\ UNCHANGED <<depth, root, str>>
      BY <1>2, <2>2 DEF next_item
    <3>2. n \in Nat \ {0} /\ n \notin DOMAIN node
      BY <1>1, FreeBlockIsFree DEF Blocks
    <3> HIDE DEF n
    <3>3. stack # <<>> /\ Frames
      BY <1>1, <3>1 DEF Parsing
    <3>4. Blocks' /\ Attached(n)
      BY <1>1, <3>1, <3>2, <3>3, AttachIsAttached
    <3>5. Links' /\ Strings' /\ Frames' /\ ItemIsNew'
      BY <1>1, <3>1, <3>2, <3>3, <3>4,
         LinksAttach, StringsAttach, FramesAttach
    <3>6. Len(stack') = Len(stack) /\ stack' # <<>>
      BY <1>1, <3>3, <3>4, EmptySeq, LenProperties DEF Attached, Blocks
    <3>7. DepthInv'
      BY <1>1, <3>1, <3>6 DEF DepthInv
    <3>8. Places'
      BY <3>1, <3>5, <3>6 DEF Places
    <3>9. QED
      BY <3>4, <3>5, <3>7, <3>8 DEF HeapInv
  <2>3. QED
    BY <2>1, <2>2
<1>3. CASE parse_name
  <2>1. CASE StringFails
    BY <1>1, <2>1, FailStep DEF StringFails, heap
  <2>2. CASE ~StringFails
    BY <1>1, <1>3, <2>2, StringStep DEF parse_name
  <2>3. QED
    BY <2>1, <2>2
<1>4. CASE list_ends
  <2>1. /\ pc = "value" /\ pc' = "value" /\ stack # <<>>
        /\ stack' = Pop /\ depth' = depth - 1 /\ str' = str
    BY <1>4 DEF list_ends
  <2>2. Frames
    BY <1>1, <2>1 DEF Parsing
  <2>3. Blocks' /\ StringsKept
    BY <1>1, <1>4, <2>1, <2>2, ListEndsLinks
  <2>4. Links' /\ Frames'
    BY <1>1, <1>4, <2>1, <2>2, ListEnds
  <2>5. Strings'
    BY <1>1, <2>3, StringsStay
  <2>6. DepthInv'
    <3>1. Len(stack) \in 1 .. Len(stack) /\ Len(stack') = Len(stack) - 1
      BY <1>1, <2>1, TopIsAFrame
    <3>2. QED
      BY <1>1, <2>1, <3>1, CJsonAssumption DEF DepthInv
  <2>7. Places'
    BY <2>1, <2>4 DEF Places
  <2>8. QED
    BY <2>3, <2>4, <2>5, <2>6, <2>7 DEF HeapInv
<1>5. CASE list_goes_on
  <2>1. /\ pc = "value" /\ stack # <<>> /\ pc' \in {"next_item", "fail"}
        /\ UNCHANGED <<depth, stack, root, node, str>>
    BY <1>5 DEF list_goes_on, heap
  <2>2. CASE pc' = "fail"
    BY <1>1, <2>1, <2>2, FailStep
  <2>3. CASE pc' = "next_item"
    <3>1. LinksKept /\ Blocks' /\ Strings'
      BY <1>1, <2>1, StringsStay DEF LinksKept, StringsKept, Blocks
    <3>2. QED
      BY <1>1, <2>1, <2>3, <3>1, ItemStep
  <2>4. QED
    BY <2>1, <2>2, <2>3
<1>6. CASE list_fails
  <2>1. /\ pc = "fail" /\ pc' = "fail" /\ stack # <<>>
        /\ cJSON_Delete(Top.head)
        /\ stack' = Pop
        /\ UNCHANGED <<depth, root>>
    BY <1>6 DEF list_fails
  <2>2. /\ Len(stack) \in 1 .. Len(stack) /\ Len(stack) \in Nat
        /\ stack' \in Seq(Frame) /\ Len(stack') = Len(stack) - 1
        /\ \A i \in 1 .. Len(stack) - 1 : stack'[i] = stack[i]
    BY <1>1, <2>1, TopIsAFrame, LenProperties
  <2>3. ListHead(Len(stack)) = Top.head
    BY <2>2 DEF ListHead, Top
  <2>4. Depths' = Depths \ {Len(stack)}
    BY <2>2 DEF Depths
  <2>5. \A i \in Depths' : ListHead(i)' = ListHead(i)
    <3>1. \A i \in Depths' : i = 0 \/ i \in 1 .. Len(stack) - 1
      BY <2>2 DEF Depths
    <3>2. QED
      BY <2>1, <2>2, <3>1 DEF ListHead
  <2>6. Links'
    BY <1>1, <2>1, <2>2, <2>3, <2>4, <2>5, LinksDelete
  <2>7. Tree(Top.head) \subseteq DOMAIN node
    <3>1. Len(stack) \in Depths
      BY <2>2 DEF Depths
    <3>2. /\ Top.head \in {0} \cup DOMAIN node
          /\ \A m \in DOMAIN node :
               Top.head # 0 => Top.head \notin {node[m].next, node[m].child}
      BY <1>1, <2>3, <3>1 DEF Links
    <3>3. QED
      BY <1>1, <3>2, TreeIsAPart
  <2>8. Strings'
    BY <1>1, <2>1, <2>7, StringsDelete
  <2>9. Blocks'
    BY <1>1, <2>1, <2>2, BlocksDelete DEF Blocks
  <2>10. DepthInv' /\ Places'
    BY <1>1, <2>1, <2>2, CJsonAssumption DEF DepthInv, Places, Parsing
  <2>11. QED
    BY <2>6, <2>8, <2>9, <2>10 DEF HeapInv
<1>7. QED
  BY <1>2, <1>3, <1>4, <1>5, <1>6 DEF parse_array_or_object

(* Between two messages the heap is empty.                                 *)
LEMMA NothingLeft ==
  ASSUME HeapInv, pc = "idle"
  PROVE  DOMAIN node = {} /\ DOMAIN str = {} /\ stack = <<>> /\ root = 0
<1>1. stack = <<>> /\ root = 0 /\ Links /\ Strings
  BY DEF HeapInv, Places
<1>2. \A i \in Depths : ListHead(i) = 0
  BY <1>1, EmptySeq DEF Depths, ListHead
<1>3. Closed({})
  BY DEF Closed
<1>4. {} = DOMAIN node
  BY <1>1, <1>2, <1>3 DEF Links
<1>5. StringsOf(DOMAIN node) = {}
  BY <1>4 DEF StringsOf
<1>6. QED
  BY <1>1, <1>4, <1>5 DEF Strings

(* A message that arrives gets the first node of the heap, or fails.       *)
LEMMA ParseStep ==
  ASSUME JsonInv, NEW in \in Inputs, cJSON_Parse(in)
  PROVE  HeapInv'
<1>1. HeapInv /\ pc = "idle"
  BY DEF JsonInv, cJSON_Parse
<1>2. DOMAIN node = {} /\ DOMAIN str = {} /\ stack = <<>> /\ root = 0
  BY <1>1, NothingLeft
<1>3. stack' = <<>> /\ str' = str /\ depth' = 0
  BY <1>2 DEF cJSON_Parse
<1>4. DepthInv'
  BY <1>3, EmptySeq, CJsonAssumption DEF DepthInv
<1>5. CASE pc' = "fail"
  <2>1. UNCHANGED <<node, str, stack, root>>
    BY <1>3, <1>5 DEF cJSON_Parse
  <2>2. Depths' = Depths /\ \A i \in Depths : ListHead(i)' = ListHead(i)
    BY <2>1 DEF Depths, ListHead
  <2>3. Links'
    BY <1>1, <2>1, <2>2, LinksStay DEF HeapInv, LinksKept
  <2>4. Strings' /\ Blocks'
    BY <1>1, <2>1, StringsStay DEF HeapInv, StringsKept, Blocks
  <2>5. Places'
    BY <1>5 DEF Places, Parsing
  <2>6. QED
    BY <1>4, <2>3, <2>4, <2>5 DEF HeapInv
<1>6. CASE pc' # "fail"
  <2> DEFINE n == FreeBlock(node)
  <2>1. /\ node' = Put(node, n, NewItem)
        /\ root' = n /\ item' = n /\ pc' = "parse_value"
    BY <1>6 DEF cJSON_Parse
  <2>2. n \in Nat \ {0}
    BY <1>1, FreeBlockIsFree DEF HeapInv, Blocks
  <2> HIDE DEF n
  <2>3. NewItem \in Node
    BY EmptySeq DEF NewItem, Node, Types, Texts
  <2>4. DOMAIN node' = {n} /\ node'[n] = NewItem
          /\ node' \in [DOMAIN node' -> Node]
    BY <1>2, <2>1, <2>3 DEF Put
  <2>5. /\ node'[n].next = 0 /\ node'[n].child = 0
        /\ node'[n].valuestring = 0 /\ node'[n].string = 0
    BY <2>4 DEF NewItem
  <2>6. /\ Depths' = {0} /\ Len(stack') = 0
        /\ \A i \in Depths' : ListHead(i)' = n /\ LastItem(i)' = n
    BY <1>3, <2>1, EmptySeq DEF Depths, ListHead, LastItem
  <2>7. Blocks'
    <3>1. IsFiniteSet({n}) /\ IsFiniteSet(DOMAIN str)
      BY <1>1, FS_Singleton DEF HeapInv, Blocks
    <3>2. stack' \in Seq(Frame)
      BY <1>3, EmptySeq
    <3>3. QED
      BY <1>2, <1>3, <2>1, <2>2, <2>4, <3>1, <3>2 DEF Blocks, BlockIds
  <2>8. Links'
    BY <2>2, <2>4, <2>5, <2>6 DEF Links
  <2>9. Strings'
    BY <1>2, <1>3, <2>4, <2>5 DEF Strings, StringsOf
  <2>10. Frames'
    BY <2>1, <2>2, <2>4, <2>6 DEF Frames
  <2>11. ItemIsNew'
    BY <2>1, <2>4, <2>5, <2>6 DEF ItemIsNew, LastItem
  <2>12. Places'
    BY <2>1, <2>10, <2>11 DEF Places, Parsing
  <2>13. QED
    BY <1>4, <2>7, <2>8, <2>9, <2>12 DEF HeapInv
<1>7. QED
  BY <1>5, <1>6

(* Whoever is done with the tree deletes all there is.                     *)
LEMMA OverStep ==
  ASSUME JsonInv, parse_fails \/ app_deletes
  PROVE  HeapInv'
<1>1. /\ cJSON_Delete(root) /\ stack' = <<>> /\ root' = 0
      /\ depth' = 0 /\ pc' = "idle"
      /\ stack = <<>>
  BY DEF parse_fails, app_deletes, ParseOver, JsonInv, HeapInv, Places
<1>2. /\ Blocks /\ Links /\ Strings /\ 0 \notin DOMAIN node
  BY DEF JsonInv, HeapInv, Blocks, BlockIds
<1>3. /\ Len(stack) = 0 /\ Len(stack') = 0
      /\ Depths = {0} /\ Depths' = {0} /\ ListHead(0) = root
      /\ \A i \in Depths' : ListHead(i)' = 0
  BY <1>1, EmptySeq DEF Depths, ListHead
<1>4. Links'
  BY <1>1, <1>2, <1>3, LinksDelete
<1>5. Tree(root) \subseteq DOMAIN node
  <2>1. /\ root \in {0} \cup DOMAIN node
        /\ \A m \in DOMAIN node :
             root # 0 => root \notin {node[m].next, node[m].child}
    BY <1>2, <1>3 DEF Links
  <2>2. QED
    BY <1>2, <2>1, TreeIsAPart
<1>6. Strings'
  BY <1>1, <1>2, <1>5, StringsDelete
<1>7. Blocks'
  BY <1>1, <1>2, EmptySeq, BlocksDelete
<1>8. DepthInv' /\ Places'
  BY <1>1, <1>3, CJsonAssumption DEF DepthInv, Places, Parsing
<1>9. QED
  BY <1>4, <1>6, <1>7, <1>8 DEF HeapInv

-----------------------------------------------------------------------------
(* The theorems *)

(* JsonInv holds of every state of the parser.                             *)
THEOREM JsonInvariant == JsonSpec => []JsonInv
<1>1. JsonInit => JsonInv
  <2> SUFFICES ASSUME JsonInit
               PROVE  JsonInv
    OBVIOUS
  <2>1. /\ pc = "idle" /\ offset = 1 /\ depth = 0 /\ failed = FALSE
        /\ stack = <<>> /\ item = 0 /\ root = 0
        /\ DOMAIN node = {} /\ DOMAIN str = {}
    BY DEF JsonInit
  <2>2. text \in Texts /\ Len(text) = 1 /\ text[Len(text)] = NUL
    BY DEF JsonInit, Texts
  <2>3. /\ stack \in Seq(Frame) /\ Len(stack) = 0 /\ Depths = {0}
        /\ \A i \in Depths : ListHead(i) = 0
    BY <2>1, EmptySeq DEF Depths, ListHead
  <2>4. Blocks
    BY <2>1, <2>3, FS_EmptySet DEF Blocks, BlockIds
  <2>5. Links /\ Strings
    BY <2>1, <2>3 DEF Links, Strings, StringsOf
  <2>6. DepthInv /\ Places
    BY <2>1, <2>3, CJsonAssumption DEF DepthInv, Places, Parsing
  <2>7. JsonTypeOK
    <3>1. offset \in 1 .. Len(text) + 1
      BY <2>1, <2>2
    <3>2. QED
      BY <2>1, <2>6, <3>1 DEF JsonTypeOK, DepthInv
  <2>8. TextInv /\ ReadsInBuffer
    BY <2>1, <2>2 DEF TextInv, ReadsInBuffer
  <2>9. QED
    BY <2>4, <2>5, <2>6, <2>7, <2>8 DEF JsonInv, HeapInv
<1>2. JsonInv /\ [JsonNext]_jsonVars => JsonInv'
  <2> SUFFICES ASSUME JsonInv, [JsonNext]_jsonVars
               PROVE  JsonInv'
    OBVIOUS
  <2>1. CASE JsonNext
    <3>1. HeapInv'
      <4>1. CASE \E in \in Inputs : cJSON_Parse(in)
        BY <4>1, ParseStep
      <4>2. CASE parse_returns
        BY <4>2, FailStep DEF parse_returns, heap, JsonInv
      <4>3. QED
        BY <2>1, <4>1, <4>2, ValueStep, ListStep, OverStep DEF JsonNext
    <3>2. /\ TextInv' /\ ReadsInBuffer'
          /\ offset' \in 1 .. Len(text') + 1
          /\ failed' \in BOOLEAN
          /\ pc' \in {"idle", "parse_value", "next_item", "parse_name",
                      "value", "fail", "parsed"}
      BY <2>1, TextStep DEF JsonInv, HeapInv, Blocks
    <3>3. JsonTypeOK'
      BY <3>1, <3>2 DEF JsonTypeOK, HeapInv, DepthInv, Blocks, BlockIds
    <3>4. QED
      BY <3>1, <3>2, <3>3 DEF JsonInv
  <2>2. CASE UNCHANGED jsonVars
    <3>1. /\ UNCHANGED <<pc, text, offset, failed>>
          /\ UNCHANGED <<depth, stack, item, root, node, str>>
      BY <2>2 DEF jsonVars, heap
    <3>2. JsonTypeOK' /\ TextInv' /\ ReadsInBuffer'
      BY <3>1 DEF JsonInv, JsonTypeOK, TextInv, ReadsInBuffer
    <3>3. Blocks' /\ DepthInv' /\ Strings'
      BY <3>1, StringsStay DEF JsonInv, HeapInv, Blocks, DepthInv, StringsKept
    <3>4. LinksKept
      BY <3>1 DEF LinksKept
    <3>5. /\ Depths' = Depths
          /\ \A i \in Depths : /\ ListHead(i)' = ListHead(i)
                               /\ LastItem(i)' = LastItem(i)
          /\ \A i \in 1 .. Len(stack) : LastItem(i - 1)' = LastItem(i - 1)
      BY <3>1 DEF Depths, ListHead, LastItem
    <3>6. Links'
      BY <3>4, <3>5, LinksStay DEF JsonInv, HeapInv
    <3>7. Frames => Frames'
      <4>1. \A S \in SUBSET DOMAIN node : Closed(S)' <=> Closed(S)
        BY <3>4, ClosedKept
      <4>2. QED
        BY <3>1, <3>5, <4>1 DEF Frames
    <3>8. ItemIsNew => ItemIsNew'
      BY <3>1 DEF ItemIsNew, LastItem
    <3>9. Places'
      BY <3>1, <3>7, <3>8 DEF JsonInv, HeapInv, Places, Parsing
    <3>10. QED
      BY <3>2, <3>3, <3>6, <3>9 DEF JsonInv, HeapInv
  <2>3. QED
    BY <2>1, <2>2
<1>3. QED
  BY <1>1, <1>2, PTL DEF JsonSpec

(* The types of the parser's variables are right.                          *)
THEOREM JsonTypesCorrect == JsonSpec => []JsonTypeOK
<1>1. JsonInv => JsonTypeOK
  BY DEF JsonInv
<1>2. QED
  BY <1>1, JsonInvariant, PTL

(* cJSON.c reads no byte behind the terminator: wherever parse_value and   *)
(* the loops of parse_array and parse_object look without asking, there is *)
(* one, whatever the host has written.                                     *)
THEOREM ParserStaysInText == JsonSpec => []ReadsInBuffer
<1>1. JsonInv => ReadsInBuffer
  BY DEF JsonInv
<1>2. QED
  BY <1>1, JsonInvariant, PTL

(* A set that has exactly one element has one.                             *)
LEMMA One ==
  ASSUME NEW S, NEW x \in S, \A y \in S : y = x
  PROVE  Cardinality(S) = 1
<1>1. S = {x}
  OBVIOUS
<1>2. QED
  BY <1>1, FS_Singleton

(* All that is reached from the root or a list in progress is everything.  *)
LEMMA OwnedIsAll ==
  ASSUME JsonInv
  PROVE  UNION ({Tree(root)} \cup {Tree(h) : h \in
             Range([i \in DOMAIN stack |-> stack[i].head])}) = DOMAIN node
<1> DEFINE heads == [i \in DOMAIN stack |-> stack[i].head]
           owned == UNION ({Tree(root)} \cup {Tree(h) : h \in Range(heads)})
<1>1. /\ Links /\ 0 \notin DOMAIN node
      /\ DOMAIN stack = 1 .. Len(stack) /\ Len(stack) \in Nat
  BY LenProperties DEF JsonInv, HeapInv, Blocks, BlockIds
<1>2. /\ \A i \in Depths : i = 0 \/ i \in DOMAIN stack
      /\ 0 \in Depths /\ \A i \in DOMAIN stack : i \in Depths /\ i # 0
  BY <1>1 DEF Depths
<1>3. Range(heads) = {ListHead(i) : i \in Depths \ {0}}
  BY <1>2 DEF Range, ListHead
<1>4. root = ListHead(0)
  BY DEF ListHead
<1>5. owned = UNION {Tree(ListHead(i)) : i \in Depths}
  <2> HIDE DEF heads
  <2>1. {Tree(root)} \cup {Tree(h) : h \in Range(heads)}
          = {Tree(ListHead(i)) : i \in Depths}
    BY <1>2, <1>3, <1>4
  <2>2. QED
    BY <2>1
<1> HIDE DEF owned
<1>6. \A i \in Depths :
        /\ Tree(ListHead(i)) \subseteq DOMAIN node
        /\ Closed(Tree(ListHead(i)))
        /\ ListHead(i) # 0 => ListHead(i) \in Tree(ListHead(i))
  <2>1. \A i \in Depths :
          /\ ListHead(i) \in {0} \cup DOMAIN node
          /\ \A m \in DOMAIN node :
               ListHead(i) # 0 =>
                 ListHead(i) \notin {node[m].next, node[m].child}
    BY <1>1 DEF Links
  <2>2. QED
    BY <1>1, <2>1, TreeIsAPart
<1>7. owned \in SUBSET DOMAIN node
  BY <1>5, <1>6
<1>8. \A i \in Depths : ListHead(i) \in {0} \cup owned
  BY <1>5, <1>6
<1>9. Closed(owned)
  <2>1. SUFFICES ASSUME NEW m \in owned
                 PROVE  {node[m].next, node[m].child} \cap DOMAIN node
                          \subseteq owned
    BY DEF Closed
  <2>2. PICK i \in Depths : m \in Tree(ListHead(i))
    BY <1>5, <2>1
  <2>3. {node[m].next, node[m].child} \cap DOMAIN node
          \subseteq Tree(ListHead(i))
    BY <1>6, <2>2 DEF Closed
  <2>4. Tree(ListHead(i)) \subseteq owned
    BY <1>5
  <2>5. QED
    BY <2>3, <2>4
<1>10. owned = DOMAIN node
  BY <1>1, <1>7, <1>8, <1>9 DEF Links
<1>11. QED
  BY <1>10 DEF owned

(* A node has one pointer to it: from the root, a list that is being       *)
(* parsed, or another node.                                                *)
LEMMA OnePointer ==
  ASSUME JsonInv, NEW n \in DOMAIN node
  PROVE  LET heads == [i \in DOMAIN stack |-> stack[i].head]
         IN (IF root = n THEN 1 ELSE 0)
              + Cardinality({i \in DOMAIN stack : heads[i] = n})
              + Cardinality({m \in DOMAIN node : node[m].next = n})
              + Cardinality({m \in DOMAIN node : node[m].child = n}) = 1
<1> DEFINE heads == [i \in DOMAIN stack |-> stack[i].head]
           A == IF root = n THEN 1 ELSE 0
           B == {i \in DOMAIN stack : heads[i] = n}
           C == {m \in DOMAIN node : node[m].next = n}
           E == {m \in DOMAIN node : node[m].child = n}
<1>1. /\ Links /\ n # 0
      /\ DOMAIN stack = 1 .. Len(stack) /\ Len(stack) \in Nat
  BY LenProperties DEF JsonInv, HeapInv, Blocks, BlockIds
<1>2. /\ \A i \in Depths : i = 0 \/ i \in DOMAIN stack
      /\ 0 \in Depths /\ \A i \in DOMAIN stack : i \in Depths /\ i # 0
  BY <1>1 DEF Depths
<1>3. /\ root = ListHead(0)
      /\ B = {i \in DOMAIN stack : ListHead(i) = n}
  BY <1>2 DEF ListHead
<1> HIDE DEF B
<1>4. /\ \A i, j \in Depths : ListHead(i) = n /\ ListHead(j) = n => i = j
      /\ \A i \in Depths : ListHead(i) = n => C = {} /\ E = {}
      /\ \A m, k \in C : m = k
      /\ \A m, k \in E : m = k
      /\ C # {} => E = {}
  BY <1>1 DEF Links
<1>5. ASSUME root # n, B = {}, C = {}, E = {}
      PROVE  FALSE
  <2>1. Closed(DOMAIN node \ {n})
    BY <1>5 DEF Closed
  <2>2. \A i \in Depths : ListHead(i) # n
    BY <1>2, <1>3, <1>5
  <2>3. \A i \in Depths : ListHead(i) \in {0} \cup (DOMAIN node \ {n})
    BY <1>1, <2>2 DEF Links
  <2>4. DOMAIN node \ {n} = DOMAIN node
    BY <1>1, <2>1, <2>3 DEF Links
  <2>5. QED
    BY <2>4
<1>6. /\ B # {} => Cardinality(B) = 1
      /\ C # {} => Cardinality(C) = 1
      /\ E # {} => Cardinality(E) = 1
  <2>1. \A i, j \in B : i = j
    BY <1>2, <1>3, <1>4
  <2> HIDE DEF C, E
  <2>2. QED
    BY <1>4, <2>1, One
<1>7. /\ B = {} => Cardinality(B) = 0
      /\ C = {} => Cardinality(C) = 0
      /\ E = {} => Cardinality(E) = 0
  BY FS_EmptySet
<1>8. /\ root = n => B = {} /\ C = {} /\ E = {}
      /\ B # {} => C = {} /\ E = {}
  BY <1>2, <1>3, <1>4
<1> HIDE DEF C, E
<1>9. A + Cardinality(B) + Cardinality(C) + Cardinality(E) = 1
  BY <1>4, <1>5, <1>6, <1>7, <1>8
<1>10. QED
  BY <1>9 DEF B, C, E

(* A string has one pointer to it, from a node.                            *)
LEMMA OneNode ==
  ASSUME JsonInv, NEW s \in DOMAIN str
  PROVE  Cardinality({m \in DOMAIN node : node[m].valuestring = s})
           + Cardinality({m \in DOMAIN node : node[m].string = s}) = 1
<1> DEFINE V == {m \in DOMAIN node : node[m].valuestring = s}
           T == {m \in DOMAIN node : node[m].string = s}
<1>1. Strings /\ s # 0
  BY DEF JsonInv, HeapInv, Blocks, BlockIds
<1>2. /\ \A m, k \in V : m = k
      /\ \A m, k \in T : m = k
      /\ V # {} => T = {}
      /\ V # {} \/ T # {}
  BY <1>1 DEF Strings, StringsOf
<1> HIDE DEF V, T
<1>3. /\ V # {} => Cardinality(V) = 1
      /\ T # {} => Cardinality(T) = 1
  BY <1>2, One
<1>4. /\ V = {} => Cardinality(V) = 0
      /\ T = {} => Cardinality(T) = 0
  BY FS_EmptySet
<1>5. Cardinality(V) + Cardinality(T) = 1
  BY <1>2, <1>3, <1>4
<1>6. QED
  BY <1>5 DEF V, T

(* Every block of the heap has one owner that can reach it.  So a parse    *)
(* that returns NULL, at whatever byte or allocation, leaves nothing on    *)
(* the heap, cJSON_Delete of its result frees everything, and nothing is   *)
(* freed twice: for every text, every depth and every heap.                *)
THEOREM HeapIsOwned == JsonSpec => []Owned
<1>1. JsonInv => Owned
  <2> SUFFICES ASSUME JsonInv
               PROVE  Owned
    OBVIOUS
  <2>1. StringsOf(DOMAIN node) \ {0} = DOMAIN str
    BY DEF JsonInv, HeapInv, Strings
  <2>2. QED
    BY <2>1, OwnedIsAll, OnePointer, OneNode, Zenon DEF Owned
<1>2. QED
  BY <1>1, JsonInvariant, PTL
=============================================================================
