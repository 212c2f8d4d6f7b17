------------------------------- MODULE CJson -------------------------------
(***************************************************************************)
(* main/cJSON.c, as far as process_data.c uses it: cJSON_Parse,            *)
(* cJSON_GetObjectItem and cJSON_Delete, on a heap whose every allocation  *)
(* may fail.  (CJsonPrint and CJsonEdit have the rest of it.)              *)
(*                                                                         *)
(* parse_value, parse_array and parse_object call one another.  The C      *)
(* stack is "stack", a frame for each list being parsed; "item" is the     *)
(* argument of the parse_value in progress.  Nodes and strings are blocks  *)
(* of the heap and a pointer is a number, 0 for NULL.                      *)
(*                                                                         *)
(* A text is a sequence of units: punctuation, one digit, a minus sign, a  *)
(* blank, two cases of a letter, a literal, and, each as one unit, what    *)
(* follows the backslash of a Unicode escape.  parse_hex4 returns 0 for    *)
(* four characters that are not all hexadecimal digits, and nobody looks   *)
(* at that: "u0000" is any escape of which it returns 0.  (Not those with  *)
(* a quote or a backslash among the four, which are not texts of the       *)
(* model.)                                                                 *)
(***************************************************************************)
EXTENDS Integers, Sequences, FiniteSets, FiniteSetsExt, Functions, TLC

CONSTANTS
  Inputs,               \* the texts that are parsed, and what is known of them
  CJSON_NESTING_LIMIT   \* 1000 on the board

Quote     == "\""
Backslash == "\\"
NUL       == "NUL"
Blank     == " "
Literal   == "true"
Units == {"{", "}", "[", "]", ",", ":", Quote, Backslash, "1", "-", Blank,
          "k", "K", Literal, "u0000", "u01", "u41", "u20AC", "uD83D",
          "uDE00"}

(* kind: "object", the text starts with an object, whose members are       *)
(* listed; "any", nothing is known of it.                                  *)
ASSUME CJsonAssumption ==
  /\ \A in \in Inputs :
       in.text \in Seq(Units) /\ in.kind \in {"any", "object"}
  /\ CJSON_NESTING_LIMIT \in Nat

VARIABLES
  pc,       \* where the parser is
  text,     \* what is parsed, with its terminator
  offset,   \* buffer.offset, counted from 1
  depth,    \* buffer.depth
  stack,    \* parse_array and parse_object in progress, innermost last
  item,     \* the argument of parse_value
  root,     \* item of cJSON_ParseWithLengthOpts, then jsRoot of the caller
  node,     \* the heap: the nodes
  str,      \* the heap: the strings
  input,    \* history: the input that text is
  failed    \* history: an allocation of this parse failed

heap == <<node, str>>
jsonVars == <<pc, text, offset, depth, stack, item, root, heap, input, failed>>

NoInput == [text |-> <<>>, kind |-> "any", members |-> <<>>]

JsonTypeOK ==
  /\ pc \in {"idle", "parse_value", "next_item", "parse_name", "value",
             "fail", "parsed"}
  /\ offset \in 1 .. Len(text) + 1
  /\ depth \in 0 .. CJSON_NESTING_LIMIT
  /\ Len(stack) <= depth
  /\ DOMAIN node \subseteq Nat \ {0}
  /\ DOMAIN str \subseteq Nat \ {0}
  /\ failed \in BOOLEAN

JsonInit ==
  /\ pc = "idle"
  /\ text = <<NUL>>
  /\ offset = 1
  /\ depth = 0
  /\ stack = <<>>
  /\ item = 0
  /\ root = 0
  /\ input = NoInput
  /\ failed = FALSE
  /\ node = <<>>
  /\ str = <<>>

(* Between two messages there is nothing but the heap. *)
ParseOver ==
  /\ pc' = "idle"
  /\ text' = <<NUL>>
  /\ offset' = 1
  /\ depth' = 0
  /\ stack' = <<>>
  /\ item' = 0
  /\ root' = 0
  /\ input' = NoInput
  /\ failed' = FALSE

-----------------------------------------------------------------------------
(* The heap *)

(* malloc: a block that is not in use. *)
FreeBlock(blocks) ==
  Min((1 .. Cardinality(DOMAIN blocks) + 1) \ DOMAIN blocks)

Put(blocks, id, content) ==
  [b \in {id} \cup DOMAIN blocks |-> IF b = id THEN content ELSE blocks[b]]

(* cJSON_New_Item: a zeroed node. *)
NewItem == [type |-> "Invalid", next |-> 0, prev |-> 0, child |-> 0,
            valuestring |-> 0, string |-> 0, value |-> <<>>]

(* No pointer leads out of the set. *)
Closed(nodes) ==
  \A m \in nodes :
    {node[m].next, node[m].child} \cap DOMAIN node \subseteq nodes

(* The node n, those after it in its list and all that is below them: what *)
(* no closed set with n in it is without.                                  *)
Tree(n) ==
  LET around == {S \in SUBSET DOMAIN node : n \in S /\ Closed(S)}
  IN IF n = 0 THEN {}
     ELSE {n} \cup {m \in DOMAIN node : \A S \in around : m \in S}

StringsOf(nodes) ==
  {node[n].valuestring : n \in nodes} \cup {node[n].string : n \in nodes}

(* cJSON_Delete: the item, those after it, and all below them. *)
cJSON_Delete(n) ==
  /\ node' = Restrict(node, DOMAIN node \ Tree(n))
  /\ str' = Restrict(str, DOMAIN str \ StringsOf(Tree(n)))

-----------------------------------------------------------------------------
(* Leaf functions *)

(* Slip: the offset stays behind the last byte. *)
SkipBehindTheEnd(t, i) ==
  LET more == {j \in i .. Len(t) : t[j] \notin {Blank, NUL}}
  IN Min(more \cup {Len(t) + 1})

(* buffer_skip_whitespace: the terminator counts as a blank, and when      *)
(* there is nothing else the offset goes back to the last byte.            *)
buffer_skip_whitespace(t, i) ==
  LET more == {j \in i .. Len(t) : t[j] \notin {Blank, NUL}}
  IN IF i > Len(t) THEN i ELSE Min(more \cup {Len(t)})

(* The bytes of a text or, decoded, of a string. *)
Bytes(s) ==
  LET count(S) == Cardinality({i \in DOMAIN s : s[i] \in S})
  IN Len(s) + 4 * count({"u0000", "u01", "u41", "u20AC", "uD83D", "uDE00"})
            + 3 * count({Literal, "tab+rue", "U+1F600"})
            + 2 * count({"U+20AC"})

(* utf16_literal_to_utf8 and the escapes of one character: what each       *)
(* decodes to.  A low surrogate alone is none of them.                     *)
Decoded ==
  [u \in {Quote, Backslash, Literal, "u0000", "u01", "u41", "u20AC"} |->
     CASE u = Literal -> "tab+rue"
       [] u = "u0000" -> "U+00"
       [] u = "u01"   -> "U+01"
       [] u = "u41"   -> "U+41"
       [] u = "u20AC" -> "U+20AC"
       [] OTHER       -> u]

Pair == <<Backslash, "uD83D", Backslash, "uDE00">>

(* Slip: a backslash does not hide the quote after it. *)
ScanUnescaped(i) ==
  LET quotes == {j \in i + 1 .. Len(text) : text[j] = Quote}
  IN i + 1 .. Min(quotes \cup {Len(text) + 1})

(* The first loop of parse_string, on the string that begins at i: the     *)
(* places it looks at, the last of which is the closing quote or behind    *)
(* the end of the text.                                                    *)
Scan(i) ==
  LET from[j \in Nat] ==
        IF j > Len(text) \/ text[j] = Quote THEN {j}
        ELSE {j} \cup from[IF text[j] = Backslash THEN j + 2 ELSE j + 1]
  IN from[i + 1]

(* Its second loop, up to the closing quote at "end": what it writes.      *)
(* "bad" is an escape it does not know.                                    *)
Decode(i, end) ==
  LET from[j \in Nat] ==
        IF j >= end THEN <<>>
        ELSE IF text[j] # Backslash THEN <<text[j]>> \o from[j + 1]
        ELSE IF text[j + 1] \in DOMAIN Decoded
               THEN <<Decoded[text[j + 1]]>> \o from[j + 2]
        ELSE IF j + 4 <= end /\ SubSeq(text, j, j + 3) = Pair
               THEN <<"U+1F600">> \o from[j + 4]
        ELSE <<"bad">>
  IN from[i + 1]

(* What parse_string makes of the text at i.  The block it asks for has    *)
(* room for the text from the opening quote on, less one for every escape, *)
(* and for the terminator.                                                 *)
parse_string(i) ==
  LET path  == Scan(i)
      end   == Max(path)
      bytes == Bytes(SubSeq(text, i, end - 1))
      escapes == Cardinality({j \in path \ {end} : text[j] = Backslash})
      quoted == text[i] = Quote /\ end \in DOMAIN text /\ text[end] = Quote
      content == IF quoted THEN Decode(i, end) ELSE <<"bad">>
  IN [asks |-> quoted,
      ok |-> quoted /\ "bad" \notin Range(content),
      block |-> [content |-> content, size |-> bytes - escapes + 1],
      end |-> end]

(* parse_string for the item, which becomes "parsed" if it works.  If not, *)
(* there is no heap for the string; or the string is not one (and its      *)
(* block is freed again).  Where the offset is after an error only tells   *)
(* where the error was.                                                    *)
StringParsed(parsed) ==
  /\ parse_string(offset).ok
  /\ str' = Put(str, FreeBlock(str), parse_string(offset).block)
  /\ node' = [node EXCEPT ![item] = parsed]
  /\ failed' = failed

StringFails ==
  /\ \/ parse_string(offset).asks /\ failed' = TRUE
     \/ ~parse_string(offset).ok /\ failed' = failed
  /\ pc' = "fail"
  /\ UNCHANGED <<text, input, offset, depth, stack, item, root, heap>>

-----------------------------------------------------------------------------
(* parse_value *)

ReturnsFalse ==
  /\ pc' = "fail"
  /\ UNCHANGED <<text, input, offset, depth, stack, item, root, heap, failed>>

parse_literal ==
  /\ pc = "parse_value"
  /\ text[offset] = Literal
  /\ node' = [node EXCEPT ![item].type = "True"]
  /\ offset' = offset + 1
  /\ pc' = "value"
  /\ UNCHANGED <<text, input, depth, stack, item, root, str, failed>>

parse_value_string ==
  /\ pc = "parse_value"
  /\ text[offset] = Quote
  /\ \/ /\ StringParsed([node[item] EXCEPT !.valuestring = FreeBlock(str),
                                            !.type = "String"])
        /\ offset' = parse_string(offset).end + 1
        /\ pc' = "value"
        /\ UNCHANGED <<text, input, depth, stack, item, root>>
     \/ StringFails

(* parse_number: what strtod takes of the run of number characters, here   *)
(* digits after at most one minus sign.                                    *)
parse_number ==
  LET first == IF text[offset] = "-" THEN offset + 1 ELSE offset
      end   == Min({j \in first .. Len(text) : text[j] # "1"})
  IN /\ pc = "parse_value"
     /\ text[offset] \in {"-", "1"}
     /\ \/ /\ end > first
           /\ node' = [node EXCEPT ![item].type = "Number",
                           ![item].value = SubSeq(text, offset, end - 1)]
           /\ offset' = end
           /\ pc' = "value"
           /\ UNCHANGED <<text, input, depth, stack, item, root, str, failed>>
        \/ end = first /\ ReturnsFalse

Opening == {"[", "{"}
Closing  == [open \in Opening |-> IF open = "[" THEN "]" ELSE "}"]
ListType == [open \in Opening |-> IF open = "[" THEN "Array" ELSE "Object"]

(* Slip: one too many. *)
TooDeepOffByOne == depth > CJSON_NESTING_LIMIT

TooDeep == depth >= CJSON_NESTING_LIMIT

(* parse_array and parse_object up to the loop: too deep, empty, or the    *)
(* first item is next.                                                     *)
parse_list ==
  LET open == text[offset]
      inside == buffer_skip_whitespace(text, offset + 1)
  IN /\ pc = "parse_value"
     /\ open \in Opening
     /\ \/ TooDeep /\ ReturnsFalse
        \/ /\ ~TooDeep
           /\ text[inside] = Closing[open]
           /\ node' = [node EXCEPT ![item].type = ListType[open]]
           /\ offset' = inside + 1
           /\ pc' = "value"
           /\ UNCHANGED <<text, input, depth, stack, item, root, str, failed>>
        \/ /\ ~TooDeep
           /\ text[inside] # Closing[open]
           /\ depth' = depth + 1
           /\ stack' = Append(stack, [open |-> open, item |-> item,
                                      head |-> 0, current_item |-> 0])
           /\ offset' = inside - 1
           /\ pc' = "next_item"
           /\ UNCHANGED <<text, input, item, root, heap, failed>>

parse_nothing ==
  /\ pc = "parse_value"
  /\ text[offset] \notin {Literal, Quote, "-", "1", "[", "{"}
  /\ ReturnsFalse

parse_value ==
  \/ parse_literal
  \/ parse_value_string
  \/ parse_number
  \/ parse_list
  \/ parse_nothing

-----------------------------------------------------------------------------
(* The loops of parse_array and parse_object *)

Top == stack[Len(stack)]
Pop == SubSeq(stack, 1, Len(stack) - 1)

(* A new node at the end of the list. *)
Attach(n) ==
  /\ node' = [m \in {n} \cup DOMAIN node |->
                IF m = n THEN [NewItem EXCEPT !.prev = Top.current_item]
                ELSE IF m = Top.current_item THEN [node[m] EXCEPT !.next = n]
                ELSE node[m]]
  /\ stack' = [stack EXCEPT ![Len(stack)] =
                 [Top EXCEPT !.head = IF Top.head = 0 THEN n ELSE Top.head,
                             !.current_item = n]]

next_item ==
  LET n == FreeBlock(node)
  IN /\ pc = "next_item"
     /\ \/ /\ Attach(n)
           /\ offset' = buffer_skip_whitespace(text, offset + 1)
           /\ item' = n
           /\ pc' = IF Top.open = "{" THEN "parse_name" ELSE "parse_value"
           /\ UNCHANGED <<text, input, depth, root, str, failed>>
        \/ /\ pc' = "fail"
           /\ failed' = TRUE
           /\ UNCHANGED <<text, input, offset, depth, stack, item, root, heap>>

(* The name of a member, moved from valuestring to string, and the colon. *)
parse_name ==
  LET colon == buffer_skip_whitespace(text, parse_string(offset).end + 1)
  IN /\ pc = "parse_name"
     /\ \/ /\ StringParsed([node[item] EXCEPT !.string = FreeBlock(str),
                                               !.type = "String"])
           /\ \/ /\ text[colon] = ":"
                 /\ offset' = buffer_skip_whitespace(text, colon + 1)
                 /\ pc' = "parse_value"
              \/ /\ text[colon] # ":"
                 /\ offset' = colon
                 /\ pc' = "fail"
           /\ UNCHANGED <<text, input, depth, stack, item, root>>
        \/ StringFails

(* Slip: the list is not handed to its item. *)
list_ends_unattached ==
  LET here == buffer_skip_whitespace(text, offset)
  IN /\ pc = "value" /\ stack # <<>>
     /\ text[here] = Closing[Top.open]
     /\ node' = [node EXCEPT ![Top.head].prev = Top.current_item,
                             ![Top.item].type = ListType[Top.open]]
     /\ offset' = here + 1
     /\ depth' = depth - 1
     /\ stack' = Pop
     /\ item' = Top.item
     /\ pc' = "value"
     /\ UNCHANGED <<text, input, root, str, failed>>

(* The list is complete: its item gets it as its child, and its first node *)
(* a pointer to its last.                                                  *)
list_ends ==
  LET here == buffer_skip_whitespace(text, offset)
  IN /\ pc = "value" /\ stack # <<>>
     /\ text[here] = Closing[Top.open]
     /\ LET linked == [node EXCEPT ![Top.head].prev = Top.current_item]
        IN node' = [linked EXCEPT ![Top.item].type = ListType[Top.open],
                                  ![Top.item].child = Top.head]
     /\ offset' = here + 1
     /\ depth' = depth - 1
     /\ stack' = Pop
     /\ item' = Top.item
     /\ pc' = "value"
     /\ UNCHANGED <<text, input, root, str, failed>>

(* After an item neither a comma nor the end of the list: an error. *)
list_goes_on ==
  LET here == buffer_skip_whitespace(text, offset)
  IN /\ pc = "value" /\ stack # <<>>
     /\ text[here] # Closing[Top.open]
     /\ offset' = here
     /\ pc' = IF text[here] = "," THEN "next_item" ELSE "fail"
     /\ UNCHANGED <<text, input, depth, stack, item, root, heap, failed>>

(* Slip: the error path of the list returns without deleting it. *)
list_fails_leaking ==
  /\ pc = "fail" /\ stack # <<>>
  /\ stack' = Pop
  /\ UNCHANGED <<pc, text, input, offset, depth, item, root, heap, failed>>

(* An error in a list: delete what there is of it and return false, which  *)
(* is an error in the list around it.  depth is not counted back.          *)
list_fails ==
  /\ pc = "fail" /\ stack # <<>>
  /\ cJSON_Delete(Top.head)
  /\ stack' = Pop
  /\ UNCHANGED <<pc, text, input, offset, depth, item, root, failed>>

parse_array_or_object ==
  \/ next_item
  \/ parse_name
  \/ list_ends
  \/ list_goes_on
  \/ list_fails

-----------------------------------------------------------------------------
(* cJSON_Parse and its caller *)

(* cJSON_ParseWithLengthOpts up to parse_value.  (A byte order mark is not *)
(* one of the units.)                                                      *)
cJSON_Parse(in) ==
  /\ pc = "idle"
  /\ input' = in
  /\ text' = Append(in.text, NUL)
  /\ offset' = buffer_skip_whitespace(text', 1)
  /\ depth' = 0
  /\ LET n == FreeBlock(node)
     IN \/ /\ node' = Put(node, n, NewItem)
           /\ root' = n
           /\ item' = n
           /\ pc' = "parse_value"
           /\ failed' = FALSE
        \/ /\ pc' = "fail"
           /\ failed' = TRUE
           /\ UNCHANGED <<item, root, node>>
  /\ UNCHANGED <<stack, str>>

(* No null terminator is required, so what follows the value is ignored. *)
parse_returns ==
  /\ pc = "value" /\ stack = <<>>
  /\ pc' = "parsed"
  /\ UNCHANGED <<text, input, offset, depth, stack, item, root, heap, failed>>

parse_fails ==
  /\ pc = "fail" /\ stack = <<>>
  /\ cJSON_Delete(root)
  /\ ParseOver

(* app_process_data_loop is done with the tree. *)
app_deletes ==
  /\ pc = "parsed"
  /\ cJSON_Delete(root)
  /\ ParseOver

(* What the rest of the library reads of a string: up to a zero byte. *)
CString(content) ==
  LET zeros == {i \in DOMAIN content : content[i] = "U+00"}
  IN SubSeq(content, 1, Min(zeros \cup {Len(content) + 1}) - 1)

(* case_insensitive_strcmp: tolower of every character. *)
SameName(s, t) ==
  LET lower(u) == IF u = "K" THEN "k" ELSE u
  IN /\ Len(s) = Len(t)
     /\ \A i \in DOMAIN s : lower(s[i]) = lower(t[i])

(* Slip: the case matters. *)
get_object_item_exact(object, name) ==
  LET from[n \in {0} \cup DOMAIN node] ==
        IF n = 0 THEN 0
        ELSE IF /\ node[n].string # 0
                /\ CString(str[node[n].string].content) = name THEN n
        ELSE from[node[n].next]
  IN from[node[object].child]

(* cJSON_GetObjectItem, get_object_item: the first child with the name. *)
get_object_item(object, name) ==
  LET from[n \in {0} \cup DOMAIN node] ==
        IF n = 0 THEN 0
        ELSE IF /\ node[n].string # 0
                /\ SameName(name, CString(str[node[n].string].content)) THEN n
        ELSE from[node[n].next]
  IN from[node[object].child]

JsonNext ==
  \/ \E in \in Inputs : cJSON_Parse(in)
  \/ parse_value
  \/ parse_array_or_object
  \/ parse_returns
  \/ parse_fails
  \/ app_deletes

JsonSpec == JsonInit /\ [][JsonNext]_jsonVars

-----------------------------------------------------------------------------
(* What a tree and a text say, for the properties *)

(* A character of a string as it would be written; a string, from behind   *)
(* its opening quote on; and all of it.                                    *)
Rewritten(u) ==
  IF u = "U+1F600" THEN Pair
  ELSE IF u \in Range(Decoded)
         THEN <<Backslash, CHOOSE e \in DOMAIN Decoded : Decoded[e] = u>>
  ELSE <<u>>

Body(content) ==
  LET from[i \in 1 .. Len(content) + 1] ==
        IF i = Len(content) + 1 THEN <<Quote>>
        ELSE Rewritten(content[i]) \o from[i + 1]
  IN from[1]

Quoted(content) == <<Quote>> \o Body(content)

(* The text of a value, and of one with its name and those after it. *)
ValueText(n, list) ==
  CASE node[n].type = "True"   -> <<Literal>>
    [] node[n].type = "Number" -> node[n].value
    [] node[n].type = "String" -> Quoted(str[node[n].valuestring].content)
    [] node[n].type = "Array"  -> <<"[">> \o list[node[n].child] \o <<"]">>
    [] node[n].type = "Object" -> <<"{">> \o list[node[n].child] \o <<"}">>
    [] OTHER                   -> <<"?">>

Written(n) ==
  LET list[m \in {0} \cup DOMAIN node] ==
        IF m = 0 THEN <<>>
        ELSE (IF node[m].string = 0 THEN <<>>
              ELSE Quoted(str[node[m].string].content) \o <<":">>)
             \o ValueText(m, list)
             \o (IF node[m].next = 0 THEN <<>>
                 ELSE <<",">> \o list[node[m].next])
  IN ValueText(n, list)

(* Outside the strings, in one or behind its backslash: after a unit more. *)
After(where, u) ==
  CASE where = "escape"                -> "in"
    [] where = "in" /\ u = Backslash -> "escape"
    [] where = "in" /\ u = Quote     -> "out"
    [] where = "out" /\ u = Quote    -> "in"
    [] OTHER                           -> where

(* A text without the blanks that are not in a string. *)
WithoutBlanks(t) ==
  LET from[j \in 1 .. Len(t) + 1] ==
        [where \in {"out", "in", "escape"} |->
           IF j = Len(t) + 1 THEN <<>>
           ELSE IF where = "out" /\ t[j] = Blank THEN from[j + 1][where]
           ELSE <<t[j]>> \o from[j + 1][After(where, t[j])]]
  IN from[1]["out"]

-----------------------------------------------------------------------------
(* The JSON texts, for the properties: where what begins at i in the text  *)
(* t ends, as the place of the unit behind it, or 0 if it does not.  They  *)
(* are those of RFC 8259 but that "u0000" need not be four digits.         *)

NextUnit(t, i) == Min({j \in i .. Len(t) : t[j] # Blank})

StringEnd(t, i) ==
  LET end[j \in Nat] ==
        IF j > Len(t) THEN 0
        ELSE IF t[j] = Quote THEN j + 1
        ELSE IF t[j] # Backslash THEN end[j + 1]
        ELSE IF t[j + 1] \in DOMAIN Decoded THEN end[j + 2]
        ELSE IF j + 3 <= Len(t) /\ SubSeq(t, j, j + 3) = Pair THEN end[j + 4]
        ELSE 0
  IN IF t[i] = Quote THEN end[i + 1] ELSE 0

NumberEnd(t, i) ==
  LET first == IF t[i] = "-" THEN i + 1 ELSE i
      end   == Min({j \in first .. Len(t) : t[j] # "1"})
  IN IF end > first THEN end ELSE 0

(* Where the value of an item begins: in an object behind its name. *)
ItemValue(t, i, open) ==
  LET colon == NextUnit(t, StringEnd(t, i))
  IN IF open = "[" THEN i
     ELSE IF StringEnd(t, i) = 0 THEN 0
     ELSE IF t[colon] # ":" THEN 0
     ELSE NextUnit(t, colon + 1)

(* "end" is what is known of the units further on.  An item that begins at *)
(* i, at depth d; ...                                                      *)
ItemEnd(t, end, i, d, open) ==
  LET value == ItemValue(t, i, open)
  IN IF value = 0 THEN 0 ELSE end[value][d]["value"]

(* ... a list of which an item begins there; ...                           *)
ItemsEnd(t, end, i, d, open) ==
  LET rest == ItemEnd(t, end, i, d, open)
  IN IF rest <= i THEN 0 ELSE end[rest][d][open]

(* ... a list of which an item has ended there; ...                        *)
RestEnd(t, end, i, d, open) ==
  LET here == NextUnit(t, i)
      next == NextUnit(t, here + 1)
  IN CASE t[here] = Closing[open] -> here + 1
       [] t[here] = ","           -> ItemsEnd(t, end, next, d, open)
       [] OTHER                   -> 0

(* ... a value.                                                            *)
ValueEnd(t, end, i, d) ==
  LET inside == NextUnit(t, i + 1)
  IN CASE t[i] = Literal      -> i + 1
       [] t[i] = Quote        -> StringEnd(t, i)
       [] t[i] \in {"-", "1"} -> NumberEnd(t, i)
       [] t[i] \in Opening /\ d < CJSON_NESTING_LIMIT ->
            IF t[inside] = Closing[t[i]] THEN inside + 1
            ELSE ItemsEnd(t, end, inside, d + 1, t[i])
       [] OTHER               -> 0

JsonEnds(t) ==
  LET end[i \in 1 .. Len(t)] ==
        [d \in 0 .. CJSON_NESTING_LIMIT |->
           [what \in {"value"} \cup Opening |->
              IF what = "value" THEN ValueEnd(t, end, i, d)
              ELSE RestEnd(t, end, i, d, what)]]
  IN end

JsonEnd(t) == JsonEnds(t)[NextUnit(t, 1)][0]["value"]

-----------------------------------------------------------------------------
(* Properties *)

(* Every block of the heap has one owner that can reach it: the root, the  *)
(* list of a call in progress, or another node.  So a parse that returns   *)
(* NULL, at whatever byte or allocation, leaves nothing on the heap, and   *)
(* cJSON_Delete of its result frees everything, each block once.           *)
Owned ==
  LET heads == [i \in DOMAIN stack |-> stack[i].head]
      NodePointers(n) ==
        (IF root = n THEN 1 ELSE 0)
          + Cardinality({i \in DOMAIN stack : heads[i] = n})
          + Cardinality({m \in DOMAIN node : node[m].next = n})
          + Cardinality({m \in DOMAIN node : node[m].child = n})
      StringPointers(s) ==
        Cardinality({m \in DOMAIN node : node[m].valuestring = s})
          + Cardinality({m \in DOMAIN node : node[m].string = s})
      owned == UNION ({Tree(root)} \cup {Tree(h) : h \in Range(heads)})
  IN /\ owned = DOMAIN node
     /\ \A n \in DOMAIN node : NodePointers(n) = 1
     /\ StringsOf(DOMAIN node) \ {0} = DOMAIN str
     /\ \A s \in DOMAIN str : StringPointers(s) = 1

(* No text makes the parser read behind its terminator: where it is about  *)
(* to read there is a byte, and behind a "[", "{" or "," there is another. *)
ReadsInBuffer ==
  /\ pc \in {"parse_value", "parse_name", "value"} => offset <= Len(text)
  /\ pc = "next_item" => offset < Len(text)

(* What parse_string writes, with the terminator, fits the block it asked  *)
(* for before it knew what the escapes decode to.                          *)
OutputFits ==
  \A s \in DOMAIN str : Bytes(str[s].content) + 1 <= str[s].size

(* What the parser reads and writes is within the text and the blocks.     *)
InBounds == ReadsInBuffer /\ OutputFits

(* The tree says what the text says: written out again it is the text up   *)
(* to where the parser stopped, and its lists are linked both ways.  The   *)
(* strings are whole in their blocks, with what follows a zero byte.       *)
Faithful ==
  pc = "parsed" =>
    /\ Written(root) = WithoutBlanks(SubSeq(text, 1, offset - 1))
    /\ \A n \in DOMAIN node :
         /\ node[n].next # 0 => node[node[n].next].prev = n
         /\ node[n].child # 0 =>
              LET last == node[node[n].child].prev
              IN node[last].next = 0 /\ last \in Tree(node[n].child)

(* A text that starts with a JSON value is refused only for want of heap,  *)
(* and is read to the end of that value; every other one is refused, but   *)
(* for those in which four characters that are no hexadecimal digits       *)
(* follow \u: they are read as the escape of code point 0.                 *)
Accepts ==
  /\ pc = "fail" => failed \/ JsonEnd(text) = 0
  /\ pc = "parsed" => offset = JsonEnd(text)

(* A member is found by its name in any case, and of several with the name *)
(* the one the host wrote first.                                           *)
FindsFirst ==
  pc = "parsed" /\ input.kind = "object" =>
    \A name \in {<<"k">>, <<"K">>} :
      LET found == get_object_item(root, name)
          named == {i \in DOMAIN input.members :
                      SameName(input.members[i].name, name)}
      IN IF named = {} THEN found = 0
         ELSE found # 0 /\ Written(found) = input.members[Min(named)].value
=============================================================================
