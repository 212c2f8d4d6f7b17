----------------------------- MODULE CJsonPrint -----------------------------
(***************************************************************************)
(* main/cJSON.c: the functions that write a tree as text, in a buffer that *)
(* grows or in one that is given, and cJSON_Minify.                        *)
(*                                                                         *)
(* Printing a tree is a sequence of pieces.  Each asks ensure for an       *)
(* amount of room and then writes its text, with a terminator or without;  *)
(* the offset is moved on by the piece itself, or afterwards by            *)
(* update_offset, which looks for the terminator.                          *)
(***************************************************************************)
EXTENDS CJson, SequencesExt

CONSTANT default_buffer_size   \* of cJSON_Print, 256

ASSUME PrintAssumption == default_buffer_size \in Nat \ {0}

Tab     == "tab"
Newline == "newline"
Slash   == "/"
Star    == "*"

-----------------------------------------------------------------------------
(* The buffer *)

(* length: what has been allocated.  offset: in bytes.  text and tail: the *)
(* units before and behind the offset; ends: a terminator is behind them.  *)
(* left: the allocations left before one is refused.  ok: nothing has      *)
(* failed so far; refused: for want of heap.  wild: a byte outside the     *)
(* buffer, or one that was never written, has been touched.                *)
Buffer(length, noalloc, reallocate, left) ==
  [length |-> length, offset |-> 0, text |-> <<>>, tail |-> <<>>,
   ends |-> FALSE, noalloc |-> noalloc, reallocate |-> reallocate,
   left |-> left, block |-> TRUE, ok |-> TRUE, refused |-> FALSE,
   wild |-> FALSE]

Fails(b) == [b EXCEPT !.ok = FALSE]

(* The block is freed when there is no bigger one. *)
Refused(b) ==
  [b EXCEPT !.ok = FALSE, !.refused = TRUE, !.block = FALSE, !.length = 0]

(* With realloc, or else with a copy of everything up to the offset and    *)
(* the byte there.                                                         *)
Grows(b, newsize) ==
  IF b.left = 0 THEN Refused(b)
  ELSE [b EXCEPT !.length = newsize, !.left = @ - 1,
                 !.wild = @ \/ (~b.reallocate /\ b.offset >= b.length)]

(* Sizes are far from INT_MAX. *)
ensure(b, needed) ==
  LET all == needed + b.offset + 1
  IN IF b.length > 0 /\ b.offset >= b.length THEN Fails(b)
     ELSE IF all <= b.length THEN b
     ELSE IF b.noalloc THEN Fails(b)
     ELSE Grows(b, 2 * all)

update_offset(b) ==
  [b EXCEPT !.offset = @ + Bytes(b.tail), !.text = @ \o b.tail,
            !.tail = <<>>, !.wild = @ \/ ~b.ends]

Write(b, piece) ==
  LET size == Bytes(piece.text)
      end  == b.offset + size + IF piece.ends THEN 1 ELSE 0
      wrote == [b EXCEPT !.ends = piece.ends, !.wild = @ \/ end > b.length]
  IN IF piece.moves
       THEN [wrote EXCEPT !.text = @ \o piece.text, !.offset = @ + size,
                          !.tail = <<>>]
       ELSE [wrote EXCEPT !.tail = piece.text]

(* One piece, and update_offset behind it where the code calls it. *)
Step(b, piece) ==
  LET room == ensure(b, piece.needs)
      wrote == Write(room, piece)
  IN IF ~b.ok THEN b
     ELSE IF ~room.ok THEN room
     ELSE IF piece.measured THEN update_offset(wrote)
     ELSE wrote

-----------------------------------------------------------------------------
(* The pieces *)

(* Moves the offset itself; with a terminator or without. *)
Moving(needs, units, ends) ==
  [needs |-> needs, text |-> units, ends |-> ends, moves |-> TRUE,
   measured |-> FALSE]

(* Ends with a terminator and leaves the offset where it is. *)
Staying(needs, units) ==
  [needs |-> needs, text |-> units, ends |-> TRUE, moves |-> FALSE,
   measured |-> FALSE]

(* The caller of print_value or print_string_ptr goes on with              *)
(* update_offset.                                                          *)
Measured(pieces) ==
  [pieces EXCEPT ![Len(pieces)] = [@ EXCEPT !.measured = TRUE]]

Escape ==
  Quote :> Quote @@ Backslash :> Backslash @@ "tab+rue" :> Literal
    @@ "U+01" :> "u01"

Escaped(content) ==
  FlattenSeq([i \in DOMAIN content |->
                IF content[i] \in DOMAIN Escape
                  THEN <<Backslash, Escape[content[i]]>>
                  ELSE <<content[i]>>])

(* Slip: only the escapes of one character are counted. *)
ShortEscapes(content) ==
  Cardinality({i \in DOMAIN content : content[i] \in DOMAIN Escape})

(* The first loop of print_string_ptr. *)
escape_characters(content) ==
  LET count(S) == Cardinality({i \in DOMAIN content : content[i] \in S})
  IN count({Quote, Backslash, "tab+rue"}) + 5 * count({"U+01"})

print_string_ptr(s) ==
  LET content == IF s = 0 THEN <<>> ELSE CString(str[s].content)
  IN Staying(Bytes(content) + escape_characters(content) + 3,
             <<Quote>> \o Escaped(content) \o <<Quote>>)

(* The digits come back as they were read: no fractions, no NaN. *)
print_number(digits) == Moving(Len(digits) + 1, digits, TRUE)

Repeat(unit, times) == [i \in 1 .. times |-> unit]
If(yes, units) == IF yes THEN units ELSE <<>>

(* An item of an array, whose pieces are given: the comma, if one follows. *)
ArrayItem(m, value, format) ==
  LET comma == <<",">> \o If(format, <<" ">>)
  IN Measured(value)
       \o If(node[m].next # 0, <<Moving(Len(comma) + 1, comma, TRUE)>>)

print_array(items) ==
  <<Moving(1, <<"[">>, FALSE)>> \o items \o <<Staying(2, <<"]">>)>>

(* A member of an object, at the depth d: the tabs, the name, the colon,   *)
(* the value, and the end of the line.                                     *)
ObjectMember(m, value, d, format) ==
  LET colon == <<":">> \o If(format, <<Tab>>)
      end   == If(node[m].next # 0, <<",">>) \o If(format, <<Newline>>)
  IN If(format, <<Moving(d, Repeat(Tab, d), FALSE)>>)
       \o Measured(<<print_string_ptr(node[m].string)>>)
       \o <<Moving(Len(colon), colon, FALSE)>>
       \o Measured(value)
       \o <<Moving(Len(end) + 1, end, TRUE)>>

print_object(members, d, format) ==
  LET begin == <<"{">> \o If(format, <<Newline>>)
      end   == If(format, Repeat(Tab, d - 1)) \o <<"}">>
  IN <<Moving(Len(begin) + 1, begin, FALSE)>>
       \o members
       \o <<Staying(IF format THEN d + 1 ELSE 2, end)>>

(* The pieces of a value whose lists, if it has any, are at the depth d.   *)
print_value(n, format) ==
  LET Value(m, d, List(_, _, _)) ==
        LET type == node[m].type
        IN CASE type = "True"   -> <<Staying(5, <<Literal>>)>>
             [] type = "Number" -> <<print_number(node[m].value)>>
             [] type = "String" -> <<print_string_ptr(node[m].valuestring)>>
             [] type = "Array"  -> print_array(List(node[m].child, d, type))
             [] type = "Object" ->
                  print_object(List(node[m].child, d, type), d, format)
      depths == 1 .. CJSON_NESTING_LIMIT + 1
      list[m \in {0} \cup DOMAIN node, d \in depths,
           type \in {"Array", "Object"}] ==
        LET List(c, e, t) == list[c, e, t]
            value == Value(m, d + 1, List)
        IN IF m = 0 THEN <<>>
           ELSE (IF type = "Array" THEN ArrayItem(m, value, format)
                 ELSE ObjectMember(m, value, d, format))
                \o list[node[m].next, d, type]
      List(c, e, t) == list[c, e, t]
  IN Value(n, 1, List)

-----------------------------------------------------------------------------
(* The callers: what is returned, NULL being a buffer with ok FALSE *)

Freed(b) == IF b.ok THEN b ELSE [b EXCEPT !.block = FALSE]

cJSON_PrintBuffered(pieces, prebuffer, reallocate, left) ==
  LET b == Buffer(prebuffer, FALSE, reallocate, left - 1)
  IN IF left = 0 THEN Refused(Buffer(0, FALSE, reallocate, 0))
     ELSE Freed(FoldLeft(Step, b, pieces))

cJSON_PrintPreallocated(pieces, length) ==
  FoldLeft(Step, Buffer(length, TRUE, TRUE, 0), pieces)

(* cJSON_Print, cJSON_PrintUnformatted: in the end the text gets a block   *)
(* of its size.                                                            *)
print(pieces, reallocate, left) ==
  LET b == cJSON_PrintBuffered(Measured(pieces), default_buffer_size,
                               reallocate, left)
  IN IF ~b.ok THEN b
     ELSE IF b.left = 0 THEN Refused(b)
     ELSE [b EXCEPT !.length = b.offset + 1, !.left = @ - 1]

-----------------------------------------------------------------------------
(* cJSON_Minify *)

(* Behind the comment whose first two characters are at i. *)
skip_oneline_comment(t, i) ==
  Min({j + 1 : j \in {k \in i + 2 .. Len(t) : t[k] = Newline}} \cup {Len(t)})

skip_multiline_comment(t, i) ==
  Min({j + 2 : j \in {k \in i + 2 .. Len(t) - 1 :
                        t[k] = Star /\ t[k + 1] = Slash}} \cup {Len(t)})

(* Slip: a quote ends the string, escaped or not. *)
MinifyToQuote(t, i) ==
  Min({j + 1 : j \in {k \in i + 1 .. Len(t) : t[k] = Quote}} \cup {Len(t)})

(* Behind the string that begins at i, or at the terminator.  A quote      *)
(* behind a backslash does not end it, even if the backslash is escaped.   *)
minify_string(t, i) ==
  Min({j + 1 : j \in {k \in i + 1 .. Len(t) :
                        t[k] = Quote /\ t[k - 1] # Backslash}}
        \cup {Len(t)})

cJSON_Minify(t) ==
  LET from[i \in 1 .. Len(t)] ==
        CASE t[i] = NUL -> <<>>
          [] t[i] \in {Blank, Tab, Newline} -> from[i + 1]
          [] t[i] = Slash ->
               from[CASE t[i + 1] = Slash -> skip_oneline_comment(t, i)
                      [] t[i + 1] = Star  -> skip_multiline_comment(t, i)
                      [] OTHER -> i + 1]
          [] t[i] = Quote ->
               LET behind == minify_string(t, i)
               IN SubSeq(t, i, behind - 1) \o from[behind]
          [] OTHER -> <<t[i]>> \o from[i + 1]
  IN from[1]

-----------------------------------------------------------------------------
(* Properties *)

(* Every way to print the tree that was parsed, with a buffer that may     *)
(* have to grow: the hooks with realloc and without, enough heap and not.  *)
(* (Without realloc a buffer of no bytes grows by copying one byte of it.) *)
Printed(pieces) ==
  LET hooks == ({TRUE} \X (0 .. 2)) \cup (BOOLEAN \X {99})
  IN {print(pieces, h[1], h[2]) : h \in hooks}
       \cup {cJSON_PrintBuffered(pieces, n, h[1], h[2]) :
               n \in 0 .. 1, h \in hooks \ {<<FALSE, 99>>}}
       \cup {cJSON_PrintBuffered(pieces, 1, FALSE, 99)}

(* Printing touches no byte outside its buffer and none that has not been  *)
(* written; a print that fails has been refused a block and has freed the  *)
(* one it had.  A buffer that is given is enough if it has one byte more   *)
(* than the text and its terminator, and not if it has not (cJSON.h        *)
(* advises five).                                                          *)
PrintFits ==
  pc = "parsed" =>
    \A format \in BOOLEAN :
      LET pieces == print_value(root, format)
          size == print(pieces, TRUE, 99).length
      IN /\ \A b \in Printed(pieces) :
              ~b.wild /\ (b.ok \/ (b.refused /\ ~b.block))
         /\ \A length \in size - 1 .. size + 1 :
              LET b == cJSON_PrintPreallocated(pieces, length)
              IN ~b.wild /\ (b.ok <=> length > size)

(* A text with its Unicode escapes replaced by what they stand for, except *)
(* those of control characters, and without the rest of a string behind a  *)
(* zero byte ("cut").                                                      *)
Unescaped(t) ==
  LET kept == DOMAIN Escape
      from[i \in Nat, cut \in BOOLEAN] ==
        CASE i > Len(t) -> <<>>
          [] i <= Len(t) /\ t[i] = Quote -> <<Quote>> \o from[i + 1, FALSE]
          [] i <= Len(t) /\ t[i] \notin {Quote, Backslash} ->
               If(~cut, <<t[i]>>) \o from[i + 1, cut]
          [] i < Len(t) /\ t[i] = Backslash ->
               LET e == t[i + 1]
                   zero == e = "u0000"
                   units == CASE e = Pair[2]            -> <<"U+1F600">>
                              [] e = Pair[4] \/ zero     -> <<>>
                              [] Decoded[e] \in kept -> <<Backslash, e>>
                              [] OTHER                  -> <<Decoded[e]>>
               IN If(~cut, units) \o from[i + 2, cut \/ zero]
  IN from[1, FALSE]

(* A tree that was parsed is printed as the text it was parsed from, with  *)
(* other blanks, with characters in place of their escapes, and with its   *)
(* strings up to their first zero byte.                                    *)
PrintSays ==
  pc = "parsed" =>
    LET parsed == SubSeq(text, 1, offset - 1)
        visible(u) == u \notin {Tab, Newline}
    IN \A format \in BOOLEAN : \A b \in Printed(print_value(root, format)) :
         b.ok => WithoutBlanks(SelectSeq(b.text \o b.tail, visible))
                   = Unescaped(WithoutBlanks(parsed))

(* What is printed is right, and where it belongs.                         *)
PrintsRight == PrintFits /\ PrintSays

(* A text with the comment in place of each blank outside of its strings,  *)
(* and a terminator.                                                       *)
Commented(t, comment) ==
  LET from[i \in 1 .. Len(t) + 1] ==
        [out \in BOOLEAN |->
           LET turns == t[i] = Quote /\ (out \/ t[i - 1] # Backslash)
           IN IF i = Len(t) + 1 THEN <<NUL>>
              ELSE IF out /\ t[i] = Blank THEN comment \o from[i + 1][out]
              ELSE <<t[i]>> \o from[i + 1][out # turns]]
  IN from[1][TRUE]

Comments == {<<Blank>>, <<Slash, Star, Quote, Star, Star, Slash>>,
             <<Slash, Slash, Quote, Slash, Star, Newline, Tab>>}

(* There is a string that ends in an escaped backslash. *)
Misread(t) ==
  \E i \in 3 .. Len(t) :
    SubSeq(t, i - 2, i) = <<Backslash, Backslash, Quote>>

(* cJSON_Minify takes the blanks and the comments out of a text and leaves *)
(* its strings alone, as long as no string ends in an escaped backslash:   *)
(* the function takes the quote behind that for an escaped one.            *)
MinifyKeepsStrings ==
  pc = "parsed" =>
    LET parsed == SubSeq(text, 1, offset - 1)
    IN ~Misread(parsed) =>
         \A comment \in Comments :
           cJSON_Minify(Commented(parsed, comment)) = WithoutBlanks(parsed)
=============================================================================
