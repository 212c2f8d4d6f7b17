------------------------------ MODULE MCCJson ------------------------------
(***************************************************************************)
(* An instance of CJsonPrint, and so of CJson, for TLC: texts that start   *)
(* with a JSON value; the same with one unit wrong; and all short texts.   *)
(***************************************************************************)
EXTENDS CJsonPrint

InQuotes(t) == <<Quote>> \o t \o <<Quote>>

Strings == {InQuotes(t) : t \in
  {<<>>, <<" ">>, <<"}">>, <<Literal>>, <<Backslash, Quote>>,
   <<Backslash, Backslash>>,
   <<Backslash, "u41", "k", Backslash, "u20AC", Backslash, "u01">>,
   <<"k", Backslash, "u0000", Backslash, Quote, "k">>,
   <<Backslash, Literal>> \o Pair}}

Scalars == {<<Literal>>, <<"1">>, <<"-", "1", "1">>} \cup Strings

ArraysOf(V) ==
  {<<"[", "]">>}
    \cup {<<"[">> \o v \o <<"]">> : v \in V}
    \cup {<<"[">> \o v \o <<",">> \o w \o <<"]">> : v, w \in V}

(* Lists of up to two members, and their texts. *)
ListsOf(V) ==
  LET members == [name : {<<>>, <<"k">>, <<"K">>}, value : V]
  IN {<<>>} \cup {<<m>> : m \in members} \cup (members \X members)

MemberText(m) == InQuotes(m.name) \o <<":">> \o m.value

ObjectText(l) ==
  CASE l = <<>>   -> <<"{", "}">>
    [] Len(l) = 1 -> <<"{">> \o MemberText(l[1]) \o <<"}">>
    [] OTHER      -> <<"{">> \o MemberText(l[1]) \o <<",">> \o MemberText(l[2])
                       \o <<"}">>

(* With blanks around the punctuation, and something behind the value. *)
Spread(t) ==
  LET from[j \in Nat] ==
        IF j > Len(t) THEN <<"}">>
        ELSE IF t[j] \in {"{", "}", "[", "]", ":", ","}
               THEN <<" ", t[j], " ">> \o from[j + 1]
        ELSE <<t[j]>> \o from[j + 1]
  IN from[1]

Lists == ListsOf({<<Literal>>, InQuotes(<<"k">>)})
Inner ==
  ArraysOf({<<Literal>>}) \cup {ObjectText(l) : l \in ListsOf({<<"1">>})}

Values ==
  Scalars \cup ArraysOf(Scalars) \cup ArraysOf(Inner)
    \cup {ObjectText(l) : l \in Lists}
    \cup {ObjectText(l) : l \in ListsOf({<<"{", "}">>, <<"[", "1", "]">>})}
    \cup {Spread(t) : t \in ArraysOf(Inner)}
    \cup {<<"[", "[", "[", "1", "]", "]", "]">>}

(* One unit missing, or another in its place. *)
Corrupted(t) ==
  {SubSeq(t, 1, i - 1) \o SubSeq(t, i + 1, Len(t)) : i \in DOMAIN t}
    \cup {[t EXCEPT ![i] = u] :
            i \in DOMAIN t, u \in {",", "-", Backslash, Quote}}

Short == UNION {[1 .. n -> Units] : n \in 0 .. 3}

(* Deeper than a limit of three allows. *)
Deep == {<<"[", "[", "[", "[", "]", "]", "]", "]">>,
         <<"[", "[", "[", "[", "1", "]", "]", "]", "]">>,
         <<"[", "{", Quote, Quote, ":", "[", "[", "]", "]", "}", "]">>}

Others ==
  Short \cup Deep
    \cup UNION {Corrupted(t) : t \in Inner \cup Strings}
    \cup UNION {Corrupted(ObjectText(l)) : l \in Lists}

TheInputs ==
  {[text |-> Spread(ObjectText(l)), kind |-> "object", members |-> l] :
     l \in Lists}
    \cup {[text |-> t, kind |-> "any", members |-> <<>>] :
            t \in Values \cup Others}
=============================================================================
