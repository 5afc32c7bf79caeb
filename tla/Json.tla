--------------------------------- MODULE Json ---------------------------------
(***************************************************************************)
(* How the programs take a value out of a JSON text.  There are three      *)
(* readers of an object's members: exo_json_find for the arguments of an   *)
(* MCP call ("exo", src/common/exo.c), json_field of exomind for a request *)
(* ("core", src/src/util.c), and the json_field of exoqms for its          *)
(* configuration and the findings of its rules ("qms",                     *)
(* src/exoqms/src/util.c); and one of the strings in an array,             *)
(* json_arr_strings, for /batch ("array").                                 *)
(*                                                                         *)
(* A text is a sequence of characters; "E9" stands for the four digits of  *)
(* an escaped character.                                                   *)
(***************************************************************************)
EXTENDS Integers, Sequences
LOCAL INSTANCE SequencesExt

CONSTANTS
    Documents,  \* [program, doc, key, blanks]
    None

VARIABLES
    asked, text,
    at,     \* how far the text has been read; 0: to the end
    got     \* what was found: a text, or for an array the strings so far

vars == <<asked, text, at, got>>

Quote == "\""
Back == "\\"

-----------------------------------------------------------------------------
(***************************************************************************)
(* A document as its author means it, and the text the author writes:      *)
(*   [t |-> "string", s], [t |-> "raw", s],                                *)
(*   [t |-> "array", e], [t |-> "object", m], a member is <<key, value>>.  *)
(***************************************************************************)
Escaped(c) ==
    CASE c \in {Quote, Back} -> <<Back, c>>
      [] c = "newline"   -> <<Back, "n">>
      [] c = "backspace" -> <<Back, "b">>
      [] c = "accent"    -> <<Back, "u", "E9">>
      [] OTHER -> <<c>>
Quoted(s) == <<Quote>> \o FlattenSeq([i \in DOMAIN s |-> Escaped(s[i])]) \o <<Quote>>

RECURSIVE Text(_, _)
Separated(parts, blank) ==
    FlattenSeq([i \in DOMAIN parts |->
        parts[i] \o blank \o (IF i < Len(parts) THEN <<",">> \o blank ELSE <<>>)])
Text(v, blank) ==
    CASE v.t = "string" -> Quoted(v.s)
      [] v.t = "raw"    -> v.s
      [] v.t = "array"  ->
            <<"[">> \o Separated([i \in DOMAIN v.e |-> Text(v.e[i], blank)], blank) \o <<"]">>
      [] v.t = "object" ->
            <<"{">> \o Separated([i \in DOMAIN v.m |->
                        Quoted(v.m[i][1]) \o blank \o <<":">> \o blank \o Text(v.m[i][2], blank)],
                     blank) \o <<"}">>

Blank(a) == IF a.blanks THEN <<" ">> ELSE <<>>

Init ==
    /\ asked \in Documents
    /\ text = Text(asked.doc, Blank(asked))
    /\ at = 2   \* behind the bracket that opens it
    /\ got = IF asked.program = "array" THEN <<>> ELSE None

-----------------------------------------------------------------------------
(* Places in the text *)

RECURSIVE First(_, _)
First(i, S) == IF i > Len(text) \/ text[i] \in S THEN i ELSE First(i + 1, S)

RECURSIVE skip_ws(_)
skip_ws(i) == IF i <= Len(text) /\ text[i] = " " THEN skip_ws(i + 1) ELSE i

(* the quote that ends the string whose inside begins at i *)
RECURSIVE StringEnd(_)
StringEnd(i) ==
    CASE i > Len(text) \/ text[i] = Quote -> i
      [] text[i] = Back -> StringEnd(i + 2)
      [] OTHER -> StringEnd(i + 1)

Opening == {"[", "{"}
Closing == {"]", "}"}

(* behind the bracket that closes depth of them; strings are passed over,  *)
(* or not                                                                  *)
RECURSIVE BlockEnd(_, _, _, _, _)
BlockEnd(i, opens, closes, depth, strings) ==
    CASE i > Len(text) -> i
      [] strings /\ text[i] = Quote ->
            BlockEnd(StringEnd(i + 1) + 1, opens, closes, depth, strings)
      [] text[i] \in opens -> BlockEnd(i + 1, opens, closes, depth + 1, strings)
      [] text[i] \in closes ->
            IF depth = 1 THEN i + 1 ELSE BlockEnd(i + 1, opens, closes, depth - 1, strings)
      [] OTHER -> BlockEnd(i + 1, opens, closes, depth, strings)

(* the comma behind the value at i, or 0 *)
RECURSIVE NextComma(_, _)
NextComma(i, depth) ==
    CASE i > Len(text) -> 0
      [] text[i] = Quote -> NextComma(StringEnd(i + 1) + 1, depth)
      [] text[i] \in Opening -> NextComma(i + 1, depth + 1)
      [] text[i] \in Closing -> IF depth = 0 THEN 0 ELSE NextComma(i + 1, depth - 1)
      [] text[i] = "," /\ depth = 0 -> i
      [] OTHER -> NextComma(i + 1, depth)

(* behind the value at i: only brackets of its own kind count *)
json_skip_value(i) ==
    CASE text[i] = Quote -> StringEnd(i + 1) + 1
      [] text[i] \in Opening ->
            BlockEnd(i, {text[i]}, {IF text[i] = "[" THEN "]" ELSE "}"}, 0, TRUE)
      [] OTHER -> First(i, {",", " "} \cup Closing)

Slice(i, j) == SubSeq(text, i, j - 1)

-----------------------------------------------------------------------------
(* Values *)

(* json_parse_string, or json_str_decode, which leaves what it does not    *)
(* know as it is                                                           *)
RECURSIVE Decoded(_, _, _)
Decoded(i, j, all) ==
    IF i >= j THEN <<>>
    ELSE IF text[i] # Back THEN <<text[i]>> \o Decoded(i + 1, j, all)
    ELSE LET e == text[i + 1]
         IN  CASE e \in {Quote, Back} -> <<e>> \o Decoded(i + 2, j, all)
               [] e = "n" -> <<"newline">> \o Decoded(i + 2, j, all)
               [] e = "b" /\ all -> <<"backspace">> \o Decoded(i + 2, j, all)
               [] e = "u" /\ all -> <<"accent">> \o Decoded(i + 3, j, all)
               [] OTHER -> <<Back, e>> \o Decoded(i + 2, j, all)
StringAt(i, all) == Decoded(i + 1, StringEnd(i + 1), all)

ExoValue(i) ==
    CASE text[i] = Quote -> StringAt(i, FALSE)
      [] text[i] \in Opening -> Slice(i, BlockEnd(i, Opening, Closing, 0, TRUE))
      [] OTHER -> Slice(i, First(i, {",", " "} \cup Closing))

CoreValue(i) ==
    IF text[i] = Quote THEN StringAt(i, TRUE) ELSE Slice(i, First(i, {","} \cup Closing))

(* brackets in strings count as well *)
QmsValue(i) ==
    IF text[i] \in Opening THEN Slice(i, BlockEnd(i, Opening, Closing, 0, FALSE))
                           ELSE CoreValue(i)

ValueAt(i) ==
    CASE asked.program = "exo"  -> ExoValue(i)
      [] asked.program = "core" -> CoreValue(i)
      [] asked.program = "qms"  -> QmsValue(i)

-----------------------------------------------------------------------------
(* One member, or one element, at a time *)

(* past blanks and commas *)
NextIn(i) == First(i, ToSet(text) \ {" ", ","})
Key == IF asked.program = "exo" THEN skip_ws(at) ELSE NextIn(at)

Member ==
    /\ asked.program # "array" /\ at > 0 /\ Key <= Len(text) /\ text[Key] = Quote
    /\ LET close == StringEnd(Key + 1)
           value == skip_ws(skip_ws(close + 1) + 1)   \* behind the colon
           exo   == asked.program = "exo"
           name  == IF exo THEN Slice(Key + 1, close) ELSE StringAt(Key, TRUE)
           comma == NextComma(value, 0)
       IN  IF name = asked.key
           THEN got' = ValueAt(value) /\ at' = 0
           ELSE /\ at' = CASE ~exo -> json_skip_value(value)
                           [] exo /\ comma > 0 -> comma + 1
                           [] OTHER -> 0
                /\ UNCHANGED got
    /\ UNCHANGED <<asked, text>>

(* json_array_each, and of json_arr_strings what it keeps *)
Element ==
    /\ asked.program = "array" /\ at > 0
    /\ LET i == NextIn(at)
       IN  IF text[i] = "]" THEN at' = 0 /\ UNCHANGED got
           ELSE /\ at' = json_skip_value(i)
                /\ got' = IF text[i] = Quote THEN Append(got, StringAt(i, TRUE)) ELSE got
    /\ UNCHANGED <<asked, text>>

End ==
    /\ asked.program # "array" /\ at > 0
    /\ Key > Len(text) \/ text[Key] # Quote
    /\ at' = 0
    /\ UNCHANGED <<asked, text, got>>

Next == Member \/ Element \/ End

Spec == Init /\ [][Next]_vars

-----------------------------------------------------------------------------
Meant ==
    LET with == SelectSeq(asked.doc.m, LAMBDA m : m[1] = asked.key)
    IN  IF with = <<>> THEN [t |-> "none"] ELSE Head(with)[2]

Strings(v) ==
    LET in(w) == IF w.t = "string" THEN {w.s} ELSE {}
    IN  CASE v.t = "array"  -> UNION {in(v.e[i]) : i \in DOMAIN v.e}
          [] v.t = "object" -> UNION {{v.m[i][1]} \cup in(v.m[i][2]) : i \in DOMAIN v.m}
          [] OTHER -> {}
HasOneOf(s, C) == \E i \in DOMAIN s : s[i] \in C

(* what a reader is made for: exo_json_find for keys and strings without   *)
(* rare escapes, json_field of exomind for scalars, that of exoqms for     *)
(* structures whose strings have no brackets                               *)
Within ==
    CASE asked.program = "exo" ->
            /\ ~HasOneOf(asked.key, {Quote, Back})
            /\ Meant.t = "string" => ~HasOneOf(Meant.s, {"backspace", "accent"})
      [] asked.program = "core" -> Meant.t \notin {"array", "object"}
      [] asked.program = "qms" ->
            \A s \in Strings(Meant) : ~HasOneOf(s, Opening \cup Closing)

Unblank(s) == SelectSeq(s, LAMBDA c : c # " ")

(***************************************************************************)
(* What a reader finds is the value of the first member of that name,      *)
(* whatever the members and strings before it look like; and it finds      *)
(* nothing only when there is none.                                        *)
(***************************************************************************)
FindsMeant ==
    at = 0 /\ asked.program # "array" /\ Within =>
        CASE Meant.t = "none"   -> got = None
          [] Meant.t = "string" -> got = Meant.s
          [] OTHER -> got # None /\ Unblank(got) = Unblank(Text(Meant, Blank(asked)))

(***************************************************************************)
(* /batch: the operands are the strings of the array, in order; an element *)
(* of another kind is passed over, with all the strings in it.             *)
(***************************************************************************)
StringsInOrder ==
    at = 0 /\ asked.program = "array" =>
        LET strings == SelectSeq(asked.doc.e, LAMBDA v : v.t = "string")
        IN  got = [i \in DOMAIN strings |-> strings[i].s]

(***************************************************************************)
(* What none of the readers keeps to: it finds the value whatever it is.   *)
(***************************************************************************)
FindsAnything ==
    at = 0 /\ asked.program # "array" =>
        CASE Meant.t = "none"   -> got = None
          [] Meant.t = "string" -> got = Meant.s
          [] OTHER -> got = Text(Meant, Blank(asked))
=============================================================================
