------------------------------- MODULE QtJson -------------------------------
(***************************************************************************)
(* QtJson: the text of a value and the value of a text.                    *)
(*                                                                         *)
(* A text is a sequence of characters; "\b" is written "backspace" and a   *)
(* character given by its number "U+".  A QVariant is a record whose one   *)
(* field names its type.  A double is kept as the text it is printed as; a *)
(* number above MaxNumber stands for one that fits in no integer type.     *)
(***************************************************************************)
EXTENDS Integers, Sequences, SequencesExt

CONSTANT MaxNumber
ASSUME QtJsonAssumption == MaxNumber \in Nat

Quote == "\""
Backslash == "\\"
Space == {" ", "\t", "\n", "\r"}
Digit == <<"0", "1", "2", "3", "4", "5", "6", "7", "8", "9">>
Digits == ToSet(Digit)
Spelled == [true |-> <<"t", "r", "u", "e">>, false |-> <<"f", "a", "l", "s", "e">>,
            null |-> <<"n", "u", "l", "l">>]
Structural == {"{", "}", "[", "]", ",", ":", Quote}

Valid(v) == "invalid" \notin DOMAIN v
Null == [invalid |-> TRUE]
Is(v, type) == type \in DOMAIN v

-----------------------------------------------------------------------------
(* serialize *)

(* A plausible slip: only quotes are escaped. *)
sanitizeQuotes(s) ==
    <<Quote>> \o FlattenSeq([i \in DOMAIN s |-> IF s[i] = Quote THEN <<Backslash, s[i]>> ELSE <<s[i]>>])
        \o <<Quote>>

sanitizeString(s) ==
    LET escaped(c) ==
            CASE c \in {Backslash, Quote} -> <<Backslash, c>>
              [] c = "backspace" -> <<Backslash, "b">>
              [] c = "\f" -> <<Backslash, "f">>
              [] c = "\n" -> <<Backslash, "n">>
              [] c = "\r" -> <<Backslash, "r">>
              [] c = "\t" -> <<Backslash, "t">>
              [] OTHER -> <<c>>
    IN <<Quote>> \o FlattenSeq([i \in DOMAIN s |-> escaped(s[i])]) \o <<Quote>>

RECURSIVE Decimal(_)
Decimal(n) == (IF n < 10 THEN <<>> ELSE Decimal(n \div 10)) \o <<Digit[(n % 10) + 1]>>

(* A plausible slip: the separator is left out.                             *)
joinBare(list) == FlattenSeq(list)

RECURSIVE join(_)
join(list) ==
    IF list = <<>> THEN <<>>
    ELSE Head(list) \o (IF Tail(list) = <<>> THEN <<>> ELSE <<",">> \o join(Tail(list)))

RECURSIVE serialize(_)
serialize(v) ==
    CASE Is(v, "invalid") -> Spelled.null
      [] Is(v, "list") -> <<"[">> \o join([i \in DOMAIN v.list |-> serialize(v.list[i])]) \o <<"]">>
      [] Is(v, "map") ->
            LET keys == SetToSeq(DOMAIN v.map)
            IN <<"{">> \o join([i \in DOMAIN keys |->
                    sanitizeString(keys[i]) \o <<":">> \o serialize(v.map[keys[i]])]) \o <<"}">>
      [] Is(v, "string") -> sanitizeString(v.string)
      [] Is(v, "double") ->
            v.double \o (IF {".", "e"} \cap ToSet(v.double) = {} THEN <<".", "0">> ELSE <<>>)
      [] Is(v, "bool") -> IF v.bool THEN Spelled.true ELSE Spelled.false
      [] Is(v, "number") ->
            IF v.number < 0 THEN <<"-">> \o Decimal(-v.number) ELSE Decimal(v.number)

-----------------------------------------------------------------------------
(* parse.  A position is an index into the text; the end is Len(t) + 1.    *)

eatWhitespace(t, i) ==
    CHOOSE j \in i..Len(t) + 1 :
        /\ j > Len(t) \/ t[j] \notin Space
        /\ \A k \in i..j - 1 : t[k] \in Space

nextToken(t, i) ==
    LET j == eatWhitespace(t, i) IN
    CASE j > Len(t) -> [token |-> "none", index |-> j]
      [] j <= Len(t) ->
            CASE t[j] \in Structural -> [token |-> t[j], index |-> j + 1]
              [] t[j] \in Digits \cup {"-"} -> [token |-> "number", index |-> j + 1]
              [] OTHER ->
                    LET words == {w \in DOMAIN Spelled : IsPrefix(Spelled[w], SubSeq(t, j, Len(t)))}
                    IN IF words = {} THEN [token |-> "none", index |-> j]
                       ELSE LET w == CHOOSE w \in words : TRUE
                            IN [token |-> w, index |-> j + Len(Spelled[w])]

lookAhead(t, i) == nextToken(t, i).token

Accepted(v, i) == [value |-> v, index |-> i, success |-> TRUE]
Rejected(v, i) == [value |-> v, index |-> i, success |-> FALSE]

Escape(c) ==
    CASE c \in {Quote, Backslash, "/"} -> <<c>>
      [] c = "f" -> <<"\f">>
      [] c = "n" -> <<"\n">>
      [] c = "r" -> <<"\r">>
      [] c = "t" -> <<"\t">>
      [] c = "b" -> <<"backspace">>
      [] OTHER -> <<>>

RECURSIVE StringFrom(_, _, _)
StringFrom(t, i, s) ==
    CASE i > Len(t) -> Rejected(Null, i)
      [] i <= Len(t) ->
            CASE t[i] = Quote -> Accepted([string |-> s], i + 1)
              [] t[i] = Backslash ->
                    IF i = Len(t) THEN Rejected(Null, i + 1)
                    ELSE IF t[i + 1] # "u" THEN StringFrom(t, i + 2, s \o Escape(t[i + 1]))
                    ELSE IF Len(t) - i - 1 >= 4 THEN StringFrom(t, i + 6, Append(s, "U+"))
                    ELSE Rejected(Null, i + 2)
              [] OTHER -> StringFrom(t, i + 1, Append(s, t[i]))

(* The first symbol is skipped, whatever it is. *)
parseString(t, i) == StringFrom(t, eatWhitespace(t, i) + 1, <<>>)

NumberSymbol == Digits \cup {"+", "-", ".", "e", "E"}

lastIndexOfNumber(t, i) ==
    CHOOSE j \in i - 1..Len(t) :
        /\ \A k \in i..j : t[k] \in NumberSymbol
        /\ j = Len(t) \/ t[j + 1] \notin NumberSymbol

Valued(digits) ==
    FoldLeft(LAMBDA n, d : 10 * n + (CHOOSE k \in 0..9 : Digit[k + 1] = d), 0, digits)

(* The double a text with a point stands for, as it is printed; 0 when the *)
(* text is no number.                                                      *)
Printed(text) ==
    LET sign == IF text[1] = "-" THEN <<"-">> ELSE <<>>
        body == SubSeq(text, Len(sign) + 1, Len(text))
        dot == CHOOSE k \in DOMAIN body : body[k] = "."
        zeros(s) == CHOOSE k \in 0..Len(s) :
                        /\ \A n \in 1..k : s[n] = "0"
                        /\ k = Len(s) \/ s[k + 1] # "0"
        whole == SubSeq(body, 1, dot - 1)
        high == SubSeq(whole, zeros(whole) + 1, Len(whole))
        tail == Reverse(SubSeq(body, dot + 1, Len(body)))
        low == Reverse(SubSeq(tail, zeros(tail) + 1, Len(tail)))
    IN IF ToSet(whole \o tail) \subseteq Digits /\ Len(body) > 1
       THEN sign \o (IF high = <<>> THEN <<"0">> ELSE high)
                 \o (IF low = <<>> THEN <<>> ELSE <<".">> \o low)
       ELSE <<"0">>

parseNumber(t, i) ==
    LET j == eatWhitespace(t, i)
        last == lastIndexOfNumber(t, j)
        text == SubSeq(t, j, last)
        negative == text[1] = "-"
        digits == IF negative THEN Tail(text) ELSE text
        fits == /\ digits # <<>> /\ ToSet(digits) \subseteq Digits
                /\ Valued(digits) <= MaxNumber
    IN Accepted(CASE "." \in ToSet(text) -> [double |-> Printed(text)]
                [] "." \notin ToSet(text) /\ fits ->
                        [number |-> IF negative THEN -Valued(digits) ELSE Valued(digits)]
                [] "." \notin ToSet(text) /\ ~fits -> [string |-> text],
              last + 1)

RECURSIVE parseValue(_, _), ObjectFrom(_, _, _), ArrayFrom(_, _, _)
parseValue(t, i) ==
    LET next == nextToken(t, i) IN
    CASE next.token = Quote -> parseString(t, i)
      [] next.token = "number" -> parseNumber(t, i)
      [] next.token = "{" -> ObjectFrom(t, next.index, <<>>)
      [] next.token = "[" -> ArrayFrom(t, next.index, <<>>)
      [] next.token \in {"true", "false"} -> Accepted([bool |-> next.token = "true"], next.index)
      [] next.token = "null" -> Accepted(Null, next.index)
      [] OTHER -> Rejected(Null, i)

Put(map, key, v) == [k \in DOMAIN map \cup {key} |-> IF k = key THEN v ELSE map[k]]

(* A plausible slip: an object that stops short is taken as far as it goes. *)
ObjectUnfinished(t, i, map) ==
    LET next == nextToken(t, i) IN
    IF next.token = "none" \/ next.token = "}" THEN Accepted([map |-> map], next.index)
    ELSE Rejected([map |-> <<>>], i)

(* The loop of parseObject: commas are skipped wherever they stand. *)
ObjectFrom(t, i, map) ==
    LET next == nextToken(t, i)
        name == parseString(t, i)
        colon == nextToken(t, name.index)
        member == parseValue(t, colon.index)
    IN CASE next.token = "none" -> Rejected([map |-> <<>>], i)
         [] next.token = "," -> ObjectFrom(t, next.index, map)
         [] next.token = "}" -> Accepted([map |-> map], next.index)
         [] OTHER ->
                IF ~name.success THEN Rejected([map |-> <<>>], name.index)
                ELSE IF colon.token # ":" THEN Rejected([map |-> <<>>], colon.index)
                ELSE IF ~member.success THEN Rejected([map |-> <<>>], member.index)
                ELSE ObjectFrom(t, member.index, Put(map, name.value.string, member.value))

(* The loop of parseArray. *)
ArrayFrom(t, i, list) ==
    LET next == nextToken(t, i)
        element == parseValue(t, i)
    IN CASE next.token = "none" -> Rejected([list |-> <<>>], i)
         [] next.token = "," -> ArrayFrom(t, next.index, list)
         [] next.token = "]" -> Accepted([list |-> list], next.index)
         [] OTHER ->
                IF element.success
                THEN ArrayFrom(t, element.index, Append(list, element.value))
                ELSE Rejected([list |-> <<>>], element.index)

(* What follows the first value is not looked at. *)
parse(t) == parseValue(t, 1)
=============================================================================
