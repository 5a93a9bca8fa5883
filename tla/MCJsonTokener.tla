---------------------------- MODULE MCJsonTokener ----------------------------
(***************************************************************************)
(* json_tokener_parse_ex on every text of a few tokens and on texts with   *)
(* the words, numbers, escapes and comments it knows, each of them in one  *)
(* piece and in pieces, and the grammar the texts of tokens are read by.   *)
(***************************************************************************)
EXTENDS JsonTokener

CONSTANT MaxTokens        \* bound: tokens of a text

\* A number is followed by a space; the only string, and the only name, is "a".
Token == {<<"[">>, <<"]">>, <<"{">>, <<"}">>, <<",">>, <<":">>, <<"1", " ">>,
          <<"\"", "a", "\"">>}

MCDepth == 3

-----------------------------------------------------------------------------
(* The grammar: what begins at character i of text t, at level d, is a     *)
(* value with the rest of the text behind it, or an error.                 *)

At(t, i) == IF i <= Len(t) THEN t[i] ELSE "eof"
Wrong(t, i, e) == [error |-> IF i > Len(t) THEN "unfinished" ELSE e]
Is(v, i) == [error |-> "", value |-> v, next |-> i]

RECURSIVE Value(_, _, _, _), Items(_, _, _, _, _), Members(_, _, _, _, _)

Value(t, st, i, d) ==
    CASE At(t, i) = "1" -> Is(<<"int", 1>>, i + 2)
      [] At(t, i) = "\"" -> Is(Str(<<"a">>), i + 3)
      [] At(t, i) = "[" /\ At(t, i + 1) = "]" -> Is(Array(<<>>), i + 2)
      [] At(t, i) = "[" /\ At(t, i + 1) # "]" -> Items(t, st, i + 1, d, <<>>)
      [] At(t, i) = "{" /\ At(t, i + 1) = "}" -> Is(Object(<<>>), i + 2)
      [] At(t, i) = "{" /\ At(t, i + 1) # "}" -> Members(t, st, i + 1, d, Object(<<>>))
      [] OTHER -> Wrong(t, i, "unexpected")

Items(t, st, i, d, done) ==
    IF i > Len(t) THEN Wrong(t, i, "")
    ELSE IF At(t, i) = "]" THEN IF st THEN Wrong(t, i, "unexpected")
      ELSE Is(Array(done), i + 1)
    ELSE IF d = MaxDepth THEN Wrong(t, i, "depth")
    ELSE LET v == Value(t, st, i, d + 1) IN
         IF v.error # "" THEN v
         ELSE CASE At(t, v.next) = "]" -> Is(Array(Append(done, v.value)), v.next + 1)
                [] At(t, v.next) = "," -> Items(t, st, v.next + 1, d, Append(done, v.value))
                [] OTHER -> Wrong(t, v.next, "array")

Members(t, st, i, d, done) ==
    IF At(t, i) = "}" THEN IF st THEN Wrong(t, i, "unexpected") ELSE Is(done, i + 1)
    ELSE IF At(t, i) # "\"" THEN Wrong(t, i, "key_name")
    ELSE IF At(t, i + 3) # ":" THEN Wrong(t, i + 3, "key_sep")
    ELSE IF i + 4 > Len(t) THEN Wrong(t, i + 4, "")
    ELSE IF d = MaxDepth THEN Wrong(t, i, "depth")
    ELSE LET v == Value(t, st, i + 4, d + 1) IN
         IF v.error # "" THEN v
         ELSE LET o == WithField(done, <<"a">>, v.value) IN
              CASE At(t, v.next) = "}" -> Is(o, v.next + 1)
                [] At(t, v.next) = "," -> Members(t, st, v.next + 1, d, o)
                [] OTHER -> Wrong(t, v.next, "value_sep")

\* The values of a text one after the other; in strict mode there is only one.
RECURSIVE Values(_, _, _, _)
Values(t, st, i, done) ==
    IF i > Len(t) THEN <<done, "complete">>
    ELSE LET v == Value(t, st, i, 1) IN
         IF v.error # "" THEN <<done, v.error>>
         ELSE IF st /\ v.next <= Len(t) THEN <<done, "unexpected">>
         ELSE Values(t, st, v.next, Append(done, v.value))

-----------------------------------------------------------------------------
(* The texts.                                                              *)

\* A text is made longer as long as it is a part of a value (or of two).
RECURSIVE Longer(_)
Longer(n) ==
    IF n = 0 THEN {<<>>}
    ELSE { t \o x : t \in {u \in Longer(n - 1) :
                             \/ Values(u, FALSE, 1, <<>>)[2] = "unfinished"
                             \/ Len(u) <= 2}, x \in Token }

A == <<"\"", "a", "\"">>

\* Longer ones: a trailing comma, a repeated key, and one level too many.
Chosen == {
    <<"{">> \o A \o <<":", "1", " ", ",", "}">>,
    <<"{">> \o A \o <<":", "1", " ", ",">> \o A \o <<":", "[", "]", "}">>,
    <<"{">> \o A \o <<":", "{">> \o A \o <<":", "[", "]", "}", ",">> \o A \o <<"]">>,
    <<"{">> \o A \o <<":", "{">> \o A \o <<":", "[", "1", " ", "]", "}", "}">>,
    <<"[", "1", " ", ",", "[", "[", "]", ",", "{", "}", "]", ",", "]", "1", " ">> }

OfTokens == Chosen \cup UNION { Longer(n) : n \in 1..MaxTokens }

\* A text of quotes, escapes and brackets, each of which is one character.
OfWords == {
    <<"n", "u", "l", "l", " ">>, <<"N", "a", "N", " ">>, <<"N", "U", "L", "L", " ">>,
    <<"[", "n", "u", "l", "l", ",", "n", "a", "n", "]">>,
    <<"T", "r", "U", "e", "\t">>, <<"[", "F", "a", "l", "s", "e", ",", "t", "r", "x", "]">>,
    Infinity \o <<" ">>, <<"[", "n", "u", "l", "x", "]">>,
    <<"[", "-">> \o Infinity \o <<"]">>, <<"[", "t", "r", "u", "e", ",", "-", "i">>,
    <<"[", "-", "1", "8", ",", "0", "1", "]">>, <<"-", "1", ".", "8", " ">>,
    <<"[", "2", "E", "-", "3", ",", "4", "e", "]">>, <<"-", "e", " ">>,
      <<"[", "-", "+", "1", "]">>,
    <<"[", "1", "-", "8", ",", "-", "]">>, <<"[", ".", "1", "]">>,
    <<"/", "*", "a", "*", "a", "*", "/", "1", "\n">>, <<"/", "/", "a", "\n", "[", "]">>,
    <<"[", "]", "/", "*", "*", "*", "/">>, <<"1", " ", "/", "1">>,
    <<"\"", "a", "\\", "n", "\\", "\"", "'", "\"", "1", " ">>,
    <<"\"", "\\", "t", "a", "\\", "b", "\"">>, <<"'", "a", "\"", "'", " ">>,
      <<"\"", "\\", "x", "\"">>,
    <<"{", "'", "\\", "/", "'", ":", "1", "}">>,
    <<"{", "\"", "a", "\"", ":", "1", ",", "\"", "\"", ":", "8", ",",
      "\"", "a", "\"", ":", "[", "]", ",", "}">>,
    <<"\"", "\\", "u", "0", "0", "8", "1", "a", "\"">>,
    <<"\"", "\\", "u", "d", "8", "0", "1", "a", "\"">>,
    <<"\"", "\\", "u", "d", "c", "0", "1", "\"">>,
    <<"\"", "\\", "u", "d", "8", "0", "1", "\\", "u", "d", "c", "0", "1", "\"">>,
    <<"\"", "\\", "u", "d", "8", "0", "1", "\\", "u", "0", "0", "8", "1", "\"">>,
    <<"\"", "\\", "u", "D", "8", "3", "6", "\\", "u", "D", "C", "0", "0", "\"">>,
    <<"\"", "\\", "u", "0", "g">>,
    <<"[", "]", NUL>>, <<"[", "1", NUL>>, <<"1", NUL>>, <<"\"", "a", NUL>>,
    <<"\"", "\\", "u", "0", NUL>>, <<"[", "n", "u", NUL>>,
    <<"1", " ", " ", NUL>>, <<"1", " ", "/", "/", NUL>>, <<"1", " ", "/", NUL>>,
    <<"-", "1", "i">> }

MCTexts == OfTokens \cup OfWords

\* The value of a text of tokens is the one the grammar gives it, whether the levels
\* are nested, empty, unfinished or too many, a comma trails, or a key is repeated.
ParsesGrammar ==
    whole # <<>> /\ text \notin OfWords => whole = Values(text, strict, 1, <<>>)

=============================================================================
