----------------------------- MODULE JsonTokener -----------------------------
(***************************************************************************)
(* json_tokener_parse_ex (hardware/json-c/json_tokener.c): a parser that   *)
(* takes a text in pieces.  What it knows between two pieces is in struct  *)
(* json_tokener: a state for each level of nesting, and the characters of  *)
(* the token it is in.  Each action below is what one case of the switch   *)
(* does with one character; "goto redo_char" leaves the character for the  *)
(* next action.                                                            *)
(*                                                                         *)
(* The caller is outside src/ and modelled from the comment of             *)
(* json_tokener.h, 145-196: it passes a text piece by piece while it is    *)
(* told to continue, and what follows a value as the start of another.  It *)
(* parses every text twice: in one piece, and in pieces.                   *)
(*                                                                         *)
(* Characters are strings of length one.  A character that was escaped by  *)
(* its number is that number as a string, whatever its UTF-8 encoding is.  *)
(***************************************************************************)
EXTENDS Integers, Sequences, SequencesExt

CONSTANTS
    Texts,       \* what the caller may have to parse: sequences of characters
    MaxDepth,    \* the levels of nesting json_tokener_new_ex allocates
    Flags        \* whether JSON_TOKENER_STRICT may be set

\* A piece ends behind the NUL that ends a string: there is none before the last character.
NUL == "NUL"
ASSUME TextsAssumption ==
    \A t \in Texts : t \in Seq(ToSet(t)) /\ \A i \in 1..Len(t) : t[i] = NUL => i = Len(t)
ASSUME DepthAssumption == MaxDepth \in Nat \ {0}
ASSUME FlagsAssumption == Flags \subseteq BOOLEAN

VARIABLES
    text,        \* the text of this behaviour
    strict,      \* JSON_TOKENER_STRICT
    tok,         \* struct json_tokener, but for the two fields that a call begins with:
    char_offset, \* how much of the piece has been taken
    err,         \* the error
    obj,         \* local: the value of the level that was left
    got_hi,      \* local: got_hi_surrogate, 0 if there is none
    case_len,    \* local: characters of a number in this call
    pc,          \* "idle", in the loop ("parse"), at "out", or at the "end"
    from,        \* how much of the text has been taken before this call
    len,         \* the length of the piece
    values,      \* what the caller has been given
    whole        \* history: the outcome for the text in one piece

tokenerVars == <<text, strict, tok, char_offset, err, obj, got_hi, case_len, pc, from, len,
                 values, whole>>
locals == <<obj, got_hi, case_len>>
caller == <<text, strict, from, len, values, whole>>

\* isspace(), but for the vertical tab, for which there is no string.
Space == {" ", "\t", "\n", "\f", "\r"}
Digit == {"0", "1", "2", "3", "4", "5", "6", "7", "8", "9"}
NumberChar == Digit \cup {".", "+", "-", "e", "E"}
HexChar == Digit \cup {"a", "b", "c", "d", "e", "f", "A", "B", "C", "D", "E", "F"}
HexDigit ==
    LET chars == <<{"0"}, {"1"}, {"2"}, {"3"}, {"4"}, {"5"}, {"6"}, {"7"}, {"8"}, {"9"},
                   {"a", "A"}, {"b", "B"}, {"c", "C"}, {"d", "D"}, {"e", "E"}, {"f", "F"}>>
    IN [h \in HexChar |-> (CHOOSE i \in DOMAIN chars : h \in chars[i]) - 1]
Replacement == "65533"

Errors == {"depth", "eof", "unexpected", "null", "boolean", "number", "array",
           "key_name", "key_sep", "value_sep", "string", "comment"}

\* Values, in the order of their parts; Null is the NULL pointer as well.
Null == <<"null">>
Bool(b) == <<"boolean", b>>
Array(s) == <<"array", s>>
Object(s) == <<"object", s>>
Str(s) == <<"string", s>>

\* json_object_object_add: a key that is there gets the new value in its place.
WithField(o, k, v) ==
    IF \E i \in DOMAIN o[2] : o[2][i][1] = k
    THEN Object([i \in DOMAIN o[2] |-> IF o[2][i][1] = k THEN <<k, v>> ELSE o[2][i]])
    ELSE Object(Append(o[2], <<k, v>>))

\* json_object_array_add.
WithElement(a, v) == Array(Append(a[2], v))

-----------------------------------------------------------------------------
\* Mutant: a level keeps the saved state that calloc gave it, which is eatws (0).
FreshLevel_NoStart == [state |-> "eatws", saved_state |-> "eatws", current |-> Null,
                       obj_field_name |-> <<>>]

\* json_tokener_reset_level.  A level without a name of a field has <<>>.
FreshLevel == [state |-> "eatws", saved_state |-> "start", current |-> Null,
               obj_field_name |-> <<>>]

\* json_tokener_new_ex.  It resets level 0 only, and the others keep the zeros of calloc;
\* a level is reset again before it is used (Deeper), so that it makes no difference.
NewTokener ==
    [stack |-> [i \in 1..MaxDepth |-> FreshLevel], depth |-> 1, pb |-> <<>>,
     st_pos |-> 0, ucs_char |-> 0, is_double |-> FALSE, quote_char |-> ""]

\* json_tokener_reset_level for the levels up to the one in use.
ResetLevels(t) == [t EXCEPT !.stack =
    [i \in 1..MaxDepth |-> IF i <= t.depth THEN FreshLevel ELSE t.stack[i]]]

\* json_tokener_reset.
Reset(t) == [ResetLevels(t) EXCEPT !.depth = 1]

Level == tok.stack[tok.depth]
State == Level.state
Saved == Level.saved_state
c == text[from + char_offset + 1]

\* In the given state of the level with a character to look at.
In(s) == pc = "parse" /\ char_offset < len /\ State = s

\* The changes of the level in use that the cases make.
Goto(t, s) == [t EXCEPT !.stack[t.depth].state = s]
GotoFresh(t, s) == [Goto(t, s) EXCEPT !.pb = <<>>, !.st_pos = 0]
Skip(t, s) == [t EXCEPT !.stack[t.depth].state = "eatws", !.stack[t.depth].saved_state = s]
Have(t, v) == [Skip(t, "finish") EXCEPT !.stack[t.depth].current = v]
Deeper(t, s) == [Goto(t, s) EXCEPT !.depth = @ + 1, !.stack[t.depth + 1] = FreshLevel]
Keep(t, x) == [t EXCEPT !.pb = Append(@, x)]

\* The three ends of a case: redo_char, the next character (which ends the loop
\* after a NUL), and out with an error.
Redo(t) == tok' = t /\ UNCHANGED <<char_offset, err, pc, caller>>
AdvanceChar(t) ==
    /\ tok' = t /\ char_offset' = char_offset + 1
    /\ pc' = IF c = NUL THEN "out" ELSE "parse"
    /\ UNCHANGED <<err, caller>>
Fail(e) ==
    /\ err' = e /\ pc' = "out"
    /\ UNCHANGED <<tok, char_offset, caller>>

-----------------------------------------------------------------------------
(* The cases of the switch.                                                *)

Eatws ==
    /\ In("eatws")
    /\ \/ c \in Space /\ AdvanceChar(tok)
       \/ c = "/" /\ ~strict /\ AdvanceChar([Goto(tok, "comment_start") EXCEPT !.pb = <<c>>])
       \/ c \notin Space /\ (c = "/" => strict) /\ Redo(Goto(tok, Saved))
    /\ UNCHANGED locals

\* What a string may start with.
Quotes(x) == x = "\"" \/ (x = "'" /\ ~strict)

Start ==
    /\ In("start")
    /\ \/ /\ c = "{"
          /\ AdvanceChar([Skip(tok, "object_field_start") EXCEPT
                          !.stack[tok.depth].current = Object(<<>>)])
          /\ UNCHANGED case_len
       \/ /\ c = "["
          /\ AdvanceChar([Skip(tok, "array") EXCEPT !.stack[tok.depth].current = Array(<<>>)])
          /\ UNCHANGED case_len
       \/ c \in {"I", "i"} /\ Redo(GotoFresh(tok, "inf")) /\ UNCHANGED case_len
       \/ c \in {"N", "n"} /\ Redo(GotoFresh(tok, "null")) /\ UNCHANGED case_len
       \/ c \in {"T", "t", "F", "f"} /\ Redo(GotoFresh(tok, "boolean")) /\ UNCHANGED case_len
       \/ /\ Quotes(c)
          /\ AdvanceChar([Goto(tok, "string") EXCEPT !.pb = <<>>, !.quote_char = c])
          /\ UNCHANGED case_len
       \/ /\ c \in Digit \cup {"-"}
          /\ Redo([Goto(tok, "number") EXCEPT !.pb = <<>>, !.is_double = FALSE])
          /\ case_len' = 0
       \/ /\ c \notin {"{", "[", "I", "i", "N", "n", "T", "t", "F", "f", "-"} \cup Digit
          /\ ~Quotes(c)
          /\ Fail("unexpected")
          /\ UNCHANGED case_len
    /\ UNCHANGED <<obj, got_hi>>

\* A value is complete: the level above goes on with it.
Finish ==
    /\ In("finish")
    /\ \/ /\ tok.depth = 1
          /\ pc' = "out"
          /\ UNCHANGED <<tok, char_offset, err, obj, caller>>
       \/ /\ tok.depth > 1
          /\ obj' = Level.current
          /\ Redo([tok EXCEPT !.stack[tok.depth] = FreshLevel, !.depth = @ - 1])
    /\ UNCHANGED <<got_hi, case_len>>

-----------------------------------------------------------------------------
(* Words.                                                                  *)

\* The letters of the words, whose case strncasecmp ignores.
LowerCase == [A |-> "a", E |-> "e", F |-> "f", I |-> "i", L |-> "l", N |-> "n", R |-> "r",
              S |-> "s", T |-> "t", U |-> "u", Y |-> "y"]
Lower(x) == IF x \in DOMAIN LowerCase THEN LowerCase[x] ELSE x

null == <<"n", "u", "l", "l">>
NaN == <<"N", "a", "N">>
true == <<"t", "r", "u", "e">>
false == <<"f", "a", "l", "s", "e">>
Infinity == <<"I", "n", "f", "i", "n", "i", "t", "y">>

\* str(n)casecmp of the word and what has been read of it: n = st_pos + 1 characters,
\* or all of the word when there are more.
Matches(word, buf) ==
    LET n == IF tok.st_pos + 1 < Len(word) THEN tok.st_pos + 1 ELSE Len(word) IN
    /\ n <= Len(buf)
    /\ \A i \in 1..n : IF strict THEN buf[i] = word[i] ELSE Lower(buf[i]) = Lower(word[i])

\* One more character of the word, or, at the character behind it, its value.
Word(word, value) ==
    IF tok.st_pos = Len(word)
    THEN Redo(Have(tok, value))
    ELSE AdvanceChar([Keep(tok, c) EXCEPT !.st_pos = @ + 1])

NullWord ==
    /\ In("null")
    /\ LET buf == Append(tok.pb, c) IN
       \/ Matches(null, buf) /\ Word(null, Null)
       \/ ~Matches(null, buf) /\ Matches(NaN, buf) /\ Word(NaN, <<"double", NaN>>)
       \/ ~Matches(null, buf) /\ ~Matches(NaN, buf) /\ Fail("null")
    /\ UNCHANGED locals

BooleanWord ==
    /\ In("boolean")
    /\ LET buf == Append(tok.pb, c) IN
       \/ Matches(true, buf) /\ Word(true, Bool(TRUE))
       \/ ~Matches(true, buf) /\ Matches(false, buf) /\ Word(false, Bool(FALSE))
       \/ ~Matches(true, buf) /\ ~Matches(false, buf) /\ Fail("boolean")
    /\ UNCHANGED locals

\* The same for Infinity, which may have a sign before it in the buffer.
InfWord ==
    /\ In("inf")
    /\ LET buf == Append(tok.pb, c)
           negative == buf[1] = "-"
       IN
       \/ /\ Matches(Infinity, IF negative THEN Tail(buf) ELSE buf)
          /\ Word(Infinity, <<"double", IF negative THEN <<"-">> \o Infinity ELSE Infinity>>)
       \/ /\ ~Matches(Infinity, IF negative THEN Tail(buf) ELSE buf)
          /\ Fail("unexpected")
    /\ UNCHANGED locals

-----------------------------------------------------------------------------
(* Numbers.                                                                *)

Unsigned(buf) == IF buf # <<>> /\ buf[1] = "-" THEN Tail(buf) ELSE buf

\* The digits that a conversion of the buffer takes.
Digits(buf) ==
    LET u == Unsigned(buf)
        n == SelectInSeq(u, LAMBDA x : x \notin Digit)
    IN IF n = 0 THEN u ELSE SubSeq(u, 1, n - 1)

\* json_parse_int64: the characters behind the digits are ignored.
IntValue(buf) ==
    (IF Unsigned(buf) = buf THEN 1 ELSE -1)
        * FoldLeft(LAMBDA n, d : 10 * n + HexDigit[d], 0, Digits(buf))

\* json_parse_double: there is a digit before or behind the point.  Like those of an
\* integer, the characters behind what sscanf takes are ignored; Bionic's gives back an
\* exponent that has no digits.
IsDouble(buf) == LET u == Unsigned(buf) IN
    \/ Digits(buf) # <<>>
    \/ Len(u) > 1 /\ u[1] = "." /\ u[2] \in Digit

NumberCharacter ==
    /\ In("number") /\ c \in NumberChar
    /\ AdvanceChar([Keep(tok, c) EXCEPT !.is_double = @ \/ c \in {".", "e", "E"}])
    /\ case_len' = case_len + 1
    /\ UNCHANGED <<obj, got_hi>>

MinusInfinity == tok.pb # <<>> /\ tok.pb[1] = "-" /\ case_len = 1 /\ c \in {"i", "I"}

NumberEnd ==
    /\ In("number") /\ c \notin NumberChar
    /\ IF MinusInfinity THEN Redo(Goto(tok, "inf"))
       ELSE IF ~tok.is_double /\ Digits(tok.pb) # <<>>
       THEN IF strict /\ IntValue(tok.pb) # 0 /\ tok.pb[1] = "0"
            THEN Fail("number")
            ELSE Redo(Have(tok, <<"int", IntValue(tok.pb)>>))
       ELSE IF tok.is_double /\ IsDouble(tok.pb)
       THEN Redo(Have(tok, <<"double", tok.pb>>))
       ELSE Fail("number")
    /\ UNCHANGED locals

-----------------------------------------------------------------------------
(* Comments, strings and escapes.                                          *)

CommentStart ==
    /\ In("comment_start")
    /\ \/ c = "*" /\ AdvanceChar(Keep(Goto(tok, "comment"), c))
       \/ c = "/" /\ AdvanceChar(Keep(Goto(tok, "comment_eol"), c))
       \/ c \notin {"*", "/"} /\ Fail("comment")
    /\ UNCHANGED locals

Comment ==
    /\ In("comment")
    /\ AdvanceChar(IF c = "*" THEN Goto(tok, "comment_end") ELSE tok)
    /\ UNCHANGED locals

CommentEol ==
    /\ In("comment_eol")
    /\ AdvanceChar(IF c = "\n" THEN Goto(tok, "eatws") ELSE tok)
    /\ UNCHANGED locals

CommentEnd ==
    /\ In("comment_end")
    /\ AdvanceChar(Goto(tok, IF c = "/" THEN "eatws" ELSE "comment"))
    /\ UNCHANGED locals

\* A string, or the name of a field.
StringCharacter(s) ==
    /\ In(s) /\ c \notin {tok.quote_char, "\\"}
    /\ AdvanceChar(Keep(tok, c))
    /\ UNCHANGED locals

Escape(s) ==
    /\ In(s) /\ c = "\\" /\ c # tok.quote_char
    /\ AdvanceChar([Goto(tok, "string_escape") EXCEPT !.stack[tok.depth].saved_state = s])
    /\ UNCHANGED locals

StringEnd ==
    /\ In("string") /\ c = tok.quote_char
    /\ AdvanceChar(Have(tok, Str(tok.pb)))
    /\ UNCHANGED locals

\* The characters that are escaped by a letter.
Control == [b |-> "BS", f |-> "\f", n |-> "\n", r |-> "\r", t |-> "\t"]

StringEscape ==
    /\ In("string_escape")
    /\ \/ c \in {"\"", "\\", "/"} /\ AdvanceChar(Keep(Goto(tok, Saved), c)) /\ UNCHANGED got_hi
       \/ /\ c \in DOMAIN Control
          /\ AdvanceChar(Keep(Goto(tok, Saved), Control[c]))
          /\ UNCHANGED got_hi
       \/ /\ c = "u"
          /\ AdvanceChar([Goto(tok, "escape_unicode") EXCEPT !.ucs_char = 0, !.st_pos = 0])
          /\ got_hi' = 0
       \/ /\ c \notin {"\"", "\\", "/", "u"} \cup DOMAIN Control
          /\ Fail("string")
          /\ UNCHANGED got_hi
    /\ UNCHANGED <<obj, case_len>>

\* The mask 0xFC00 leaves out the bits above the sixteenth: a code that two surrogates
\* have given, such as U+1D800, may be taken for a surrogate again.
Masked(u) == (u \div 1024) % 64
IsHighSurrogate(u) == Masked(u) = 54
IsLowSurrogate(u) == Masked(u) = 55
DecodePair(hi, lo) == ((hi % 1024) * 1024) + (lo % 1024) + 65536

\* A digit that is not the fourth.  The fifth shifts by a negative count: it is
\* undefined what it adds, and nothing looks at the sum any more, for st_pos never
\* is four again; 5 stands for all that follow.
FifthDigit == 5
UnicodeDigit ==
    /\ In("escape_unicode") /\ c \in DOMAIN HexDigit /\ tok.st_pos # 3
    /\ AdvanceChar([tok EXCEPT
          !.ucs_char = IF tok.st_pos < 3
                       THEN @ + HexDigit[c] * 16 ^ (3 - tok.st_pos) ELSE @,
          !.st_pos = IF @ < FifthDigit THEN @ + 1 ELSE @])
    /\ UNCHANGED locals

\* Whether the piece goes on behind this character with "\u".
UnicodeFollows ==
    /\ char_offset + 1 # len /\ char_offset + 2 # len
    /\ LET next == from + char_offset + 2 IN
       text[next] = "\\" /\ text[next + 1] = "u"

\* The fourth digit: the code, or both codes of a pair, are complete.
UnicodeEnd ==
    /\ In("escape_unicode") /\ c \in DOMAIN HexDigit /\ tok.st_pos = 3
    /\ LET code == tok.ucs_char + HexDigit[c]
           paired == got_hi # 0 /\ IsLowSurrogate(code)
           ucs == IF paired THEN DecodePair(got_hi, code) ELSE code
           \* A high surrogate without a low one is replaced.
           before == IF got_hi # 0 /\ ~paired THEN <<Replacement>> ELSE <<>>
           Put(x) == [Goto(tok, Saved) EXCEPT !.pb = @ \o before \o <<x>>, !.st_pos = 4,
                                         !.ucs_char = ucs]
       IN
       \/ /\ ~IsHighSurrogate(ucs)
          /\ AdvanceChar(Put(IF IsLowSurrogate(ucs) THEN Replacement ELSE ToString(ucs)))
          /\ got_hi' = 0
       \/ /\ IsHighSurrogate(ucs) /\ ~UnicodeFollows
          /\ AdvanceChar(Put(Replacement))
          /\ got_hi' = 0
       \* The piece ends behind "\u".
       \/ /\ IsHighSurrogate(ucs) /\ UnicodeFollows /\ char_offset + 3 = len
          /\ tok' = [tok EXCEPT !.pb = @ \o before \o <<Replacement>>, !.st_pos = 4,
                                !.ucs_char = ucs]
          /\ char_offset' = char_offset + 3 /\ err' = "continue"
          /\ got_hi' = ucs
          /\ pc' = "out"
          /\ UNCHANGED caller
       \* The next character is the first digit of the other code.
       \/ /\ IsHighSurrogate(ucs) /\ UnicodeFollows /\ char_offset + 3 # len
          /\ tok' = [tok EXCEPT !.pb = @ \o before, !.st_pos = 0, !.ucs_char = 0]
          /\ char_offset' = char_offset + 3
          /\ got_hi' = ucs
          /\ UNCHANGED <<err, pc, caller>>
    /\ UNCHANGED <<obj, case_len>>

\* strchr() finds a NUL among the digits; whatever it adds, the loop is over.
UnicodeBad ==
    /\ In("escape_unicode") /\ c \notin DOMAIN HexDigit
    /\ IF c = NUL THEN AdvanceChar(tok) ELSE Fail("string")
    /\ UNCHANGED locals

-----------------------------------------------------------------------------
(* Arrays and objects.                                                     *)

\* Mutant: the last level is not used.
ArrayValue_OneLevelLess ==
    /\ \E s \in {"array", "array_after_sep"} :
          /\ In(s)
          /\ \/ c = "]" /\ s = "array_after_sep" /\ strict /\ Fail("unexpected")
             \/ c = "]" /\ (s = "array_after_sep" => ~strict)
                  /\ AdvanceChar(Skip(tok, "finish"))
             \/ c # "]" /\ tok.depth >= MaxDepth - 1 /\ Fail("depth")
             \/ c # "]" /\ tok.depth < MaxDepth - 1 /\ Redo(Deeper(tok, "array_add"))
    /\ UNCHANGED locals

ArrayValue ==
    /\ \E s \in {"array", "array_after_sep"} :
          /\ In(s)
          /\ \/ c = "]" /\ s = "array_after_sep" /\ strict /\ Fail("unexpected")
             \/ c = "]" /\ (s = "array_after_sep" => ~strict)
                  /\ AdvanceChar(Skip(tok, "finish"))
             \/ c # "]" /\ tok.depth >= MaxDepth /\ Fail("depth")
             \/ c # "]" /\ tok.depth < MaxDepth /\ Redo(Deeper(tok, "array_add"))
    /\ UNCHANGED locals

ArrayAddValue ==
    /\ In("array_add")
    /\ Redo([Skip(tok, "array_sep") EXCEPT !.stack[tok.depth].current = WithElement(@, obj)])
    /\ obj' = Null
    /\ UNCHANGED <<got_hi, case_len>>

ArraySep ==
    /\ In("array_sep")
    /\ \/ c = "]" /\ AdvanceChar(Skip(tok, "finish"))
       \/ c = "," /\ AdvanceChar(Skip(tok, "array_after_sep"))
       \/ c \notin {"]", ","} /\ Fail("array")
    /\ UNCHANGED locals

ObjectFieldStart ==
    /\ \E s \in {"object_field_start", "object_field_start_after_sep"} :
          /\ In(s)
          /\ \/ /\ c = "}" /\ s = "object_field_start_after_sep" /\ strict
                /\ Fail("unexpected")
             \/ /\ c = "}" /\ (s = "object_field_start_after_sep" => ~strict)
                /\ AdvanceChar(Skip(tok, "finish"))
             \/ /\ c \in {"\"", "'"}
                /\ AdvanceChar([Goto(tok, "object_field") EXCEPT !.pb = <<>>,
                     !.quote_char = c])
             \/ c \notin {"}", "\"", "'"} /\ Fail("key_name")
    /\ UNCHANGED locals

ObjectField ==
    /\ In("object_field") /\ c = tok.quote_char
    /\ AdvanceChar([Skip(tok, "object_field_end") EXCEPT
                   !.stack[tok.depth].obj_field_name = <<tok.pb>>])
    /\ UNCHANGED locals

ObjectFieldEnd ==
    /\ In("object_field_end")
    /\ IF c = ":" THEN AdvanceChar(Skip(tok, "object_value")) ELSE Fail("key_sep")
    /\ UNCHANGED locals

ObjectValue ==
    /\ In("object_value")
    /\ IF tok.depth >= MaxDepth THEN Fail("depth") ELSE Redo(Deeper(tok, "object_value_add"))
    /\ UNCHANGED locals

ObjectValueAdd ==
    /\ In("object_value_add")
    /\ Redo([Skip(tok, "object_sep") EXCEPT
          !.stack[tok.depth].current = WithField(@, Level.obj_field_name[1], obj),
          !.stack[tok.depth].obj_field_name = <<>>])
    /\ obj' = Null
    /\ UNCHANGED <<got_hi, case_len>>

ObjectSep ==
    /\ In("object_sep")
    /\ \/ c = "}" /\ AdvanceChar(Skip(tok, "finish"))
       \/ c = "," /\ AdvanceChar(Skip(tok, "object_field_start_after_sep"))
       \/ c \notin {"}", ","} /\ Fail("value_sep")
    /\ UNCHANGED locals

-----------------------------------------------------------------------------
(* The call and its caller.                                                *)

Remaining == Len(text) - from

\* Mutant: the position in a word is a local of the call.
Call_LocalPosition(n) ==
    /\ pc = "idle"
    /\ len' = n
    /\ tok' = [tok EXCEPT !.st_pos = 0]
    /\ char_offset' = 0 /\ err' = "success"
    /\ got_hi' = 0 /\ case_len' = 0
    /\ pc' = "parse"
    /\ UNCHANGED <<text, strict, obj, from, values, whole>>

\* json_tokener_parse_ex is called with the next n characters.
Call(n) ==
    /\ pc = "idle"
    /\ len' = n
    /\ char_offset' = 0 /\ err' = "success"
    /\ got_hi' = 0 /\ case_len' = 0
    /\ pc' = "parse"
    /\ UNCHANGED <<text, strict, tok, obj, from, values, whole>>

\* The text is first parsed in one piece, ...
CallWhole == whole = <<>> /\ Remaining > 0 /\ Call(Remaining)

\* ... then in pieces.
CallPiece == whole # <<>> /\ \E n \in 1..Remaining : Call(n)

\* PEEK_CHAR finds the end of the piece.
EndOfPiece ==
    /\ pc = "parse" /\ char_offset = len
    /\ LET done == tok.depth = 1 /\ State = "eatws" /\ Saved = "finish"
           pending == State = "escape_unicode" /\ got_hi # 0
       IN /\ err' = IF done THEN "success" ELSE "continue"
          /\ tok' = IF pending THEN Keep(tok, Replacement) ELSE tok
    /\ pc' = "out"
    /\ UNCHANGED <<char_offset, locals, caller>>

\* A NUL ended the loop.
SawNul ==
    /\ from + len = Len(text) /\ Last(text) = NUL
    /\ char_offset >= len - 1

\* The error json_tokener_parse_ex returns with.
OutError ==
    IF SawNul
    THEN IF State # "finish" /\ Saved # "finish" THEN "eof" ELSE err
    ELSE IF State = "finish" /\ tok.depth = 1 /\ strict THEN "unexpected" ELSE err

\* A string that ends with NUL has nothing behind its last value.
Exhausted(n) == n >= Len(text) \/ (OutError = "success" /\ text[n + 1] = NUL)

\* What the caller makes of it: it takes the value, and goes on behind it.
Out ==
    /\ pc = "out"
    /\ IF OutError = "success"
       THEN tok' = ResetLevels(tok) /\ values' = Append(values, Level.current)
       ELSE UNCHANGED <<tok, values>>
    /\ err' = OutError
    /\ from' = from + char_offset
    /\ len' = 0 /\ char_offset' = 0 /\ obj' = Null /\ got_hi' = 0 /\ case_len' = 0
    /\ pc' = IF OutError \in Errors \/ Exhausted(from') THEN "end" ELSE "idle"
    /\ UNCHANGED <<text, strict, whole>>

\* The values of a text, and what is left of it when it ends: an error, nothing, an open
\* comment or a part of a value.
Outcome ==
    <<values,
      IF err \in Errors THEN err
      ELSE IF tok.depth = 1 /\ Level = FreshLevel THEN "complete"
      ELSE IF State \in {"comment_start", "comment", "comment_eol", "comment_end"}
      THEN "comment" ELSE "unfinished">>

\* The caller resets the tokener and begins again.
Again ==
    /\ pc = "end" /\ whole = <<>>
    /\ whole' = Outcome
    /\ tok' = Reset(tok) /\ err' = "success"
    /\ from' = 0 /\ values' = <<>>
    /\ pc' = "idle"
    /\ UNCHANGED <<text, strict, char_offset, len, locals>>

TokenerInit ==
    /\ text \in Texts /\ strict \in Flags
    /\ tok = NewTokener /\ char_offset = 0 /\ err = "success"
    /\ obj = Null /\ got_hi = 0 /\ case_len = 0
    /\ pc = "idle" /\ from = 0 /\ len = 0
    /\ values = <<>> /\ whole = <<>>

Parse ==
    \/ Eatws \/ Start \/ Finish
    \/ NullWord \/ BooleanWord \/ InfWord \/ NumberCharacter \/ NumberEnd
    \/ CommentStart \/ Comment \/ CommentEol \/ CommentEnd
    \/ StringCharacter("string") \/ StringCharacter("object_field")
    \/ Escape("string") \/ Escape("object_field") \/ StringEnd
    \/ StringEscape \/ UnicodeDigit \/ UnicodeEnd \/ UnicodeBad
    \/ ArrayValue \/ ArrayAddValue \/ ArraySep
    \/ ObjectFieldStart \/ ObjectField \/ ObjectFieldEnd
    \/ ObjectValue \/ ObjectValueAdd \/ ObjectSep
    \/ EndOfPiece \/ Out

TokenerNext == CallWhole \/ CallPiece \/ Again \/ Parse

TokenerSpec == TokenerInit /\ [][TokenerNext]_tokenerVars

\* A call in progress goes on.
FairSpec == TokenerSpec /\ WF_tokenerVars(Parse)

-----------------------------------------------------------------------------
(* What the caller relies on.                                              *)

\* Where json_tokener_parse_ex does not keep what it knows for the next piece: how much of
\* a number there was, for -Infinity, and the high surrogate of a pair.
Fragile ==
    \/ \E i, j \in 1..Len(text) :
          /\ i < j /\ text[i] = "-" /\ text[j] \in {"i", "I"}
          /\ \A m \in (i + 1)..(j - 1) : text[m] \in NumberChar
    \/ \E i \in 1..(Len(text) - 7) :
          /\ text[i] = "\\" /\ text[i + 1] = "u"
          /\ text[i + 6] = "\\" /\ text[i + 7] = "u"

\* However a text is cut into pieces, its values and its end are those of the text in
\* one piece: whatever the tokener knows in the middle of a word, a number, an escape, a
\* comment or a level is in struct json_tokener.  (Only what follows a value in its piece
\* can make a difference: a value is given up later for an open comment, or not at all for
\* anything, in strict mode, that is behind it; and the NUL of a string is an error in a
\* piece that has no value before it.)
CutsDoNotMatter ==
    pc = "end" /\ whole # <<>> /\ ~Fragile =>
        \/ Outcome = whole
        \/ whole[2] = "comment" \/ (strict /\ whole[2] = "unexpected")
        \/ Last(text) = NUL /\ whole[2] = "complete" /\ Outcome = <<whole[1], "eof">>

\* A call of json_tokener_parse_ex returns: no text keeps "goto redo_char" going.
CallsReturn == (pc = "parse") ~> (pc \in {"idle", "end"})

=============================================================================
