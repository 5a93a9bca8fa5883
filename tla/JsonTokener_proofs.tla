------------------------- MODULE JsonTokener_proofs -------------------------
(***************************************************************************)
(* Theorems about json_tokener_parse_ex, for any texts and any depth: it   *)
(* stays inside its stack and knows what its states need, and what it      *)
(* makes of a text does not depend on where the text is cut.               *)
(*                                                                         *)
(* Each case of the switch is a function of the tokener, of the value of   *)
(* the level that was left, and of the character (CharStep).  So the text  *)
(* in one piece has one parse, a path R of such steps.  The parse in       *)
(* pieces follows it: it is at a point of R, up to what json_tokener_reset *)
(* leaves and no state reads (Same), or a piece has ended and it is a few  *)
(* steps of R before or behind (Following).                                *)
(***************************************************************************)
EXTENDS JsonTokener, SequenceTheorems, TLAPS

-----------------------------------------------------------------------------
(* The cases of the switch as functions of what they read: the tokener, the  *)
(* value of the level that was left, and the character.                      *)

\* What a case leaves, and how it ends: with redo_char, at the next character, at out, or
\* at out with an error.
Res(t, o, e) == [tok |-> t, obj |-> o, end |-> e]

LevelOf(t) == t.stack[t.depth]
StateOf(t) == LevelOf(t).state
SavedOf(t) == LevelOf(t).saved_state

EatwsOf(st, t, o, x) ==
    IF x \in Space THEN Res(t, o, "next")
    ELSE IF x = "/" /\ ~st THEN Res([Goto(t, "comment_start") EXCEPT !.pb = <<x>>], o, "next")
    ELSE Res(Goto(t, SavedOf(t)), o, "redo")

QuotesOf(st, x) == x = "\"" \/ (x = "'" /\ ~st)

StartOf(st, t, o, x) ==
    IF x = "{"
    THEN Res([Skip(t, "object_field_start") EXCEPT !.stack[t.depth].current = Object(<<>>)],
             o, "next")
    ELSE IF x = "["
    THEN Res([Skip(t, "array") EXCEPT !.stack[t.depth].current = Array(<<>>)], o, "next")
    ELSE IF x \in {"I", "i"} THEN Res(GotoFresh(t, "inf"), o, "redo")
    ELSE IF x \in {"N", "n"} THEN Res(GotoFresh(t, "null"), o, "redo")
    ELSE IF x \in {"T", "t", "F", "f"} THEN Res(GotoFresh(t, "boolean"), o, "redo")
    ELSE IF QuotesOf(st, x)
    THEN Res([Goto(t, "string") EXCEPT !.pb = <<>>, !.quote_char = x], o, "next")
    ELSE IF x \in Digit \cup {"-"}
    THEN Res([Goto(t, "number") EXCEPT !.pb = <<>>, !.is_double = FALSE], o, "redo")
    ELSE Res(t, o, "unexpected")

FinishOf(st, t, o, x) ==
    IF t.depth = 1 THEN Res(t, o, "out")
    ELSE Res([t EXCEPT !.stack[t.depth] = FreshLevel, !.depth = @ - 1],
             LevelOf(t).current, "redo")

MatchesOf(st, n, word, buf) ==
    LET m == IF n + 1 < Len(word) THEN n + 1 ELSE Len(word) IN
    /\ m <= Len(buf)
    /\ \A i \in 1..m : IF st THEN buf[i] = word[i] ELSE Lower(buf[i]) = Lower(word[i])

WordOf(t, o, x, word, value) ==
    IF t.st_pos = Len(word) THEN Res(Have(t, value), o, "redo")
    ELSE Res([Keep(t, x) EXCEPT !.st_pos = @ + 1], o, "next")

NullOf(st, t, o, x) ==
    LET buf == Append(t.pb, x) IN
    IF MatchesOf(st, t.st_pos, null, buf) THEN WordOf(t, o, x, null, Null)
    ELSE IF MatchesOf(st, t.st_pos, NaN, buf) THEN WordOf(t, o, x, NaN, <<"double", NaN>>)
    ELSE Res(t, o, "null")

BooleanOf(st, t, o, x) ==
    LET buf == Append(t.pb, x) IN
    IF MatchesOf(st, t.st_pos, true, buf) THEN WordOf(t, o, x, true, Bool(TRUE))
    ELSE IF MatchesOf(st, t.st_pos, false, buf) THEN WordOf(t, o, x, false, Bool(FALSE))
    ELSE Res(t, o, "boolean")

InfOf(st, t, o, x) ==
    LET buf == Append(t.pb, x)
        negative == buf[1] = "-"
    IN
    IF MatchesOf(st, t.st_pos, Infinity, IF negative THEN Tail(buf) ELSE buf)
    THEN WordOf(t, o, x, Infinity,
                <<"double", IF negative THEN <<"-">> \o Infinity ELSE Infinity>>)
    ELSE Res(t, o, "unexpected")

\* A number that is not -Infinity.
NumberOf(st, t, o, x) ==
    IF x \in NumberChar
    THEN Res([Keep(t, x) EXCEPT !.is_double = @ \/ x \in {".", "e", "E"}], o, "next")
    ELSE IF ~t.is_double /\ Digits(t.pb) # <<>>
    THEN IF st /\ IntValue(t.pb) # 0 /\ t.pb[1] = "0" THEN Res(t, o, "number")
         ELSE Res(Have(t, <<"int", IntValue(t.pb)>>), o, "redo")
    ELSE IF t.is_double /\ IsDouble(t.pb) THEN Res(Have(t, <<"double", t.pb>>), o, "redo")
    ELSE Res(t, o, "number")

CommentStartOf(st, t, o, x) ==
    IF x = "*" THEN Res(Keep(Goto(t, "comment"), x), o, "next")
    ELSE IF x = "/" THEN Res(Keep(Goto(t, "comment_eol"), x), o, "next")
    ELSE Res(t, o, "comment")

CommentOf(st, t, o, x) ==
    Res(IF x = "*" THEN Goto(t, "comment_end") ELSE t, o, "next")

CommentEolOf(st, t, o, x) ==
    Res(IF x = "\n" THEN Goto(t, "eatws") ELSE t, o, "next")

CommentEndOf(st, t, o, x) ==
    Res(Goto(t, IF x = "/" THEN "eatws" ELSE "comment"), o, "next")

StringOf(st, t, o, x) ==
    IF x = t.quote_char THEN Res(Have(t, Str(t.pb)), o, "next")
    ELSE IF x = "\\"
    THEN Res([Goto(t, "string_escape") EXCEPT !.stack[t.depth].saved_state = "string"],
             o, "next")
    ELSE Res(Keep(t, x), o, "next")

ObjectFieldOf(st, t, o, x) ==
    IF x = t.quote_char
    THEN Res([Skip(t, "object_field_end") EXCEPT !.stack[t.depth].obj_field_name = <<t.pb>>],
             o, "next")
    ELSE IF x = "\\"
    THEN Res([Goto(t, "string_escape") EXCEPT !.stack[t.depth].saved_state = "object_field"],
             o, "next")
    ELSE Res(Keep(t, x), o, "next")

EscapeOf(st, t, o, x) ==
    IF x \in {"\"", "\\", "/"} THEN Res(Keep(Goto(t, SavedOf(t)), x), o, "next")
    ELSE IF x \in DOMAIN Control THEN Res(Keep(Goto(t, SavedOf(t)), Control[x]), o, "next")
    ELSE IF x = "u"
    THEN Res([Goto(t, "escape_unicode") EXCEPT !.ucs_char = 0, !.st_pos = 0], o, "next")
    ELSE Res(t, o, "string")

\* A code that is not one of a pair.
Single(u) == IF IsHighSurrogate(u) \/ IsLowSurrogate(u) THEN Replacement ELSE ToString(u)

UnicodeOf(st, t, o, x) ==
    IF x \notin DOMAIN HexDigit
    THEN IF x = NUL THEN Res(t, o, "next") ELSE Res(t, o, "string")
    ELSE IF t.st_pos # 3
    THEN Res([t EXCEPT !.ucs_char = IF t.st_pos < 3
                                    THEN @ + HexDigit[x] * 16 ^ (3 - t.st_pos) ELSE @,
                       !.st_pos = IF @ < FifthDigit THEN @ + 1 ELSE @], o, "next")
    ELSE Res([Goto(t, SavedOf(t)) EXCEPT !.pb =
      @ \o <<>> \o <<Single(t.ucs_char + HexDigit[x])>>,
                                         !.st_pos = 4,
                                         !.ucs_char = t.ucs_char + HexDigit[x]], o, "next")

ArrayOf(st, t, o, x) ==
    IF x = "]"
    THEN IF StateOf(t) = "array_after_sep" /\ st THEN Res(t, o, "unexpected")
         ELSE Res(Skip(t, "finish"), o, "next")
    ELSE IF t.depth >= MaxDepth THEN Res(t, o, "depth")
    ELSE Res(Deeper(t, "array_add"), o, "redo")

ArrayAddOf(st, t, o, x) ==
    Res([Skip(t, "array_sep") EXCEPT !.stack[t.depth].current = WithElement(@, o)], Null,
      "redo")

ArraySepOf(st, t, o, x) ==
    IF x = "]" THEN Res(Skip(t, "finish"), o, "next")
    ELSE IF x = "," THEN Res(Skip(t, "array_after_sep"), o, "next")
    ELSE Res(t, o, "array")

FieldStartOf(st, t, o, x) ==
    IF x = "}"
    THEN IF StateOf(t) = "object_field_start_after_sep" /\ st THEN Res(t, o, "unexpected")
         ELSE Res(Skip(t, "finish"), o, "next")
    ELSE IF x \in {"\"", "'"}
    THEN Res([Goto(t, "object_field") EXCEPT !.pb = <<>>, !.quote_char = x], o, "next")
    ELSE Res(t, o, "key_name")

FieldEndOf(st, t, o, x) ==
    IF x = ":" THEN Res(Skip(t, "object_value"), o, "next") ELSE Res(t, o, "key_sep")

ObjectValueOf(st, t, o, x) ==
    IF t.depth >= MaxDepth THEN Res(t, o, "depth")
    ELSE Res(Deeper(t, "object_value_add"), o, "redo")

ObjectAddOf(st, t, o, x) ==
    Res([Skip(t, "object_sep") EXCEPT
            !.stack[t.depth].current = WithField(@, LevelOf(t).obj_field_name[1], o),
            !.stack[t.depth].obj_field_name = <<>>], Null, "redo")

ObjectSepOf(st, t, o, x) ==
    IF x = "}" THEN Res(Skip(t, "finish"), o, "next")
    ELSE IF x = "," THEN Res(Skip(t, "object_field_start_after_sep"), o, "next")
    ELSE Res(t, o, "value_sep")

CharStep(st, t, o, x) ==
    CASE StateOf(t) = "eatws" -> EatwsOf(st, t, o, x)
      [] StateOf(t) = "start" -> StartOf(st, t, o, x)
      [] StateOf(t) = "finish" -> FinishOf(st, t, o, x)
      [] StateOf(t) = "null" -> NullOf(st, t, o, x)
      [] StateOf(t) = "boolean" -> BooleanOf(st, t, o, x)
      [] StateOf(t) = "inf" -> InfOf(st, t, o, x)
      [] StateOf(t) = "number" -> NumberOf(st, t, o, x)
      [] StateOf(t) = "comment_start" -> CommentStartOf(st, t, o, x)
      [] StateOf(t) = "comment" -> CommentOf(st, t, o, x)
      [] StateOf(t) = "comment_eol" -> CommentEolOf(st, t, o, x)
      [] StateOf(t) = "comment_end" -> CommentEndOf(st, t, o, x)
      [] StateOf(t) = "string" -> StringOf(st, t, o, x)
      [] StateOf(t) = "object_field" -> ObjectFieldOf(st, t, o, x)
      [] StateOf(t) = "string_escape" -> EscapeOf(st, t, o, x)
      [] StateOf(t) = "escape_unicode" -> UnicodeOf(st, t, o, x)
      [] StateOf(t) \in {"array", "array_after_sep"} -> ArrayOf(st, t, o, x)
      [] StateOf(t) = "array_add" -> ArrayAddOf(st, t, o, x)
      [] StateOf(t) = "array_sep" -> ArraySepOf(st, t, o, x)
      [] StateOf(t) \in {"object_field_start", "object_field_start_after_sep"} ->
             FieldStartOf(st, t, o, x)
      [] StateOf(t) = "object_field_end" -> FieldEndOf(st, t, o, x)
      [] StateOf(t) = "object_value" -> ObjectValueOf(st, t, o, x)
      [] StateOf(t) = "object_value_add" -> ObjectAddOf(st, t, o, x)
      [] StateOf(t) = "object_sep" -> ObjectSepOf(st, t, o, x)

\* What an action does when it does what the function says.
CharMove ==
    LET r == CharStep(strict, tok, obj, c) IN
    /\ tok' = r.tok /\ obj' = r.obj
    /\ char_offset' = IF r.end = "next" THEN char_offset + 1 ELSE char_offset
    /\ pc' = IF r.end = "redo" \/ (r.end = "next" /\ c # NUL) THEN "parse" ELSE "out"
    /\ err' = IF r.end \in Errors THEN r.end ELSE err
    /\ UNCHANGED caller

\* The actions that look at a character.
Character ==
    \/ Eatws \/ Start \/ Finish
    \/ NullWord \/ BooleanWord \/ InfWord \/ NumberCharacter \/ NumberEnd
    \/ CommentStart \/ Comment \/ CommentEol \/ CommentEnd
    \/ StringCharacter("string") \/ StringCharacter("object_field")
    \/ Escape("string") \/ Escape("object_field") \/ StringEnd
    \/ StringEscape \/ UnicodeDigit \/ UnicodeEnd \/ UnicodeBad
    \/ ArrayValue \/ ArrayAddValue \/ ArraySep
    \/ ObjectFieldStart \/ ObjectField \/ ObjectFieldEnd
    \/ ObjectValue \/ ObjectValueAdd \/ ObjectSep

-----------------------------------------------------------------------------
(* Every action that looks at a character does what the function says.       *)

\* The three ends of a case are those that the function names.
LEMMA Moved ==
    ASSUME NEW t, NEW o, NEW e, CharStep(strict, tok, obj, c) = Res(t, o, e),
           pc = "parse", tok' = t, obj' = o, UNCHANGED caller,
           \/ e = "redo" /\ UNCHANGED <<char_offset, err, pc>>
           \/ /\ e = "next" /\ char_offset' = char_offset + 1 /\ UNCHANGED err
              /\ pc' = IF c = NUL THEN "out" ELSE "parse"
           \/ e \in Errors /\ err' = e /\ pc' = "out" /\ UNCHANGED char_offset
    PROVE  CharMove
  BY DEF CharMove, Res, Errors

\* A word is read to its end.
LEMMA WordMoved ==
    ASSUME NEW w, NEW v, NEW t, CharStep(strict, tok, obj, c) = WordOf(tok, obj, c, w, v),
           pc = "parse", tok' = t, obj' = obj, UNCHANGED <<err, caller>>,
           \/ /\ tok.st_pos = Len(w) /\ t = Have(tok, v)
              /\ UNCHANGED <<char_offset, pc>>
           \/ /\ tok.st_pos # Len(w) /\ t = [Keep(tok, c) EXCEPT !.st_pos = @ + 1]
              /\ char_offset' = char_offset + 1
              /\ pc' = IF c = NUL THEN "out" ELSE "parse"
    PROVE  CharMove
  <1>1. CASE tok.st_pos = Len(w)
    <2>1. CharStep(strict, tok, obj, c) = Res(Have(tok, v), obj, "redo")
      BY <1>1 DEF WordOf
    <2> QED BY <1>1, <2>1, Moved
  <1>2. CASE tok.st_pos # Len(w)
    <2>1. CharStep(strict, tok, obj, c) = Res([Keep(tok, c) EXCEPT !.st_pos = @ + 1], obj,
            "next")
      BY <1>2 DEF WordOf
    <2> QED BY <1>2, <2>1, Moved
  <1> QED BY <1>1, <1>2

LEMMA MatchesIs ==
    ASSUME NEW w, NEW buf
    PROVE  MatchesOf(strict, tok.st_pos, w, buf) <=> Matches(w, buf)
  BY DEF MatchesOf, Matches

LEMMA EatwsMove == ASSUME Eatws PROVE CharMove
  <1>1. pc = "parse" /\ StateOf(tok) = "eatws" /\ obj' = obj
    BY DEF Eatws, In, State, Level, StateOf, LevelOf, locals
  <1>2. CharStep(strict, tok, obj, c) = EatwsOf(strict, tok, obj, c)
    BY <1>1 DEF CharStep
  <1>3. CASE c \in Space /\ AdvanceChar(tok)
    <2>1. EatwsOf(strict, tok, obj, c) = Res(tok, obj, "next")
      BY <1>3 DEF EatwsOf
    <2> QED BY <1>1, <1>2, <1>3, <2>1, Moved DEF Redo, AdvanceChar, Fail
  <1>4. CASE c = "/" /\ ~strict
               /\ AdvanceChar([Goto(tok, "comment_start") EXCEPT !.pb = <<c>>])
    <2> DEFINE t == [Goto(tok, "comment_start") EXCEPT !.pb = <<c>>]
    <2>1. EatwsOf(strict, tok, obj, c) = Res(t, obj, "next")
      BY <1>4 DEF EatwsOf, Space
    <2> QED BY <1>1, <1>2, <1>4, <2>1, Moved DEF Redo, AdvanceChar, Fail
  <1>5. CASE c \notin Space /\ (c = "/" => strict) /\ Redo(Goto(tok, Saved))
    <2>1. EatwsOf(strict, tok, obj, c) = Res(Goto(tok, Saved), obj, "redo")
      BY <1>5 DEF EatwsOf, Saved, SavedOf, Level, LevelOf
    <2> QED BY <1>1, <1>2, <1>5, <2>1, Moved DEF Redo, AdvanceChar, Fail
  <1> QED
    BY <1>3, <1>4, <1>5 DEF Eatws

LEMMA FinishMove == ASSUME Finish PROVE CharMove
  <1>1. pc = "parse" /\ StateOf(tok) = "finish"
    BY DEF Finish, In, State, Level, StateOf, LevelOf
  <1>2. CharStep(strict, tok, obj, c) = FinishOf(strict, tok, obj, c)
    BY <1>1 DEF CharStep
  <1>3. CASE tok.depth = 1 /\ pc' = "out" /\ UNCHANGED <<tok, char_offset, err, obj, caller>>
    <2>1. CharStep(strict, tok, obj, c) = Res(tok, obj, "out")
      BY <1>2, <1>3 DEF FinishOf
    <2> QED BY <1>3, <2>1 DEF CharMove, Res, Errors
  <1>4. CASE /\ tok.depth > 1 /\ obj' = Level.current
             /\ Redo([tok EXCEPT !.stack[tok.depth] = FreshLevel, !.depth = @ - 1])
    <2> DEFINE t == [tok EXCEPT !.stack[tok.depth] = FreshLevel, !.depth = @ - 1]
    <2>1. CharStep(strict, tok, obj, c) = Res(t, Level.current, "redo")
      BY <1>2, <1>4 DEF FinishOf, Level, LevelOf
    <2> QED BY <1>1, <1>4, <2>1, Moved DEF Redo, AdvanceChar, Fail
  <1> QED BY <1>3, <1>4 DEF Finish

LEMMA NullMove == ASSUME NullWord PROVE CharMove
  <1> DEFINE buf == Append(tok.pb, c)
  <1>1. pc = "parse" /\ StateOf(tok) = "null" /\ obj' = obj
    BY DEF NullWord, In, State, Level, StateOf, LevelOf, locals
  <1>2. CharStep(strict, tok, obj, c) = NullOf(strict, tok, obj, c)
    BY <1>1 DEF CharStep
  <1>3. CASE Matches(null, buf) /\ Word(null, Null)
    <2>1. CharStep(strict, tok, obj, c) = WordOf(tok, obj, c, null, Null)
      BY <1>2, <1>3, MatchesIs DEF NullOf
    <2> QED BY <1>1, <1>3, <2>1, WordMoved DEF Word, Redo, AdvanceChar
  <1>4. CASE ~Matches(null, buf) /\ Matches(NaN, buf) /\ Word(NaN, <<"double", NaN>>)
    <2>1. CharStep(strict, tok, obj, c) = WordOf(tok, obj, c, NaN, <<"double", NaN>>)
      BY <1>2, <1>4, MatchesIs DEF NullOf
    <2> QED BY <1>1, <1>4, <2>1, WordMoved DEF Word, Redo, AdvanceChar
  <1>5. CASE ~Matches(null, buf) /\ ~Matches(NaN, buf) /\ Fail("null")
    <2>1. CharStep(strict, tok, obj, c) = Res(tok, obj, "null") /\ "null" \in Errors
      BY <1>2, <1>5, MatchesIs DEF NullOf, Errors
    <2> QED BY <1>1, <1>5, <2>1, Moved DEF Redo, AdvanceChar, Fail
  <1> QED BY <1>3, <1>4, <1>5 DEF NullWord

LEMMA BooleanMove == ASSUME BooleanWord PROVE CharMove
  <1> DEFINE buf == Append(tok.pb, c)
  <1>1. pc = "parse" /\ StateOf(tok) = "boolean" /\ obj' = obj
    BY DEF BooleanWord, In, State, Level, StateOf, LevelOf, locals
  <1>2. CharStep(strict, tok, obj, c) = BooleanOf(strict, tok, obj, c)
    BY <1>1 DEF CharStep
  <1>3. CASE Matches(true, buf) /\ Word(true, Bool(TRUE))
    <2>1. CharStep(strict, tok, obj, c) = WordOf(tok, obj, c, true, Bool(TRUE))
      BY <1>2, <1>3, MatchesIs DEF BooleanOf
    <2> QED BY <1>1, <1>3, <2>1, WordMoved DEF Word, Redo, AdvanceChar
  <1>4. CASE ~Matches(true, buf) /\ Matches(false, buf) /\ Word(false, Bool(FALSE))
    <2>1. CharStep(strict, tok, obj, c) = WordOf(tok, obj, c, false, Bool(FALSE))
      BY <1>2, <1>4, MatchesIs DEF BooleanOf
    <2> QED BY <1>1, <1>4, <2>1, WordMoved DEF Word, Redo, AdvanceChar
  <1>5. CASE ~Matches(true, buf) /\ ~Matches(false, buf) /\ Fail("boolean")
    <2>1. CharStep(strict, tok, obj, c) = Res(tok, obj, "boolean") /\ "boolean" \in Errors
      BY <1>2, <1>5, MatchesIs DEF BooleanOf, Errors
    <2> QED BY <1>1, <1>5, <2>1, Moved DEF Redo, AdvanceChar, Fail
  <1> QED BY <1>3, <1>4, <1>5 DEF BooleanWord

LEMMA InfMove == ASSUME InfWord PROVE CharMove
  <1> DEFINE buf == Append(tok.pb, c)
             word == IF buf[1] = "-" THEN Tail(buf) ELSE buf
             value == <<"double", IF buf[1] = "-" THEN <<"-">> \o Infinity ELSE Infinity>>
  <1>1. pc = "parse" /\ StateOf(tok) = "inf" /\ obj' = obj
    BY DEF InfWord, In, State, Level, StateOf, LevelOf, locals
  <1>2. CharStep(strict, tok, obj, c) = InfOf(strict, tok, obj, c)
    BY <1>1 DEF CharStep
  <1>3. CASE Matches(Infinity, word) /\ Word(Infinity, value)
    <2>1. CharStep(strict, tok, obj, c) = WordOf(tok, obj, c, Infinity, value)
      BY <1>2, <1>3, MatchesIs DEF InfOf
    <2> QED BY <1>1, <1>3, <2>1, WordMoved DEF Word, Redo, AdvanceChar
  <1>4. CASE ~Matches(Infinity, word) /\ Fail("unexpected")
    <2>1. CharStep(strict, tok, obj, c) = Res(tok, obj, "unexpected")
            /\ "unexpected" \in Errors
      BY <1>2, <1>4, MatchesIs DEF InfOf, Errors
    <2> QED BY <1>1, <1>4, <2>1, Moved DEF Redo, AdvanceChar, Fail
  <1> QED BY <1>3, <1>4 DEF InfWord

LEMMA StartMove == ASSUME Start PROVE CharMove
  <1>1. pc = "parse" /\ StateOf(tok) = "start" /\ obj' = obj
    BY DEF Start, In, State, Level, StateOf, LevelOf, locals
  <1>2. CharStep(strict, tok, obj, c) = StartOf(strict, tok, obj, c)
    BY <1>1 DEF CharStep
  <1>3. CASE c = "{" /\ AdvanceChar([Skip(tok, "object_field_start") EXCEPT
                                 !.stack[tok.depth].current = Object(<<>>)])
    <2> DEFINE t == [Skip(tok, "object_field_start") EXCEPT
                         !.stack[tok.depth].current = Object(<<>>)]
    <2>1. CharStep(strict, tok, obj, c) = Res(t, obj, "next")
      BY <1>1, <1>2, <1>3 DEF StartOf
    <2> QED BY <1>1, <1>3, <2>1, Moved DEF AdvanceChar
  <1>4. CASE c = "[" /\ AdvanceChar([Skip(tok, "array") EXCEPT
                                 !.stack[tok.depth].current = Array(<<>>)])
    <2> DEFINE t == [Skip(tok, "array") EXCEPT !.stack[tok.depth].current = Array(<<>>)]
    <2>1. CharStep(strict, tok, obj, c) = Res(t, obj, "next")
      BY <1>1, <1>2, <1>4 DEF StartOf
    <2> QED BY <1>1, <1>4, <2>1, Moved DEF AdvanceChar
  <1>5. CASE c \in {"I", "i"} /\ Redo(GotoFresh(tok, "inf"))
    <2>1. CharStep(strict, tok, obj, c) = Res(GotoFresh(tok, "inf"), obj, "redo")
      BY <1>1, <1>2, <1>5 DEF StartOf
    <2> QED BY <1>1, <1>5, <2>1, Moved DEF Redo
  <1>6. CASE c \in {"N", "n"} /\ Redo(GotoFresh(tok, "null"))
    <2>1. CharStep(strict, tok, obj, c) = Res(GotoFresh(tok, "null"), obj, "redo")
      BY <1>1, <1>2, <1>6 DEF StartOf
    <2> QED BY <1>1, <1>6, <2>1, Moved DEF Redo
  <1>7. CASE c \in {"T", "t", "F", "f"} /\ Redo(GotoFresh(tok, "boolean"))
    <2>1. CharStep(strict, tok, obj, c) = Res(GotoFresh(tok, "boolean"), obj, "redo")
      BY <1>1, <1>2, <1>7 DEF StartOf
    <2> QED BY <1>1, <1>7, <2>1, Moved DEF Redo
  <1>8. CASE Quotes(c)
               /\ AdvanceChar([Goto(tok, "string") EXCEPT !.pb = <<>>, !.quote_char = c])
    <2> DEFINE t == [Goto(tok, "string") EXCEPT !.pb = <<>>, !.quote_char = c]
    <2>1. CharStep(strict, tok, obj, c) = Res(t, obj, "next")
      BY <1>1, <1>2, <1>8 DEF StartOf, Quotes, QuotesOf
    <2> QED BY <1>1, <1>8, <2>1, Moved DEF AdvanceChar
  <1>9. CASE /\ c \in Digit \cup {"-"}
             /\ Redo([Goto(tok, "number") EXCEPT !.pb = <<>>, !.is_double = FALSE])
    <2> DEFINE t == [Goto(tok, "number") EXCEPT !.pb = <<>>, !.is_double = FALSE]
    <2>1. CharStep(strict, tok, obj, c) = Res(t, obj, "redo")
      BY <1>1, <1>2, <1>9 DEF StartOf, QuotesOf, Digit
    <2> QED BY <1>1, <1>9, <2>1, Moved DEF Redo
  <1>10. CASE /\ c \notin {"{", "[", "I", "i", "N", "n", "T", "t", "F", "f", "-"} \cup Digit
             /\ ~Quotes(c) /\ Fail("unexpected")
    <2>1. CharStep(strict, tok, obj, c) = Res(tok, obj, "unexpected")
            /\ "unexpected" \in Errors
      BY <1>1, <1>2, <1>10 DEF StartOf, Errors, Quotes, QuotesOf
    <2> QED BY <1>1, <1>10, <2>1, Moved DEF Fail
  <1> QED BY <1>3, <1>4, <1>5, <1>6, <1>7, <1>8, <1>9, <1>10 DEF Start

LEMMA NumberMove == ASSUME NumberCharacter PROVE CharMove
  <1>1. pc = "parse" /\ StateOf(tok) = "number" /\ obj' = obj
    BY DEF NumberCharacter, In, State, Level, StateOf, LevelOf, locals
  <1>2. CharStep(strict, tok, obj, c) = NumberOf(strict, tok, obj, c)
    BY <1>1 DEF CharStep
  <1>3. CASE c \in NumberChar /\ AdvanceChar([Keep(tok, c) EXCEPT
                                      !.is_double = @ \/ c \in {".", "e", "E"}])
    <2> DEFINE t == [Keep(tok, c) EXCEPT !.is_double = @ \/ c \in {".", "e", "E"}]
    <2>1. CharStep(strict, tok, obj, c) = Res(t, obj, "next")
      BY <1>1, <1>2, <1>3 DEF NumberOf
    <2> QED BY <1>1, <1>3, <2>1, Moved DEF AdvanceChar
  <1> QED BY <1>3 DEF NumberCharacter

LEMMA NumberEndMove == ASSUME NumberEnd, ~MinusInfinity PROVE CharMove
  <1>n. c \notin NumberChar
    BY DEF NumberEnd
  <1>1. pc = "parse" /\ StateOf(tok) = "number" /\ obj' = obj
    BY DEF NumberEnd, In, State, Level, StateOf, LevelOf, locals
  <1>2. CharStep(strict, tok, obj, c) = NumberOf(strict, tok, obj, c)
    BY <1>1 DEF CharStep
  <1>3. CASE /\ ~tok.is_double /\ Digits(tok.pb) # <<>>
             /\ strict /\ IntValue(tok.pb) # 0 /\ tok.pb[1] = "0" /\ Fail("number")
    <2>1. CharStep(strict, tok, obj, c) = Res(tok, obj, "number") /\ "number" \in Errors
      BY <1>n, <1>1, <1>2, <1>3 DEF NumberOf, Errors
    <2> QED BY <1>1, <1>3, <2>1, Moved DEF Fail
  <1>4. CASE /\ ~tok.is_double /\ Digits(tok.pb) # <<>>
             /\ ~(strict /\ IntValue(tok.pb) # 0 /\ tok.pb[1] = "0")
             /\ Redo(Have(tok, <<"int", IntValue(tok.pb)>>))
    <2> DEFINE t == Have(tok, <<"int", IntValue(tok.pb)>>)
    <2>1. CharStep(strict, tok, obj, c) = Res(t, obj, "redo")
      BY <1>n, <1>1, <1>2, <1>4 DEF NumberOf
    <2> QED BY <1>1, <1>4, <2>1, Moved DEF Redo
  <1>5. CASE /\ ~(~tok.is_double /\ Digits(tok.pb) # <<>>)
             /\ tok.is_double /\ IsDouble(tok.pb) /\ Redo(Have(tok, <<"double", tok.pb>>))
    <2> DEFINE t == Have(tok, <<"double", tok.pb>>)
    <2>1. CharStep(strict, tok, obj, c) = Res(t, obj, "redo")
      BY <1>n, <1>1, <1>2, <1>5 DEF NumberOf
    <2> QED BY <1>1, <1>5, <2>1, Moved DEF Redo
  <1>6. CASE /\ ~(~tok.is_double /\ Digits(tok.pb) # <<>>)
             /\ ~(tok.is_double /\ IsDouble(tok.pb)) /\ Fail("number")
    <2>1. CharStep(strict, tok, obj, c) = Res(tok, obj, "number") /\ "number" \in Errors
      BY <1>n, <1>1, <1>2, <1>6 DEF NumberOf, Errors
    <2> QED BY <1>1, <1>6, <2>1, Moved DEF Fail
  <1> QED BY <1>3, <1>4, <1>5, <1>6 DEF NumberEnd

LEMMA CommentStartMove == ASSUME CommentStart PROVE CharMove
  <1>1. pc = "parse" /\ StateOf(tok) = "comment_start" /\ obj' = obj
    BY DEF CommentStart, In, State, Level, StateOf, LevelOf, locals
  <1>2. CharStep(strict, tok, obj, c) = CommentStartOf(strict, tok, obj, c)
    BY <1>1 DEF CharStep
  <1>3. CASE c = "*" /\ AdvanceChar(Keep(Goto(tok, "comment"), c))
    <2>1. CharStep(strict, tok, obj, c) = Res(Keep(Goto(tok, "comment"), c), obj, "next")
      BY <1>1, <1>2, <1>3 DEF CommentStartOf
    <2> QED BY <1>1, <1>3, <2>1, Moved DEF AdvanceChar
  <1>4. CASE c = "/" /\ AdvanceChar(Keep(Goto(tok, "comment_eol"), c))
    <2> DEFINE t == Keep(Goto(tok, "comment_eol"), c)
    <2>1. CharStep(strict, tok, obj, c) = Res(t, obj, "next")
      BY <1>1, <1>2, <1>4 DEF CommentStartOf
    <2> QED BY <1>1, <1>4, <2>1, Moved DEF AdvanceChar
  <1>5. CASE c \notin {"*", "/"} /\ Fail("comment")
    <2>1. CharStep(strict, tok, obj, c) = Res(tok, obj, "comment") /\ "comment" \in Errors
      BY <1>1, <1>2, <1>5 DEF CommentStartOf, Errors
    <2> QED BY <1>1, <1>5, <2>1, Moved DEF Fail
  <1> QED BY <1>3, <1>4, <1>5 DEF CommentStart

LEMMA CommentMove == ASSUME Comment PROVE CharMove
  <1>1. pc = "parse" /\ StateOf(tok) = "comment" /\ obj' = obj
    BY DEF Comment, In, State, Level, StateOf, LevelOf, locals
  <1>2. CharStep(strict, tok, obj, c) = CommentOf(strict, tok, obj, c)
    BY <1>1 DEF CharStep
  <1>3. CASE AdvanceChar(IF c = "*" THEN Goto(tok, "comment_end") ELSE tok)
    <2> DEFINE t == IF c = "*" THEN Goto(tok, "comment_end") ELSE tok
    <2>1. CharStep(strict, tok, obj, c) = Res(t, obj, "next")
      BY <1>1, <1>2, <1>3 DEF CommentOf
    <2> QED BY <1>1, <1>3, <2>1, Moved DEF AdvanceChar
  <1> QED BY <1>3 DEF Comment

LEMMA CommentEolMove == ASSUME CommentEol PROVE CharMove
  <1>1. pc = "parse" /\ StateOf(tok) = "comment_eol" /\ obj' = obj
    BY DEF CommentEol, In, State, Level, StateOf, LevelOf, locals
  <1>2. CharStep(strict, tok, obj, c) = CommentEolOf(strict, tok, obj, c)
    BY <1>1 DEF CharStep
  <1>3. CASE AdvanceChar(IF c = "\n" THEN Goto(tok, "eatws") ELSE tok)
    <2> DEFINE t == IF c = "\n" THEN Goto(tok, "eatws") ELSE tok
    <2>1. CharStep(strict, tok, obj, c) = Res(t, obj, "next")
      BY <1>1, <1>2, <1>3 DEF CommentEolOf
    <2> QED BY <1>1, <1>3, <2>1, Moved DEF AdvanceChar
  <1> QED BY <1>3 DEF CommentEol

LEMMA CommentEndMove == ASSUME CommentEnd PROVE CharMove
  <1>1. pc = "parse" /\ StateOf(tok) = "comment_end" /\ obj' = obj
    BY DEF CommentEnd, In, State, Level, StateOf, LevelOf, locals
  <1>2. CharStep(strict, tok, obj, c) = CommentEndOf(strict, tok, obj, c)
    BY <1>1 DEF CharStep
  <1>3. CASE AdvanceChar(Goto(tok, IF c = "/" THEN "eatws" ELSE "comment"))
    <2> DEFINE t == Goto(tok, IF c = "/" THEN "eatws" ELSE "comment")
    <2>1. CharStep(strict, tok, obj, c) = Res(t, obj, "next")
      BY <1>1, <1>2, <1>3 DEF CommentEndOf
    <2> QED BY <1>1, <1>3, <2>1, Moved DEF AdvanceChar
  <1> QED BY <1>3 DEF CommentEnd

LEMMA StringCharacterMove == ASSUME StringCharacter("string") PROVE CharMove
  <1>1. pc = "parse" /\ StateOf(tok) = "string" /\ obj' = obj
    BY DEF StringCharacter, In, State, Level, StateOf, LevelOf, locals
  <1>2. CharStep(strict, tok, obj, c) = StringOf(strict, tok, obj, c)
    BY <1>1 DEF CharStep
  <1>3. CASE c \notin {tok.quote_char, "\\"} /\ AdvanceChar(Keep(tok, c))
    <2>1. CharStep(strict, tok, obj, c) = Res(Keep(tok, c), obj, "next")
      BY <1>1, <1>2, <1>3 DEF StringOf
    <2> QED BY <1>1, <1>3, <2>1, Moved DEF AdvanceChar
  <1> QED BY <1>3 DEF StringCharacter

LEMMA EscapeInStringMove == ASSUME Escape("string") PROVE CharMove
  <1>1. pc = "parse" /\ StateOf(tok) = "string" /\ obj' = obj
    BY DEF Escape, In, State, Level, StateOf, LevelOf, locals
  <1>2. CharStep(strict, tok, obj, c) = StringOf(strict, tok, obj, c)
    BY <1>1 DEF CharStep
  <1>3. CASE /\ c = "\\" /\ c # tok.quote_char
             /\ AdvanceChar([Goto(tok,
                  "string_escape") EXCEPT !.stack[tok.depth].saved_state = "string"])
    <2> DEFINE t == [Goto(tok, "string_escape") EXCEPT !.stack[tok.depth].saved_state =
               "string"]
    <2>1. CharStep(strict, tok, obj, c) = Res(t, obj, "next")
      BY <1>1, <1>2, <1>3 DEF StringOf
    <2> QED BY <1>1, <1>3, <2>1, Moved DEF AdvanceChar
  <1> QED BY <1>3 DEF Escape

LEMMA FieldCharacterMove == ASSUME StringCharacter("object_field") PROVE CharMove
  <1>1. pc = "parse" /\ StateOf(tok) = "object_field" /\ obj' = obj
    BY DEF StringCharacter, In, State, Level, StateOf, LevelOf, locals
  <1>2. CharStep(strict, tok, obj, c) = ObjectFieldOf(strict, tok, obj, c)
    BY <1>1 DEF CharStep
  <1>3. CASE c \notin {tok.quote_char, "\\"} /\ AdvanceChar(Keep(tok, c))
    <2>1. CharStep(strict, tok, obj, c) = Res(Keep(tok, c), obj, "next")
      BY <1>1, <1>2, <1>3 DEF ObjectFieldOf
    <2> QED BY <1>1, <1>3, <2>1, Moved DEF AdvanceChar
  <1> QED BY <1>3 DEF StringCharacter

LEMMA EscapeInFieldMove == ASSUME Escape("object_field") PROVE CharMove
  <1>1. pc = "parse" /\ StateOf(tok) = "object_field" /\ obj' = obj
    BY DEF Escape, In, State, Level, StateOf, LevelOf, locals
  <1>2. CharStep(strict, tok, obj, c) = ObjectFieldOf(strict, tok, obj, c)
    BY <1>1 DEF CharStep
  <1>3. CASE /\ c = "\\" /\ c # tok.quote_char
             /\ AdvanceChar([Goto(tok,
                  "string_escape") EXCEPT !.stack[tok.depth].saved_state = "object_field"])
    <2> DEFINE t == [Goto(tok, "string_escape") EXCEPT !.stack[tok.depth].saved_state =
               "object_field"]
    <2>1. CharStep(strict, tok, obj, c) = Res(t, obj, "next")
      BY <1>1, <1>2, <1>3 DEF ObjectFieldOf
    <2> QED BY <1>1, <1>3, <2>1, Moved DEF AdvanceChar
  <1> QED BY <1>3 DEF Escape

LEMMA StringEndMove == ASSUME StringEnd PROVE CharMove
  <1>1. pc = "parse" /\ StateOf(tok) = "string" /\ obj' = obj
    BY DEF StringEnd, In, State, Level, StateOf, LevelOf, locals
  <1>2. CharStep(strict, tok, obj, c) = StringOf(strict, tok, obj, c)
    BY <1>1 DEF CharStep
  <1>3. CASE c = tok.quote_char /\ AdvanceChar(Have(tok, Str(tok.pb)))
    <2>1. CharStep(strict, tok, obj, c) = Res(Have(tok, Str(tok.pb)), obj, "next")
      BY <1>1, <1>2, <1>3 DEF StringOf
    <2> QED BY <1>1, <1>3, <2>1, Moved DEF AdvanceChar
  <1> QED BY <1>3 DEF StringEnd

LEMMA StringEscapeMove == ASSUME StringEscape PROVE CharMove
  <1>1. pc = "parse" /\ StateOf(tok) = "string_escape" /\ obj' = obj
    BY DEF StringEscape, In, State, Level, StateOf, LevelOf, locals
  <1>2. CharStep(strict, tok, obj, c) = EscapeOf(strict, tok, obj, c)
    BY <1>1 DEF CharStep
  <1>3. CASE c \in {"\"", "\\", "/"} /\ AdvanceChar(Keep(Goto(tok, Saved), c))
    <2>1. CharStep(strict, tok, obj, c) = Res(Keep(Goto(tok, Saved), c), obj, "next")
      BY <1>1, <1>2, <1>3 DEF EscapeOf, Saved, SavedOf, Level, LevelOf
    <2> QED BY <1>1, <1>3, <2>1, Moved DEF AdvanceChar
  <1>4. CASE c \in DOMAIN Control /\ AdvanceChar(Keep(Goto(tok, Saved), Control[c]))
    <2>1. CharStep(strict, tok, obj, c) = Res(Keep(Goto(tok, Saved), Control[c]), obj, "next")
      <3>1. c \notin {"\"", "\\", "/"}
        BY <1>4 DEF Control
      <3> QED BY <1>1, <1>2, <1>4, <3>1 DEF EscapeOf, Saved, SavedOf, Level, LevelOf
    <2> QED BY <1>1, <1>4, <2>1, Moved DEF AdvanceChar
  <1>5. CASE c = "u" /\ AdvanceChar([Goto(tok, "escape_unicode") EXCEPT !.ucs_char = 0,
               !.st_pos = 0])
    <2> DEFINE t == [Goto(tok, "escape_unicode") EXCEPT !.ucs_char = 0, !.st_pos = 0]
    <2>1. CharStep(strict, tok, obj, c) = Res(t, obj, "next")
      BY <1>1, <1>2, <1>5 DEF EscapeOf, Control
    <2> QED BY <1>1, <1>5, <2>1, Moved DEF AdvanceChar
  <1>6. CASE c \notin {"\"", "\\", "/", "u"} \cup DOMAIN Control /\ Fail("string")
    <2>1. CharStep(strict, tok, obj, c) = Res(tok, obj, "string") /\ "string" \in Errors
      BY <1>1, <1>2, <1>6 DEF EscapeOf, Errors
    <2> QED BY <1>1, <1>6, <2>1, Moved DEF Fail
  <1> QED BY <1>3, <1>4, <1>5, <1>6 DEF StringEscape

LEMMA UnicodeDigitMove == ASSUME UnicodeDigit PROVE CharMove
  <1>1. pc = "parse" /\ StateOf(tok) = "escape_unicode" /\ obj' = obj
    BY DEF UnicodeDigit, In, State, Level, StateOf, LevelOf, locals
  <1>2. CharStep(strict, tok, obj, c) = UnicodeOf(strict, tok, obj, c)
    BY <1>1 DEF CharStep
  <1>3. CASE /\ c \in DOMAIN HexDigit /\ tok.st_pos # 3
             /\ AdvanceChar([tok EXCEPT
                   !.ucs_char = IF tok.st_pos < 3
                                THEN @ + HexDigit[c] * 16 ^ (3 - tok.st_pos) ELSE @,
                   !.st_pos = IF @ < FifthDigit THEN @ + 1 ELSE @])
    <2> DEFINE t == [tok EXCEPT
                       !.ucs_char = IF tok.st_pos < 3
                                    THEN @ + HexDigit[c] * 16 ^ (3 - tok.st_pos) ELSE @,
                       !.st_pos = IF @ < FifthDigit THEN @ + 1 ELSE @]
    <2>1. CharStep(strict, tok, obj, c) = Res(t, obj, "next")
      BY <1>1, <1>2, <1>3 DEF UnicodeOf
    <2> QED BY <1>1, <1>3, <2>1, Moved DEF AdvanceChar
  <1> QED BY <1>3 DEF UnicodeDigit

LEMMA UnicodeBadMove == ASSUME UnicodeBad PROVE CharMove
  <1>1. pc = "parse" /\ StateOf(tok) = "escape_unicode" /\ obj' = obj
    BY DEF UnicodeBad, In, State, Level, StateOf, LevelOf, locals
  <1>2. CharStep(strict, tok, obj, c) = UnicodeOf(strict, tok, obj, c)
    BY <1>1 DEF CharStep
  <1>3. CASE c \notin DOMAIN HexDigit /\ c = NUL /\ AdvanceChar(tok)
    <2>1. CharStep(strict, tok, obj, c) = Res(tok, obj, "next")
      BY <1>1, <1>2, <1>3 DEF UnicodeOf
    <2> QED BY <1>1, <1>3, <2>1, Moved DEF AdvanceChar
  <1>4. CASE c \notin DOMAIN HexDigit /\ c # NUL /\ Fail("string")
    <2>1. CharStep(strict, tok, obj, c) = Res(tok, obj, "string") /\ "string" \in Errors
      BY <1>1, <1>2, <1>4 DEF UnicodeOf, Errors
    <2> QED BY <1>1, <1>4, <2>1, Moved DEF Fail
  <1> QED BY <1>3, <1>4 DEF UnicodeBad

\* A code that is not one of a pair.
LEMMA UnicodeEndMove == ASSUME UnicodeEnd, got_hi = 0, ~UnicodeFollows PROVE CharMove
  <1> DEFINE w == tok.ucs_char + HexDigit[c]
             t(y) == [Goto(tok, Saved) EXCEPT !.pb = @ \o <<>> \o <<y>>, !.st_pos = 4,
                                              !.ucs_char = w]
  <1>1. /\ pc = "parse" /\ StateOf(tok) = "escape_unicode" /\ obj' = obj
        /\ c \in DOMAIN HexDigit /\ tok.st_pos = 3
    BY DEF UnicodeEnd, In, State, Level, StateOf, LevelOf
  <1>2. CharStep(strict, tok, obj, c) = UnicodeOf(strict, tok, obj, c)
    BY <1>1 DEF CharStep
  <1>3. UnicodeOf(strict, tok, obj, c) = Res(t(Single(w)), obj, "next")
    BY <1>1 DEF UnicodeOf, Saved, SavedOf, Level, LevelOf
  <1>4. AdvanceChar(t(Single(w)))
    <2>1. CASE ~IsHighSurrogate(w)
      BY <2>1 DEF UnicodeEnd, Single
    <2>2. CASE IsHighSurrogate(w)
      BY <2>2 DEF UnicodeEnd, Single
    <2> QED BY <2>1, <2>2
  <1> HIDE DEF t
  <1> QED BY <1>1, <1>2, <1>3, <1>4, Moved DEF AdvanceChar

LEMMA ArrayMove == ASSUME ArrayValue, tok.depth \in 1..MaxDepth PROVE CharMove
  <1>1. pc = "parse" /\ StateOf(tok) \in {"array", "array_after_sep"} /\ obj' = obj
    BY DEF ArrayValue, In, State, Level, StateOf, LevelOf, locals
  <1>2. CharStep(strict, tok, obj, c) = ArrayOf(strict, tok, obj, c)
    BY <1>1 DEF CharStep
  <1>3. CASE c = "]" /\ StateOf(tok) = "array_after_sep" /\ strict /\ Fail("unexpected")
    <2>1. CharStep(strict, tok, obj, c) = Res(tok, obj, "unexpected")
            /\ "unexpected" \in Errors
      BY <1>1, <1>2, <1>3 DEF ArrayOf, Errors
    <2> QED BY <1>1, <1>3, <2>1, Moved DEF Fail
  <1>4. CASE /\ c = "]" /\ (StateOf(tok) = "array_after_sep" => ~strict)
             /\ AdvanceChar(Skip(tok, "finish"))
    <2>1. CharStep(strict, tok, obj, c) = Res(Skip(tok, "finish"), obj, "next")
      BY <1>1, <1>2, <1>4 DEF ArrayOf
    <2> QED BY <1>1, <1>4, <2>1, Moved DEF AdvanceChar
  <1>5. CASE c # "]" /\ tok.depth >= MaxDepth /\ Fail("depth")
    <2>1. CharStep(strict, tok, obj, c) = Res(tok, obj, "depth") /\ "depth" \in Errors
      BY <1>1, <1>2, <1>5 DEF ArrayOf, Errors
    <2> QED BY <1>1, <1>5, <2>1, Moved DEF Fail
  <1>6. CASE c # "]" /\ ~(tok.depth >= MaxDepth) /\ Redo(Deeper(tok, "array_add"))
    <2>1. CharStep(strict, tok, obj, c) = Res(Deeper(tok, "array_add"), obj, "redo")
      BY <1>1, <1>2, <1>6 DEF ArrayOf
    <2> QED BY <1>1, <1>6, <2>1, Moved DEF Redo
  <1>d. tok.depth < MaxDepth <=> ~(tok.depth >= MaxDepth)
    BY DepthAssumption
  <1> QED BY <1>d, <1>3, <1>4, <1>5, <1>6 DEF ArrayValue, In, State, StateOf, Level, LevelOf

LEMMA ArrayAddMove == ASSUME ArrayAddValue PROVE CharMove
  <1>1. pc = "parse" /\ StateOf(tok) = "array_add"
    BY DEF ArrayAddValue, In, State, Level, StateOf, LevelOf, locals
  <1>2. CharStep(strict, tok, obj, c) = ArrayAddOf(strict, tok, obj, c)
    BY <1>1 DEF CharStep
  <1>3. CASE obj' = Null /\ Redo([Skip(tok, "array_sep") EXCEPT
                                  !.stack[tok.depth].current = WithElement(@, obj)])
    <2> DEFINE t == [Skip(tok, "array_sep") EXCEPT !.stack[tok.depth].current =
               WithElement(@, obj)]
    <2>1. CharStep(strict, tok, obj, c) = Res(t, Null, "redo")
      BY <1>1, <1>2, <1>3 DEF ArrayAddOf
    <2> QED BY <1>1, <1>3, <2>1, Moved DEF Redo
  <1> QED BY <1>3 DEF ArrayAddValue

LEMMA ArraySepMove == ASSUME ArraySep PROVE CharMove
  <1>1. pc = "parse" /\ StateOf(tok) = "array_sep" /\ obj' = obj
    BY DEF ArraySep, In, State, Level, StateOf, LevelOf, locals
  <1>2. CharStep(strict, tok, obj, c) = ArraySepOf(strict, tok, obj, c)
    BY <1>1 DEF CharStep
  <1>3. CASE c = "]" /\ AdvanceChar(Skip(tok, "finish"))
    <2>1. CharStep(strict, tok, obj, c) = Res(Skip(tok, "finish"), obj, "next")
      BY <1>1, <1>2, <1>3 DEF ArraySepOf
    <2> QED BY <1>1, <1>3, <2>1, Moved DEF AdvanceChar
  <1>4. CASE c = "," /\ AdvanceChar(Skip(tok, "array_after_sep"))
    <2>1. CharStep(strict, tok, obj, c) = Res(Skip(tok, "array_after_sep"), obj, "next")
      BY <1>1, <1>2, <1>4 DEF ArraySepOf
    <2> QED BY <1>1, <1>4, <2>1, Moved DEF AdvanceChar
  <1>5. CASE c \notin {"]", ","} /\ Fail("array")
    <2>1. CharStep(strict, tok, obj, c) = Res(tok, obj, "array") /\ "array" \in Errors
      BY <1>1, <1>2, <1>5 DEF ArraySepOf, Errors
    <2> QED BY <1>1, <1>5, <2>1, Moved DEF Fail
  <1> QED BY <1>3, <1>4, <1>5 DEF ArraySep

LEMMA FieldStartMove == ASSUME ObjectFieldStart PROVE CharMove
  <1>1. pc = "parse" /\ StateOf(tok) \in {"object_field_start",
          "object_field_start_after_sep"} /\ obj' = obj
    BY DEF ObjectFieldStart, In, State, Level, StateOf, LevelOf, locals
  <1>2. CharStep(strict, tok, obj, c) = FieldStartOf(strict, tok, obj, c)
    BY <1>1 DEF CharStep
  <1>3. CASE c = "}" /\ StateOf(tok) = "object_field_start_after_sep" /\ strict
               /\ Fail("unexpected")
    <2>1. CharStep(strict, tok, obj, c) = Res(tok, obj, "unexpected")
            /\ "unexpected" \in Errors
      BY <1>1, <1>2, <1>3 DEF FieldStartOf, Errors
    <2> QED BY <1>1, <1>3, <2>1, Moved DEF Fail
  <1>4. CASE /\ c = "}" /\ (StateOf(tok) = "object_field_start_after_sep" => ~strict)
             /\ AdvanceChar(Skip(tok, "finish"))
    <2>1. CharStep(strict, tok, obj, c) = Res(Skip(tok, "finish"), obj, "next")
      BY <1>1, <1>2, <1>4 DEF FieldStartOf
    <2> QED BY <1>1, <1>4, <2>1, Moved DEF AdvanceChar
  <1>5. CASE /\ c \in {"\"", "'"}
             /\ AdvanceChar([Goto(tok, "object_field") EXCEPT !.pb = <<>>, !.quote_char = c])
    <2> DEFINE t == [Goto(tok, "object_field") EXCEPT !.pb = <<>>, !.quote_char = c]
    <2>1. CharStep(strict, tok, obj, c) = Res(t, obj, "next")
      BY <1>1, <1>2, <1>5 DEF FieldStartOf
    <2> QED BY <1>1, <1>5, <2>1, Moved DEF AdvanceChar
  <1>6. CASE c \notin {"}", "\"", "'"} /\ Fail("key_name")
    <2>1. CharStep(strict, tok, obj, c) = Res(tok, obj, "key_name") /\ "key_name" \in Errors
      BY <1>1, <1>2, <1>6 DEF FieldStartOf, Errors
    <2> QED BY <1>1, <1>6, <2>1, Moved DEF Fail
  <1> QED BY <1>3, <1>4, <1>5, <1>6 DEF ObjectFieldStart, In, State, StateOf, Level, LevelOf

LEMMA FieldEndMove == ASSUME ObjectField PROVE CharMove
  <1>1. pc = "parse" /\ StateOf(tok) = "object_field" /\ obj' = obj
    BY DEF ObjectField, In, State, Level, StateOf, LevelOf, locals
  <1>2. CharStep(strict, tok, obj, c) = ObjectFieldOf(strict, tok, obj, c)
    BY <1>1 DEF CharStep
  <1>3. CASE /\ c = tok.quote_char
             /\ AdvanceChar([Skip(tok, "object_field_end") EXCEPT
                                 !.stack[tok.depth].obj_field_name = <<tok.pb>>])
    <2> DEFINE t == [Skip(tok, "object_field_end") EXCEPT
                         !.stack[tok.depth].obj_field_name = <<tok.pb>>]
    <2>1. CharStep(strict, tok, obj, c) = Res(t, obj, "next")
      BY <1>1, <1>2, <1>3 DEF ObjectFieldOf
    <2> QED BY <1>1, <1>3, <2>1, Moved DEF AdvanceChar
  <1> QED BY <1>3 DEF ObjectField

LEMMA FieldNameMove == ASSUME ObjectFieldEnd PROVE CharMove
  <1>1. pc = "parse" /\ StateOf(tok) = "object_field_end" /\ obj' = obj
    BY DEF ObjectFieldEnd, In, State, Level, StateOf, LevelOf, locals
  <1>2. CharStep(strict, tok, obj, c) = FieldEndOf(strict, tok, obj, c)
    BY <1>1 DEF CharStep
  <1>3. CASE c = ":" /\ AdvanceChar(Skip(tok, "object_value"))
    <2>1. CharStep(strict, tok, obj, c) = Res(Skip(tok, "object_value"), obj, "next")
      BY <1>1, <1>2, <1>3 DEF FieldEndOf
    <2> QED BY <1>1, <1>3, <2>1, Moved DEF AdvanceChar
  <1>4. CASE c # ":" /\ Fail("key_sep")
    <2>1. CharStep(strict, tok, obj, c) = Res(tok, obj, "key_sep") /\ "key_sep" \in Errors
      BY <1>1, <1>2, <1>4 DEF FieldEndOf, Errors
    <2> QED BY <1>1, <1>4, <2>1, Moved DEF Fail
  <1> QED BY <1>3, <1>4 DEF ObjectFieldEnd

LEMMA ObjectValueMove == ASSUME ObjectValue PROVE CharMove
  <1>1. pc = "parse" /\ StateOf(tok) = "object_value" /\ obj' = obj
    BY DEF ObjectValue, In, State, Level, StateOf, LevelOf, locals
  <1>2. CharStep(strict, tok, obj, c) = ObjectValueOf(strict, tok, obj, c)
    BY <1>1 DEF CharStep
  <1>3. CASE tok.depth >= MaxDepth /\ Fail("depth")
    <2>1. CharStep(strict, tok, obj, c) = Res(tok, obj, "depth") /\ "depth" \in Errors
      BY <1>1, <1>2, <1>3 DEF ObjectValueOf, Errors
    <2> QED BY <1>1, <1>3, <2>1, Moved DEF Fail
  <1>4. CASE ~(tok.depth >= MaxDepth) /\ Redo(Deeper(tok, "object_value_add"))
    <2> DEFINE t == Deeper(tok, "object_value_add")
    <2>1. CharStep(strict, tok, obj, c) = Res(t, obj, "redo")
      BY <1>1, <1>2, <1>4 DEF ObjectValueOf
    <2> QED BY <1>1, <1>4, <2>1, Moved DEF Redo
  <1> QED BY <1>3, <1>4 DEF ObjectValue

LEMMA ObjectAddMove == ASSUME ObjectValueAdd PROVE CharMove
  <1>1. pc = "parse" /\ StateOf(tok) = "object_value_add"
    BY DEF ObjectValueAdd, In, State, Level, StateOf, LevelOf, locals
  <1>2. CharStep(strict, tok, obj, c) = ObjectAddOf(strict, tok, obj, c)
    BY <1>1 DEF CharStep
  <1>3. CASE /\ obj' = Null
             /\ Redo([Skip(tok, "object_sep") EXCEPT
                   !.stack[tok.depth].current = WithField(@, Level.obj_field_name[1], obj),
                   !.stack[tok.depth].obj_field_name = <<>>])
    <2> DEFINE t == [Skip(tok, "object_sep") EXCEPT
                   !.stack[tok.depth].current = WithField(@, Level.obj_field_name[1], obj),
                   !.stack[tok.depth].obj_field_name = <<>>]
    <2>1. CharStep(strict, tok, obj, c) = Res(t, Null, "redo")
      BY <1>1, <1>2, <1>3 DEF ObjectAddOf, Level, LevelOf
    <2> QED BY <1>1, <1>3, <2>1, Moved DEF Redo
  <1> QED BY <1>3 DEF ObjectValueAdd

LEMMA ObjectSepMove == ASSUME ObjectSep PROVE CharMove
  <1>1. pc = "parse" /\ StateOf(tok) = "object_sep" /\ obj' = obj
    BY DEF ObjectSep, In, State, Level, StateOf, LevelOf, locals
  <1>2. CharStep(strict, tok, obj, c) = ObjectSepOf(strict, tok, obj, c)
    BY <1>1 DEF CharStep
  <1>3. CASE c = "}" /\ AdvanceChar(Skip(tok, "finish"))
    <2>1. CharStep(strict, tok, obj, c) = Res(Skip(tok, "finish"), obj, "next")
      BY <1>1, <1>2, <1>3 DEF ObjectSepOf
    <2> QED BY <1>1, <1>3, <2>1, Moved DEF AdvanceChar
  <1>4. CASE c = "," /\ AdvanceChar(Skip(tok, "object_field_start_after_sep"))
    <2> DEFINE t == Skip(tok, "object_field_start_after_sep")
    <2>1. CharStep(strict, tok, obj, c) = Res(t, obj, "next")
      BY <1>1, <1>2, <1>4 DEF ObjectSepOf
    <2> QED BY <1>1, <1>4, <2>1, Moved DEF AdvanceChar
  <1>5. CASE c \notin {"}", ","} /\ Fail("value_sep")
    <2>1. CharStep(strict, tok, obj, c) = Res(tok, obj, "value_sep") /\ "value_sep" \in Errors
      BY <1>1, <1>2, <1>5 DEF ObjectSepOf, Errors
    <2> QED BY <1>1, <1>5, <2>1, Moved DEF Fail
  <1> QED BY <1>3, <1>4, <1>5 DEF ObjectSep

\* What the functions leave out is -Infinity and a pair of codes.
LEMMA CharacterMove ==
    ASSUME Character, tok.depth \in 1..MaxDepth, NumberEnd => ~MinusInfinity,
           UnicodeEnd => got_hi = 0 /\ ~UnicodeFollows
    PROVE  CharMove
  BY EatwsMove, StartMove, FinishMove, NullMove, BooleanMove, InfMove, NumberMove,
     NumberEndMove, CommentStartMove, CommentMove, CommentEolMove, CommentEndMove,
     StringCharacterMove, FieldCharacterMove, EscapeInStringMove, EscapeInFieldMove,
     StringEndMove, StringEscapeMove, UnicodeDigitMove, UnicodeEndMove, UnicodeBadMove,
     ArrayMove, ArrayAddMove, ArraySepMove, FieldStartMove, FieldEndMove, FieldNameMove,
     ObjectValueMove, ObjectAddMove, ObjectSepMove
  DEF Character

-----------------------------------------------------------------------------
(* What is true of the tokener in the middle of any text.                    *)

Fields == {"stack", "depth", "pb", "st_pos", "ucs_char", "is_double", "quote_char"}
LevelFields == {"state", "saved_state", "current", "obj_field_name"}

Comments == {"comment_start", "comment", "comment_eol", "comment_end"}
Escapes == {"string_escape", "escape_unicode"}
Adds == {"array_add", "object_value_add"}

\* The states that blanks and comments lead to.
Resumed == {"start", "finish", "array", "array_after_sep", "array_sep", "object_field_start",
            "object_field_start_after_sep", "object_field_end", "object_value", "object_sep"}

Shape(t) ==
    /\ DOMAIN t = Fields
    /\ t.depth \in 1..MaxDepth
    /\ DOMAIN t.stack = 1..MaxDepth
    /\ \A i \in 1..MaxDepth : DOMAIN t.stack[i] = LevelFields

\* What a level goes on with behind blanks, comments and escapes.
LevelOK(l) ==
    /\ l.state \in Resumed \cup Adds \cup Escapes \cup Comments \cup
         {"eatws", "null", "boolean", "inf", "number", "string", "object_field"}
    /\ l.state \in Comments \cup {"eatws"} => l.saved_state \in Resumed
    /\ l.state \in Escapes => l.saved_state \in {"string", "object_field"}

\* A level above the one in use is fresh, and one below it waits for a value.
StackOK(t) ==
    /\ \A i \in 1..MaxDepth : LevelOK(t.stack[i])
    /\ \A i \in 1..MaxDepth : i > t.depth => t.stack[i] = FreshLevel
    /\ \A i \in 1..MaxDepth : i < t.depth => t.stack[i].state \in Adds

Sound(t) == Shape(t) /\ StackOK(t)

LEMMA FreshOK == LevelOK(FreshLevel) /\ DOMAIN FreshLevel = LevelFields
  BY DEF LevelOK, FreshLevel, LevelFields, Resumed, Adds, Escapes, Comments

\* The level in use is changed.
LEMMA LevelChanged ==
    ASSUME NEW t, Sound(t), NEW l, LevelOK(l), DOMAIN l = LevelFields, NEW u,
           DOMAIN u = Fields, u.depth = t.depth, u.stack = [t.stack EXCEPT ![t.depth] = l]
    PROVE  Sound(u) /\ LevelOf(u) = l
  BY DepthAssumption DEF Sound, Shape, StackOK, LevelOf

\* Nothing is changed but what belongs to the token.
LEMMA TokenChanged ==
    ASSUME NEW t, Sound(t), NEW u, DOMAIN u = Fields, u.depth = t.depth, u.stack = t.stack
    PROVE  Sound(u) /\ LevelOf(u) = LevelOf(t)
  BY DEF Sound, Shape, StackOK, LevelOf

LEMMA LevelSound ==
    ASSUME NEW t, Sound(t)
    PROVE  t.depth \in 1..MaxDepth /\ LevelOK(LevelOf(t)) /\ DOMAIN LevelOf(t) = LevelFields
  BY DEF Sound, Shape, StackOK, LevelOf

LEMMA GotoSound ==
    ASSUME NEW t, Sound(t), NEW s, LevelOK([LevelOf(t) EXCEPT !.state = s])
    PROVE  Sound(Goto(t, s)) /\ StateOf(Goto(t, s)) = s /\ Goto(t, s).depth = t.depth
  <1> DEFINE l == [LevelOf(t) EXCEPT !.state = s]
  <1>1. DOMAIN l = LevelFields /\ l.state = s
    BY LevelSound DEF LevelFields
  <1>2. /\ DOMAIN Goto(t, s) = Fields /\ Goto(t, s).depth = t.depth
        /\ Goto(t, s).stack = [t.stack EXCEPT ![t.depth] = l]
    BY DEF Sound, Shape, Goto, Fields, LevelOf
  <1>a. LevelOK(l)
    OBVIOUS
  <1>3. Sound(Goto(t, s)) /\ LevelOf(Goto(t, s)) = l
    <2> HIDE DEF l
    <2> QED BY <1>1, <1>2, <1>a, LevelChanged
  <1> QED BY <1>1, <1>2, <1>3 DEF StateOf

\* A state that needs nothing of saved_state, and the saved state itself.
LEMMA GotoPlain ==
    ASSUME NEW t, Sound(t),
           NEW s \in {"start", "null", "boolean", "inf", "number", "string",
             "object_field"} \cup Adds
    PROVE  Sound(Goto(t, s)) /\ StateOf(Goto(t, s)) = s /\ Goto(t, s).depth = t.depth
  <1>1. LevelOK([LevelOf(t) EXCEPT !.state = s])
    BY LevelSound DEF LevelOK, LevelFields, Resumed, Adds, Escapes, Comments
  <1> QED BY <1>1, GotoSound

LEMMA GotoSaved ==
    ASSUME NEW t, Sound(t), StateOf(t) \in Comments \cup Escapes \cup {"eatws"}
    PROVE  /\ Sound(Goto(t, SavedOf(t))) /\ StateOf(Goto(t, SavedOf(t))) = SavedOf(t)
           /\ Goto(t, SavedOf(t)).depth = t.depth
           /\ StateOf(t) \in Escapes => SavedOf(t) \in {"string", "object_field"}
           /\ StateOf(t) \notin Escapes => SavedOf(t) \in Resumed
  <1>1. LevelOK([LevelOf(t) EXCEPT !.state = SavedOf(t)])
    BY LevelSound DEF LevelOK, LevelFields, Resumed, Adds, Escapes, Comments, StateOf, SavedOf
  <1>2. SavedOf(t) \in Resumed
          \/ (StateOf(t) \in Escapes /\ SavedOf(t) \in {"string", "object_field"})
    BY LevelSound DEF LevelOK, StateOf, SavedOf
  <1> QED BY <1>1, <1>2, GotoSound, LevelSound DEF LevelOK, StateOf, SavedOf, Escapes, Comments

\* From blanks and comments to blanks and comments.
LEMMA GotoBlank ==
    ASSUME NEW t, Sound(t), StateOf(t) \in Comments \cup {"eatws"},
           NEW s \in Comments \cup {"eatws"}
    PROVE  Sound(Goto(t, s)) /\ StateOf(Goto(t, s)) = s /\ Goto(t, s).depth = t.depth
  <1>1. LevelOK([LevelOf(t) EXCEPT !.state = s])
    BY LevelSound DEF LevelOK, LevelFields, Resumed, Adds, Escapes, Comments, StateOf
  <1> QED BY <1>1, GotoSound

LEMMA SkipSound ==
    ASSUME NEW t, Sound(t), NEW s \in Resumed
    PROVE  /\ Sound(Skip(t, s)) /\ StateOf(Skip(t, s)) = "eatws" /\ SavedOf(Skip(t, s)) = s
           /\ Skip(t, s).depth = t.depth
  <1> DEFINE l == [LevelOf(t) EXCEPT !.state = "eatws", !.saved_state = s]
  <1>1. DOMAIN l = LevelFields /\ l.state = "eatws" /\ l.saved_state = s
    BY LevelSound DEF LevelFields
  <1>2. /\ DOMAIN Skip(t, s) = Fields /\ Skip(t, s).depth = t.depth
        /\ Skip(t, s).stack = [t.stack EXCEPT ![t.depth] = l]
    BY DEF Sound, Shape, Skip, Fields, LevelOf
  <1>3. LevelOK(l)
    BY <1>1 DEF LevelOK, Escapes, Comments
  <1>4. Sound(Skip(t, s)) /\ LevelOf(Skip(t, s)) = l
    <2> HIDE DEF l
    <2> QED BY <1>1, <1>2, <1>3, LevelChanged
  <1> QED BY <1>1, <1>2, <1>4 DEF StateOf, SavedOf

LEMMA CurrentSound ==
    ASSUME NEW t, Sound(t), NEW d, d = t.depth, NEW v
    PROVE  LET u == [t EXCEPT !.stack[d].current = v] IN
           Sound(u) /\ StateOf(u) = StateOf(t) /\ u.depth = t.depth
  <1> DEFINE u == [t EXCEPT !.stack[d].current = v]
             l == [LevelOf(t) EXCEPT !.current = v]
  <1>1. DOMAIN l = LevelFields /\ l.state = LevelOf(t).state
          /\ l.saved_state = LevelOf(t).saved_state
    BY LevelSound DEF LevelFields
  <1>2. /\ DOMAIN u = Fields /\ u.depth = t.depth
        /\ u.stack = [t.stack EXCEPT ![t.depth] = l]
    BY DEF Sound, Shape, Fields, LevelOf
  <1>3. LevelOK(l)
    BY <1>1, LevelSound DEF LevelOK
  <1>4. Sound(u) /\ LevelOf(u) = l
    <2> HIDE DEF l, u
    <2> QED BY <1>1, <1>2, <1>3, LevelChanged
  <1> QED BY <1>1, <1>2, <1>4 DEF StateOf

LEMMA FieldNameSound ==
    ASSUME NEW t, Sound(t), NEW d, d = t.depth, NEW v
    PROVE  LET u == [t EXCEPT !.stack[d].obj_field_name = v] IN
           Sound(u) /\ StateOf(u) = StateOf(t) /\ u.depth = t.depth
  <1> DEFINE u == [t EXCEPT !.stack[d].obj_field_name = v]
             l == [LevelOf(t) EXCEPT !.obj_field_name = v]
  <1>1. DOMAIN l = LevelFields /\ l.state = LevelOf(t).state
          /\ l.saved_state = LevelOf(t).saved_state
    BY LevelSound DEF LevelFields
  <1>2. /\ DOMAIN u = Fields /\ u.depth = t.depth
        /\ u.stack = [t.stack EXCEPT ![t.depth] = l]
    BY DEF Sound, Shape, Fields, LevelOf
  <1>3. LevelOK(l)
    BY <1>1, LevelSound DEF LevelOK
  <1>4. Sound(u) /\ LevelOf(u) = l
    <2> HIDE DEF l, u
    <2> QED BY <1>1, <1>2, <1>3, LevelChanged
  <1> QED BY <1>1, <1>2, <1>4 DEF StateOf

LEMMA KeepSound ==
    ASSUME NEW t, Sound(t), NEW x
    PROVE  Sound(Keep(t, x)) /\ StateOf(Keep(t, x)) = StateOf(t)
  BY TokenChanged DEF Keep, Sound, Shape, Fields, StateOf

LEMMA HaveSound ==
    ASSUME NEW t, Sound(t), NEW v
    PROVE  Sound(Have(t, v)) /\ StateOf(Have(t, v)) = "eatws"
  <1>1. "finish" \in Resumed
    BY DEF Resumed
  <1> QED BY <1>1, SkipSound, CurrentSound DEF Have

LEMMA DeeperIs ==
    ASSUME NEW t, Sound(t), t.depth < MaxDepth, NEW s \in Adds
    PROVE  LET u == Deeper(t, s) IN
           Sound(u) /\ u.depth = t.depth + 1 /\ LevelOf(u) = FreshLevel /\ StateOf(u) = "eatws"
  <1> DEFINE u == Deeper(t, s)
             l == [LevelOf(t) EXCEPT !.state = s]
  <1>1. u.depth = t.depth + 1 /\ t.depth \in 1..MaxDepth /\ u.depth \in 1..MaxDepth
    BY DepthAssumption DEF Sound, Shape, Deeper, Goto, Fields
  <1>2. u.stack = [[t.stack EXCEPT ![t.depth] = l] EXCEPT ![t.depth + 1] = FreshLevel]
    BY DEF Sound, Shape, Deeper, Goto, Fields, LevelOf
  <1>3. DOMAIN u = Fields /\ DOMAIN u.stack = 1..MaxDepth
    BY <1>2 DEF Sound, Shape, Deeper, Goto, Fields
  <1>5. DOMAIN l = LevelFields /\ l.state = s /\ LevelOK(l)
    BY <1>1 DEF Sound, Shape, StackOK, LevelOf, LevelFields, LevelOK, Adds, Resumed,
       Escapes, Comments
  <1> HIDE DEF u, l
  <1>4. /\ \A i \in 1..MaxDepth : i # t.depth /\ i # t.depth + 1 => u.stack[i] = t.stack[i]
        /\ u.stack[t.depth] = l /\ u.stack[t.depth + 1] = FreshLevel
    BY <1>1, <1>2, DepthAssumption DEF Sound, Shape
  <1>6. \A i \in 1..MaxDepth : DOMAIN u.stack[i] = LevelFields /\ LevelOK(u.stack[i])
    BY <1>4, <1>5, FreshOK DEF Sound, Shape, StackOK
  <1>7. ASSUME NEW i \in 1..MaxDepth
        PROVE  /\ i > u.depth => u.stack[i] = FreshLevel
               /\ i < u.depth => u.stack[i].state \in Adds
    <2>1. CASE i = t.depth \/ i = t.depth + 1
      BY <1>1, <1>4, <1>5, <2>1, DepthAssumption
    <2>2. CASE i # t.depth /\ i # t.depth + 1
      <3>1. u.stack[i] = t.stack[i] /\ (i > u.depth => i > t.depth)
              /\ (i < u.depth => i < t.depth)
        BY <1>1, <1>4, <2>2, DepthAssumption
      <3> QED BY <3>1 DEF Sound, StackOK
    <2> QED BY <2>1, <2>2
  <1>8. Sound(u) /\ LevelOf(u) = FreshLevel /\ StateOf(u) = "eatws"
    BY <1>1, <1>3, <1>4, <1>6, <1>7 DEF Sound, Shape, StackOK, LevelOf, StateOf, FreshLevel
  <1> QED BY <1>1, <1>8 DEF u

\* The level in use is left.
LEMMA LevelLeft ==
    ASSUME NEW t, Sound(t), t.depth > 1
    PROVE  LET u == [t EXCEPT !.stack[t.depth] = FreshLevel, !.depth = @ - 1] IN
           Sound(u) /\ StateOf(u) \in Adds
  <1> DEFINE u == [t EXCEPT !.stack[t.depth] = FreshLevel, !.depth = @ - 1]
  <1>1. u.depth = t.depth - 1 /\ t.depth \in 1..MaxDepth /\ u.depth \in 1..MaxDepth
    BY DepthAssumption DEF Sound, Shape, Fields
  <1>2. u.stack = [t.stack EXCEPT ![t.depth] = FreshLevel]
    BY DEF Sound, Shape, Fields
  <1>3. DOMAIN u = Fields /\ DOMAIN u.stack = 1..MaxDepth
    BY <1>2 DEF Sound, Shape, Fields
  <1> HIDE DEF u
  <1>4. /\ \A i \in 1..MaxDepth : i # t.depth => u.stack[i] = t.stack[i]
        /\ u.stack[t.depth] = FreshLevel
    BY <1>1, <1>2, DepthAssumption DEF Sound, Shape
  <1>5. \A i \in 1..MaxDepth : i > u.depth => i = t.depth \/ i > t.depth
    BY <1>1, DepthAssumption
  <1>6. \A i \in 1..MaxDepth : DOMAIN u.stack[i] = LevelFields /\ LevelOK(u.stack[i])
    BY <1>4, FreshOK, SMTT(20) DEF Sound, Shape, StackOK
  <1>7. \A i \in 1..MaxDepth : /\ i > u.depth => u.stack[i] = FreshLevel
                               /\ i < u.depth => u.stack[i].state \in Adds
    BY <1>1, <1>4, DepthAssumption DEF Sound, Shape, StackOK
  <1>8. StateOf(u) \in Adds
    BY <1>1, <1>4, DepthAssumption DEF Sound, Shape, StackOK, StateOf, LevelOf
  <1>9. Sound(u) /\ StateOf(u) \in Adds
    BY <1>1, <1>3, <1>6, <1>7, <1>8 DEF Sound, Shape, StackOK
  <1> QED BY <1>9 DEF u

-----------------------------------------------------------------------------
(* What the cases leave is sound again.                                      *)

Ends == {"redo", "next", "out"} \cup Errors

\* The states in which the tokener depends on what has been read before.
Textual == {"number", "string_escape", "escape_unicode"}

Quiet(r) ==
    /\ Sound(r.tok)
    /\ r.end \in Ends
    /\ r.end = "next" => StateOf(r.tok) # "finish"
    /\ StateOf(r.tok) \notin Textual

LEMMA ResQuiet ==
    ASSUME NEW u, Sound(u), StateOf(u) \notin Textual, NEW o, NEW e \in Ends,
           e = "next" => StateOf(u) # "finish"
    PROVE  Quiet(Res(u, o, e))
  BY DEF Quiet, Res

\* The states that depend on the buffer.
Buffered == {"null", "boolean", "inf", "number", "string", "object_field"} \cup Escapes

Calm(r) ==
    /\ Sound(r.tok)
    /\ r.end \in Ends
    /\ r.end = "next" => StateOf(r.tok) # "finish"
    /\ StateOf(r.tok) \notin Buffered

LEMMA ResCalm ==
    ASSUME NEW u, Sound(u), StateOf(u) \notin Buffered, NEW o, NEW e \in Ends,
           e = "next" => StateOf(u) # "finish"
    PROVE  Calm(Res(u, o, e))
  BY DEF Calm, Res

LEMMA CalmQuiet ==
    ASSUME NEW r, Calm(r)
    PROVE  Quiet(r)
  BY DEF Calm, Quiet, Textual, Buffered, Escapes

LEMMA ArraySepCalm ==
    ASSUME NEW t, Sound(t), NEW st, NEW x, NEW o, StateOf(t) = "array_sep"
    PROVE  Calm(ArraySepOf(st, t, o, x))
  <1>1. {"next", "array"} \subseteq Ends /\ {"eatws", "array_sep"} \cap Buffered = {}
        /\ {"finish", "array_after_sep"} \subseteq Resumed
    BY DEF Ends, Errors, Buffered, Escapes, Resumed
  <1>2. CASE x = "]"
    <2>1. ArraySepOf(st, t, o, x) = Res(Skip(t, "finish"), o, "next")
      BY <1>2 DEF ArraySepOf
    <2> QED BY <1>1, <2>1, SkipSound, ResCalm
  <1>3. CASE x = ","
    <2>1. ArraySepOf(st, t, o, x) = Res(Skip(t, "array_after_sep"), o, "next")
      BY <1>3 DEF ArraySepOf
    <2> QED BY <1>1, <2>1, SkipSound, ResCalm
  <1>4. CASE x \notin {"]", ","}
    <2>1. ArraySepOf(st, t, o, x) = Res(t, o, "array")
      BY <1>4 DEF ArraySepOf
    <2> QED BY <1>1, <2>1, ResCalm
  <1> QED BY <1>2, <1>3, <1>4

LEMMA ObjectSepCalm ==
    ASSUME NEW t, Sound(t), NEW st, NEW x, NEW o, StateOf(t) = "object_sep"
    PROVE  Calm(ObjectSepOf(st, t, o, x))
  <1>1. {"next", "value_sep"} \subseteq Ends /\ {"eatws", "object_sep"} \cap Buffered = {}
        /\ {"finish", "object_field_start_after_sep"} \subseteq Resumed
    BY DEF Ends, Errors, Buffered, Escapes, Resumed
  <1>2. CASE x = "}"
    <2>1. ObjectSepOf(st, t, o, x) = Res(Skip(t, "finish"), o, "next")
      BY <1>2 DEF ObjectSepOf
    <2> QED BY <1>1, <2>1, SkipSound, ResCalm
  <1>3. CASE x = ","
    <2>1. ObjectSepOf(st, t, o, x) = Res(Skip(t, "object_field_start_after_sep"), o, "next")
      BY <1>3 DEF ObjectSepOf
    <2> QED BY <1>1, <2>1, SkipSound, ResCalm
  <1>4. CASE x \notin {"}", ","}
    <2>1. ObjectSepOf(st, t, o, x) = Res(t, o, "value_sep")
      BY <1>4 DEF ObjectSepOf
    <2> QED BY <1>1, <2>1, ResCalm
  <1> QED BY <1>2, <1>3, <1>4

LEMMA FieldNameCalm ==
    ASSUME NEW t, Sound(t), NEW st, NEW x, NEW o, StateOf(t) = "object_field_end"
    PROVE  Calm(FieldEndOf(st, t, o, x))
  BY SkipSound DEF FieldEndOf, Res, Calm, Ends, Errors, Buffered, Resumed, Escapes

LEMMA ArrayAddCalm ==
    ASSUME NEW t, Sound(t), NEW st, NEW x, NEW o, StateOf(t) = "array_add"
    PROVE  Calm(ArrayAddOf(st, t, o, x))
  <1> DEFINE v == Skip(t, "array_sep")
             u == [v EXCEPT !.stack[t.depth].current = WithElement(@, o)]
  <1>1. ArrayAddOf(st, t, o, x) = Res(u, Null, "redo")
    BY DEF ArrayAddOf
  <1>2. Sound(v) /\ StateOf(v) = "eatws" /\ v.depth = t.depth
    BY SkipSound DEF Resumed
  <1>3. Sound(u) /\ StateOf(u) = "eatws"
    BY <1>2, CurrentSound
  <1> QED BY <1>1, <1>3, ResCalm DEF Ends, Buffered, Escapes

LEMMA ObjectAddCalm ==
    ASSUME NEW t, Sound(t), NEW st, NEW x, NEW o, StateOf(t) = "object_value_add"
    PROVE  Calm(ObjectAddOf(st, t, o, x))
  <1> DEFINE v == Skip(t, "object_sep")
             w == [v EXCEPT !.stack[t.depth].current =
                       WithField(@, LevelOf(t).obj_field_name[1], o)]
             u == [w EXCEPT !.stack[t.depth].obj_field_name = <<>>]
  <1>1. ObjectAddOf(st, t, o, x) = Res(u, Null, "redo")
    BY DEF ObjectAddOf
  <1>2. Sound(v) /\ StateOf(v) = "eatws" /\ v.depth = t.depth
    BY SkipSound DEF Resumed
  <1>3. Sound(w) /\ StateOf(w) = "eatws" /\ w.depth = t.depth
    BY <1>2, CurrentSound
  <1>4. Sound(u) /\ StateOf(u) = "eatws"
    <2> HIDE DEF w
    <2> QED BY <1>3, FieldNameSound
  <1> QED BY <1>1, <1>4, ResCalm DEF Ends, Buffered, Escapes

LEMMA EatwsCalm ==
    ASSUME NEW t, Sound(t), NEW st, NEW x, NEW o, StateOf(t) = "eatws"
    PROVE  Calm(EatwsOf(st, t, o, x))
  <1> DEFINE v == Goto(t, "comment_start")
             u == [v EXCEPT !.pb = <<x>>]
  <1>1. Sound(v) /\ StateOf(v) = "comment_start"
    BY GotoBlank DEF Comments
  <1>2. Sound(u) /\ StateOf(u) = "comment_start"
    BY <1>1, TokenChanged DEF Sound, Shape, Fields, StateOf
  <1>3. Sound(Goto(t, SavedOf(t))) /\ StateOf(Goto(t, SavedOf(t))) \in Resumed
    BY GotoSaved DEF Escapes
  <1>4. CASE x \in Space
    BY <1>4, ResCalm DEF EatwsOf, Ends, Buffered, Escapes
  <1>5. CASE x \notin Space /\ x = "/" /\ ~st
    BY <1>2, <1>5, ResCalm DEF EatwsOf, Ends, Buffered, Escapes
  <1>6. CASE x \notin Space /\ ~(x = "/" /\ ~st)
    BY <1>3, <1>6, ResCalm DEF EatwsOf, Ends, Buffered, Resumed, Escapes
  <1> QED BY <1>4, <1>5, <1>6

LEMMA CommentStartCalm ==
    ASSUME NEW t, Sound(t), NEW st, NEW x, NEW o, StateOf(t) = "comment_start"
    PROVE  Calm(CommentStartOf(st, t, o, x))
  <1>1. CASE x = "*"
    <2>1. CommentStartOf(st, t, o, x) = Res(Keep(Goto(t, "comment"), x), o, "next")
      BY <1>1 DEF CommentStartOf
    <2>2. Sound(Keep(Goto(t, "comment"), x))
            /\ StateOf(Keep(Goto(t, "comment"), x)) \notin Buffered
            /\ StateOf(Keep(Goto(t, "comment"), x)) # "finish"
      BY GotoBlank, KeepSound DEF Buffered, Resumed, Comments, Escapes, Adds
    <2> QED BY <2>1, <2>2, ResCalm DEF Ends, Errors
  <1>2. CASE x # "*" /\ x = "/"
    <2>1. CommentStartOf(st, t, o, x) = Res(Keep(Goto(t, "comment_eol"), x), o, "next")
      BY <1>2 DEF CommentStartOf
    <2>2. Sound(Keep(Goto(t, "comment_eol"), x))
            /\ StateOf(Keep(Goto(t, "comment_eol"), x)) \notin Buffered
            /\ StateOf(Keep(Goto(t, "comment_eol"), x)) # "finish"
      BY GotoBlank, KeepSound DEF Buffered, Resumed, Comments, Escapes, Adds
    <2> QED BY <2>1, <2>2, ResCalm DEF Ends, Errors
  <1>3. CASE x # "*" /\ x # "/"
    <2>1. CommentStartOf(st, t, o, x) = Res(t, o, "comment")
      BY <1>3 DEF CommentStartOf
    <2>2. StateOf(t) \notin Buffered /\ StateOf(t) # "finish"
      BY DEF Buffered, Escapes
    <2> QED BY <2>1, <2>2, ResCalm DEF Ends, Errors
  <1> QED BY <1>1, <1>2, <1>3

LEMMA CommentCalm ==
    ASSUME NEW t, Sound(t), NEW st, NEW x, NEW o, StateOf(t) = "comment"
    PROVE  Calm(CommentOf(st, t, o, x))
  BY GotoBlank DEF CommentOf, Res, Calm, Ends, Errors, Buffered, Comments, Escapes

LEMMA CommentEolCalm ==
    ASSUME NEW t, Sound(t), NEW st, NEW x, NEW o, StateOf(t) = "comment_eol"
    PROVE  Calm(CommentEolOf(st, t, o, x))
  BY GotoBlank DEF CommentEolOf, Res, Calm, Ends, Errors, Buffered, Comments, Escapes

LEMMA CommentEndCalm ==
    ASSUME NEW t, Sound(t), NEW st, NEW x, NEW o, StateOf(t) = "comment_end"
    PROVE  Calm(CommentEndOf(st, t, o, x))
  BY GotoBlank DEF CommentEndOf, Res, Calm, Ends, Errors, Buffered, Comments, Escapes

LEMMA WordQuiet ==
    ASSUME NEW t, Sound(t), NEW x, NEW o, NEW w, NEW v, StateOf(t) \in {"null", "boolean",
           "inf"}
    PROVE  Quiet(WordOf(t, o, x, w, v))
  <1> DEFINE k == Keep(t, x)
             u == [k EXCEPT !.st_pos = @ + 1]
  <1>1. Sound(k) /\ StateOf(k) = StateOf(t)
    BY KeepSound
  <1>2. Sound(u) /\ StateOf(u) = StateOf(t)
    <2> HIDE DEF k
    <2>1. DOMAIN u = Fields /\ u.depth = k.depth /\ u.stack = k.stack
      BY <1>1 DEF Sound, Shape, Fields
    <2> HIDE DEF u
    <2> QED BY <1>1, <2>1, TokenChanged DEF StateOf
  <1>3. CASE t.st_pos = Len(w)
    <2>1. WordOf(t, o, x, w, v) = Res(Have(t, v), o, "redo")
      BY <1>3 DEF WordOf
    <2> QED BY <2>1, HaveSound, ResQuiet DEF Ends, Textual
  <1>4. CASE t.st_pos # Len(w)
    <2>1. WordOf(t, o, x, w, v) = Res(u, o, "next")
      BY <1>4 DEF WordOf
    <2> QED BY <1>2, <2>1, ResQuiet DEF Ends, Textual
  <1> QED BY <1>3, <1>4

LEMMA NullQuiet ==
    ASSUME NEW t, Sound(t), NEW st, NEW x, NEW o, StateOf(t) = "null"
    PROVE  Quiet(NullOf(st, t, o, x))
  <1>1. Quiet(Res(t, o, "null"))
    BY ResQuiet DEF Ends, Errors, Textual
  <1> QED BY <1>1, WordQuiet DEF NullOf

LEMMA BooleanQuiet ==
    ASSUME NEW t, Sound(t), NEW st, NEW x, NEW o, StateOf(t) = "boolean"
    PROVE  Quiet(BooleanOf(st, t, o, x))
  <1>1. Quiet(Res(t, o, "boolean"))
    BY ResQuiet DEF Ends, Errors, Textual
  <1> QED BY <1>1, WordQuiet DEF BooleanOf

LEMMA InfQuiet ==
    ASSUME NEW t, Sound(t), NEW st, NEW x, NEW o, StateOf(t) = "inf"
    PROVE  Quiet(InfOf(st, t, o, x))
  <1>1. Quiet(Res(t, o, "unexpected"))
    BY ResQuiet DEF Ends, Errors, Textual
  <1> QED BY <1>1, WordQuiet DEF InfOf

\* A string begins, and so does the name of a field.
LEMMA PbQuoteSound ==
    ASSUME NEW t, Sound(t), NEW s \in {"string", "object_field"}, NEW x
    PROVE  LET u == [Goto(t, s) EXCEPT !.pb = <<>>, !.quote_char = x] IN
           Sound(u) /\ StateOf(u) = s
  <1> DEFINE v == Goto(t, s)
             u == [v EXCEPT !.pb = <<>>, !.quote_char = x]
  <1>1. Sound(v) /\ StateOf(v) = s
    BY GotoPlain
  <1>2. DOMAIN u = Fields /\ u.depth = v.depth /\ u.stack = v.stack
    BY <1>1 DEF Sound, Shape, Fields
  <1>3. Sound(u) /\ StateOf(u) = s
    <2> HIDE DEF u, v
    <2> QED BY <1>1, <1>2, TokenChanged DEF StateOf
  <1> QED BY <1>3

LEMMA FieldStartQuiet ==
    ASSUME NEW t, Sound(t), NEW st, NEW x, NEW o, StateOf(t) \in {"object_field_start",
           "object_field_start_after_sep"}
    PROVE  Quiet(FieldStartOf(st, t, o, x))
  <1>1. CASE x = "}" /\ StateOf(t) = "object_field_start_after_sep" /\ st
    <2>1. FieldStartOf(st, t, o, x) = Res(t, o, "unexpected")
      BY <1>1 DEF FieldStartOf
    <2>2. StateOf(t) \notin Textual /\ StateOf(t) # "finish"
      BY DEF Textual
    <2> QED BY <2>1, <2>2, ResQuiet DEF Ends, Errors
  <1>2. CASE x = "}" /\ ~(StateOf(t) = "object_field_start_after_sep" /\ st)
    <2>1. FieldStartOf(st, t, o, x) = Res(Skip(t, "finish"), o, "next")
      BY <1>2 DEF FieldStartOf
    <2>2. Sound(Skip(t, "finish")) /\ StateOf(Skip(t, "finish")) \notin Textual
            /\ StateOf(Skip(t, "finish")) # "finish"
      BY SkipSound DEF Textual, Resumed, Comments, Escapes, Adds
    <2> QED BY <2>1, <2>2, ResQuiet DEF Ends, Errors
  <1>3. CASE x # "}" /\ x \in {"\"", "'"}
    <2>1. FieldStartOf(st, t, o, x) = Res([Goto(t, "object_field") EXCEPT !.pb = <<>>,
            !.quote_char = x], o, "next")
      BY <1>3 DEF FieldStartOf
    <2>2. Sound([Goto(t, "object_field") EXCEPT !.pb = <<>>, !.quote_char = x])
            /\ StateOf([Goto(t, "object_field") EXCEPT !.pb = <<>>,
            !.quote_char = x]) \notin Textual
            /\ StateOf([Goto(t, "object_field") EXCEPT !.pb = <<>>,
            !.quote_char = x]) # "finish"
      BY PbQuoteSound DEF Textual, Resumed, Comments, Escapes, Adds
    <2> QED BY <2>1, <2>2, ResQuiet DEF Ends, Errors
  <1>4. CASE x # "}" /\ x \notin {"\"", "'"}
    <2>1. FieldStartOf(st, t, o, x) = Res(t, o, "key_name")
      BY <1>4 DEF FieldStartOf
    <2>2. StateOf(t) \notin Textual /\ StateOf(t) # "finish"
      BY DEF Textual
    <2> QED BY <2>1, <2>2, ResQuiet DEF Ends, Errors
  <1> QED BY <1>1, <1>2, <1>3, <1>4

LEMMA FinishCalm ==
    ASSUME NEW t, Sound(t), NEW st, NEW x, NEW o, StateOf(t) = "finish"
    PROVE  Calm(FinishOf(st, t, o, x))
  <1>1. CASE t.depth = 1
    BY <1>1 DEF FinishOf, Res, Calm, Ends, Buffered, Escapes
  <1>2. CASE t.depth # 1
    <2>1. t.depth > 1
      BY <1>2, DepthAssumption DEF Sound, Shape
    <2> QED BY <1>2, <2>1, LevelLeft DEF FinishOf, Res, Calm, Ends, Buffered, Adds, Escapes
  <1> QED BY <1>1, <1>2

LEMMA ArrayCalm ==
    ASSUME NEW t, Sound(t), NEW st, NEW x, NEW o, StateOf(t) \in {"array", "array_after_sep"}
    PROVE  Calm(ArrayOf(st, t, o, x))
  <1>d. ~(t.depth >= MaxDepth) => t.depth < MaxDepth
    BY DepthAssumption, LevelSound
  <1>1. CASE x = "]" /\ StateOf(t) = "array_after_sep" /\ st
    <2>1. ArrayOf(st, t, o, x) = Res(t, o, "unexpected")
      BY <1>1 DEF ArrayOf
    <2>2. StateOf(t) \notin Buffered /\ StateOf(t) # "finish"
      BY DEF Buffered, Escapes
    <2> QED BY <2>1, <2>2, ResCalm DEF Ends, Errors
  <1>2. CASE x = "]" /\ ~(StateOf(t) = "array_after_sep" /\ st)
    <2>1. ArrayOf(st, t, o, x) = Res(Skip(t, "finish"), o, "next")
      BY <1>2 DEF ArrayOf
    <2>2. Sound(Skip(t, "finish")) /\ StateOf(Skip(t, "finish")) \notin Buffered
            /\ StateOf(Skip(t, "finish")) # "finish"
      BY SkipSound DEF Buffered, Resumed, Comments, Escapes, Adds
    <2> QED BY <2>1, <2>2, ResCalm DEF Ends, Errors
  <1>3. CASE x # "]" /\ t.depth >= MaxDepth
    <2>1. ArrayOf(st, t, o, x) = Res(t, o, "depth")
      BY <1>3 DEF ArrayOf
    <2>2. StateOf(t) \notin Buffered /\ StateOf(t) # "finish"
      BY DEF Buffered, Escapes
    <2> QED BY <2>1, <2>2, ResCalm DEF Ends, Errors
  <1>4. CASE x # "]" /\ ~(t.depth >= MaxDepth)
    <2>1. ArrayOf(st, t, o, x) = Res(Deeper(t, "array_add"), o, "redo")
      BY <1>4 DEF ArrayOf
    <2>2. Sound(Deeper(t, "array_add")) /\ StateOf(Deeper(t, "array_add")) \notin Buffered
            /\ StateOf(Deeper(t, "array_add")) # "finish"
      BY <1>d, <1>4, DeeperIs DEF Buffered, Resumed, Comments, Escapes, Adds
    <2> QED BY <2>1, <2>2, ResCalm DEF Ends, Errors
  <1> QED BY <1>1, <1>2, <1>3, <1>4

LEMMA ObjectValueCalm ==
    ASSUME NEW t, Sound(t), NEW st, NEW x, NEW o, StateOf(t) = "object_value"
    PROVE  Calm(ObjectValueOf(st, t, o, x))
  <1>d. ~(t.depth >= MaxDepth) => t.depth < MaxDepth
    BY DepthAssumption, LevelSound
  <1>1. CASE t.depth >= MaxDepth
    <2>1. ObjectValueOf(st, t, o, x) = Res(t, o, "depth")
      BY <1>1 DEF ObjectValueOf
    <2>2. StateOf(t) \notin Buffered /\ StateOf(t) # "finish"
      BY DEF Buffered, Escapes
    <2> QED BY <2>1, <2>2, ResCalm DEF Ends, Errors
  <1>2. CASE ~(t.depth >= MaxDepth)
    <2>1. ObjectValueOf(st, t, o, x) = Res(Deeper(t, "object_value_add"), o, "redo")
      BY <1>2 DEF ObjectValueOf
    <2>2. Sound(Deeper(t, "object_value_add"))
            /\ StateOf(Deeper(t, "object_value_add")) \notin Buffered
            /\ StateOf(Deeper(t, "object_value_add")) # "finish"
      BY <1>d, <1>2, DeeperIs DEF Buffered, Resumed, Comments, Escapes, Adds
    <2> QED BY <2>1, <2>2, ResCalm DEF Ends, Errors
  <1> QED BY <1>1, <1>2

-----------------------------------------------------------------------------
(* The states that depend on the characters before: tx is the text, and p    *)
(* characters of it have been taken.                                         *)

\* The buffer of a number is what the text has; if it begins with a sign there are only
\* characters of numbers between that and the next character.
NumberOK(tx, t, p) ==
    /\ t.pb \in Seq(NumberChar)
    /\ t.pb # <<>> /\ t.pb[1] = "-" =>
         \E i \in 1..p : tx[i] = "-" /\ \A m \in (i + 1)..p : tx[m] \in NumberChar

\* Before the digits of a code there is "\u".
CodeOK(tx, t, p) ==
    /\ t.st_pos \in 0..FifthDigit
    /\ p < Len(tx) /\ t.st_pos <= 3 =>
         /\ p >= t.st_pos + 2
         /\ tx[p - t.st_pos] = "u" /\ tx[p - t.st_pos - 1] = "\\"

TextOK(tx, t, p) ==
    /\ StateOf(t) = "number" => NumberOK(tx, t, p)
    /\ StateOf(t) = "string_escape" => p >= 1 /\ tx[p] = "\\"
    /\ StateOf(t) = "escape_unicode" => CodeOK(tx, t, p)

\* The next character of a text.
Reading(tx, p, x) ==
    /\ Len(tx) \in Nat /\ p \in Nat /\ p < Len(tx) /\ x = tx[p + 1]
    /\ \A i \in 1..Len(tx) : tx[i] = NUL => i = Len(tx)

Kept(tx, p, r) ==
    /\ Sound(r.tok)
    /\ r.end \in Ends
    /\ r.end = "next" => StateOf(r.tok) # "finish" /\ TextOK(tx, r.tok, p + 1)
    /\ r.end # "next" => TextOK(tx, r.tok, p)

LEMMA QuietKept ==
    ASSUME NEW r, Quiet(r), NEW tx, NEW p
    PROVE  Kept(tx, p, r)
  BY DEF Quiet, Kept, TextOK, Textual

\* What ends without a character and without a change.
LEMMA StayKept ==
    ASSUME NEW t, Sound(t), NEW tx, NEW p, TextOK(tx, t, p), NEW o, NEW e \in Errors
    PROVE  Kept(tx, p, Res(t, o, e))
  BY DEF Kept, Res, Ends, Errors

LEMMA StartKept ==
    ASSUME NEW tx, NEW p, NEW t, Sound(t), NEW st, NEW x, NEW o, StateOf(t) = "start",
           TextOK(tx, t, p)
    PROVE  Kept(tx, p, StartOf(st, t, o, x))
  <1> DEFINE r == StartOf(st, t, o, x)
  <1>1. CASE x = "{"
    <2> DEFINE v == Skip(t, "object_field_start")
               u == [v EXCEPT !.stack[t.depth].current = Object(<<>>)]
    <2>1. r = Res(u, o, "next")
      BY <1>1 DEF StartOf
    <2>2. Sound(v) /\ StateOf(v) = "eatws" /\ v.depth = t.depth
      BY SkipSound DEF Resumed
    <2>3. Sound(u) /\ StateOf(u) = "eatws"
      <3> HIDE DEF v
      <3> QED BY <2>2, CurrentSound
    <2> QED BY <2>1, <2>3, ResQuiet, QuietKept DEF Ends, Textual
  <1>2. CASE x = "["
    <2> DEFINE v == Skip(t, "array")
               u == [v EXCEPT !.stack[t.depth].current = Array(<<>>)]
    <2>1. r = Res(u, o, "next")
      BY <1>2 DEF StartOf
    <2>2. Sound(v) /\ StateOf(v) = "eatws" /\ v.depth = t.depth
      BY SkipSound DEF Resumed
    <2>3. Sound(u) /\ StateOf(u) = "eatws"
      <3> HIDE DEF v
      <3> QED BY <2>2, CurrentSound
    <2> QED BY <2>1, <2>3, ResQuiet, QuietKept DEF Ends, Textual
  <1>3. ASSUME NEW s \in {"inf", "null", "boolean"}, r = Res(GotoFresh(t, s), o, "redo")
        PROVE  Kept(tx, p, r)
    <2> DEFINE v == Goto(t, s)
               u == [v EXCEPT !.pb = <<>>, !.st_pos = 0]
    <2>1. r = Res(u, o, "redo")
      BY <1>3 DEF GotoFresh
    <2>2. Sound(v) /\ StateOf(v) = s
      BY GotoPlain
    <2>3. DOMAIN u = Fields /\ u.depth = v.depth /\ u.stack = v.stack
      BY <2>2 DEF Sound, Shape, Fields
    <2>4. Sound(u) /\ StateOf(u) = s
      <3> HIDE DEF u, v
      <3> QED BY <2>2, <2>3, TokenChanged DEF StateOf
    <2> HIDE DEF u, r
    <2> QED BY <2>1, <2>4, ResQuiet, QuietKept DEF Ends, Textual
  <1>4. ASSUME r = Res([Goto(t, "string") EXCEPT !.pb = <<>>, !.quote_char = x], o, "next")
        PROVE  Kept(tx, p, r)
    BY <1>4, PbQuoteSound, ResQuiet, QuietKept DEF Ends, Textual
  <1>5. ASSUME r = Res([Goto(t, "number") EXCEPT !.pb = <<>>, !.is_double = FALSE], o, "redo")
        PROVE  Kept(tx, p, r)
    <2> DEFINE v == Goto(t, "number")
               u == [v EXCEPT !.pb = <<>>, !.is_double = FALSE]
    <2>2. Sound(v) /\ StateOf(v) = "number"
      BY GotoPlain
    <2>3. DOMAIN u = Fields /\ u.depth = v.depth /\ u.stack = v.stack /\ u.pb = <<>>
      BY <2>2 DEF Sound, Shape, Fields
    <2>4. Sound(u) /\ StateOf(u) = "number"
      <3> HIDE DEF u, v
      <3> QED BY <2>2, <2>3, TokenChanged DEF StateOf
    <2>5. TextOK(tx, u, p)
      <3> HIDE DEF u
      <3> QED BY <2>3, <2>4 DEF TextOK, NumberOK
    <2>6. r.tok = u /\ r.end = "redo"
      BY <1>5 DEF Res
    <2> HIDE DEF u, r
    <2> QED BY <2>4, <2>5, <2>6 DEF Kept, Ends
  <1>6. Kept(tx, p, Res(t, o, "unexpected"))
    BY StayKept DEF Errors
  <1>7. CASE x \notin {"{", "["}
    BY <1>3, <1>4, <1>5, <1>6, <1>7 DEF StartOf
  <1> QED BY <1>1, <1>2, <1>7

LEMMA NumberKept ==
    ASSUME NEW tx, NEW p, NEW t, Sound(t), NEW st, NEW x, NEW o, StateOf(t) = "number",
           TextOK(tx, t, p), Reading(tx, p, x)
    PROVE  Kept(tx, p, NumberOf(st, t, o, x))
  <1> DEFINE r == NumberOf(st, t, o, x)
  <1>1. CASE x \in NumberChar
    <2> DEFINE v == Keep(t, x)
               u == [v EXCEPT !.is_double = @ \/ x \in {".", "e", "E"}]
    <2>1. r = Res(u, o, "next")
      BY <1>1 DEF NumberOf
    <2>2. Sound(v) /\ StateOf(v) = "number" /\ v.pb = Append(t.pb, x)
      <3>1. v.pb = Append(t.pb, x)
        BY DEF Keep, Sound, Shape, Fields
      <3> QED BY <3>1, KeepSound
    <2>3. DOMAIN u = Fields /\ u.depth = v.depth /\ u.stack = v.stack /\ u.pb = v.pb
      <3> HIDE DEF v
      <3> QED BY <2>2 DEF Sound, Shape, Fields
    <2>4. Sound(u) /\ StateOf(u) = "number"
      <3> HIDE DEF u, v
      <3> QED BY <2>2, <2>3, TokenChanged DEF StateOf
    <2>5. NumberOK(tx, u, p + 1)
      <3> HIDE DEF u, v
      <3>1. t.pb \in Seq(NumberChar) /\ u.pb = Append(t.pb, x) /\ u.pb \in Seq(NumberChar)
        BY <1>1, <2>2, <2>3 DEF TextOK, NumberOK
      <3>2. ASSUME u.pb[1] = "-"
            PROVE  \E i \in 1..(p + 1) : tx[i] = "-"
                   /\ \A m \in (i + 1)..(p + 1) : tx[m] \in NumberChar
        <4>1. CASE t.pb = <<>>
          <5>1. x = "-" /\ tx[p + 1] = "-"
            BY <3>1, <3>2, <4>1 DEF Reading
          <5>2. p + 1 \in 1..(p + 1) /\ \A m \in (p + 1 + 1)..(p + 1) : tx[m] \in NumberChar
            BY DEF Reading
          <5> QED BY <5>1, <5>2
        <4>2. CASE t.pb # <<>>
          <5>1. t.pb[1] = "-"
            BY <3>1, <3>2, <4>2
          <5>2. PICK i \in 1..p : tx[i] = "-" /\ \A m \in (i + 1)..p : tx[m] \in NumberChar
            BY <4>2, <5>1 DEF TextOK, NumberOK
          <5>3. i \in 1..(p + 1) /\ \A m \in (i + 1)..(p + 1) : tx[m] \in NumberChar
            BY <1>1, <5>2 DEF Reading
          <5> QED BY <5>2, <5>3
        <4> QED BY <4>1, <4>2
      <3> QED BY <3>1, <3>2 DEF NumberOK
    <2>6. r.tok = u /\ r.end = "next"
      BY <2>1 DEF Res
    <2>7. TextOK(tx, u, p + 1)
      <3> HIDE DEF u
      <3> QED BY <2>4, <2>5 DEF TextOK
    <2>8. Kept(tx, p, r)
      <3> HIDE DEF u, r
      <3> QED BY <2>4, <2>6, <2>7 DEF Kept, Ends
    <2> QED BY <2>8
  <1>2. ASSUME NEW v PROVE Kept(tx, p, Res(Have(t, v), o, "redo"))
    BY HaveSound, ResQuiet, QuietKept DEF Ends, Textual
  <1>3. Kept(tx, p, Res(t, o, "number"))
    BY StayKept DEF Errors
  <1>4. CASE x \notin NumberChar
    BY <1>2, <1>3, <1>4 DEF NumberOf
  <1> QED BY <1>1, <1>4

LEMMA CodeIs ==
    ASSUME NEW tx, NEW t, NEW q \in Nat, t.st_pos \in 0..3, q >= t.st_pos + 2,
           NEW i, i = q - t.st_pos, tx[i] = "u", NEW j, j = i - 1, tx[j] = "\\"
    PROVE  CodeOK(tx, t, q)
  BY DEF CodeOK, FifthDigit

\* The start of an escape.
LEMMA EscapeBegins ==
    ASSUME NEW tx, NEW p, NEW t, Sound(t), NEW o, NEW s \in {"string", "object_field"},
           Reading(tx, p, "\\")
    PROVE  Kept(tx, p,
           Res([Goto(t, "string_escape") EXCEPT !.stack[t.depth].saved_state = s], o,
           "next"))
  <1> DEFINE u == [Goto(t, "string_escape") EXCEPT !.stack[t.depth].saved_state = s]
             l == [LevelOf(t) EXCEPT !.state = "string_escape", !.saved_state = s]
  <1>1. DOMAIN l = LevelFields /\ l.state = "string_escape" /\ l.saved_state = s
    BY LevelSound DEF LevelFields
  <1>2. LevelOK(l)
    BY <1>1 DEF LevelOK, Escapes, Comments, Resumed
  <1>3. DOMAIN u = Fields /\ u.depth = t.depth /\ u.stack = [t.stack EXCEPT ![t.depth] = l]
    BY DEF Sound, Shape, Goto, Fields, LevelOf, LevelFields
  <1>4. Sound(u) /\ StateOf(u) = "string_escape"
    <2> HIDE DEF u, l
    <2> QED BY <1>1, <1>2, <1>3, LevelChanged DEF StateOf
  <1>5. TextOK(tx, u, p + 1)
    <2>1. p \in Nat /\ tx[p + 1] = "\\"
      BY DEF Reading
    <2> HIDE DEF u
    <2> QED BY <1>4, <2>1 DEF TextOK
  <1>6. Kept(tx, p, Res(u, o, "next"))
    <2> HIDE DEF u
    <2> QED BY <1>4, <1>5 DEF Kept, Res, Ends
  <1> QED BY <1>6

LEMMA StringKept ==
    ASSUME NEW tx, NEW p, NEW t, Sound(t), NEW st, NEW x, NEW o, StateOf(t) = "string",
           Reading(tx, p, x)
    PROVE  Kept(tx, p, StringOf(st, t, o, x))
  <1>1. CASE x = t.quote_char
    BY <1>1, HaveSound, ResQuiet, QuietKept DEF StringOf, Ends, Textual
  <1>2. CASE x # t.quote_char /\ x = "\\"
    <2>1. StringOf(st, t, o, x) =
            Res([Goto(t, "string_escape") EXCEPT !.stack[t.depth].saved_state = "string"],
              o, "next")
      BY <1>2 DEF StringOf
    <2>2. Reading(tx, p, "\\")
      BY <1>2
    <2>3. Kept(tx, p,
            Res([Goto(t, "string_escape") EXCEPT !.stack[t.depth].saved_state = "string"],
                          o, "next"))
      BY <2>2, EscapeBegins
    <2> QED BY <2>1, <2>3
  <1>3. CASE x # t.quote_char /\ x # "\\"
    BY <1>3, KeepSound, ResQuiet, QuietKept DEF StringOf, Ends, Textual
  <1> QED BY <1>1, <1>2, <1>3

LEMMA FieldKept ==
    ASSUME NEW tx, NEW p, NEW t, Sound(t), NEW st, NEW x, NEW o, StateOf(t) = "object_field",
           Reading(tx, p, x)
    PROVE  Kept(tx, p, ObjectFieldOf(st, t, o, x))
  <1>1. CASE x = t.quote_char
    <2> DEFINE v == Skip(t, "object_field_end")
               u == [v EXCEPT !.stack[t.depth].obj_field_name = <<t.pb>>]
    <2>1. ObjectFieldOf(st, t, o, x) = Res(u, o, "next")
      BY <1>1 DEF ObjectFieldOf
    <2>2. Sound(v) /\ StateOf(v) = "eatws" /\ v.depth = t.depth
      BY SkipSound DEF Resumed
    <2>3. Sound(u) /\ StateOf(u) = "eatws"
      <3> HIDE DEF v
      <3> QED BY <2>2, FieldNameSound
    <2> HIDE DEF u
    <2> QED BY <2>1, <2>3, ResQuiet, QuietKept DEF Ends, Textual
  <1>2. CASE x # t.quote_char /\ x = "\\"
    <2>1. ObjectFieldOf(st, t, o, x) =
            Res([Goto(t, "string_escape") EXCEPT !.stack[t.depth].saved_state =
              "object_field"], o, "next")
      BY <1>2 DEF ObjectFieldOf
    <2>2. Reading(tx, p, "\\")
      BY <1>2
    <2>3. Kept(tx, p,
            Res([Goto(t, "string_escape") EXCEPT !.stack[t.depth].saved_state =
            "object_field"],
                          o, "next"))
      BY <2>2, EscapeBegins
    <2> QED BY <2>1, <2>3
  <1>3. CASE x # t.quote_char /\ x # "\\"
    BY <1>3, KeepSound, ResQuiet, QuietKept DEF ObjectFieldOf, Ends, Textual
  <1> QED BY <1>1, <1>2, <1>3

LEMMA EscapeKept ==
    ASSUME NEW tx, NEW p, NEW t, Sound(t), NEW st, NEW x, NEW o, StateOf(t) = "string_escape",
           TextOK(tx, t, p), Reading(tx, p, x)
    PROVE  Kept(tx, p, EscapeOf(st, t, o, x))
  <1>1. ASSUME NEW y PROVE Kept(tx, p, Res(Keep(Goto(t, SavedOf(t)), y), o, "next"))
    <2>1. /\ Sound(Goto(t, SavedOf(t)))
          /\ StateOf(Goto(t, SavedOf(t))) \in {"string", "object_field"}
      BY GotoSaved DEF Escapes
    <2> QED BY <2>1, KeepSound, ResQuiet, QuietKept DEF Ends, Textual
  <1>2. Kept(tx, p, Res(t, o, "string"))
    BY StayKept DEF Errors
  <1>3. CASE x = "u"
    <2> DEFINE u == [Goto(t, "escape_unicode") EXCEPT !.ucs_char = 0, !.st_pos = 0]
               l == [LevelOf(t) EXCEPT !.state = "escape_unicode"]
    <2>1. DOMAIN l = LevelFields /\ l.state = "escape_unicode" /\ l.saved_state = SavedOf(t)
      BY LevelSound DEF LevelFields, SavedOf
    <2>2. LevelOK(l)
      BY <2>1, LevelSound DEF LevelOK, Escapes, Comments, Resumed, StateOf, SavedOf
    <2>3. /\ DOMAIN u = Fields /\ u.depth = t.depth
               /\ u.stack = [t.stack EXCEPT ![t.depth] = l]
          /\ u.st_pos = 0
      BY DEF Sound, Shape, Goto, Fields, LevelOf
    <2>4. Sound(u) /\ StateOf(u) = "escape_unicode"
      <3> HIDE DEF u, l
      <3> QED BY <2>1, <2>2, <2>3, LevelChanged DEF StateOf
    <2>5. TextOK(tx, u, p + 1)
      <3> HIDE DEF u
      <3>1. p >= 1 /\ tx[p] = "\\" /\ tx[p + 1] = "u" /\ p \in Nat
        BY <1>3 DEF TextOK, Reading
      <3>2. p + 1 \in Nat /\ 0 \in 0..3 /\ p + 1 >= 0 + 2 /\ p + 1 = p + 1 - 0 /\ p = p + 1 - 1
        BY <3>1
      <3>3. CodeOK(tx, u, p + 1)
        BY <2>3, <3>1, <3>2, CodeIs
      <3> QED BY <2>4, <3>3 DEF TextOK
    <2>6. EscapeOf(st, t, o, x) = Res(u, o, "next")
      BY <1>3 DEF EscapeOf, Control
    <2> HIDE DEF u
    <2> QED BY <2>4, <2>5, <2>6 DEF Kept, Res, Ends
  <1>4. CASE x # "u"
    BY <1>1, <1>2, <1>4 DEF EscapeOf
  <1> QED BY <1>3, <1>4

LEMMA UnicodeKept ==
    ASSUME NEW tx, NEW p, NEW t, Sound(t), NEW st, NEW x, NEW o, StateOf(t) = "escape_unicode",
           TextOK(tx, t, p), Reading(tx, p, x)
    PROVE  Kept(tx, p, UnicodeOf(st, t, o, x))
  <1> DEFINE r == UnicodeOf(st, t, o, x)
  <1>0. /\ t.st_pos \in 0..5
        /\ t.st_pos <= 3 => /\ p >= t.st_pos + 2
                            /\ tx[p - t.st_pos] = "u" /\ tx[p - t.st_pos - 1] = "\\"
    BY DEF TextOK, CodeOK, Reading, FifthDigit
  <1>1. CASE x \notin DOMAIN HexDigit /\ x = NUL
    <2>1. r = Res(t, o, "next")
      BY <1>1 DEF UnicodeOf
    <2>2. p + 1 = Len(tx)
      <3>1. p + 1 \in 1..Len(tx)
        BY DEF Reading
      <3> QED BY <1>1, <3>1 DEF Reading
    <2>3. TextOK(tx, t, p + 1)
      BY <1>0, <2>2 DEF TextOK, CodeOK, Reading, FifthDigit
    <2> QED BY <2>1, <2>3 DEF Kept, Res, Ends
  <1>2. CASE x \notin DOMAIN HexDigit /\ x # NUL
    <2>1. r = Res(t, o, "string")
      BY <1>2 DEF UnicodeOf
    <2> QED BY <2>1, StayKept DEF Errors
  <1>3. CASE x \in DOMAIN HexDigit /\ t.st_pos # 3
    <2> DEFINE y == IF t.st_pos < 3 THEN t.ucs_char + HexDigit[x] * 16 ^ (3 - t.st_pos)
                    ELSE t.ucs_char
               z == IF t.st_pos < FifthDigit THEN t.st_pos + 1 ELSE t.st_pos
               u == [t EXCEPT !.ucs_char = y, !.st_pos = z]
    <2>1. r = Res(u, o, "next")
      BY <1>3 DEF UnicodeOf
    <2>2. z \in 0..5 /\ (z <= 3 => z = t.st_pos + 1 /\ t.st_pos <= 3)
      BY <1>0, <1>3 DEF FifthDigit
    <2>3. DOMAIN u = Fields /\ u.depth = t.depth /\ u.stack = t.stack /\ u.st_pos = z
      <3> HIDE DEF y, z
      <3> QED BY DEF Sound, Shape, Fields
    <2> HIDE DEF u, r, z
    <2>4. Sound(u) /\ StateOf(u) = "escape_unicode"
      BY <2>3, TokenChanged DEF StateOf
    <2>5. CodeOK(tx, u, p + 1)
      <3>1. CASE z <= 3
        <4> DEFINE i == p - t.st_pos
                   j == i - 1
        <4>1. p + 1 \in Nat /\ z \in 0..3 /\ i = p + 1 - z /\ p + 1 >= z + 2
          BY <1>0, <2>2, <3>1, SMTT(20) DEF Reading
        <4>2. tx[i] = "u" /\ tx[j] = "\\" /\ j = i - 1
          BY <1>0, <2>2, <3>1
        <4> HIDE DEF i, j
        <4>3. u.st_pos \in 0..3 /\ p + 1 >= u.st_pos + 2 /\ i = p + 1 - u.st_pos
          BY <2>3, <4>1
        <4>4. p \in Nat
          BY DEF Reading
        <4> QED BY <4>1, <4>2, <4>3, <4>4, CodeIs
      <3>2. CASE ~(z <= 3)
        <4>1. u.st_pos \in 0..5 /\ ~(u.st_pos <= 3)
          BY <2>2, <2>3, <3>2
        <4> QED BY ONLY <4>1 DEF CodeOK, FifthDigit
      <3> QED BY <3>1, <3>2
    <2>6. TextOK(tx, u, p + 1)
      BY <2>4, <2>5 DEF TextOK
    <2>7. Kept(tx, p, r)
      BY <2>1, <2>4, <2>6 DEF Kept, Res, Ends
    <2> QED BY <2>7 DEF r
  <1>4. CASE x \in DOMAIN HexDigit /\ t.st_pos = 3
    <2> DEFINE w == t.ucs_char + HexDigit[x]
               v == Goto(t, SavedOf(t))
               u == [v EXCEPT !.pb = @ \o <<>> \o <<Single(w)>>, !.st_pos = 4, !.ucs_char = w]
    <2>1. r = Res(u, o, "next")
      BY <1>4 DEF UnicodeOf
    <2>2. Sound(v) /\ StateOf(v) \in {"string", "object_field"}
      BY GotoSaved DEF Escapes
    <2>3. DOMAIN u = Fields /\ u.depth = v.depth /\ u.stack = v.stack
      <3> HIDE DEF v
      <3> QED BY <2>2 DEF Sound, Shape, Fields
    <2>4. Sound(u) /\ StateOf(u) = StateOf(v)
      <3> HIDE DEF u, v
      <3> QED BY <2>2, <2>3, TokenChanged DEF StateOf
    <2> HIDE DEF u, v
    <2> QED BY <2>1, <2>2, <2>4, ResQuiet, QuietKept DEF Ends, Textual
  <1> QED BY <1>1, <1>2, <1>3, <1>4

\* Whatever the character, the tokener stays sound.
LEMMA CharKept ==
    ASSUME NEW tx, NEW p, NEW t, Sound(t), NEW st, NEW x, NEW o, TextOK(tx, t, p),
           Reading(tx, p, x)
    PROVE  Kept(tx, p, CharStep(st, t, o, x))
  <1>1. StateOf(t) \in Resumed \cup Adds \cup Escapes \cup Comments \cup
         {"eatws", "null", "boolean", "inf", "number", "string", "object_field"}
    BY LevelSound DEF LevelOK, StateOf
  <1>2. CASE StateOf(t) \in {"start", "number", "string", "object_field", "string_escape",
                             "escape_unicode"}
    BY <1>2, StartKept, NumberKept, StringKept, FieldKept, EscapeKept, UnicodeKept DEF CharStep
  <1>3. CASE StateOf(t) \in {"eatws", "finish", "null", "boolean", "inf"} \cup Comments
    BY <1>3, EatwsCalm, FinishCalm, NullQuiet, BooleanQuiet, InfQuiet, CommentStartCalm,
       CommentCalm, CommentEolCalm, CommentEndCalm, CalmQuiet, QuietKept DEF CharStep, Comments
  <1>4. CASE StateOf(t) \in {"array", "array_after_sep", "array_add", "array_sep",
               "object_field_start", "object_field_start_after_sep", "object_field_end",
               "object_value", "object_value_add", "object_sep"}
    BY <1>4, ArrayCalm, ArrayAddCalm, ArraySepCalm, FieldStartQuiet, FieldNameCalm,
       ObjectValueCalm, ObjectAddCalm, ObjectSepCalm, CalmQuiet, QuietKept DEF CharStep
  <1> QED BY <1>1, <1>2, <1>3, <1>4 DEF Resumed, Adds, Escapes, Comments

-----------------------------------------------------------------------------
(* The text in one piece: a step of it is a function of what it has got.     *)

Conf(t, o, p, q, vs, e) ==
    [tok |-> t, obj |-> o, pos |-> p, pc |-> q, values |-> vs, err |-> e]

\* What the variables say now.
Now == Conf(tok, obj, from + char_offset, pc, values, err)

Begin == Conf(NewTokener, Null, 0, "idle", <<>>, "success")

CharConf(tx, st, x) ==
    LET y == tx[x.pos + 1]
        r == CharStep(st, x.tok, x.obj, y)
    IN Conf(r.tok, r.obj, IF r.end = "next" THEN x.pos + 1 ELSE x.pos,
            IF r.end = "redo" \/ (r.end = "next" /\ y # NUL) THEN "parse" ELSE "out",
            x.values, IF r.end \in Errors THEN r.end ELSE x.err)

EndErr(t) ==
    IF t.depth = 1 /\ StateOf(t) = "eatws" /\ SavedOf(t) = "finish" THEN "success"
    ELSE "continue"

EndConf(x) == Conf(x.tok, x.obj, x.pos, "out", x.values, EndErr(x.tok))

\* The error of the call: last is whether its piece is the end of a text with a NUL, and the
\* loop has seen the NUL.
CallErr(st, last, t, e) ==
    IF last
    THEN IF StateOf(t) # "finish" /\ SavedOf(t) # "finish" THEN "eof" ELSE e
    ELSE IF StateOf(t) = "finish" /\ t.depth = 1 /\ st THEN "unexpected" ELSE e

\* What the caller makes of it.
GivenConf(tx, x, e) ==
    Conf(IF e = "success" THEN ResetLevels(x.tok) ELSE x.tok, Null, x.pos,
         IF e \in Errors \/ x.pos >= Len(tx) \/ (e = "success" /\ tx[x.pos + 1] = NUL)
         THEN "end" ELSE "idle",
         IF e = "success" THEN Append(x.values, LevelOf(x.tok).current) ELSE x.values, e)

OutConf(tx, st, x) ==
    GivenConf(tx, x, CallErr(st, Last(tx) = NUL /\ x.pos >= Len(tx) - 1, x.tok, x.err))

CallConf(x) == Conf(x.tok, x.obj, x.pos, "parse", x.values, "success")

WholeStep(tx, st, x) ==
    CASE x.pc = "idle" -> CallConf(x)
      [] x.pc = "parse" /\ x.pos < Len(tx) -> CharConf(tx, st, x)
      [] x.pc = "parse" /\ ~(x.pos < Len(tx)) -> EndConf(x)
      [] x.pc = "out" -> OutConf(tx, st, x)

OutcomeOf(x) ==
    <<x.values,
      IF x.err \in Errors THEN x.err
      ELSE IF x.tok.depth = 1 /\ LevelOf(x.tok) = FreshLevel THEN "complete"
      ELSE IF StateOf(x.tok) \in Comments THEN "comment" ELSE "unfinished">>

\* R is what the parse of the text in one piece goes through, up to f.
Path(tx, st, R, f) ==
    /\ Begin \in R /\ f \in R
    /\ \A x \in R : x = f \/ (x.pc # "end" /\ WholeStep(tx, st, x) \in R)

-----------------------------------------------------------------------------
(* Two tokeners that go on alike.  What the states do not read may differ:   *)
(* json_tokener_reset leaves it.                                             *)

Same(t, u) ==
    /\ Sound(t) /\ Sound(u)
    /\ t.depth = u.depth /\ t.stack = u.stack
    /\ StateOf(t) \in Buffered => t.pb = u.pb
    /\ StateOf(t) \in {"null", "boolean", "inf", "escape_unicode"} => t.st_pos = u.st_pos
    /\ StateOf(t) = "escape_unicode" => t.ucs_char = u.ucs_char
    /\ StateOf(t) = "number" => t.is_double = u.is_double
    /\ StateOf(t) \in {"string", "object_field"} \cup Escapes => t.quote_char = u.quote_char

-----------------------------------------------------------------------------
(* What is true at every step.                                               *)

Position ==
    /\ from \in Nat /\ len \in Nat /\ char_offset \in 0..len
    /\ Len(text) \in Nat /\ from + len <= Len(text)
    /\ pc \in {"idle", "parse", "out", "end"}
    /\ pc \in {"idle", "end"} => char_offset = 0 /\ len = 0
    /\ whole = <<>> /\ pc \in {"parse", "out"} => from + len = Len(text)
    /\ pc = "idle" => from < Len(text) \/ Len(text) = 0
    /\ pc \in {"parse", "out"} => Len(text) > 0

\* The levels that are not in use are fresh, even at the end.
Resettable == Shape(tok) /\ \A i \in 1..MaxDepth : i > tok.depth => tok.stack[i] = FreshLevel

InParse ==
    /\ err = "success"
    /\ State = "finish" => char_offset < len
    /\ from + char_offset = Len(text) => Last(text) # NUL

AtOut ==
    /\ err \in Errors \cup {"success", "continue"}
    /\ err = "continue" =>
         char_offset = len /\ State # "finish" /\ (from + len = Len(text) => Last(text) # NUL)
    /\ err = "success" =>
         \/ from + char_offset = Len(text)
         \/ tok.depth = 1 /\ (State = "finish" \/ (State = "eatws" /\ Saved = "finish"))

TokInv ==
    /\ text \in Texts /\ strict \in BOOLEAN
    /\ Position
    /\ pc # "end" => Sound(tok) /\ TextOK(text, tok, from + char_offset)
    /\ pc = "end" => Resettable
    /\ pc = "parse" => InParse
    /\ pc = "out" => AtOut
    /\ pc \in {"idle", "end"} => obj = Null

\* Without a pair of codes there is never one half of it.
NoPair == ~Fragile => got_hi = 0

-----------------------------------------------------------------------------
(* How the parse in pieces follows that in one piece, of which x is a point. *)

\* They are at the same point.
Abreast(x) ==
    /\ x.pc = pc /\ x.pos = from + char_offset /\ x.values = values /\ x.err = err
    /\ x.obj = obj /\ Same(tok, x.tok)
    /\ pc = "out" /\ from + char_offset >= Len(text) - 1 => from + len = Len(text)

\* The one in one piece is in its loop, where a piece ends.
Waits(x) ==
    /\ x.pc = "parse" /\ x.err = "success" /\ x.pos = from + char_offset
    /\ from + char_offset < Len(text)
    /\ x.obj = obj /\ Same(tok, x.tok) /\ x.values = values

Cut(x) ==
    /\ Waits(x)
    /\ pc = "idle" \/ (pc = "out" /\ err = "continue" /\ State # "finish" /\ char_offset = len)

Given(x) ==
    /\ Waits(x)
    /\ pc = "out" /\ err = "success" /\ char_offset = len
    /\ tok.depth = 1 /\ State = "eatws" /\ Saved = "finish"

\* The value has been given at the end of a piece; in one piece it is still to be given.
Blanks == Comments \cup {"eatws"}
Blank(q) == [i \in 1..MaxDepth |-> IF i = 1 THEN [FreshLevel EXCEPT !.state = q]
    ELSE FreshLevel]

Ahead(x) ==
    /\ \E q \in Blanks, v \in {x.tok.stack[1].current} :
          /\ tok.depth = 1 /\ tok.stack = Blank(q)
          /\ Sound(x.tok)
          /\ x.tok.depth = 1 /\ x.tok.stack[1].state = q
          /\ x.tok.stack[1].saved_state = "finish"
          /\ values = Append(x.values, v)
    /\ x.pc = "parse" /\ x.err = "success" /\ x.pos = from + char_offset
    /\ obj = Null
    /\ \/ pc = "idle" /\ from < Len(text)
       \/ pc = "parse"
       \/ /\ pc = "out" /\ err = "continue" /\ char_offset = len
          /\ from + len = Len(text) => Last(text) # NUL

\* The NUL will be an error, but in one piece it was not.
Doomed ==
    /\ Last(text) = NUL /\ whole = <<values, "complete">>
    /\ State # "finish" /\ Saved # "finish"
    /\ \/ /\ pc = "parse" /\ State = "start"
          /\ from + char_offset = Len(text) - 1 /\ char_offset < len
       \/ /\ pc = "out" /\ from + len = Len(text) /\ char_offset >= len - 1

Excused == whole[2] = "comment" \/ (strict /\ whole[2] = "unexpected")

Settled ==
    /\ pc = "end"
    /\ \/ Outcome = whole
       \/ Last(text) = NUL /\ whole[2] = "complete" /\ Outcome = <<whole[1], "eof">>

Following(R) ==
    Excused \/ Settled \/ Doomed \/ \E x \in R : Abreast(x) \/ Cut(x) \/ Given(x) \/ Ahead(x)

CutInv ==
    ~Fragile =>
      \/ whole = <<>> /\ \E R : Path(text, strict, R, Now)
      \/ \E R, f : /\ Path(text, strict, R, f) /\ f.pc = "end"
                   /\ whole = OutcomeOf(f)
                   /\ Following(R)

-----------------------------------------------------------------------------
(* The invariant.                                                            *)

LEMMA StateIs == State = StateOf(tok) /\ Saved = SavedOf(tok) /\ Level = LevelOf(tok)
  BY DEF State, Saved, Level, StateOf, SavedOf, LevelOf

LEMMA InLoop == Character => pc = "parse" /\ char_offset < len
  BY DEF Character, In, Eatws, Start, Finish, NullWord, BooleanWord, InfWord, NumberCharacter,
     NumberEnd, CommentStart, Comment, CommentEol, CommentEnd, StringCharacter, Escape,
     StringEnd, StringEscape, UnicodeDigit, UnicodeEnd, UnicodeBad, ArrayValue,
     ArrayAddValue, ArraySep, ObjectFieldStart, ObjectField, ObjectFieldEnd, ObjectValue,
     ObjectValueAdd, ObjectSep

LEMMA ReadingText ==
    ASSUME TokInv, pc = "parse", char_offset < len
    PROVE  /\ Reading(text, from + char_offset, c)
           /\ from \in Nat /\ char_offset \in Nat /\ len \in Nat /\ Len(text) \in Nat
           /\ from + len <= Len(text)
           /\ Last(text) = text[Len(text)]
  BY TextsAssumption DEF TokInv, Position, Reading, c, Last

\* Only the end of a value on the first level is out.
LEMMA WordGoesOn ==
    ASSUME NEW t, NEW o, NEW x, NEW w, NEW v
    PROVE  WordOf(t, o, x, w, v).end # "out"
  BY DEF WordOf, Res

LEMMA OutIs ==
    ASSUME NEW t, Sound(t), NEW st, NEW x, NEW o, CharStep(st, t, o, x).end = "out"
    PROVE  StateOf(t) = "finish" /\ t.depth = 1 /\ CharStep(st, t, o, x).tok = t
  <1>1. StateOf(t) \in Resumed \cup Adds \cup Escapes \cup Comments \cup
         {"eatws", "null", "boolean", "inf", "number", "string", "object_field"}
    BY LevelSound DEF LevelOK, StateOf
  <1>2. CASE StateOf(t) = "finish"
    <2>1. CharStep(st, t, o, x) = FinishOf(st, t, o, x)
      BY <1>2 DEF CharStep
    <2> QED BY <1>2, <2>1 DEF FinishOf, Res
  <1>3. StateOf(t) \notin {"null", "boolean", "inf"}
    BY WordGoesOn DEF CharStep, NullOf, BooleanOf, InfOf, Res
  <1>4. StateOf(t) \notin {"eatws", "start", "number"}
    BY DEF CharStep, EatwsOf, StartOf, NumberOf, Res
  <1>5. StateOf(t) \notin {"string", "object_field", "string_escape",
          "escape_unicode"} \cup Comments
    BY DEF CharStep, StringOf, ObjectFieldOf, EscapeOf, UnicodeOf, CommentStartOf, CommentOf,
       CommentEolOf, CommentEndOf, Res, Comments
  <1>6. StateOf(t) \notin {"array", "array_after_sep", "array_add", "array_sep",
               "object_field_start", "object_field_start_after_sep", "object_field_end",
               "object_value", "object_value_add", "object_sep"}
    BY DEF CharStep, ArrayOf, ArrayAddOf, ArraySepOf, FieldStartOf, FieldEndOf,
       ObjectValueOf, ObjectAddOf, ObjectSepOf, Res
  <1> QED BY <1>1, <1>2, <1>3, <1>4, <1>5, <1>6 DEF Resumed, Adds, Escapes, Comments

\* A step that does what the function says.
LEMMA CharMoveInv ==
    ASSUME TokInv, pc = "parse", char_offset < len, CharMove
    PROVE  TokInv'
  <1> DEFINE p == from + char_offset
             r == CharStep(strict, tok, obj, c)
  <1>1. /\ Reading(text, p, c) /\ from \in Nat /\ char_offset \in Nat /\ len \in Nat
        /\ Len(text) \in Nat /\ from + len <= Len(text) /\ Last(text) = text[Len(text)]
    BY ReadingText
  <1>2. Sound(tok) /\ TextOK(text, tok, p) /\ err = "success"
    BY DEF TokInv, InParse
  <1>3. Kept(text, p, r)
    <2> HIDE DEF p
    <2> QED BY <1>1, <1>2, CharKept
  <1>4. r.end = "out" => tok.depth = 1 /\ StateOf(tok) = "finish" /\ r.tok = tok
    BY <1>2, OutIs
  <1>5. /\ tok' = r.tok /\ obj' = r.obj /\ UNCHANGED <<text, strict, from, len, values, whole>>
        /\ char_offset' = IF r.end = "next" THEN char_offset + 1 ELSE char_offset
        /\ pc' = IF r.end = "redo" \/ (r.end = "next" /\ c # NUL) THEN "parse" ELSE "out"
        /\ err' = IF r.end \in Errors THEN r.end ELSE err
    BY DEF CharMove, caller
  <1>6. c = text[p + 1] /\ (c = NUL => p + 1 = Len(text)) /\ p + 1 <= Len(text) /\ p \in Nat
    <2>1. p + 1 \in 1..Len(text)
      BY <1>1
    <2> QED BY <1>1, <2>1 DEF Reading
  <1> HIDE DEF r
  <1>7. CASE r.end = "next"
    <2>1. from' + char_offset' = p + 1 /\ char_offset' <= len'
      BY <1>1, <1>5, <1>7
    <2>2. Sound(tok') /\ StateOf(tok)' # "finish" /\ TextOK(text, tok', p + 1)
      BY <1>3, <1>5, <1>7 DEF Kept, StateOf, LevelOf
    <2>3. TextOK(text', tok', from' + char_offset')
      BY <1>5, <2>1, <2>2
    <2>4. Position'
      BY <1>1, <1>5, <1>7, <2>1 DEF TokInv, Position
    <2>5. err' = "success"
      BY <1>2, <1>5, <1>7 DEF Errors
    <2>6. CASE c # NUL
      <3>1. pc' = "parse"
        BY <1>5, <1>7, <2>6
      <3>2. from' + char_offset' = Len(text)' => Last(text)' # NUL
        BY <1>1, <1>5, <1>6, <2>1, <2>6
      <3>3. InParse'
        BY <2>2, <2>5, <3>2, StateIs DEF InParse, State, Level, StateOf, LevelOf
      <3> QED BY <1>5, <2>2, <2>3, <2>4, <3>1, <3>3 DEF TokInv
    <2>7. CASE c = NUL
      <3>1. pc' = "out"
        BY <1>5, <1>7, <2>7
      <3>2. from' + char_offset' = Len(text)'
        BY <1>5, <1>6, <2>1, <2>7
      <3>3. AtOut'
        BY <2>5, <3>2 DEF AtOut
      <3> QED BY <1>5, <2>2, <2>3, <2>4, <3>1, <3>3 DEF TokInv
    <2> QED BY <2>6, <2>7
  <1>8. CASE r.end # "next"
    <2>1. from' + char_offset' = p /\ char_offset' < len'
      BY <1>1, <1>5, <1>8
    <2>2. Sound(tok') /\ TextOK(text', tok', from' + char_offset')
      BY <1>3, <1>5, <1>8, <2>1 DEF Kept
    <2>3. Position'
      BY <1>1, <1>5, <1>8, <2>1 DEF TokInv, Position
    <2>4. CASE r.end = "redo"
      <3>1. pc' = "parse" /\ err' = "success"
        BY <1>2, <1>5, <2>4 DEF Errors
      <3>2. InParse'
        BY <1>1, <1>5, <1>6, <2>1, <3>1 DEF InParse
      <3> QED BY <1>5, <2>2, <2>3, <3>1, <3>2 DEF TokInv
    <2>5. CASE r.end = "out"
      <3>1. pc' = "out" /\ err' = "success" /\ tok' = tok
        BY <1>2, <1>4, <1>5, <2>5 DEF Errors
      <3>2. AtOut'
        BY <1>4, <2>5, <3>1 DEF AtOut, State, Level, StateOf, LevelOf
      <3> QED BY <1>5, <2>2, <2>3, <3>1, <3>2 DEF TokInv
    <2>6. CASE r.end \in Errors
      <3>1. pc' = "out" /\ err' \in Errors
        BY <1>5, <2>6 DEF Errors
      <3>2. AtOut'
        BY <3>1 DEF AtOut, Errors
      <3> QED BY <1>5, <2>2, <2>3, <3>1, <3>2 DEF TokInv
    <2> QED BY <1>3, <1>8, <2>4, <2>5, <2>6 DEF Kept, Ends
  <1> QED BY <1>7, <1>8

\* -Infinity: the word begins with the sign in the buffer.
LEMMA MinusInfinityInv ==
    ASSUME TokInv, NumberEnd, MinusInfinity
    PROVE  TokInv'
  <1>1. /\ pc = "parse" /\ char_offset < len /\ tok' = Goto(tok, "inf")
        /\ UNCHANGED <<text, strict, char_offset, err, pc, from, len, whole>>
    BY DEF NumberEnd, In, Redo, caller
  <1>2. Sound(tok') /\ StateOf(tok)' = "inf"
    BY <1>1, GotoPlain DEF TokInv, StateOf, LevelOf
  <1>3. TextOK(text', tok', from' + char_offset')
    BY <1>2 DEF TextOK, StateOf, LevelOf
  <1>4. Position' /\ InParse'
    BY <1>1, <1>2, ReadingText DEF TokInv, Position, InParse, State, Level, StateOf, LevelOf
  <1> QED BY <1>1, <1>2, <1>3, <1>4 DEF TokInv

\* The fourth digit of a code.
LEMMA UnicodeEndInv ==
    ASSUME TokInv, UnicodeEnd
    PROVE  TokInv'
  <1> DEFINE p == from + char_offset
  <1>1. /\ pc = "parse" /\ char_offset < len /\ StateOf(tok) = "escape_unicode" /\ c # NUL
        /\ UNCHANGED <<text, strict, from, len, whole, obj>> /\ err = "success" /\ Sound(tok)
    BY DEF UnicodeEnd, In, AdvanceChar, State, Level, StateOf, LevelOf, HexDigit, HexChar,
       Digit, NUL,
           caller, TokInv, InParse
  <1>2. /\ Reading(text, p, c) /\ from \in Nat /\ char_offset \in Nat /\ len \in Nat
        /\ Len(text) \in Nat /\ from + len <= Len(text) /\ Last(text) = text[Len(text)]
    BY <1>1, ReadingText
  <1>3. ASSUME NEW b, NEW n, NEW u,
               tok' = [Goto(tok, Saved) EXCEPT !.pb = b, !.st_pos = n, !.ucs_char = u],
               char_offset' = char_offset + 1, pc' = "parse", err' = err
        PROVE  TokInv'
    <2> DEFINE v == Goto(tok, SavedOf(tok))
    <2>1. Sound(v) /\ StateOf(v) \in {"string", "object_field"}
      BY <1>1, GotoSaved DEF Escapes
    <2>2. DOMAIN tok' = Fields /\ tok'.depth = v.depth /\ tok'.stack = v.stack
      <3>1. tok' = [v EXCEPT !.pb = b, !.st_pos = n, !.ucs_char = u]
        BY <1>3, StateIs
      <3> HIDE DEF v
      <3> QED BY <2>1, <3>1 DEF Sound, Shape, Fields
    <2>3. Sound(tok') /\ StateOf(tok') = StateOf(v)
      <3> HIDE DEF v
      <3> QED BY <2>1, <2>2, TokenChanged DEF StateOf
    <2>4. TextOK(text', tok', from' + char_offset')
      BY <2>1, <2>3 DEF TextOK
    <2>5. from' + char_offset' = Len(text)' => Last(text)' # NUL
      BY <1>1, <1>2, <1>3 DEF Reading
    <2>6. Position' /\ InParse'
      BY <1>1, <1>2, <1>3, <2>1, <2>3, <2>5 DEF TokInv, Position, InParse, State, Level,
         StateOf, LevelOf
    <2> QED BY <1>1, <1>3, <2>3, <2>4, <2>6 DEF TokInv
  <1>4. ASSUME NEW b, NEW n \in 0..FifthDigit, NEW u, UnicodeFollows,
               tok' = [tok EXCEPT !.pb = b, !.st_pos = n, !.ucs_char = u],
               char_offset' = char_offset + 3,
               \/ n = 4 /\ char_offset + 3 = len /\ pc' = "out" /\ err' = "continue"
               \/ n = 0 /\ char_offset + 3 # len /\ pc' = "parse" /\ err' = err
        PROVE  TokInv'
    <2>1. DOMAIN tok' = Fields /\ tok'.depth = tok.depth /\ tok'.stack = tok.stack
            /\ tok'.st_pos = n
      BY <1>1, <1>4 DEF Sound, Shape, Fields
    <2>2. Sound(tok') /\ StateOf(tok') = "escape_unicode"
      BY <1>1, <2>1, TokenChanged DEF StateOf
    <2>3. /\ char_offset + 3 <= len /\ p + 3 <= Len(text)
          /\ text[p + 2] = "\\" /\ text[p + 3] = "u"
      <3>1. text[from + char_offset + 2] = "\\" /\ text[from + char_offset + 2 + 1] = "u"
            /\ char_offset + 1 # len /\ char_offset + 2 # len
        BY <1>4 DEF UnicodeFollows
      <3> QED BY <1>1, <1>2, <3>1
    <2>4. CodeOK(text, tok', p + 3)
      <3>1. CASE n = 0
        <4> DEFINE q == p + 3
        <4>1. q \in Nat /\ q = q - 0 /\ p + 2 = q - 1 /\ q >= 0 + 2 /\ text[q] = "u"
                /\ tok'.st_pos = 0
          BY <1>2, <2>1, <2>3, <3>1
        <4> HIDE DEF q
        <4>2. q = q - tok'.st_pos /\ q >= tok'.st_pos + 2 /\ tok'.st_pos \in 0..3
          BY <4>1
        <4>3. CodeOK(text, tok', q)
          BY <2>3, <4>1, <4>2, CodeIs
        <4> QED BY <4>3 DEF q
      <3>2. CASE n = 4
        BY <2>1, <3>2 DEF CodeOK, FifthDigit
      <3> QED BY <1>4, <3>1, <3>2
    <2>5. TextOK(text', tok', from' + char_offset')
      <3>1. from' + char_offset' = p + 3 /\ text' = text
        BY <1>1, <1>2, <1>4
      <3>2. TextOK(text, tok', p + 3)
        BY <2>2, <2>4 DEF TextOK
      <3> QED BY <3>1, <3>2, SMTT(20)
    <2>6. Position'
      BY <1>1, <1>2, <1>4, <2>3 DEF TokInv, Position
    <2>7. CASE pc' = "parse"
      <3>1. InParse'
        BY <1>1, <1>2, <1>4, <2>2, <2>3, <2>7 DEF InParse, State, Level, StateOf, LevelOf
      <3> QED BY <1>1, <2>2, <2>5, <2>6, <2>7, <3>1 DEF TokInv
    <2>8. CASE pc' = "out"
      <3>1. char_offset' = len' /\ err' = "continue"
        BY <1>1, <1>4, <2>8
      <3>2. StateOf(tok)' # "finish"
        BY <2>2 DEF StateOf, LevelOf
      <3>3. from' + len' = Len(text)' => Last(text)' # NUL
        <4>1. from' + len' = p + 3 /\ text' = text
          BY <1>1, <1>2, <1>4, <2>8
        <4> QED BY <1>2, <2>3, <4>1 DEF NUL
      <3>4. AtOut'
        BY <3>1, <3>2, <3>3, StateIs DEF AtOut, Errors, State, Level, StateOf, LevelOf
      <3> QED BY <1>1, <2>2, <2>5, <2>6, <2>8, <3>4 DEF TokInv
    <2> QED BY <1>4, <2>7, <2>8
  <1> DEFINE code == tok.ucs_char + HexDigit[c]
             paired == got_hi # 0 /\ IsLowSurrogate(code)
             ucs == IF paired THEN DecodePair(got_hi, code) ELSE code
             before == IF got_hi # 0 /\ ~paired THEN <<Replacement>> ELSE <<>>
             put(x) == [Goto(tok, Saved) EXCEPT !.pb = @ \o before \o <<x>>, !.st_pos = 4,
                                                !.ucs_char = ucs]
  <1>5. ASSUME NEW x, AdvanceChar(put(x)) PROVE TokInv'
    <2>1. char_offset' = char_offset + 1 /\ pc' = "parse" /\ err' = err
      BY <1>1, <1>5 DEF AdvanceChar
    <2>2. tok' = put(x)
      BY <1>5 DEF AdvanceChar
    <2> HIDE DEF ucs, before
    <2> QED BY <1>3, <2>1, <2>2
  <1>6. CASE /\ UnicodeFollows /\ char_offset + 3 = len
             /\ tok' = [tok EXCEPT !.pb = @ \o before \o <<Replacement>>, !.st_pos = 4,
                                   !.ucs_char = ucs]
             /\ char_offset' = char_offset + 3 /\ err' = "continue" /\ pc' = "out"
    <2>1. 4 \in 0..FifthDigit
      BY DEF FifthDigit
    <2> HIDE DEF ucs, before
    <2> QED BY <1>4, <1>6, <2>1
  <1>7. CASE /\ UnicodeFollows /\ char_offset + 3 # len
             /\ tok' = [tok EXCEPT !.pb = @ \o before, !.st_pos = 0, !.ucs_char = 0]
             /\ char_offset' = char_offset + 3 /\ err' = err /\ pc' = pc
    <2>1. 0 \in 0..FifthDigit
      BY DEF FifthDigit
    <2> HIDE DEF before
    <2> QED BY <1>1, <1>4, <1>7, <2>1
  <1>8. \/ \E x : AdvanceChar(put(x))
        \/ /\ UnicodeFollows /\ char_offset + 3 = len
           /\ tok' = [tok EXCEPT !.pb = @ \o before \o <<Replacement>>, !.st_pos = 4,
                                 !.ucs_char = ucs]
           /\ char_offset' = char_offset + 3 /\ err' = "continue" /\ pc' = "out"
        \/ /\ UnicodeFollows /\ char_offset + 3 # len
           /\ tok' = [tok EXCEPT !.pb = @ \o before, !.st_pos = 0, !.ucs_char = 0]
           /\ char_offset' = char_offset + 3 /\ err' = err /\ pc' = pc
    BY DEF UnicodeEnd
  <1> QED BY <1>5, <1>6, <1>7, <1>8

\* Levels that are reset one by one.
LEMMA ResetIs ==
    ASSUME NEW t, Shape(t)
    PROVE  LET u == ResetLevels(t) IN
           /\ Shape(u) /\ u.depth = t.depth /\ u.pb = t.pb /\ u.st_pos = t.st_pos
           /\ \A i \in 1..MaxDepth : u.stack[i] = IF i <= t.depth THEN FreshLevel
                ELSE t.stack[i]
  <1> DEFINE s == [i \in 1..MaxDepth |-> IF i <= t.depth THEN FreshLevel ELSE t.stack[i]]
             u == [t EXCEPT !.stack = s]
  <1>1. DOMAIN u = Fields /\ u.stack = s /\ u.depth = t.depth /\ u.pb = t.pb
          /\ u.st_pos = t.st_pos
    BY DEF Shape, Fields
  <1>2. u = ResetLevels(t)
    BY DEF ResetLevels
  <1>3. DOMAIN s = 1..MaxDepth
    OBVIOUS
  <1>4. \A i \in 1..MaxDepth : DOMAIN s[i] = LevelFields
    BY FreshOK DEF Shape
  <1> HIDE DEF u
  <1>5. Shape(u)
    BY <1>1, <1>3, <1>4 DEF Shape
  <1> QED BY <1>1, <1>2, <1>5

\* From the first level, or at the end with Reset, all are fresh.
LEMMA ResetSound ==
    ASSUME NEW t, Shape(t), t.depth = 1, \A i \in 1..MaxDepth : i > 1
           => t.stack[i] = FreshLevel
    PROVE  /\ Sound(ResetLevels(t)) /\ ResetLevels(t).depth = 1
           /\ ResetLevels(t).stack = [i \in 1..MaxDepth |-> FreshLevel]
           /\ LevelOf(ResetLevels(t)) = FreshLevel
  <1> DEFINE u == ResetLevels(t)
  <1>1. Shape(u) /\ u.depth = 1 /\ \A i \in 1..MaxDepth : u.stack[i] = FreshLevel
    BY ResetIs, DepthAssumption
  <1>2. u.stack = [i \in 1..MaxDepth |-> FreshLevel]
    <2>1. u.stack = [i \in 1..MaxDepth |-> IF i <= t.depth THEN FreshLevel ELSE t.stack[i]]
      BY DEF ResetLevels, Shape, Fields
    <2> QED BY <2>1, DepthAssumption
  <1> HIDE DEF u
  <1>3. StackOK(u)
    BY <1>1, FreshOK, DepthAssumption DEF StackOK
  <1>4. LevelOf(u) = FreshLevel
    BY <1>1, DepthAssumption DEF LevelOf
  <1> QED BY <1>1, <1>2, <1>3, <1>4 DEF Sound, u

LEMMA ResetAll ==
    ASSUME NEW t, Shape(t), \A i \in 1..MaxDepth : i > t.depth => t.stack[i] = FreshLevel
    PROVE  /\ Sound(Reset(t)) /\ Reset(t).depth = 1
           /\ Reset(t).stack = [i \in 1..MaxDepth |-> FreshLevel]
           /\ StateOf(Reset(t)) = "eatws"
  <1> DEFINE v == ResetLevels(t)
             u == [v EXCEPT !.depth = 1]
  <1>1. Shape(v) /\ \A i \in 1..MaxDepth : v.stack[i] = FreshLevel
    <2>1. t.depth \in 1..MaxDepth
      BY DEF Shape
    <2>2. /\ Shape(v)
          /\ \A i \in 1..MaxDepth : v.stack[i] = IF i <= t.depth THEN FreshLevel
               ELSE t.stack[i]
      BY ResetIs
    <2> HIDE DEF v
    <2> QED BY <2>1, <2>2, DepthAssumption
  <1>2. v.stack = [i \in 1..MaxDepth |-> FreshLevel]
    <2>1. v.stack = [i \in 1..MaxDepth |-> IF i <= t.depth THEN FreshLevel ELSE t.stack[i]]
      BY DEF ResetLevels, Shape, Fields
    <2> QED BY <2>1, DepthAssumption DEF Shape
  <1>3. u = Reset(t)
    BY DEF Reset
  <1>4. DOMAIN u = Fields /\ u.depth = 1 /\ u.stack = v.stack
    <2> HIDE DEF v
    <2> QED BY <1>1 DEF Shape, Fields
  <1> HIDE DEF u, v
  <1>5. Shape(u)
    BY <1>1, <1>4, DepthAssumption DEF Shape
  <1>6. StackOK(u) /\ StateOf(u) = "eatws"
    BY <1>1, <1>4, FreshOK, DepthAssumption DEF StackOK, StateOf, LevelOf, FreshLevel
  <1> QED BY <1>2, <1>3, <1>4, <1>5, <1>6 DEF Sound

LEMMA EndOfPieceInv ==
    ASSUME TokInv, EndOfPiece
    PROVE  TokInv'
  <1>1. /\ pc = "parse" /\ char_offset = len /\ pc' = "out"
        /\ UNCHANGED <<text, strict, char_offset, obj, from, len, whole>>
        /\ Sound(tok) /\ TextOK(text, tok, from + char_offset)
    BY DEF EndOfPiece, locals, caller, TokInv
  <1>2. err' = EndErr(tok)
    BY StateIs DEF EndOfPiece, EndErr
  <1>3. tok' = tok \/ tok' = Keep(tok, Replacement)
    BY DEF EndOfPiece
  <1>4. Sound(tok') /\ tok'.depth = tok.depth /\ tok'.stack = tok.stack
          /\ tok'.st_pos = tok.st_pos
        /\ (StateOf(tok) # "escape_unicode" => tok' = tok)
    <2>1. Keep(tok, Replacement).depth = tok.depth /\ Keep(tok, Replacement).stack = tok.stack
          /\ Keep(tok, Replacement).st_pos = tok.st_pos
      BY <1>1 DEF Keep, Sound, Shape, Fields
    <2>2. StateOf(tok) # "escape_unicode" => tok' = tok
      BY StateIs DEF EndOfPiece
    <2> QED BY <1>1, <1>3, <2>1, <2>2, KeepSound
  <1>5. StateOf(tok') = StateOf(tok) /\ SavedOf(tok') = SavedOf(tok)
    BY <1>4 DEF StateOf, SavedOf, LevelOf
  <1>6. TextOK(text', tok', from' + char_offset')
    <2>1. TextOK(text, tok', from + char_offset)
      <3>1. CASE StateOf(tok) = "escape_unicode"
        BY <1>1, <1>4, <1>5, <3>1 DEF TextOK, CodeOK
      <3>2. CASE StateOf(tok) # "escape_unicode"
        BY <1>1, <1>4, <3>2
      <3> QED BY <3>1, <3>2
    <2> QED BY <1>1, <2>1
  <1>7. AtOut'
    <2>1. State' = StateOf(tok') /\ Saved' = SavedOf(tok')
      BY DEF State, Saved, Level, StateOf, SavedOf, LevelOf
    <2>2. CASE err' = "success"
      <3>1. tok.depth = 1 /\ StateOf(tok) = "eatws" /\ SavedOf(tok) = "finish"
        BY <1>2, <2>2 DEF EndErr
      <3>2. tok'.depth = 1 /\ State' = "eatws" /\ Saved' = "finish"
        BY <1>4, <1>5, <2>1, <3>1
      <3> QED BY <2>2, <3>2 DEF AtOut
    <2>3. CASE err' = "continue"
      <3>1. State' # "finish" /\ (from + char_offset = Len(text) => Last(text) # NUL)
        BY <1>1, <1>5, <2>1, StateIs DEF TokInv, InParse, Position
      <3> QED BY <1>1, <2>3, <3>1 DEF AtOut
    <2> QED BY <1>2, <2>2, <2>3 DEF EndErr
  <1>8. Position'
    BY <1>1 DEF TokInv, Position
  <1> QED BY <1>1, <1>4, <1>6, <1>7, <1>8 DEF TokInv

LEMMA OutErrorIs ==
    OutError = CallErr(strict, SawNul, tok, err)
  BY StateIs DEF OutError, CallErr

LEMMA OutInv ==
    ASSUME TokInv, Out
    PROVE  TokInv'
  <1>1. /\ pc = "out" /\ from' = from + char_offset /\ len' = 0 /\ char_offset' = 0
             /\ obj' = Null
        /\ err' = OutError /\ UNCHANGED <<text, strict, whole>>
        /\ pc' = IF OutError \in Errors \/ Exhausted(from') THEN "end" ELSE "idle"
        /\ AtOut /\ Sound(tok) /\ TextOK(text, tok, from + char_offset)
    BY DEF Out, TokInv
  <1>2. /\ from \in Nat /\ len \in Nat /\ char_offset \in 0..len /\ Len(text) \in Nat
        /\ from + len <= Len(text)
    BY <1>1 DEF TokInv, Position
  <1>3. pc' = "idle" => from' < Len(text) /\ ~SawNul
    <2>1. ASSUME pc' = "idle" PROVE from' < Len(text)
      BY <1>1, <1>2, <2>1 DEF Exhausted
    <2>2. ASSUME pc' = "idle", SawNul PROVE FALSE
      <3>1. text[Len(text)] = NUL /\ from' + 1 = Len(text) /\ from + char_offset < Len(text)
        BY <1>1, <1>2, <2>1, <2>2 DEF SawNul, Last
      <3>2. OutError \notin Errors /\ OutError # "success"
        BY <1>1, <2>2, <3>1 DEF Exhausted
      <3>3. OutError = err
        BY <2>2, <3>2 DEF OutError, Errors
      <3>4. err = "continue"
        BY <1>1, <3>2, <3>3 DEF AtOut
      <3> QED BY <1>1, <1>2, <2>2, <3>1, <3>4 DEF AtOut, SawNul
    <2> QED BY <2>1, <2>2
  <1>4. Position'
    BY <1>1, <1>2, <1>3 DEF TokInv, Position
  <1>5. pc' \in {"idle", "end"}
    BY <1>1
  <1>6. Shape(tok') /\ \A i \in 1..MaxDepth : i > tok'.depth => tok'.stack[i] = FreshLevel
    <2>1. CASE OutError = "success"
      <3>1. tok' = ResetLevels(tok)
        BY <2>1 DEF Out
      <3>2. Shape(tok) /\ \A i \in 1..MaxDepth : i > tok.depth => tok.stack[i] = FreshLevel
        BY <1>1 DEF Sound, StackOK
      <3>3. /\ Shape(tok') /\ tok'.depth = tok.depth
            /\ \A i \in 1..MaxDepth : tok'.stack[i] = IF i <= tok.depth THEN FreshLevel
                 ELSE tok.stack[i]
        BY <3>1, <3>2, ResetIs
      <3> QED BY <3>2, <3>3
    <2>2. CASE OutError # "success"
      <3>1. tok' = tok
        BY <2>2 DEF Out
      <3> QED BY <1>1, <3>1 DEF Sound, StackOK
    <2> QED BY <2>1, <2>2
  <1>7. CASE pc' = "end"
    BY <1>1, <1>4, <1>6, <1>7 DEF TokInv, Resettable
  <1>8. CASE pc' = "idle"
    <2>1. OutError \notin Errors /\ from + char_offset < Len(text)
      BY <1>1, <1>3, <1>8
    <2>2. OutError = err
      BY <1>3, <1>8, <2>1 DEF OutError, Errors
    <2>3. Sound(tok') /\ TextOK(text, tok', from + char_offset)
      <3>1. CASE OutError = "success"
        <4>1. tok' = ResetLevels(tok) /\ tok.depth = 1
          BY <1>1, <1>2, <2>1, <2>2, <3>1 DEF Out, AtOut
        <4>2. Shape(tok) /\ \A i \in 1..MaxDepth : i > 1 => tok.stack[i] = FreshLevel
          BY <1>1, <4>1 DEF Sound, StackOK
        <4>3. Sound(tok') /\ LevelOf(tok') = FreshLevel
          BY <4>1, <4>2, ResetSound
        <4>4. StateOf(tok') = "eatws"
          BY <4>3 DEF StateOf, FreshLevel
        <4> QED BY <4>3, <4>4 DEF TextOK
      <3>2. CASE OutError # "success"
        <4>1. tok' = tok
          BY <3>2 DEF Out
        <4> QED BY <1>1, <4>1
      <3> QED BY <3>1, <3>2
    <2>4. TextOK(text', tok', from' + char_offset')
      <3>1. from' + char_offset' = from + char_offset /\ text' = text
        BY <1>1, <1>2
      <3> QED BY <2>3, <3>1
    <2> QED BY <1>1, <1>4, <1>8, <2>3, <2>4 DEF TokInv
  <1> QED BY <1>5, <1>7, <1>8

LEMMA CallInv ==
    ASSUME TokInv, NEW n \in 1..Remaining, Call(n), whole = <<>> => n = Remaining
    PROVE  TokInv'
  <1>1. /\ pc = "idle" /\ len' = n /\ char_offset' = 0 /\ err' = "success" /\ pc' = "parse"
        /\ UNCHANGED <<text, strict, tok, obj, from, whole>>
    BY DEF Call
  <1>2. /\ from \in Nat /\ len = 0 /\ char_offset = 0 /\ Len(text) \in Nat
        /\ from + len <= Len(text) /\ Sound(tok) /\ TextOK(text, tok, from + char_offset)
    BY <1>1 DEF TokInv, Position
  <1>3. n \in Nat /\ n > 0 /\ from + n <= Len(text) /\ (whole = <<>> => from + n = Len(text))
    BY <1>2 DEF Remaining
  <1>4. Position' /\ InParse'
    BY <1>1, <1>2, <1>3 DEF TokInv, Position, InParse
  <1>5. TextOK(text', tok', from' + char_offset')
    <2>1. from' + char_offset' = from + char_offset
      BY <1>1, <1>2
    <2> QED BY <1>1, <1>2, <2>1
  <1> QED BY <1>1, <1>2, <1>4, <1>5 DEF TokInv

LEMMA AgainInv ==
    ASSUME TokInv, Again
    PROVE  TokInv'
  <1>1. /\ pc = "end" /\ pc' = "idle" /\ tok' = Reset(tok) /\ from' = 0 /\ err' = "success"
        /\ UNCHANGED <<text, strict, char_offset, len, obj>>
    BY DEF Again, locals
  <1>2. /\ len = 0 /\ char_offset = 0 /\ Len(text) \in Nat /\ obj = Null
        /\ Shape(tok) /\ \A i \in 1..MaxDepth : i > tok.depth => tok.stack[i] = FreshLevel
    BY <1>1 DEF TokInv, Position, Resettable
  <1>3. Sound(tok') /\ StateOf(tok') = "eatws"
    BY <1>1, <1>2, ResetAll
  <1>4. TextOK(text', tok', from' + char_offset')
    BY <1>3 DEF TextOK
  <1>5. Position'
    BY <1>1, <1>2 DEF TokInv, Position
  <1> QED BY <1>1, <1>2, <1>3, <1>4, <1>5 DEF TokInv

LEMMA TokInvInit == TokenerInit => TokInv
  <1> SUFFICES ASSUME TokenerInit PROVE TokInv
    OBVIOUS
  <1>1. text \in Texts /\ strict \in BOOLEAN /\ Len(text) \in Nat
    BY TextsAssumption, FlagsAssumption DEF TokenerInit
  <1>2. /\ Sound(tok) /\ StateOf(tok) = "eatws"
    <2>1. DOMAIN tok = Fields /\ tok.depth = 1
            /\ tok.stack = [i \in 1..MaxDepth |-> FreshLevel]
      BY DEF TokenerInit, NewTokener, Fields
    <2>2. Shape(tok)
      BY <2>1, FreshOK, DepthAssumption DEF Shape
    <2>3. StackOK(tok) /\ StateOf(tok) = "eatws"
      BY <2>1, FreshOK, DepthAssumption DEF StackOK, StateOf, LevelOf, FreshLevel
    <2> QED BY <2>2, <2>3 DEF Sound
  <1>3. TextOK(text, tok, from + char_offset)
    BY <1>2 DEF TextOK
  <1>4. Position
    BY <1>1 DEF TokenerInit, Position
  <1> QED BY <1>1, <1>2, <1>3, <1>4 DEF TokenerInit, TokInv

LEMMA TokInvNext ==
    ASSUME TokInv, [TokenerNext]_tokenerVars
    PROVE  TokInv'
  <1>1. CASE UNCHANGED tokenerVars
    BY <1>1 DEF tokenerVars, TokInv, Position, InParse, AtOut, Resettable, State, Saved, Level
  <1>2. CASE Character
    <2>1. pc = "parse" /\ char_offset < len /\ tok.depth \in 1..MaxDepth
      BY <1>2, InLoop DEF TokInv, Sound, Shape
    <2>2. CASE NumberEnd /\ MinusInfinity
      BY <2>2, MinusInfinityInv
    <2>3. CASE UnicodeEnd
      BY <2>3, UnicodeEndInv
    <2>4. CASE ~(NumberEnd /\ MinusInfinity) /\ ~UnicodeEnd
      BY <1>2, <2>1, <2>4, CharacterMove, CharMoveInv
    <2> QED BY <2>2, <2>3, <2>4
  <1>3. CASE CallWhole \/ CallPiece
    <2>1. Len(text) \in Nat /\ from \in Nat
      BY DEF TokInv, Position
    <2> QED BY <1>3, <2>1, CallInv DEF CallWhole, CallPiece, Remaining
  <1>4. CASE EndOfPiece
    BY <1>4, EndOfPieceInv
  <1>5. CASE Out
    BY <1>5, OutInv
  <1>6. CASE Again
    BY <1>6, AgainInv
  <1> QED BY <1>1, <1>2, <1>3, <1>4, <1>5, <1>6 DEF TokenerNext, Parse, Character

\* TokInv: the parser never leaves its stack, however deep the text is: the level in use
\* is one that was allocated, each below it waits for a value and each above it is as
\* json_tokener_reset_level leaves it.  What has been taken is in the text; a state that
\* was reached in the middle of a number or of an escape has those characters behind it,
\* in whatever pieces they came (json_tokener.c, 533-631 and 666-713).
THEOREM TokenerSafe == TokenerSpec => []TokInv
  BY TokInvInit, TokInvNext, PTL DEF TokenerSpec

-----------------------------------------------------------------------------
(* Texts without -Infinity and without pairs of codes.                       *)

LEMMA NoMinusInfinity ==
    ASSUME TokInv, NumberEnd, MinusInfinity
    PROVE  Fragile
  <1> DEFINE p == from + char_offset
  <1>1. pc = "parse" /\ char_offset < len /\ StateOf(tok) = "number"
    BY DEF NumberEnd, In, State, Level, StateOf, LevelOf
  <1>2. TextOK(text, tok, p) /\ tok.pb # <<>> /\ tok.pb[1] = "-" /\ c \in {"i", "I"}
    BY <1>1 DEF TokInv, MinusInfinity
  <1>3. p \in Nat /\ p < Len(text) /\ Len(text) \in Nat /\ c = text[p + 1]
    BY <1>1, ReadingText DEF Reading
  <1>4. PICK i \in 1..p : text[i] = "-" /\ \A m \in (i + 1)..p : text[m] \in NumberChar
    <2> HIDE DEF p
    <2> QED BY <1>1, <1>2 DEF TextOK, NumberOK
  <1> DEFINE j == p + 1
  <1>5. i \in 1..Len(text) /\ j \in 1..Len(text) /\ i < j /\ j - 1 = p
          /\ text[j] \in {"i", "I"}
    BY <1>2, <1>3
  <1> HIDE DEF p, j
  <1>6. \A m \in (i + 1)..(j - 1) : text[m] \in NumberChar
    BY <1>4, <1>5
  <1> QED BY <1>4, <1>5, <1>6 DEF Fragile

LEMMA NoFollows ==
    ASSUME TokInv, UnicodeEnd, UnicodeFollows
    PROVE  Fragile
  <1> DEFINE p == from + char_offset
             i == p - 4
  <1>1. pc = "parse" /\ char_offset < len /\ StateOf(tok) = "escape_unicode" /\ tok.st_pos = 3
    BY DEF UnicodeEnd, In, State, Level, StateOf, LevelOf
  <1>2. TextOK(text, tok, p)
    BY <1>1 DEF TokInv
  <1>3. /\ p \in Nat /\ p < Len(text) /\ Len(text) \in Nat
        /\ from \in Nat /\ char_offset \in Nat /\ len \in Nat /\ from + len <= Len(text)
    BY <1>1, ReadingText DEF Reading
  <1>4. p >= 5 /\ text[p - 3] = "u" /\ text[p - 3 - 1] = "\\"
    <2>1. CodeOK(text, tok, p)
      BY <1>1, <1>2 DEF TextOK
    <2> QED BY <1>1, <1>3, <2>1 DEF CodeOK
  <1>5. /\ char_offset + 3 <= len
        /\ text[p + 2] = "\\" /\ text[p + 2 + 1] = "u"
    BY <1>1, <1>3 DEF UnicodeFollows
  <1>6. /\ i \in 1..(Len(text) - 7)
        /\ p - 3 - 1 = i /\ p - 3 = i + 1 /\ p + 2 = i + 6 /\ p + 2 + 1 = i + 7
    BY <1>3, <1>4, <1>5
  <1>7. text[i] = "\\" /\ text[i + 1] = "u" /\ text[i + 6] = "\\" /\ text[i + 7] = "u"
    BY <1>4, <1>5, <1>6
  <1> HIDE DEF i
  <1> QED BY <1>6, <1>7 DEF Fragile

LEMMA SturdyMove ==
    ASSUME TokInv, NoPair, ~Fragile, Character
    PROVE  CharMove /\ pc = "parse" /\ char_offset < len
  <1>1. tok.depth \in 1..MaxDepth
    BY InLoop DEF TokInv, Sound, Shape
  <1> QED BY <1>1, InLoop, NoMinusInfinity, NoFollows, CharacterMove DEF NoPair

LEMMA TextStays ==
    ASSUME [TokenerNext]_tokenerVars
    PROVE  UNCHANGED <<text, strict>>
  <1>1. CASE Character
    BY <1>1
    DEF Character, Redo, AdvanceChar, Fail, caller, Word, locals,
     Eatws, Start, Finish, NullWord, BooleanWord, InfWord, NumberCharacter,
     NumberEnd, CommentStart, Comment, CommentEol, CommentEnd, StringCharacter, Escape,
     StringEnd, StringEscape, UnicodeDigit, UnicodeEnd, UnicodeBad, ArrayValue,
     ArrayAddValue, ArraySep, ObjectFieldStart, ObjectField, ObjectFieldEnd, ObjectValue,
     ObjectValueAdd, ObjectSep
  <1>2. CASE CallWhole \/ CallPiece \/ EndOfPiece \/ Out \/ Again \/ UNCHANGED tokenerVars
    BY <1>2 DEF CallWhole, CallPiece, Call, EndOfPiece, Out, Again, tokenerVars, caller
  <1> QED BY <1>1, <1>2 DEF TokenerNext, Parse, Character

LEMMA NoPairNext ==
    ASSUME TokInv, NoPair, [TokenerNext]_tokenerVars
    PROVE  NoPair'
  <1>1. SUFFICES ASSUME ~Fragile PROVE got_hi' = 0
    BY TextStays DEF NoPair, Fragile
  <1>2. CASE UnicodeEnd
    BY <1>1, <1>2, NoFollows DEF UnicodeEnd
  <1>3. CASE Character /\ ~UnicodeEnd
    BY <1>1, <1>3
    DEF NoPair, Character, locals,
     Eatws, Start, Finish, NullWord, BooleanWord, InfWord, NumberCharacter,
     NumberEnd, CommentStart, Comment, CommentEol, CommentEnd, StringCharacter, Escape,
     StringEnd, StringEscape, UnicodeDigit, UnicodeBad, ArrayValue,
     ArrayAddValue, ArraySep, ObjectFieldStart, ObjectField, ObjectFieldEnd, ObjectValue,
     ObjectValueAdd, ObjectSep
  <1>4. CASE CallWhole \/ CallPiece \/ EndOfPiece \/ Out \/ Again \/ UNCHANGED tokenerVars
    BY <1>1, <1>4 DEF NoPair, CallWhole, CallPiece, Call, EndOfPiece, Out, Again, tokenerVars,
       caller, locals
  <1> QED BY <1>2, <1>3, <1>4 DEF TokenerNext, Parse, Character

-----------------------------------------------------------------------------
(* The parse in one piece.                                                   *)

\* A step of the loop is the step of the text in one piece.
LEMMA CharNow ==
    ASSUME TokInv, CharMove, pc = "parse", char_offset < len
    PROVE  Now' = CharConf(text, strict, Now)
  <1> DEFINE p == from + char_offset
             r == CharStep(strict, tok, obj, c)
             n == Now
  <1>1. from \in Nat /\ char_offset \in Nat
    BY ReadingText
  <1>2. /\ tok' = r.tok /\ obj' = r.obj /\ from' = from /\ values' = values
        /\ char_offset' = IF r.end = "next" THEN char_offset + 1 ELSE char_offset
        /\ pc' = IF r.end = "redo" \/ (r.end = "next" /\ c # NUL) THEN "parse" ELSE "out"
        /\ err' = IF r.end \in Errors THEN r.end ELSE err
    BY DEF CharMove, caller
  <1>3. n.tok = tok /\ n.obj = obj /\ n.pos = p /\ n.err = err /\ n.values = values
        /\ text[n.pos + 1] = c
    BY DEF Now, Conf, c
  <1>4. from' + char_offset' = IF r.end = "next" THEN p + 1 ELSE p
    BY <1>1, <1>2
  <1>5. CharConf(text, strict, n) =
          Conf(r.tok, r.obj, IF r.end = "next" THEN p + 1 ELSE p,
               IF r.end = "redo" \/ (r.end = "next" /\ c # NUL) THEN "parse" ELSE "out",
               values, IF r.end \in Errors THEN r.end ELSE err)
    <2> HIDE DEF n, p
    <2> QED BY <1>3 DEF CharConf
  <1> HIDE DEF r, p
  <1> QED BY <1>2, <1>4, <1>5 DEF Now

LEMMA EndNow ==
    ASSUME TokInv, NoPair, ~Fragile, EndOfPiece
    PROVE  Now' = EndConf(Now) /\ tok' = tok
  <1>1. /\ tok' = tok /\ err' = EndErr(tok) /\ pc' = "out"
        /\ UNCHANGED <<char_offset, obj, from, values>>
    BY StateIs DEF EndOfPiece, EndErr, NoPair, locals, caller
  <1> QED BY <1>1 DEF Now, Conf, EndConf

\* What Out does, whatever it makes of the error.
LEMMA OutNow ==
    ASSUME TokInv, Out
    PROVE  Now' = GivenConf(text, Now, CallErr(strict, SawNul, tok, err))
  <1> DEFINE p == from + char_offset
             e == CallErr(strict, SawNul, tok, err)
             n == Now
  <1>1. from \in Nat /\ char_offset \in Nat
    BY DEF TokInv, Position
  <1>2. /\ tok' = IF e = "success" THEN ResetLevels(tok) ELSE tok
        /\ values' = IF e = "success" THEN Append(values, LevelOf(tok).current) ELSE values
        /\ err' = e /\ from' = p /\ char_offset' = 0 /\ obj' = Null
        /\ pc' = IF e \in Errors \/ p >= Len(text) \/ (e = "success" /\ text[p + 1] = NUL)
                 THEN "end" ELSE "idle"
    BY OutErrorIs, StateIs DEF Out, Exhausted
  <1>3. from' + char_offset' = p
    BY <1>1, <1>2
  <1>4. n.tok = tok /\ n.obj = obj /\ n.pos = p /\ n.err = err /\ n.values = values
    BY DEF Now, Conf
  <1> HIDE DEF e, p, n
  <1>5. Now' = GivenConf(text, n, e)
    BY <1>2, <1>3, <1>4 DEF Now, GivenConf
  <1> QED BY <1>5 DEF e, n

LEMMA CallNow ==
    ASSUME TokInv, NEW k, Call(k)
    PROVE  Now' = CallConf(Now) /\ pc = "idle"
  <1>1. from + char_offset = from' + char_offset'
    BY DEF Call, TokInv, Position
  <1> QED BY <1>1 DEF Call, CallConf, Now, Conf

\* As long as it is parsed in one piece.
LEMMA WholeNow ==
    ASSUME TokInv, NoPair, ~Fragile, whole = <<>>, TokenerNext, ~Again
    PROVE  pc # "end" /\ Now' = WholeStep(text, strict, Now) /\ whole' = <<>>
  <1>1. /\ from \in Nat /\ len \in Nat /\ char_offset \in 0..len /\ Len(text) \in Nat
        /\ pc \in {"parse", "out"} => from + len = Len(text)
    BY DEF TokInv, Position
  <1>0. Now.pc = pc /\ Now.pos = from + char_offset /\ Now.tok = tok /\ Now.err = err
    BY DEF Now, Conf
  <1>2. CASE Character
    <2>1. CharMove /\ pc = "parse" /\ char_offset < len
      BY <1>2, SturdyMove
    <2>2. Now' = CharConf(text, strict, Now) /\ whole' = <<>>
      BY <2>1, CharNow DEF CharMove, caller
    <2>3. Now.pc = "parse" /\ Now.pos < Len(text)
      BY <1>0, <1>1, <2>1
    <2> HIDE DEF Now
    <2> QED BY <2>1, <2>2, <2>3 DEF WholeStep
  <1>3. CASE EndOfPiece
    <2>1. Now' = EndConf(Now) /\ pc = "parse" /\ char_offset = len /\ whole' = <<>>
      BY <1>3, EndNow DEF EndOfPiece, caller
    <2>2. Now.pc = "parse" /\ ~(Now.pos < Len(text))
      BY <1>0, <1>1, <2>1
    <2> QED BY <2>1, <2>2 DEF WholeStep
  <1>4. CASE Out
    <2>1. pc = "out" /\ whole' = <<>>
      BY <1>4 DEF Out
    <2>2. SawNul <=> Last(text) = NUL /\ from + char_offset >= Len(text) - 1
      <3>1. from + len = Len(text)
        BY <1>1, <2>1
      <3>2. char_offset >= len - 1 <=> from + char_offset >= Len(text) - 1
        BY <1>1, <3>1
      <3> QED BY <3>1, <3>2 DEF SawNul
    <2>3. Now' = OutConf(text, strict, Now)
      BY <1>0, <1>4, <2>2, OutNow DEF OutConf
    <2> QED BY <1>0, <2>1, <2>3 DEF WholeStep
  <1>5. CASE CallWhole
    <2>1. Now' = CallConf(Now) /\ pc = "idle" /\ whole' = <<>>
      BY <1>5, CallNow DEF CallWhole, Call
    <2> QED BY <1>0, <2>1 DEF WholeStep
  <1>6. ~CallPiece
    BY DEF CallPiece
  <1> QED BY <1>2, <1>3, <1>4, <1>5, <1>6 DEF TokenerNext, Parse, Character

\* A step is added to the path.
LEMMA PathGrows ==
    ASSUME NEW tx, NEW st, NEW R, NEW f, Path(tx, st, R, f), f.pc # "end"
    PROVE  Path(tx, st, R \cup {WholeStep(tx, st, f)}, WholeStep(tx, st, f))
  BY DEF Path

LEMMA WholePath ==
    ASSUME TokInv, NoPair, ~Fragile, whole = <<>>, TokenerNext, ~Again,
           \E R : Path(text, strict, R, Now)
    PROVE  (\E R : Path(text, strict, R, Now))' /\ whole' = <<>>
  <1>1. pc # "end" /\ Now' = WholeStep(text, strict, Now) /\ whole' = <<>> /\ Now.pc = pc
    BY WholeNow DEF Now, Conf
  <1>2. text' = text /\ strict' = strict
    BY TextStays
  <1>3. PICK R : Path(text, strict, R, Now)
    OBVIOUS
  <1>4. Path(text, strict, R \cup {Now'}, Now')
    BY <1>1, <1>3, PathGrows
  <1> QED BY <1>1, <1>2, <1>4

-----------------------------------------------------------------------------
(* Two tokeners that are the same take the same step.                        *)

Twin(t, u) == Sound(t) /\ Sound(u) /\ t.depth = u.depth /\ t.stack = u.stack

Alike(r, q) == r.end = q.end /\ r.obj = q.obj /\ Same(r.tok, q.tok)

LEMMA TwinIs ==
    ASSUME NEW t, NEW u, Twin(t, u)
    PROVE  /\ LevelOf(t) = LevelOf(u) /\ StateOf(t) = StateOf(u) /\ SavedOf(t) = SavedOf(u)
           /\ t.depth = u.depth /\ Shape(t) /\ Shape(u) /\ Sound(t) /\ Sound(u)
  BY DEF Twin, Sound, LevelOf, StateOf, SavedOf

\* Where nothing of the token is read any more.
LEMMA CalmSame ==
    ASSUME NEW r, NEW q, Calm(r), Calm(q), r.end = q.end, r.obj = q.obj,
           r.tok.depth = q.tok.depth, r.tok.stack = q.tok.stack
    PROVE  Alike(r, q)
  BY DEF Alike, Same, Calm, Buffered, Escapes

LEMMA SkipTwin ==
    ASSUME NEW t, NEW u, Twin(t, u), NEW s
    PROVE  /\ Skip(t, s).depth = t.depth /\ Skip(u, s).depth = t.depth
           /\ Skip(t, s).stack = Skip(u, s).stack
           /\ DOMAIN Skip(t, s) = Fields /\ DOMAIN Skip(u, s) = Fields
  <1> DEFINE l == [LevelOf(t) EXCEPT !.state = "eatws", !.saved_state = s]
  <1>1. Skip(t, s).stack = [t.stack EXCEPT ![t.depth] = l] /\ DOMAIN Skip(t, s) = Fields
        /\ Skip(t, s).depth = t.depth
    BY DEF Twin, Sound, Shape, Skip, Fields, LevelOf
  <1>2. Skip(u, s).stack = [t.stack EXCEPT ![t.depth] = l] /\ DOMAIN Skip(u, s) = Fields
        /\ Skip(u, s).depth = t.depth
    BY DEF Twin, Sound, Shape, Skip, Fields, LevelOf
  <1> QED BY <1>1, <1>2

LEMMA EatwsAlike ==
    ASSUME NEW t, NEW u, Twin(t, u), StateOf(t) = "eatws", NEW st, NEW x, NEW o
    PROVE  Alike(EatwsOf(st, t, o, x), EatwsOf(st, u, o, x))
  <1> DEFINE r == EatwsOf(st, t, o, x)
             q == EatwsOf(st, u, o, x)
  <1>1. r.end = q.end /\ r.obj = q.obj /\ r.tok.depth = q.tok.depth
          /\ r.tok.stack = q.tok.stack
    BY TwinIs DEF Twin, EatwsOf, Res, Goto, Shape, Fields
  <1>2. Calm(r) /\ Calm(q)
    BY TwinIs, EatwsCalm
  <1> HIDE DEF r, q
  <1>3. Alike(r, q)
    BY <1>1, <1>2, CalmSame
  <1> QED BY <1>3 DEF r, q

LEMMA FinishAlike ==
    ASSUME NEW t, NEW u, Twin(t, u), StateOf(t) = "finish", NEW st, NEW x, NEW o
    PROVE  Alike(FinishOf(st, t, o, x), FinishOf(st, u, o, x))
  <1> DEFINE r == FinishOf(st, t, o, x)
             q == FinishOf(st, u, o, x)
  <1>1. r.end = q.end /\ r.obj = q.obj /\ r.tok.depth = q.tok.depth
          /\ r.tok.stack = q.tok.stack
    BY TwinIs DEF Twin, FinishOf, Res, LevelOf, Shape, Fields
  <1>2. Calm(r) /\ Calm(q)
    BY TwinIs, FinishCalm
  <1> HIDE DEF r, q
  <1>3. Alike(r, q)
    BY <1>1, <1>2, CalmSame
  <1> QED BY <1>3 DEF r, q

LEMMA CommentStartAlike ==
    ASSUME NEW t, NEW u, Twin(t, u), StateOf(t) = "comment_start", NEW st, NEW x, NEW o
    PROVE  Alike(CommentStartOf(st, t, o, x), CommentStartOf(st, u, o, x))
  <1> DEFINE r == CommentStartOf(st, t, o, x)
             q == CommentStartOf(st, u, o, x)
  <1>1. r.end = q.end /\ r.obj = q.obj /\ r.tok.depth = q.tok.depth
          /\ r.tok.stack = q.tok.stack
    BY TwinIs DEF Twin, CommentStartOf, Res, Goto, Keep, Shape, Fields
  <1>2. Calm(r) /\ Calm(q)
    BY TwinIs, CommentStartCalm
  <1> HIDE DEF r, q
  <1>3. Alike(r, q)
    BY <1>1, <1>2, CalmSame
  <1> QED BY <1>3 DEF r, q

LEMMA CommentAlike ==
    ASSUME NEW t, NEW u, Twin(t, u), StateOf(t) = "comment", NEW st, NEW x, NEW o
    PROVE  Alike(CommentOf(st, t, o, x), CommentOf(st, u, o, x))
  <1> DEFINE r == CommentOf(st, t, o, x)
             q == CommentOf(st, u, o, x)
  <1>1. r.end = q.end /\ r.obj = q.obj /\ r.tok.depth = q.tok.depth
          /\ r.tok.stack = q.tok.stack
    BY TwinIs DEF Twin, CommentOf, Res, Goto, Shape, Fields
  <1>2. Calm(r) /\ Calm(q)
    BY TwinIs, CommentCalm
  <1> HIDE DEF r, q
  <1>3. Alike(r, q)
    BY <1>1, <1>2, CalmSame
  <1> QED BY <1>3 DEF r, q

LEMMA CommentEolAlike ==
    ASSUME NEW t, NEW u, Twin(t, u), StateOf(t) = "comment_eol", NEW st, NEW x, NEW o
    PROVE  Alike(CommentEolOf(st, t, o, x), CommentEolOf(st, u, o, x))
  <1> DEFINE r == CommentEolOf(st, t, o, x)
             q == CommentEolOf(st, u, o, x)
  <1>1. r.end = q.end /\ r.obj = q.obj /\ r.tok.depth = q.tok.depth
          /\ r.tok.stack = q.tok.stack
    BY TwinIs DEF Twin, CommentEolOf, Res, Goto, Shape, Fields
  <1>2. Calm(r) /\ Calm(q)
    BY TwinIs, CommentEolCalm
  <1> HIDE DEF r, q
  <1>3. Alike(r, q)
    BY <1>1, <1>2, CalmSame
  <1> QED BY <1>3 DEF r, q

LEMMA CommentEndAlike ==
    ASSUME NEW t, NEW u, Twin(t, u), StateOf(t) = "comment_end", NEW st, NEW x, NEW o
    PROVE  Alike(CommentEndOf(st, t, o, x), CommentEndOf(st, u, o, x))
  <1> DEFINE r == CommentEndOf(st, t, o, x)
             q == CommentEndOf(st, u, o, x)
  <1>1. r.end = q.end /\ r.obj = q.obj /\ r.tok.depth = q.tok.depth
          /\ r.tok.stack = q.tok.stack
    BY TwinIs DEF Twin, CommentEndOf, Res, Goto, Shape, Fields
  <1>2. Calm(r) /\ Calm(q)
    BY TwinIs, CommentEndCalm
  <1> HIDE DEF r, q
  <1>3. Alike(r, q)
    BY <1>1, <1>2, CalmSame
  <1> QED BY <1>3 DEF r, q

LEMMA ArrayAlike ==
    ASSUME NEW t, NEW u, Twin(t, u), StateOf(t) \in {"array", "array_after_sep"}, NEW st,
           NEW x, NEW o
    PROVE  Alike(ArrayOf(st, t, o, x), ArrayOf(st, u, o, x))
  <1> DEFINE r == ArrayOf(st, t, o, x)
             q == ArrayOf(st, u, o, x)
  <1>1. r.end = q.end /\ r.obj = q.obj /\ r.tok.depth = q.tok.depth
          /\ r.tok.stack = q.tok.stack
    BY TwinIs DEF Twin, ArrayOf, Res, Skip, Deeper, Goto, Shape, Fields
  <1>2. Calm(r) /\ Calm(q)
    BY TwinIs, ArrayCalm
  <1> HIDE DEF r, q
  <1>3. Alike(r, q)
    BY <1>1, <1>2, CalmSame
  <1> QED BY <1>3 DEF r, q

LEMMA ArrayAddAlike ==
    ASSUME NEW t, NEW u, Twin(t, u), StateOf(t) = "array_add", NEW st, NEW x, NEW o
    PROVE  Alike(ArrayAddOf(st, t, o, x), ArrayAddOf(st, u, o, x))
  <1> DEFINE r == ArrayAddOf(st, t, o, x)
             q == ArrayAddOf(st, u, o, x)
  <1>1. r.end = q.end /\ r.obj = q.obj /\ r.tok.depth = q.tok.depth
          /\ r.tok.stack = q.tok.stack
    <2> DEFINE v == Skip(t, "array_sep")
               w == Skip(u, "array_sep")
    <2>1. /\ v.depth = t.depth /\ w.depth = t.depth /\ v.stack = w.stack
          /\ DOMAIN v = Fields /\ DOMAIN w = Fields /\ u.depth = t.depth
      BY SkipTwin DEF Twin
    <2>2. /\ r = Res([v EXCEPT !.stack[t.depth].current = WithElement(@, o)], Null, "redo")
          /\ q = Res([w EXCEPT !.stack[u.depth].current = WithElement(@, o)], Null, "redo")
      BY DEF ArrayAddOf
    <2> HIDE DEF r, q, v, w
    <2> QED BY <2>1, <2>2 DEF Res, Fields
  <1>2. Calm(r) /\ Calm(q)
    BY TwinIs, ArrayAddCalm
  <1> HIDE DEF r, q
  <1>3. Alike(r, q)
    BY <1>1, <1>2, CalmSame
  <1> QED BY <1>3 DEF r, q

LEMMA ArraySepAlike ==
    ASSUME NEW t, NEW u, Twin(t, u), StateOf(t) = "array_sep", NEW st, NEW x, NEW o
    PROVE  Alike(ArraySepOf(st, t, o, x), ArraySepOf(st, u, o, x))
  <1> DEFINE r == ArraySepOf(st, t, o, x)
             q == ArraySepOf(st, u, o, x)
  <1>1. r.end = q.end /\ r.obj = q.obj /\ r.tok.depth = q.tok.depth
          /\ r.tok.stack = q.tok.stack
    <2>1. CASE x = "]"
      <3>1. r = Res(Skip(t, "finish"), o, "next") /\ q = Res(Skip(u, "finish"), o, "next")
        BY <2>1 DEF ArraySepOf
      <3> HIDE DEF r, q
      <3> QED BY <3>1, SkipTwin DEF Res
    <2>2. CASE x # "]" /\ x = ","
      <3>1. /\ r = Res(Skip(t, "array_after_sep"), o, "next")
            /\ q = Res(Skip(u, "array_after_sep"), o, "next")
        BY <2>2 DEF ArraySepOf
      <3> HIDE DEF r, q
      <3> QED BY <3>1, SkipTwin DEF Res
    <2>3. CASE x # "]" /\ x # ","
      BY <2>3 DEF Twin, ArraySepOf, Res
    <2> QED BY <2>1, <2>2, <2>3
  <1>2. Calm(r) /\ Calm(q)
    BY TwinIs, ArraySepCalm
  <1> HIDE DEF r, q
  <1>3. Alike(r, q)
    BY <1>1, <1>2, CalmSame
  <1> QED BY <1>3 DEF r, q

LEMMA FieldEndAlike ==
    ASSUME NEW t, NEW u, Twin(t, u), StateOf(t) = "object_field_end", NEW st, NEW x, NEW o
    PROVE  Alike(FieldEndOf(st, t, o, x), FieldEndOf(st, u, o, x))
  <1> DEFINE r == FieldEndOf(st, t, o, x)
             q == FieldEndOf(st, u, o, x)
  <1>1. r.end = q.end /\ r.obj = q.obj /\ r.tok.depth = q.tok.depth
          /\ r.tok.stack = q.tok.stack
    BY SkipTwin DEF Twin, FieldEndOf, Res
  <1>2. Calm(r) /\ Calm(q)
    BY TwinIs, FieldNameCalm
  <1> HIDE DEF r, q
  <1>3. Alike(r, q)
    BY <1>1, <1>2, CalmSame
  <1> QED BY <1>3 DEF r, q

LEMMA ObjectValueAlike ==
    ASSUME NEW t, NEW u, Twin(t, u), StateOf(t) = "object_value", NEW st, NEW x, NEW o
    PROVE  Alike(ObjectValueOf(st, t, o, x), ObjectValueOf(st, u, o, x))
  <1> DEFINE r == ObjectValueOf(st, t, o, x)
             q == ObjectValueOf(st, u, o, x)
  <1>1. r.end = q.end /\ r.obj = q.obj /\ r.tok.depth = q.tok.depth
          /\ r.tok.stack = q.tok.stack
    BY TwinIs DEF Twin, ObjectValueOf, Res, Deeper, Goto, Shape, Fields
  <1>2. Calm(r) /\ Calm(q)
    BY TwinIs, ObjectValueCalm
  <1> HIDE DEF r, q
  <1>3. Alike(r, q)
    BY <1>1, <1>2, CalmSame
  <1> QED BY <1>3 DEF r, q

LEMMA ObjectAddAlike ==
    ASSUME NEW t, NEW u, Twin(t, u), StateOf(t) = "object_value_add", NEW st, NEW x, NEW o
    PROVE  Alike(ObjectAddOf(st, t, o, x), ObjectAddOf(st, u, o, x))
  <1> DEFINE r == ObjectAddOf(st, t, o, x)
             q == ObjectAddOf(st, u, o, x)
  <1>1. r.end = q.end /\ r.obj = q.obj /\ r.tok.depth = q.tok.depth
          /\ r.tok.stack = q.tok.stack
    <2> DEFINE v == Skip(t, "object_sep")
               w == Skip(u, "object_sep")
               g(z, d, name) ==
                   Res([z EXCEPT !.stack[d].current = WithField(@, name, o),
                                 !.stack[d].obj_field_name = <<>>], Null, "redo")
    <2>1. /\ v.depth = t.depth /\ w.depth = t.depth /\ v.stack = w.stack
          /\ DOMAIN v = Fields /\ DOMAIN w = Fields /\ u.depth = t.depth
      BY SkipTwin DEF Twin
    <2>2. r = g(v, t.depth, LevelOf(t).obj_field_name[1])
      BY DEF ObjectAddOf
    <2>3. LevelOf(u) = LevelOf(t) /\ u.depth = t.depth
      BY TwinIs
    <2>4. q = g(w, u.depth, LevelOf(u).obj_field_name[1])
      BY DEF ObjectAddOf
    <2>5. q = g(w, t.depth, LevelOf(t).obj_field_name[1])
      <3> HIDE DEF w, q, g
      <3> QED BY <2>3, <2>4
    <2> DEFINE n == LevelOf(t).obj_field_name[1]
               h(s) == [s EXCEPT ![t.depth].current = WithField(@, n, o),
                                 ![t.depth].obj_field_name = <<>>]
    <2> HIDE DEF r, q, v, w, n
    <2>6. r.end = "redo" /\ r.obj = Null /\ r.tok.depth = t.depth /\ r.tok.stack = h(v.stack)
      BY <2>1, <2>2 DEF Res, Fields, n
    <2>7. q.end = "redo" /\ q.obj = Null /\ q.tok.depth = t.depth /\ q.tok.stack = h(w.stack)
      BY <2>1, <2>5 DEF Res, Fields, n
    <2> HIDE DEF h
    <2> QED BY <2>1, <2>6, <2>7
  <1>2. Calm(r) /\ Calm(q)
    BY TwinIs, ObjectAddCalm
  <1> HIDE DEF r, q
  <1>3. Alike(r, q)
    BY <1>1, <1>2, CalmSame
  <1> QED BY <1>3 DEF r, q

LEMMA ObjectSepAlike ==
    ASSUME NEW t, NEW u, Twin(t, u), StateOf(t) = "object_sep", NEW st, NEW x, NEW o
    PROVE  Alike(ObjectSepOf(st, t, o, x), ObjectSepOf(st, u, o, x))
  <1> DEFINE r == ObjectSepOf(st, t, o, x)
             q == ObjectSepOf(st, u, o, x)
  <1>1. r.end = q.end /\ r.obj = q.obj /\ r.tok.depth = q.tok.depth
          /\ r.tok.stack = q.tok.stack
    <2>1. CASE x = "}"
      <3>1. r = Res(Skip(t, "finish"), o, "next") /\ q = Res(Skip(u, "finish"), o, "next")
        BY <2>1 DEF ObjectSepOf
      <3> HIDE DEF r, q
      <3> QED BY <3>1, SkipTwin DEF Res
    <2>2. CASE x # "}" /\ x = ","
      <3>1. /\ r = Res(Skip(t, "object_field_start_after_sep"), o, "next")
            /\ q = Res(Skip(u, "object_field_start_after_sep"), o, "next")
        BY <2>2 DEF ObjectSepOf
      <3> HIDE DEF r, q
      <3> QED BY <3>1, SkipTwin DEF Res
    <2>3. CASE x # "}" /\ x # ","
      BY <2>3 DEF Twin, ObjectSepOf, Res
    <2> QED BY <2>1, <2>2, <2>3
  <1>2. Calm(r) /\ Calm(q)
    BY TwinIs, ObjectSepCalm
  <1> HIDE DEF r, q
  <1>3. Alike(r, q)
    BY <1>1, <1>2, CalmSame
  <1> QED BY <1>3 DEF r, q
LEMMA SameTwin ==
    ASSUME NEW t, NEW u, Same(t, u)
    PROVE  Twin(t, u) /\ StateOf(t) = StateOf(u) /\ SavedOf(t) = SavedOf(u) /\ Shape(t)
           /\ Shape(u)
  BY TwinIs DEF Same, Twin

LEMMA ResAlike ==
    ASSUME NEW t, NEW u, Same(t, u), NEW o, NEW e
    PROVE  Alike(Res(t, o, e), Res(u, o, e))
  BY DEF Alike, Res

LEMMA HaveAlike ==
    ASSUME NEW t, NEW u, Twin(t, u), NEW v, NEW o, NEW e \in {"redo", "next"}
    PROVE  Alike(Res(Have(t, v), o, e), Res(Have(u, v), o, e))
  <1> DEFINE a == Skip(t, "finish")
             b == Skip(u, "finish")
             y == [a EXCEPT !.stack[t.depth].current = v]
             z == [b EXCEPT !.stack[u.depth].current = v]
  <1>1. /\ a.depth = t.depth /\ b.depth = t.depth /\ a.stack = b.stack /\ u.depth = t.depth
        /\ DOMAIN a = Fields /\ DOMAIN b = Fields
    BY SkipTwin DEF Twin
  <1>2. y.depth = z.depth /\ y.stack = z.stack
    <2> HIDE DEF a, b
    <2> QED BY <1>1 DEF Fields
  <1>3. y = Have(t, v) /\ z = Have(u, v)
    BY DEF Have
  <1>4. Sound(y) /\ Sound(z) /\ StateOf(y) = "eatws" /\ StateOf(z) = "eatws"
    BY <1>3, HaveSound, TwinIs
  <1> HIDE DEF y, z
  <1>5. Calm(Res(y, o, e)) /\ Calm(Res(z, o, e))
    BY <1>4, ResCalm DEF Ends, Buffered, Escapes
  <1>6. Alike(Res(y, o, e), Res(z, o, e))
    BY <1>2, <1>5, CalmSame DEF Res
  <1> QED BY <1>3, <1>6

\* Only the token is changed.
LEMMA TokenAlike ==
    ASSUME NEW t, NEW u, Same(t, u), NEW a, NEW b,
           DOMAIN a = Fields, DOMAIN b = Fields, a.depth = t.depth, b.depth = u.depth,
           a.stack = t.stack, b.stack = u.stack, a.pb = b.pb,
           t.st_pos = u.st_pos => a.st_pos = b.st_pos,
           t.ucs_char = u.ucs_char => a.ucs_char = b.ucs_char,
           t.is_double = u.is_double => a.is_double = b.is_double,
           t.quote_char = u.quote_char => a.quote_char = b.quote_char,
           NEW o, NEW e
    PROVE  Alike(Res(a, o, e), Res(b, o, e))
  <1>1. Sound(a) /\ Sound(b) /\ StateOf(a) = StateOf(t)
    BY TokenChanged, SameTwin, TwinIs DEF StateOf
  <1> QED BY <1>1 DEF Same, Alike, Res

LEMMA WordAlike ==
    ASSUME NEW t, NEW u, Same(t, u), StateOf(t) \in {"null", "boolean", "inf"},
           NEW x, NEW o, NEW w, NEW v
    PROVE  Alike(WordOf(t, o, x, w, v), WordOf(u, o, x, w, v))
  <1>1. t.st_pos = u.st_pos /\ t.pb = u.pb /\ Twin(t, u)
    BY SameTwin DEF Same, Buffered
  <1>2. CASE t.st_pos = Len(w)
    <2>1. /\ WordOf(t, o, x, w, v) = Res(Have(t, v), o, "redo")
          /\ WordOf(u, o, x, w, v) = Res(Have(u, v), o, "redo")
      BY <1>1, <1>2 DEF WordOf
    <2> QED BY <1>1, <2>1, HaveAlike
  <1>3. CASE t.st_pos # Len(w)
    <2> DEFINE a == [Keep(t, x) EXCEPT !.st_pos = @ + 1]
               b == [Keep(u, x) EXCEPT !.st_pos = @ + 1]
    <2>1. WordOf(t, o, x, w, v) = Res(a, o, "next") /\ WordOf(u, o, x, w, v) = Res(b, o,
            "next")
      BY <1>1, <1>3 DEF WordOf
    <2>2. /\ DOMAIN a = Fields /\ a.depth = t.depth /\ a.stack = t.stack
               /\ a.pb = Append(t.pb, x)
          /\ a.st_pos = t.st_pos + 1 /\ a.ucs_char = t.ucs_char
          /\ a.is_double = t.is_double /\ a.quote_char = t.quote_char
      BY SameTwin DEF Keep, Shape, Fields
    <2>3. /\ DOMAIN b = Fields /\ b.depth = u.depth /\ b.stack = u.stack
               /\ b.pb = Append(u.pb, x)
          /\ b.st_pos = u.st_pos + 1 /\ b.ucs_char = u.ucs_char
          /\ b.is_double = u.is_double /\ b.quote_char = u.quote_char
      BY SameTwin DEF Keep, Shape, Fields
    <2> HIDE DEF a, b
    <2>4. Alike(Res(a, o, "next"), Res(b, o, "next"))
      BY <1>1, <2>2, <2>3, TokenAlike
    <2> QED BY <2>1, <2>4
  <1> QED BY <1>2, <1>3

LEMMA NullAlike ==
    ASSUME NEW t, NEW u, Same(t, u), StateOf(t) = "null", NEW st, NEW x, NEW o
    PROVE  Alike(NullOf(st, t, o, x), NullOf(st, u, o, x))
  <1>1. t.st_pos = u.st_pos /\ t.pb = u.pb
    BY DEF Same, Buffered
  <1> QED BY <1>1, WordAlike, ResAlike DEF NullOf

LEMMA BooleanAlike ==
    ASSUME NEW t, NEW u, Same(t, u), StateOf(t) = "boolean", NEW st, NEW x, NEW o
    PROVE  Alike(BooleanOf(st, t, o, x), BooleanOf(st, u, o, x))
  <1>1. t.st_pos = u.st_pos /\ t.pb = u.pb
    BY DEF Same, Buffered
  <1> QED BY <1>1, WordAlike, ResAlike DEF BooleanOf

LEMMA InfAlike ==
    ASSUME NEW t, NEW u, Same(t, u), StateOf(t) = "inf", NEW st, NEW x, NEW o
    PROVE  Alike(InfOf(st, t, o, x), InfOf(st, u, o, x))
  <1>1. t.st_pos = u.st_pos /\ t.pb = u.pb
    BY DEF Same, Buffered
  <1> QED BY <1>1, WordAlike, ResAlike DEF InfOf

LEMMA NumberAlike ==
    ASSUME NEW t, NEW u, Same(t, u), StateOf(t) = "number", NEW st, NEW x, NEW o
    PROVE  Alike(NumberOf(st, t, o, x), NumberOf(st, u, o, x))
  <1>1. t.is_double = u.is_double /\ t.pb = u.pb /\ Twin(t, u)
    BY SameTwin DEF Same, Buffered
  <1>2. CASE x \in NumberChar
    <2> DEFINE a == [Keep(t, x) EXCEPT !.is_double = @ \/ x \in {".", "e", "E"}]
               b == [Keep(u, x) EXCEPT !.is_double = @ \/ x \in {".", "e", "E"}]
    <2>1. NumberOf(st, t, o, x) = Res(a, o, "next") /\ NumberOf(st, u, o, x) = Res(b, o,
            "next")
      BY <1>2 DEF NumberOf
    <2>2. /\ DOMAIN a = Fields /\ a.depth = t.depth /\ a.stack = t.stack
               /\ a.pb = Append(t.pb, x)
          /\ a.st_pos = t.st_pos /\ a.ucs_char = t.ucs_char
          /\ a.is_double = (t.is_double \/ x \in {".", "e", "E"})
               /\ a.quote_char = t.quote_char
      BY SameTwin DEF Keep, Shape, Fields
    <2>3. /\ DOMAIN b = Fields /\ b.depth = u.depth /\ b.stack = u.stack
               /\ b.pb = Append(u.pb, x)
          /\ b.st_pos = u.st_pos /\ b.ucs_char = u.ucs_char
          /\ b.is_double = (u.is_double \/ x \in {".", "e", "E"})
               /\ b.quote_char = u.quote_char
      BY SameTwin DEF Keep, Shape, Fields
    <2> HIDE DEF a, b
    <2>4. a.is_double = b.is_double
      BY <1>1, <2>2, <2>3
    <2>5. Alike(Res(a, o, "next"), Res(b, o, "next"))
      BY <1>1, <2>2, <2>3, <2>4, TokenAlike
    <2> QED BY <2>1, <2>5
  <1>3. CASE x \notin NumberChar
    BY <1>1, <1>3, HaveAlike, ResAlike DEF NumberOf
  <1> QED BY <1>2, <1>3

\* From a string, or the name of a field, to an escape.
LEMMA EscapeAlike ==
    ASSUME NEW t, NEW u, Same(t, u), NEW s, s = StateOf(t),
           s \in {"string", "object_field"}, NEW o
    PROVE  LET go(v) == [Goto(v, "string_escape") EXCEPT !.stack[v.depth].saved_state = s] IN
           Sound(go(t)) /\ Sound(go(u)) => Alike(Res(go(t), o, "next"), Res(go(u), o, "next"))
  <1> DEFINE a == [Goto(t, "string_escape") EXCEPT !.stack[t.depth].saved_state = s]
             b == [Goto(u, "string_escape") EXCEPT !.stack[u.depth].saved_state = s]
             l == [LevelOf(t) EXCEPT !.state = "string_escape", !.saved_state = s]
  <1>1. /\ a.depth = t.depth /\ a.stack = [t.stack EXCEPT ![t.depth] = l]
        /\ a.pb = t.pb /\ a.quote_char = t.quote_char
    BY SameTwin DEF Goto, Shape, Fields, LevelOf
  <1>2. /\ b.depth = u.depth
             /\ b.stack =
             [u.stack EXCEPT ![u.depth] = [LevelOf(u) EXCEPT !.state = "string_escape",
             !.saved_state = s]]
        /\ b.pb = u.pb /\ b.quote_char = u.quote_char
    BY SameTwin DEF Goto, Shape, Fields, LevelOf
  <1>3. t.pb = u.pb /\ t.quote_char = u.quote_char /\ t.stack = u.stack /\ t.depth = u.depth
        /\ LevelOf(t) = LevelOf(u)
    BY DEF Same, Buffered, LevelOf
  <1>4. l.state = "string_escape" /\ LevelOf(a) = l
    <2>1. l.state = "string_escape"
      BY SameTwin DEF Shape, LevelFields, LevelOf
    <2>2. LevelOf(a) = l
      <3> HIDE DEF a, l
      <3> QED BY <1>1, SameTwin DEF Shape, LevelOf
    <2> QED BY <2>1, <2>2
  <1> HIDE DEF a, b, l
  <1>5. StateOf(a) = "string_escape" /\ a.depth = b.depth /\ a.stack = b.stack /\ a.pb = b.pb
        /\ a.quote_char = b.quote_char
    BY <1>1, <1>2, <1>3, <1>4 DEF StateOf, l
  <1>6. Sound(a) /\ Sound(b) => Alike(Res(a, o, "next"), Res(b, o, "next"))
    BY <1>5 DEF Alike, Res, Same
  <1> QED BY <1>6 DEF a, b

\* What Goto changes.
LEMMA GotoIs ==
    ASSUME NEW t, Shape(t), NEW s
    PROVE  /\ DOMAIN Goto(t, s) = Fields /\ Goto(t, s).depth = t.depth
           /\ StateOf(Goto(t, s)) = s
           /\ Goto(t, s).stack = [t.stack EXCEPT ![t.depth] = [LevelOf(t) EXCEPT !.state = s]]
           /\ Goto(t, s).pb = t.pb /\ Goto(t, s).quote_char = t.quote_char
  <1> DEFINE v == Goto(t, s)
             l == [LevelOf(t) EXCEPT !.state = s]
  <1>1. /\ DOMAIN v = Fields /\ v.depth = t.depth /\ v.stack = [t.stack EXCEPT ![t.depth] = l]
        /\ v.pb = t.pb /\ v.st_pos = t.st_pos /\ v.ucs_char = t.ucs_char
        /\ v.is_double = t.is_double /\ v.quote_char = t.quote_char
    BY DEF Shape, Goto, Fields, LevelOf
  <1>2. l.state = s
    BY DEF Shape, LevelOf, LevelFields
  <1>3. LevelOf(v) = l
    <2> HIDE DEF v, l
    <2> QED BY <1>1 DEF Shape, LevelOf
  <1> HIDE DEF v, l
  <1>4. StateOf(v) = s
    BY <1>2, <1>3 DEF StateOf
  <1> QED BY <1>1, <1>4 DEF v, l

LEMMA GotoTwin ==
    ASSUME NEW t, NEW u, Twin(t, u), NEW s
    PROVE  /\ Goto(t, s).depth = Goto(u, s).depth /\ Goto(t, s).stack = Goto(u, s).stack
           /\ StateOf(Goto(t, s)) = s
           /\ DOMAIN Goto(t, s) = Fields /\ DOMAIN Goto(u, s) = Fields
           /\ t.pb = u.pb => Goto(t, s).pb = Goto(u, s).pb
           /\ t.quote_char = u.quote_char => Goto(t, s).quote_char = Goto(u, s).quote_char
  <1> DEFINE l == [LevelOf(t) EXCEPT !.state = s]
  <1>1. /\ DOMAIN Goto(t, s) = Fields /\ Goto(t, s).depth = t.depth /\ StateOf(Goto(t, s)) = s
        /\ Goto(t, s).stack = [t.stack EXCEPT ![t.depth] = l]
        /\ Goto(t, s).pb = t.pb /\ Goto(t, s).quote_char = t.quote_char
    BY GotoIs, TwinIs
  <1>2. /\ DOMAIN Goto(u, s) = Fields /\ Goto(u, s).depth = t.depth
        /\ Goto(u, s).stack = [t.stack EXCEPT ![t.depth] = l]
        /\ Goto(u, s).pb = u.pb /\ Goto(u, s).quote_char = u.quote_char
    BY DEF Twin, Sound, Shape, Goto, Fields, LevelOf
  <1> HIDE DEF l
  <1> QED BY <1>1, <1>2

\* The token of a result is the same where its state reads it.
LEMMA ResSame ==
    ASSUME NEW a, NEW b, Sound(a), Sound(b), a.depth = b.depth, a.stack = b.stack,
           a.pb = b.pb,
           StateOf(a) \in {"null", "boolean", "inf", "escape_unicode"} => a.st_pos = b.st_pos,
           StateOf(a) = "escape_unicode" => a.ucs_char = b.ucs_char,
           StateOf(a) = "number" => a.is_double = b.is_double,
           StateOf(a) \in {"string", "object_field"} \cup Escapes
             => a.quote_char = b.quote_char,
           NEW o, NEW e
    PROVE  Alike(Res(a, o, e), Res(b, o, e))
  BY DEF Alike, Res, Same

\* A value begins.
Filled(t, s, v) == [Skip(t, s) EXCEPT !.stack[t.depth].current = v]

LEMMA FilledAlike ==
    ASSUME NEW t, NEW u, Twin(t, u), NEW s \in {"object_field_start", "array"}, NEW v, NEW o
    PROVE  Alike(Res(Filled(t, s, v), o, "next"), Res(Filled(u, s, v), o, "next"))
  <1> DEFINE a == Skip(t, s)
             b == Skip(u, s)
             y == [a EXCEPT !.stack[t.depth].current = v]
             z == [b EXCEPT !.stack[u.depth].current = v]
  <1>1. /\ a.depth = t.depth /\ b.depth = t.depth /\ a.stack = b.stack /\ u.depth = t.depth
        /\ DOMAIN a = Fields /\ DOMAIN b = Fields
        /\ Sound(a) /\ Sound(b) /\ StateOf(a) = "eatws" /\ StateOf(b) = "eatws"
    BY SkipTwin, SkipSound DEF Resumed, Twin
  <1>2. Filled(t, s, v) = y /\ Filled(u, s, v) = z
    BY DEF Filled
  <1> HIDE DEF a, b
  <1>3. /\ y.depth = z.depth /\ y.stack = z.stack
        /\ Sound(y) /\ Sound(z) /\ StateOf(y) = "eatws" /\ StateOf(z) = "eatws"
    BY <1>1, CurrentSound, SMTT(20) DEF Fields
  <1> HIDE DEF y, z
  <1>4. Calm(Res(y, o, "next")) /\ Calm(Res(z, o, "next"))
    BY <1>3, ResCalm DEF Ends, Buffered, Escapes
  <1>5. Alike(Res(y, o, "next"), Res(z, o, "next"))
    BY <1>3, <1>4, CalmSame DEF Res
  <1> QED BY <1>2, <1>5

LEMMA StartAlike ==
    ASSUME NEW t, NEW u, Same(t, u), StateOf(t) = "start", NEW st, NEW x, NEW o,
           Sound(StartOf(st, t, o, x).tok), Sound(StartOf(st, u, o, x).tok)
    PROVE  Alike(StartOf(st, t, o, x), StartOf(st, u, o, x))
  <1> DEFINE r == StartOf(st, t, o, x)
             q == StartOf(st, u, o, x)
  <1>0. Twin(t, u) /\ Sound(t) /\ Sound(u) /\ t.depth = u.depth
    BY SameTwin DEF Twin
  <1>2. ASSUME NEW s \in {"inf", "null", "boolean"}, r = Res(GotoFresh(t, s), o, "redo"),
               q = Res(GotoFresh(u, s), o, "redo")
        PROVE  Alike(r, q)
    <2> DEFINE a == GotoFresh(t, s)
               b == GotoFresh(u, s)
    <2>1. Goto(t, s).stack = Goto(u, s).stack /\ Goto(t, s).depth = Goto(u, s).depth
          /\ StateOf(Goto(t, s)) = s /\ DOMAIN Goto(t, s) = Fields
               /\ DOMAIN Goto(u, s) = Fields
      BY <1>0, GotoTwin
    <2>2. /\ a.stack = Goto(t, s).stack /\ a.depth = Goto(t, s).depth /\ a.pb = <<>>
               /\ a.st_pos = 0
          /\ b.stack = Goto(u, s).stack /\ b.depth = Goto(u, s).depth /\ b.pb = <<>>
               /\ b.st_pos = 0
      BY <2>1 DEF GotoFresh, Fields
    <2>3. Sound(a) /\ Sound(b)
      BY <1>2 DEF Res
    <2>4. r = Res(a, o, "redo") /\ q = Res(b, o, "redo")
      BY <1>2
    <2> HIDE DEF a, b, r, q
    <2>5. StateOf(a) = s
      BY <2>1, <2>2 DEF StateOf, LevelOf
    <2> QED BY <2>1, <2>2, <2>3, <2>4, <2>5, ResSame DEF Escapes
  <1>3. ASSUME r = Res([Goto(t, "string") EXCEPT !.pb = <<>>, !.quote_char = x], o, "next"),
               q = Res([Goto(u, "string") EXCEPT !.pb = <<>>, !.quote_char = x], o, "next")
        PROVE  Alike(r, q)
    <2> DEFINE v == Goto(t, "string")
               w == Goto(u, "string")
               a == [v EXCEPT !.pb = <<>>, !.quote_char = x]
               b == [w EXCEPT !.pb = <<>>, !.quote_char = x]
    <2>1. v.stack = w.stack /\ v.depth = w.depth
          /\ StateOf(v) = "string" /\ DOMAIN v = Fields /\ DOMAIN w = Fields
      BY <1>0, GotoTwin
    <2>3. Sound(a) /\ Sound(b) /\ r = Res(a, o, "next") /\ q = Res(b, o, "next")
      BY <1>3 DEF Res
    <2> HIDE DEF v, w, r, q
    <2>2. /\ a.stack = v.stack /\ a.depth = v.depth /\ a.pb = <<>> /\ a.quote_char = x
          /\ b.stack = w.stack /\ b.depth = w.depth /\ b.pb = <<>> /\ b.quote_char = x
      BY <2>1 DEF Fields
    <2> HIDE DEF a, b
    <2>5. StateOf(a) = "string"
      BY <2>1, <2>2 DEF StateOf, LevelOf
    <2> QED BY <2>1, <2>2, <2>3, <2>5, ResSame
  <1>4. ASSUME r = Res([Goto(t, "number") EXCEPT !.pb = <<>>, !.is_double = FALSE], o, "redo"),
               q = Res([Goto(u, "number") EXCEPT !.pb = <<>>, !.is_double = FALSE], o, "redo")
        PROVE  Alike(r, q)
    <2> DEFINE v == Goto(t, "number")
               w == Goto(u, "number")
               a == [v EXCEPT !.pb = <<>>, !.is_double = FALSE]
               b == [w EXCEPT !.pb = <<>>, !.is_double = FALSE]
    <2>1. v.stack = w.stack /\ v.depth = w.depth
          /\ StateOf(v) = "number" /\ DOMAIN v = Fields /\ DOMAIN w = Fields
      BY <1>0, GotoTwin
    <2>3. Sound(a) /\ Sound(b) /\ r = Res(a, o, "redo") /\ q = Res(b, o, "redo")
      BY <1>4 DEF Res
    <2> HIDE DEF v, w, r, q
    <2>2. /\ a.stack = v.stack /\ a.depth = v.depth /\ a.pb = <<>> /\ a.is_double = FALSE
          /\ b.stack = w.stack /\ b.depth = w.depth /\ b.pb = <<>> /\ b.is_double = FALSE
      BY <2>1 DEF Fields
    <2> HIDE DEF a, b
    <2>5. StateOf(a) = "number"
      BY <2>1, <2>2 DEF StateOf, LevelOf
    <2> QED BY <2>1, <2>2, <2>3, <2>5, ResSame DEF Escapes
  <1>5. Alike(Res(t, o, "unexpected"), Res(u, o, "unexpected"))
    BY ResAlike
  <1>6. CASE x = "{"
    <2>1. /\ r = Res(Filled(t, "object_field_start", Object(<<>>)), o, "next")
          /\ q = Res(Filled(u, "object_field_start", Object(<<>>)), o, "next")
      BY <1>6 DEF StartOf, Filled
    <2> HIDE DEF r, q
    <2>2. Alike(r, q)
      BY <1>0, <2>1, FilledAlike
    <2> QED BY <2>2 DEF r, q
  <1>7. CASE x = "["
    <2>1. /\ r = Res(Filled(t, "array", Array(<<>>)), o, "next")
          /\ q = Res(Filled(u, "array", Array(<<>>)), o, "next")
      BY <1>7 DEF StartOf, Filled
    <2> HIDE DEF r, q
    <2>2. Alike(r, q)
      BY <1>0, <2>1, FilledAlike
    <2> QED BY <2>2 DEF r, q
  <1>8. CASE x \notin {"{", "["}
    BY <1>2, <1>3, <1>4, <1>5, <1>8 DEF StartOf
  <1> QED BY <1>6, <1>7, <1>8

\* A character of a string, or of the name of a field.
LEMMA KeepAlike ==
    ASSUME NEW t, NEW u, Same(t, u), StateOf(t) \in Buffered, NEW x, NEW o, NEW e
    PROVE  Alike(Res(Keep(t, x), o, e), Res(Keep(u, x), o, e))
  <1> DEFINE a == Keep(t, x)
             b == Keep(u, x)
  <1>1. /\ DOMAIN a = Fields /\ a.depth = t.depth /\ a.stack = t.stack
             /\ a.pb = Append(t.pb, x)
        /\ a.st_pos = t.st_pos /\ a.ucs_char = t.ucs_char
        /\ a.is_double = t.is_double /\ a.quote_char = t.quote_char
    BY SameTwin DEF Keep, Shape, Fields
  <1>2. /\ DOMAIN b = Fields /\ b.depth = u.depth /\ b.stack = u.stack
             /\ b.pb = Append(u.pb, x)
        /\ b.st_pos = u.st_pos /\ b.ucs_char = u.ucs_char
        /\ b.is_double = u.is_double /\ b.quote_char = u.quote_char
    BY SameTwin DEF Keep, Shape, Fields
  <1>3. t.pb = u.pb
    BY DEF Same
  <1> HIDE DEF a, b
  <1>4. Alike(Res(a, o, e), Res(b, o, e))
    BY <1>1, <1>2, <1>3, TokenAlike
  <1> QED BY <1>4 DEF a, b

LEMMA StringAlike ==
    ASSUME NEW t, NEW u, Same(t, u), StateOf(t) = "string", NEW st, NEW x, NEW o,
           Sound(StringOf(st, t, o, x).tok), Sound(StringOf(st, u, o, x).tok)
    PROVE  Alike(StringOf(st, t, o, x), StringOf(st, u, o, x))
  <1>1. t.quote_char = u.quote_char /\ t.pb = u.pb /\ Twin(t, u)
    BY SameTwin DEF Same, Buffered
  <1>2. CASE x = t.quote_char
    <2>1. /\ StringOf(st, t, o, x) = Res(Have(t, Str(t.pb)), o, "next")
          /\ StringOf(st, u, o, x) = Res(Have(u, Str(t.pb)), o, "next")
      BY <1>1, <1>2 DEF StringOf
    <2> QED BY <1>1, <2>1, HaveAlike
  <1>3. CASE x # t.quote_char /\ x = "\\"
    <2> DEFINE a == [Goto(t, "string_escape") EXCEPT !.stack[t.depth].saved_state = "string"]
               b == [Goto(u, "string_escape") EXCEPT !.stack[u.depth].saved_state = "string"]
    <2>1. StringOf(st, t, o, x) = Res(a, o, "next") /\ StringOf(st, u, o, x) = Res(b, o,
            "next")
      BY <1>1, <1>3 DEF StringOf
    <2>2. Sound(a) /\ Sound(b) => Alike(Res(a, o, "next"), Res(b, o, "next"))
      BY EscapeAlike
    <2> HIDE DEF a, b
    <2> QED BY <2>1, <2>2 DEF Res
  <1>4. CASE x # t.quote_char /\ x # "\\"
    <2>1. /\ StringOf(st, t, o, x) = Res(Keep(t, x), o, "next")
          /\ StringOf(st, u, o, x) = Res(Keep(u, x), o, "next")
      BY <1>1, <1>4 DEF StringOf
    <2> QED BY <2>1, KeepAlike DEF Buffered
  <1> QED BY <1>2, <1>3, <1>4

LEMMA ObjectFieldAlike ==
    ASSUME NEW t, NEW u, Same(t, u), StateOf(t) = "object_field", NEW st, NEW x, NEW o,
           Sound(ObjectFieldOf(st, t, o, x).tok), Sound(ObjectFieldOf(st, u, o, x).tok)
    PROVE  Alike(ObjectFieldOf(st, t, o, x), ObjectFieldOf(st, u, o, x))
  <1>1. t.quote_char = u.quote_char /\ t.pb = u.pb /\ Twin(t, u) /\ t.depth = u.depth
    BY SameTwin DEF Same, Buffered
  <1>2. CASE x = t.quote_char
    <2> DEFINE n == <<t.pb>>
               a == Skip(t, "object_field_end")
               b == Skip(u, "object_field_end")
               y == [a EXCEPT !.stack[t.depth].obj_field_name = n]
               z == [b EXCEPT !.stack[u.depth].obj_field_name = n]
    <2>1. /\ a.depth = t.depth /\ b.depth = t.depth /\ a.stack = b.stack
          /\ DOMAIN a = Fields /\ DOMAIN b = Fields
          /\ Sound(a) /\ Sound(b) /\ StateOf(a) = "eatws" /\ StateOf(b) = "eatws"
      BY <1>1, SkipTwin, SkipSound, TwinIs DEF Resumed
    <2>3. /\ ObjectFieldOf(st, t, o, x) = Res(y, o, "next")
          /\ ObjectFieldOf(st, u, o, x) = Res(z, o, "next")
      BY <1>1, <1>2 DEF ObjectFieldOf
    <2> HIDE DEF a, b, n
    <2>2. /\ y.depth = z.depth /\ y.stack = z.stack
          /\ Sound(y) /\ Sound(z) /\ StateOf(y) = "eatws" /\ StateOf(z) = "eatws"
      BY <1>1, <2>1, FieldNameSound DEF Fields
    <2> HIDE DEF y, z
    <2>4. Calm(Res(y, o, "next")) /\ Calm(Res(z, o, "next"))
      BY <2>2, ResCalm DEF Ends, Buffered, Escapes
    <2>5. Alike(Res(y, o, "next"), Res(z, o, "next"))
      BY <2>2, <2>4, CalmSame DEF Res
    <2> QED BY <2>3, <2>5
  <1>3. CASE x # t.quote_char /\ x = "\\"
    <2> DEFINE a == [Goto(t, "string_escape") EXCEPT !.stack[t.depth].saved_state =
               "object_field"]
               b == [Goto(u, "string_escape") EXCEPT !.stack[u.depth].saved_state =
                 "object_field"]
    <2>1. /\ ObjectFieldOf(st, t, o, x) = Res(a, o, "next")
          /\ ObjectFieldOf(st, u, o, x) = Res(b, o, "next")
      BY <1>1, <1>3 DEF ObjectFieldOf
    <2>2. Sound(a) /\ Sound(b) => Alike(Res(a, o, "next"), Res(b, o, "next"))
      BY EscapeAlike
    <2> HIDE DEF a, b
    <2> QED BY <2>1, <2>2 DEF Res
  <1>4. CASE x # t.quote_char /\ x # "\\"
    <2>1. /\ ObjectFieldOf(st, t, o, x) = Res(Keep(t, x), o, "next")
          /\ ObjectFieldOf(st, u, o, x) = Res(Keep(u, x), o, "next")
      BY <1>1, <1>4 DEF ObjectFieldOf
    <2> QED BY <2>1, KeepAlike DEF Buffered
  <1> QED BY <1>2, <1>3, <1>4

LEMMA StringEscapeAlike ==
    ASSUME NEW t, NEW u, Same(t, u), StateOf(t) = "string_escape", NEW st, NEW x, NEW o,
           Sound(EscapeOf(st, t, o, x).tok), Sound(EscapeOf(st, u, o, x).tok)
    PROVE  Alike(EscapeOf(st, t, o, x), EscapeOf(st, u, o, x))
  <1>1. t.quote_char = u.quote_char /\ t.pb = u.pb /\ Twin(t, u) /\ SavedOf(t) = SavedOf(u)
    BY SameTwin DEF Same, Buffered, Escapes
  <1>2. ASSUME NEW y
        PROVE  Alike(Res(Keep(Goto(t, SavedOf(t)), y), o, "next"),
                     Res(Keep(Goto(u, SavedOf(u)), y), o, "next"))
    <2> DEFINE s == SavedOf(t)
               a == Goto(t, s)
               b == Goto(u, s)
    <2>1. /\ Sound(a) /\ Sound(b) /\ StateOf(a) = s /\ s \in {"string", "object_field"}
      BY <1>1, GotoSaved, TwinIs DEF Escapes
    <2>2. a.depth = b.depth /\ a.stack = b.stack /\ a.pb = b.pb /\ a.quote_char = b.quote_char
      BY <1>1, GotoTwin
    <2>3. s = SavedOf(u)
      BY <1>1
    <2> HIDE DEF a, b, s
    <2>4. Same(a, b)
      BY <2>1, <2>2 DEF Same, Escapes
    <2>5. Alike(Res(Keep(a, y), o, "next"), Res(Keep(b, y), o, "next"))
      BY <2>1, <2>4, KeepAlike DEF Buffered
    <2> QED BY <2>3, <2>5 DEF a, b, s
  <1>3. CASE x = "u"
    <2> DEFINE v == Goto(t, "escape_unicode")
               w == Goto(u, "escape_unicode")
               a == [v EXCEPT !.ucs_char = 0, !.st_pos = 0]
               b == [w EXCEPT !.ucs_char = 0, !.st_pos = 0]
    <2>1. /\ v.stack = w.stack /\ v.depth = w.depth /\ StateOf(v) = "escape_unicode"
          /\ v.pb = w.pb /\ v.quote_char = w.quote_char /\ DOMAIN v = Fields
               /\ DOMAIN w = Fields
      BY <1>1, GotoTwin
    <2>2. EscapeOf(st, t, o, x) = Res(a, o, "next") /\ EscapeOf(st, u, o, x) = Res(b, o,
            "next")
      BY <1>3 DEF EscapeOf, Control
    <2> HIDE DEF v, w
    <2>3. /\ a.stack = v.stack /\ a.depth = v.depth /\ a.pb = v.pb
               /\ a.quote_char = v.quote_char
          /\ b.stack = w.stack /\ b.depth = w.depth /\ b.pb = w.pb
               /\ b.quote_char = w.quote_char
          /\ a.st_pos = 0 /\ b.st_pos = 0 /\ a.ucs_char = 0 /\ b.ucs_char = 0
      BY <2>1 DEF Fields
    <2> HIDE DEF a, b
    <2>4. StateOf(a) = "escape_unicode" /\ Sound(a) /\ Sound(b)
      BY <2>1, <2>2, <2>3 DEF StateOf, LevelOf, Res
    <2>5. Alike(Res(a, o, "next"), Res(b, o, "next"))
      BY <2>1, <2>3, <2>4, ResSame
    <2> QED BY <2>2, <2>5
  <1>4. CASE x # "u"
    BY <1>2, <1>4, ResAlike DEF EscapeOf
  <1> QED BY <1>3, <1>4

LEMMA UnicodeAlike ==
    ASSUME NEW t, NEW u, Same(t, u), StateOf(t) = "escape_unicode", NEW st, NEW x, NEW o
    PROVE  Alike(UnicodeOf(st, t, o, x), UnicodeOf(st, u, o, x))
  <1>1. /\ t.quote_char = u.quote_char /\ t.pb = u.pb /\ t.st_pos = u.st_pos
        /\ t.ucs_char = u.ucs_char /\ Twin(t, u) /\ SavedOf(t) = SavedOf(u)
    BY SameTwin DEF Same, Buffered, Escapes
  <1>2. CASE x \notin DOMAIN HexDigit
    BY <1>2, ResAlike DEF UnicodeOf
  <1>3. CASE x \in DOMAIN HexDigit /\ t.st_pos # 3
    <2> DEFINE y == IF t.st_pos < 3 THEN t.ucs_char + HexDigit[x] * 16 ^ (3 - t.st_pos)
                    ELSE t.ucs_char
               z == IF t.st_pos < FifthDigit THEN t.st_pos + 1 ELSE t.st_pos
               a == [t EXCEPT !.ucs_char = y, !.st_pos = z]
               b == [u EXCEPT !.ucs_char = y, !.st_pos = z]
    <2>1. UnicodeOf(st, t, o, x) = Res(a, o, "next")
      BY <1>3 DEF UnicodeOf
    <2>2. UnicodeOf(st, u, o, x) = Res(b, o, "next")
      BY <1>1, <1>3 DEF UnicodeOf
    <2> HIDE DEF y, z
    <2>3. /\ DOMAIN a = Fields /\ a.depth = t.depth /\ a.stack = t.stack /\ a.pb = t.pb
          /\ a.st_pos = z /\ a.ucs_char = y
          /\ a.is_double = t.is_double /\ a.quote_char = t.quote_char
      BY SameTwin DEF Shape, Fields
    <2>4. /\ DOMAIN b = Fields /\ b.depth = u.depth /\ b.stack = u.stack /\ b.pb = u.pb
          /\ b.st_pos = z /\ b.ucs_char = y
          /\ b.is_double = u.is_double /\ b.quote_char = u.quote_char
      BY SameTwin DEF Shape, Fields
    <2> HIDE DEF a, b
    <2>5. Alike(Res(a, o, "next"), Res(b, o, "next"))
      BY <1>1, <2>3, <2>4, TokenAlike
    <2> QED BY <2>1, <2>2, <2>5
  <1>4. CASE x \in DOMAIN HexDigit /\ t.st_pos = 3
    <2> DEFINE s == SavedOf(t)
               y == t.ucs_char + HexDigit[x]
               v == Goto(t, s)
               w == Goto(u, s)
               a == [v EXCEPT !.pb = @ \o <<>> \o <<Single(y)>>, !.st_pos = 4, !.ucs_char = y]
               b == [w EXCEPT !.pb = @ \o <<>> \o <<Single(y)>>, !.st_pos = 4, !.ucs_char = y]
    <2>1. UnicodeOf(st, t, o, x) = Res(a, o, "next")
      BY <1>4 DEF UnicodeOf
    <2>2. UnicodeOf(st, u, o, x) = Res(b, o, "next")
      BY <1>1, <1>4 DEF UnicodeOf
    <2>3. /\ v.stack = w.stack /\ v.depth = w.depth /\ StateOf(v) = s
               /\ s \in {"string", "object_field"}
          /\ v.pb = w.pb /\ v.quote_char = w.quote_char /\ DOMAIN v = Fields
               /\ DOMAIN w = Fields
          /\ Sound(v) /\ Sound(w)
      BY <1>1, GotoTwin, GotoSaved, TwinIs DEF Escapes
    <2> HIDE DEF v, w, s, y
    <2>4. /\ a.stack = v.stack /\ a.depth = v.depth /\ a.quote_char = v.quote_char
          /\ b.stack = w.stack /\ b.depth = w.depth /\ b.quote_char = w.quote_char
          /\ a.pb = v.pb \o <<>> \o <<Single(y)>> /\ b.pb = w.pb \o <<>> \o <<Single(y)>>
          /\ DOMAIN a = Fields /\ DOMAIN b = Fields
      BY <2>3 DEF Fields
    <2> HIDE DEF a, b
    <2>5. StateOf(a) = s /\ Sound(a) /\ Sound(b) /\ a.pb = b.pb
      BY <2>3, <2>4, TokenChanged DEF StateOf
    <2>6. Alike(Res(a, o, "next"), Res(b, o, "next"))
      BY <2>3, <2>4, <2>5, ResSame DEF Escapes
    <2> QED BY <2>1, <2>2, <2>6
  <1> QED BY <1>2, <1>3, <1>4

LEMMA FieldStartAlike ==
    ASSUME NEW t, NEW u, Same(t, u),
           StateOf(t) \in {"object_field_start", "object_field_start_after_sep"},
           NEW st, NEW x, NEW o,
           Sound(FieldStartOf(st, t, o, x).tok), Sound(FieldStartOf(st, u, o, x).tok)
    PROVE  Alike(FieldStartOf(st, t, o, x), FieldStartOf(st, u, o, x))
  <1>0. Twin(t, u) /\ StateOf(t) = StateOf(u) /\ Sound(t) /\ Sound(u)
    BY SameTwin DEF Twin
  <1>1. Alike(Res(Skip(t, "finish"), o, "next"), Res(Skip(u, "finish"), o, "next"))
    <2> DEFINE a == Skip(t, "finish")
               b == Skip(u, "finish")
    <2>1. /\ a.depth = b.depth /\ a.stack = b.stack
          /\ Sound(a) /\ Sound(b) /\ StateOf(a) = "eatws" /\ StateOf(b) = "eatws"
      BY <1>0, SkipTwin, SkipSound DEF Resumed
    <2> HIDE DEF a, b
    <2>2. Calm(Res(a, o, "next")) /\ Calm(Res(b, o, "next"))
      BY <2>1, ResCalm DEF Ends, Buffered, Escapes
    <2>3. Alike(Res(a, o, "next"), Res(b, o, "next"))
      BY <2>1, <2>2, CalmSame DEF Res
    <2> QED BY <2>3 DEF a, b
  <1>2. CASE x \in {"\"", "'"}
    <2> DEFINE v == Goto(t, "object_field")
               w == Goto(u, "object_field")
               a == [v EXCEPT !.pb = <<>>, !.quote_char = x]
               b == [w EXCEPT !.pb = <<>>, !.quote_char = x]
    <2>1. v.stack = w.stack /\ v.depth = w.depth
          /\ StateOf(v) = "object_field" /\ DOMAIN v = Fields /\ DOMAIN w = Fields
      BY <1>0, GotoTwin
    <2>2. FieldStartOf(st, t, o, x) = Res(a, o, "next")
            /\ FieldStartOf(st, u, o, x) = Res(b, o, "next")
      BY <1>2 DEF FieldStartOf
    <2>3. Sound(a) /\ Sound(b)
      BY <2>2 DEF Res
    <2> HIDE DEF v, w
    <2>4. /\ a.stack = v.stack /\ a.depth = v.depth /\ a.pb = <<>> /\ a.quote_char = x
          /\ b.stack = w.stack /\ b.depth = w.depth /\ b.pb = <<>> /\ b.quote_char = x
      BY <2>1 DEF Fields
    <2> HIDE DEF a, b
    <2>5. StateOf(a) = "object_field"
      BY <2>1, <2>4 DEF StateOf, LevelOf
    <2>6. Alike(Res(a, o, "next"), Res(b, o, "next"))
      BY <2>1, <2>3, <2>4, <2>5, ResSame
    <2> QED BY <2>2, <2>6
  <1>3. CASE x \notin {"\"", "'"}
    BY <1>0, <1>1, <1>3, ResAlike DEF FieldStartOf
  <1> QED BY <1>2, <1>3

\* Whatever they have been through before.
LEMMA CharAlike ==
    ASSUME NEW t, NEW u, Same(t, u), NEW tx, NEW p, TextOK(tx, t, p), NEW st, NEW x, NEW o,
           Reading(tx, p, x)
    PROVE  Alike(CharStep(st, t, o, x), CharStep(st, u, o, x))
  <1>0. Twin(t, u) /\ StateOf(t) = StateOf(u) /\ Sound(t) /\ Sound(u)
    BY SameTwin DEF Twin
  <1>1. TextOK(tx, u, p)
    BY <1>0 DEF TextOK, NumberOK, CodeOK, Same, Buffered
  <1>2. Sound(CharStep(st, t, o, x).tok) /\ Sound(CharStep(st, u, o, x).tok)
    BY <1>0, <1>1, CharKept DEF Kept
  <1>3. StateOf(t) \in Resumed \cup Adds \cup Escapes \cup Comments \cup
         {"eatws", "null", "boolean", "inf", "number", "string", "object_field"}
    BY <1>0, LevelSound DEF LevelOK, StateOf
  <1>4. CASE StateOf(t) \in {"start", "number", "string", "object_field", "string_escape",
                             "escape_unicode", "null", "boolean", "inf"}
    BY <1>0, <1>2, <1>4, StartAlike, NumberAlike, StringAlike, ObjectFieldAlike,
       StringEscapeAlike, UnicodeAlike, NullAlike, BooleanAlike, InfAlike DEF CharStep
  <1>5. CASE StateOf(t) \in {"eatws", "finish"} \cup Comments
    BY <1>0, <1>5, EatwsAlike, FinishAlike, CommentStartAlike, CommentAlike, CommentEolAlike,
       CommentEndAlike DEF CharStep, Comments
  <1>6. CASE StateOf(t) \in {"array", "array_after_sep", "array_add", "array_sep",
               "object_field_start", "object_field_start_after_sep", "object_field_end",
               "object_value", "object_value_add", "object_sep"}
    BY <1>0, <1>2, <1>6, ArrayAlike, ArrayAddAlike, ArraySepAlike, FieldStartAlike,
       FieldEndAlike, ObjectValueAlike, ObjectAddAlike, ObjectSepAlike DEF CharStep
  <1> QED BY <1>3, <1>4, <1>5, <1>6 DEF Resumed, Adds, Escapes, Comments
-----------------------------------------------------------------------------
(* The value of a level that was left waits for the level below it.          *)

NoValue ==
    ~Fragile => (obj # Null => pc = "parse" /\ char_offset < len /\ State \in Adds)

LEMMA ObjectIs ==
    ASSUME NEW t, Sound(t), NEW st, NEW x, NEW o, o # Null => StateOf(t) \in Adds
    PROVE  LET r == CharStep(st, t, o, x) IN
           r.obj = Null \/ (r.end = "redo" /\ StateOf(r.tok) \in Adds)
  <1> DEFINE r == CharStep(st, t, o, x)
  <1>1. StateOf(t) \in Resumed \cup Adds \cup Escapes \cup Comments \cup
         {"eatws", "null", "boolean", "inf", "number", "string", "object_field"}
    BY LevelSound DEF LevelOK, StateOf
  <1>2. CASE StateOf(t) = "finish"
    <2>1. r = FinishOf(st, t, o, x) /\ o = Null
      BY <1>2 DEF CharStep, Adds
    <2>2. t.depth \in 1..MaxDepth
      BY DEF Sound, Shape
    <2>3. CASE t.depth = 1
      BY <2>1, <2>3 DEF FinishOf, Res
    <2>4. CASE t.depth # 1
      <3> DEFINE u == [t EXCEPT !.stack[t.depth] = FreshLevel, !.depth = @ - 1]
      <3>1. r = Res(u, LevelOf(t).current, "redo")
        BY <2>1, <2>4 DEF FinishOf
      <3>2. t.depth > 1
        BY <2>2, <2>4, DepthAssumption
      <3>3. StateOf(u) \in Adds
        BY <3>2, LevelLeft
      <3> HIDE DEF u, r
      <3>4. r.end = "redo" /\ StateOf(r.tok) \in Adds
        BY <3>1, <3>3 DEF Res
      <3> QED BY <3>4 DEF r
    <2> QED BY <2>3, <2>4
  <1>3. CASE StateOf(t) \in Adds
    BY <1>3 DEF CharStep, Adds, ArrayAddOf, ObjectAddOf, Res
  <1>4. CASE StateOf(t) \in {"null", "boolean", "inf"}
    <2>1. o = Null
      BY <1>4 DEF Adds
    <2> QED BY <1>4, <2>1 DEF CharStep, NullOf, BooleanOf, InfOf, WordOf, Res
  <1>5. CASE StateOf(t) \in {"eatws", "start", "number"}
    <2>1. o = Null
      BY <1>5 DEF Adds
    <2> QED BY <1>5, <2>1 DEF CharStep, EatwsOf, StartOf, NumberOf, Res
  <1>6. CASE StateOf(t) \in {"string", "object_field", "string_escape",
               "escape_unicode"} \cup Comments
    <2>1. o = Null
      BY <1>6 DEF Adds, Comments
    <2> QED BY <1>6, <2>1 DEF CharStep, StringOf, ObjectFieldOf, EscapeOf, UnicodeOf,
          CommentStartOf, CommentOf, CommentEolOf, CommentEndOf, Res, Comments
  <1>7. CASE StateOf(t) \in {"array", "array_after_sep", "array_sep",
               "object_field_start", "object_field_start_after_sep", "object_field_end",
               "object_value", "object_sep"}
    <2>1. o = Null
      BY <1>7 DEF Adds
    <2> QED BY <1>7, <2>1 DEF CharStep, ArrayOf, ArraySepOf, FieldStartOf, FieldEndOf,
          ObjectValueOf, ObjectSepOf, Res
  <1> QED BY <1>1, <1>2, <1>3, <1>4, <1>5, <1>6, <1>7 DEF Resumed, Adds, Escapes, Comments

LEMMA NoValueNext ==
    ASSUME TokInv, NoPair, NoValue, [TokenerNext]_tokenerVars
    PROVE  NoValue'
  <1>1. SUFFICES ASSUME ~Fragile, obj' # Null
                 PROVE  pc' = "parse" /\ char_offset' < len' /\ State' \in Adds
    BY TextStays DEF NoValue, Fragile
  <1>2. CASE Character
    <2> DEFINE r == CharStep(strict, tok, obj, c)
    <2>1. CharMove /\ pc = "parse" /\ char_offset < len
      BY <1>1, <1>2, SturdyMove
    <2>2. /\ tok' = r.tok /\ obj' = r.obj /\ len' = len
          /\ char_offset' = IF r.end = "next" THEN char_offset + 1 ELSE char_offset
          /\ pc' = IF r.end = "redo" \/ (r.end = "next" /\ c # NUL) THEN "parse" ELSE "out"
      BY <2>1 DEF CharMove, caller
    <2>3. r.obj = Null \/ (r.end = "redo" /\ StateOf(r.tok) \in Adds)
      BY <1>1, <2>1, ObjectIs, StateIs DEF NoValue, TokInv
    <2> HIDE DEF r
    <2>4. r.end = "redo" /\ StateOf(tok') \in Adds
      BY <1>1, <2>2, <2>3
    <2> QED BY <2>1, <2>2, <2>4 DEF State, Level, StateOf, LevelOf
  <1>3. CASE Out
    BY <1>1, <1>3 DEF Out
  <1>4. CASE EndOfPiece
    <2>1. len \in Nat
      BY DEF TokInv, Position
    <2> QED BY <1>1, <1>4, <2>1 DEF EndOfPiece, locals, NoValue
  <1>5. CASE Again
    BY <1>1, <1>5 DEF Again, locals, NoValue
  <1>6. CASE CallWhole \/ CallPiece
    <2>1. pc = "idle" /\ obj' = obj
      BY <1>6 DEF CallWhole, CallPiece, Call
    <2> QED BY <1>1, <2>1 DEF NoValue
  <1>7. CASE UNCHANGED tokenerVars
    BY <1>1, <1>7 DEF tokenerVars, NoValue, State, Level
  <1> QED BY <1>2, <1>3, <1>4, <1>5, <1>6, <1>7 DEF TokenerNext, Parse, Character

-----------------------------------------------------------------------------
(* The text has been parsed in one piece, along R to f.                      *)

Second(R, f) ==
    /\ TokInv /\ NoPair /\ NoValue /\ ~Fragile
    /\ Path(text, strict, R, f) /\ f.pc = "end"
    /\ whole = OutcomeOf(f)

LEMMA OnPath ==
    ASSUME NEW R, NEW f, Second(R, f), NEW x \in R
    PROVE  /\ x.pc = "end" => x = f
           /\ x.pc # "end" => WholeStep(text, strict, x) \in R
  BY DEF Second, Path

LEMMA PositionIs ==
    ASSUME TokInv
    PROVE  /\ from \in Nat /\ len \in Nat /\ char_offset \in Nat /\ char_offset <= len
           /\ Len(text) \in Nat /\ from + len <= Len(text)
           /\ pc \in {"idle", "parse", "out", "end"}
           /\ Last(text) = text[Len(text)]
           /\ \A i \in 1..Len(text) : text[i] = NUL => i = Len(text)
  BY TextsAssumption DEF TokInv, Position, Last

\* What the parse in one piece ends with when its call is over.
LEMMA Completes ==
    ASSUME NEW R, NEW f, Second(R, f), NEW x \in R, x.pc = "out",
           NEW last, last <=> Last(text) = NUL /\ x.pos >= Len(text) - 1,
           CallErr(strict, last, x.tok, x.err) = "success",
           x.pos >= Len(text) \/ text[x.pos + 1] = NUL,
           Sound(x.tok), x.tok.depth = 1
    PROVE  whole = <<Append(x.values, LevelOf(x.tok).current), "complete">>
  <1> DEFINE e == CallErr(strict, Last(text) = NUL /\ x.pos >= Len(text) - 1, x.tok, x.err)
             y == GivenConf(text, x, e)
             v == Append(x.values, LevelOf(x.tok).current)
  <1>1. e = "success"
    BY DEF CallErr
  <1>2. y \in R
    BY OnPath DEF WholeStep, OutConf
  <1>3. y.pc = "end" /\ y.values = v /\ y.err = "success" /\ y.tok = ResetLevels(x.tok)
    <2> HIDE DEF e
    <2> QED BY <1>1 DEF GivenConf, Conf
  <1>4. y.tok.depth = 1 /\ LevelOf(y.tok) = FreshLevel
    <2> HIDE DEF y
    <2>1. Shape(x.tok) /\ \A i \in 1..MaxDepth : i > 1 => x.tok.stack[i] = FreshLevel
      BY DEF Sound, StackOK
    <2> QED BY <1>3, <2>1, ResetSound
  <1> HIDE DEF y, v
  <1>5. OutcomeOf(y) = <<v, "complete">>
    BY <1>3, <1>4 DEF OutcomeOf, Errors
  <1>6. y = f
    BY <1>2, <1>3, OnPath
  <1> QED BY <1>5, <1>6 DEF Second, v

LEMMA FailsSo ==
    ASSUME NEW R, NEW f, Second(R, f), NEW x \in R, x.pc = "out",
           NEW last, last <=> Last(text) = NUL /\ x.pos >= Len(text) - 1,
           CallErr(strict, last, x.tok, x.err) \in Errors
    PROVE  whole[2] = CallErr(strict, last, x.tok, x.err)
  <1> DEFINE e == CallErr(strict, Last(text) = NUL /\ x.pos >= Len(text) - 1, x.tok, x.err)
             y == GivenConf(text, x, e)
  <1>1. e = CallErr(strict, last, x.tok, x.err)
    BY DEF CallErr
  <1>2. y \in R
    BY OnPath DEF WholeStep, OutConf
  <1> HIDE DEF e
  <1>3. y.pc = "end" /\ y.err = e
    BY <1>1 DEF GivenConf, Conf
  <1> HIDE DEF y
  <1>4. OutcomeOf(y)[2] = e
    BY <1>1, <1>3 DEF OutcomeOf
  <1>6. y = f
    BY <1>2, <1>3, OnPath
  <1> QED BY <1>1, <1>4, <1>6 DEF Second

-----------------------------------------------------------------------------
(* Blanks and comments.                                                      *)

Stays(st, q, x) == q \in Comments \/ x \in Space \/ (x = "/" /\ ~st)

AfterBlank(q, x) ==
    CASE q = "eatws" -> IF x \in Space THEN q ELSE "comment_start"
      [] q = "comment_start" -> IF x = "*" THEN "comment" ELSE IF x = "/"
        THEN "comment_eol" ELSE q
      [] q = "comment" -> IF x = "*" THEN "comment_end" ELSE q
      [] q = "comment_eol" -> IF x = "\n" THEN "eatws" ELSE q
      [] q = "comment_end" -> IF x = "/" THEN "eatws" ELSE "comment"

BlankEnd(q, x) == IF q = "comment_start" /\ x \notin {"*", "/"} THEN "comment" ELSE "next"

AtState(l, s) == [l EXCEPT !.state = s]

LEMMA GotoAt ==
    ASSUME NEW t, Shape(t), NEW s
    PROVE  /\ Goto(t, s).depth = t.depth
           /\ Goto(t, s).stack = [t.stack EXCEPT ![t.depth] = AtState(LevelOf(t), s)]
           /\ DOMAIN Goto(t, s) = Fields
  BY GotoIs DEF AtState

LEMMA BlankStep ==
    ASSUME NEW t, Sound(t), NEW q \in Blanks, q = StateOf(t), NEW st, NEW x, Stays(st, q, x),
           NEW o
    PROVE  LET r == CharStep(st, t, o, x) IN
           /\ r.obj = o /\ r.end = BlankEnd(q, x) /\ r.tok.depth = t.depth
           /\ \/ r.tok.stack = t.stack /\ AfterBlank(q, x) = q
              \/ r.tok.stack = [t.stack EXCEPT ![t.depth] = AtState(LevelOf(t),
                   AfterBlank(q, x))]
           /\ AfterBlank(q, x) \in Blanks
  <1> DEFINE r == CharStep(st, t, o, x)
             s == AfterBlank(q, x)
  <1>0. Shape(t)
    BY DEF Sound
  <1>1. CASE q = "eatws"
    <2>1. r = EatwsOf(st, t, o, x) /\ BlankEnd(q, x) = "next"
      BY <1>1 DEF CharStep, BlankEnd
    <2>2. CASE x \in Space
      <3>1. r = Res(t, o, "next") /\ s = q
        BY <1>1, <2>1, <2>2 DEF EatwsOf, AfterBlank
      <3> HIDE DEF r, s
      <3> QED BY <1>0, <2>1, <3>1 DEF Res, r, s
    <2>3. CASE x \notin Space
      <3> DEFINE v == Goto(t, "comment_start")
                 u == [v EXCEPT !.pb = <<x>>]
      <3>1. r = Res(u, o, "next") /\ s = "comment_start"
        BY <1>1, <2>1, <2>3 DEF EatwsOf, AfterBlank, Stays, Comments
      <3>2. /\ v.depth = t.depth /\ DOMAIN v = Fields
            /\ v.stack = [t.stack EXCEPT ![t.depth] = AtState(LevelOf(t), "comment_start")]
        BY <1>0, GotoAt
      <3> HIDE DEF v, r, s
      <3>3. u.depth = t.depth /\ u.stack = v.stack
        BY <3>2 DEF Fields
      <3> HIDE DEF u
      <3>4. s \in Blanks
        BY <3>1 DEF Blanks, Comments
      <3> QED BY <2>1, <3>1, <3>2, <3>3, <3>4 DEF Res, r, s
    <2> QED BY <2>2, <2>3
  <1>2. CASE q = "comment_start"
    <2>1. r = CommentStartOf(st, t, o, x)
      BY <1>2 DEF CharStep
    <2>2. CASE x \notin {"*", "/"}
      <3>1. r = Res(t, o, "comment") /\ s = q /\ BlankEnd(q, x) = "comment"
        BY <1>2, <2>1, <2>2 DEF CommentStartOf, AfterBlank, BlankEnd
      <3> HIDE DEF r, s
      <3> QED BY <1>0, <3>1 DEF Res, r, s
    <2>3. CASE x \in {"*", "/"}
      <3> DEFINE v == Goto(t, s)
                 u == Keep(v, x)
      <3>1. r = Res(u, o, "next") /\ s \in Blanks /\ BlankEnd(q, x) = "next"
        BY <1>2, <2>1, <2>3 DEF CommentStartOf, AfterBlank, BlankEnd, Blanks, Comments
      <3>2. /\ v.depth = t.depth /\ DOMAIN v = Fields
            /\ v.stack = [t.stack EXCEPT ![t.depth] = AtState(LevelOf(t), s)]
        BY <1>0, GotoAt
      <3> HIDE DEF v, r, s
      <3>3. u.depth = t.depth /\ u.stack = v.stack
        BY <3>2 DEF Fields, Keep
      <3> HIDE DEF u
      <3> QED BY <3>1, <3>2, <3>3 DEF Res, r, s
    <2> QED BY <2>2, <2>3
  <1>3. CASE q \in {"comment", "comment_eol", "comment_end"}
    <2>1. BlankEnd(q, x) = "next" /\ s \in Blanks
      BY <1>3 DEF BlankEnd, AfterBlank, Blanks, Comments
    <2>2. r = Res(Goto(t, s), o, "next") \/ (s = q /\ r = Res(t, o, "next"))
      BY <1>3 DEF CharStep, CommentOf, CommentEolOf, CommentEndOf, AfterBlank
    <2>3. /\ Goto(t, s).depth = t.depth
          /\ Goto(t, s).stack = [t.stack EXCEPT ![t.depth] = AtState(LevelOf(t), s)]
      BY <1>0, GotoAt
    <2> HIDE DEF r, s
    <2> QED BY <1>0, <2>1, <2>2, <2>3 DEF Res, r, s
  <1> QED BY <1>1, <1>2, <1>3 DEF Blanks, Comments
-----------------------------------------------------------------------------
(* The parse in pieces is at the same point, or a piece has ended.           *)

LEMMA OutcomeIs ==
    ASSUME NEW y
    PROVE  y.err = err /\ y.values = values /\ y.tok.depth = tok.depth
           /\ LevelOf(y.tok) = LevelOf(tok)
             => OutcomeOf(y) = Outcome
  BY DEF Outcome, OutcomeOf, State, Level, StateOf, LevelOf, Comments

\* The tokener is reset, and the text begins again.
LEMMA AgainFollows ==
    ASSUME TokInv, Again
    PROVE  Abreast(Begin)' /\ whole' = OutcomeOf(Now) /\ Now.pc = "end"
  <1>1. /\ pc = "end" /\ pc' = "idle" /\ tok' = Reset(tok) /\ from' = 0 /\ err' = "success"
        /\ values' = <<>> /\ UNCHANGED <<text, strict, char_offset, len, obj>>
             /\ whole' = Outcome
    BY DEF Again, locals
  <1>2. /\ len = 0 /\ char_offset = 0 /\ obj = Null
        /\ Shape(tok) /\ \A i \in 1..MaxDepth : i > tok.depth => tok.stack[i] = FreshLevel
    BY <1>1 DEF TokInv, Position, Resettable
  <1>3. /\ Sound(tok') /\ StateOf(tok') = "eatws" /\ tok'.depth = 1
        /\ tok'.stack = [i \in 1..MaxDepth |-> FreshLevel]
    BY <1>1, <1>2, ResetAll
  <1>4. /\ Sound(NewTokener) /\ NewTokener.depth = 1
        /\ NewTokener.stack = [i \in 1..MaxDepth |-> FreshLevel]
    <2>1. /\ DOMAIN NewTokener = Fields /\ NewTokener.depth = 1
          /\ NewTokener.stack = [i \in 1..MaxDepth |-> FreshLevel]
      BY DEF NewTokener, Fields
    <2>2. Shape(NewTokener)
      BY <2>1, FreshOK, DepthAssumption DEF Shape
    <2>3. StackOK(NewTokener)
      BY <2>1, FreshOK, DepthAssumption DEF StackOK
    <2> QED BY <2>1, <2>2, <2>3 DEF Sound
  <1>5. Same(tok', NewTokener)
    BY <1>3, <1>4 DEF Same, Buffered, Escapes
  <1>6. Abreast(Begin)'
    <2>1. /\ Begin.pc = "idle" /\ Begin.pos = 0 /\ Begin.values = <<>> /\ Begin.err = "success"
          /\ Begin.obj = Null /\ Begin.tok = NewTokener
      BY DEF Begin, Conf
    <2> HIDE DEF Begin
    <2> QED BY <1>1, <1>2, <1>5, <2>1 DEF Abreast
  <1>7. Now.err = err /\ Now.values = values /\ Now.tok = tok /\ Now.pc = pc
    BY DEF Now, Conf
  <1>8. OutcomeOf(Now) = Outcome
    BY <1>7 DEF Outcome, OutcomeOf, State, Level, StateOf, LevelOf, Comments
  <1> QED BY <1>1, <1>6, <1>7, <1>8

LEMMA AbreastChar ==
    ASSUME NEW R, NEW f, Second(R, f), NEW x \in R, Abreast(x), Character
    PROVE  \E y \in R : Abreast(y)'
  <1> DEFINE p == from + char_offset
             r == CharStep(strict, tok, obj, c)
             q == CharStep(strict, x.tok, x.obj, c)
  <1>0. PICK y : y = CharConf(text, strict, x)
    OBVIOUS
  <1>1. CharMove /\ pc = "parse" /\ char_offset < len /\ TokInv
    BY SturdyMove DEF Second
  <1>2. /\ Reading(text, p, c) /\ from \in Nat /\ char_offset \in Nat /\ len \in Nat
        /\ Len(text) \in Nat /\ from + len <= Len(text)
    BY <1>1, ReadingText
  <1>3. /\ x.pc = "parse" /\ x.pos = p /\ x.values = values /\ x.err = err /\ x.obj = obj
        /\ Same(tok, x.tok)
    BY <1>1 DEF Abreast
  <1>4. Alike(r, q)
    <2>1. TextOK(text, tok, p)
      BY <1>1 DEF TokInv
    <2>2. Alike(CharStep(strict, tok, obj, c), CharStep(strict, x.tok, obj, c))
      <3> HIDE DEF p
      <3> QED BY <1>2, <1>3, <2>1, CharAlike
    <2> QED BY <1>3, <2>2
  <1>5. y \in R
    <2>1. x.pos < Len(text)
      BY <1>1, <1>2, <1>3
    <2> QED BY <1>0, <1>3, <2>1, OnPath DEF WholeStep
  <1>6. text[x.pos + 1] = c
    BY <1>3 DEF c
  <1>7. y = Conf(q.tok, q.obj, IF q.end = "next" THEN p + 1 ELSE p,
                 IF q.end = "redo" \/ (q.end = "next" /\ c # NUL) THEN "parse" ELSE "out",
                 values, IF q.end \in Errors THEN q.end ELSE err)
    <2> HIDE DEF p
    <2> QED BY <1>0, <1>3, <1>6 DEF CharConf
  <1>8. /\ tok' = r.tok /\ obj' = r.obj /\ UNCHANGED <<text, strict, from, len, values, whole>>
        /\ char_offset' = IF r.end = "next" THEN char_offset + 1 ELSE char_offset
        /\ pc' = IF r.end = "redo" \/ (r.end = "next" /\ c # NUL) THEN "parse" ELSE "out"
        /\ err' = IF r.end \in Errors THEN r.end ELSE err
    BY <1>1 DEF CharMove, caller
  <1>9. c = NUL => p + 1 = Len(text)
    <2>1. p + 1 \in 1..Len(text)
      BY <1>1, <1>2
    <2> QED BY <1>2, <2>1 DEF Reading
  <1> HIDE DEF r, q
  <1>10. /\ y.tok = q.tok /\ y.obj = obj' /\ y.pc = pc' /\ y.values = values' /\ y.err = err'
         /\ y.pos = IF r.end = "next" THEN p + 1 ELSE p
         /\ Same(tok', y.tok)
    <2> HIDE DEF p
    <2> QED BY <1>4, <1>7, <1>8 DEF Conf, Alike
  <1>11. y.pos = from' + char_offset'
    BY <1>2, <1>8, <1>10
  <1>12. pc' = "out" /\ from' + char_offset' >= Len(text') - 1 => from' + len' = Len(text')
    BY <1>1, <1>2, <1>8, <1>9
  <1>13. Abreast(y)'
    BY <1>10, <1>11, <1>12 DEF Abreast
  <1> QED BY <1>5, <1>13

LEMMA AbreastEnd ==
    ASSUME NEW R, NEW f, Second(R, f), NEW x \in R, Abreast(x), EndOfPiece
    PROVE  \E y \in R : Abreast(y)' \/ Cut(y)' \/ Given(y)'
  <1>1. /\ pc = "parse" /\ char_offset = len /\ pc' = "out" /\ tok' = tok
        /\ UNCHANGED <<text, strict, char_offset, obj, from, len, values, whole>>
        /\ err' = EndErr(tok)
    BY StateIs DEF EndOfPiece, EndErr, Second, NoPair, locals, caller
  <1>2. /\ from \in Nat /\ len \in Nat /\ Len(text) \in Nat /\ from + len <= Len(text)
             /\ InParse
    BY <1>1, PositionIs DEF Second, TokInv
  <1>3. /\ x.pc = "parse" /\ x.pos = from + len /\ x.values = values /\ x.err = "success"
        /\ x.obj = obj /\ Same(tok, x.tok)
    BY <1>1, <1>2 DEF Abreast, InParse
  <1>4. EndErr(x.tok) = EndErr(tok)
    BY <1>3, SameTwin DEF EndErr, Same
  <1>5. CASE from + len = Len(text)
    <2> DEFINE y == EndConf(x)
    <2>1. y \in R
      BY <1>2, <1>3, <1>5, OnPath DEF WholeStep
    <2>2. /\ y.pc = "out" /\ y.pos = from + len /\ y.values = values /\ y.err = EndErr(tok)
          /\ y.obj = obj /\ Same(tok, y.tok)
      BY <1>3, <1>4 DEF EndConf, Conf
    <2> HIDE DEF y
    <2>3. Abreast(y)'
      BY <1>1, <1>5, <2>2 DEF Abreast
    <2> QED BY <2>1, <2>3
  <1>6. CASE from + len # Len(text)
    <2>1. Waits(x)'
      BY <1>1, <1>2, <1>3, <1>6 DEF Waits
    <2>2. CASE err' = "continue"
      <3>1. State' # "finish"
        BY <1>1, <1>2 DEF InParse, State, Level
      <3> QED BY <1>1, <2>1, <2>2, <3>1 DEF Cut
    <2>3. CASE err' # "continue"
      <3>1. err' = "success" /\ tok.depth = 1 /\ StateOf(tok) = "eatws"
              /\ SavedOf(tok) = "finish"
        BY <1>1, <2>3 DEF EndErr
      <3>2. tok'.depth = 1 /\ State' = "eatws" /\ Saved' = "finish"
        BY <1>1, <3>1 DEF State, Saved, Level, StateOf, SavedOf, LevelOf
      <3> QED BY <1>1, <2>1, <3>1, <3>2 DEF Given
    <2> QED BY <2>2, <2>3
  <1> QED BY <1>5, <1>6

LEMMA ResetTwin ==
    ASSUME NEW t, NEW u, Same(t, u)
    PROVE  /\ ResetLevels(t).depth = t.depth /\ ResetLevels(u).depth = t.depth
           /\ ResetLevels(t).stack = ResetLevels(u).stack
           /\ LevelOf(ResetLevels(t)) = FreshLevel /\ LevelOf(ResetLevels(u)) = FreshLevel
  <1> DEFINE s == [i \in 1..MaxDepth |-> IF i <= t.depth THEN FreshLevel ELSE t.stack[i]]
  <1>1. Shape(t) /\ Shape(u) /\ t.depth = u.depth /\ t.stack = u.stack
          /\ t.depth \in 1..MaxDepth
    BY SameTwin DEF Same, Shape
  <1>2. ResetLevels(t).stack = s /\ ResetLevels(t).depth = t.depth
    BY <1>1 DEF ResetLevels, Shape, Fields
  <1>3. ResetLevels(u).stack = s /\ ResetLevels(u).depth = t.depth
    BY <1>1 DEF ResetLevels, Shape, Fields
  <1>4. s[t.depth] = FreshLevel
    BY <1>1, DepthAssumption
  <1> HIDE DEF s
  <1> QED BY <1>2, <1>3, <1>4 DEF LevelOf

LEMMA AbreastOut ==
    ASSUME NEW R, NEW f, Second(R, f), NEW x \in R, Abreast(x), Out
    PROVE  Settled' \/ \E y \in R : Abreast(y)'
  <1> DEFINE p == from + char_offset
             last == Last(text) = NUL /\ x.pos >= Len(text) - 1
             e == CallErr(strict, SawNul, tok, err)
  <1>0. PICK y : y = OutConf(text, strict, x)
    OBVIOUS
  <1>1. /\ from \in Nat /\ len \in Nat /\ char_offset \in Nat /\ char_offset <= len
        /\ Len(text) \in Nat /\ from + len <= Len(text)
    BY PositionIs DEF Second
  <1>2. /\ pc = "out" /\ x.pc = "out" /\ x.pos = p /\ x.values = values /\ x.err = err
        /\ Same(tok, x.tok) /\ (p >= Len(text) - 1 => from + len = Len(text))
    BY DEF Abreast, Out
  <1>3. SawNul <=> last
    BY <1>1, <1>2 DEF SawNul
  <1>4. CallErr(strict, last, x.tok, x.err) = e
    BY <1>2, <1>3, SameTwin DEF CallErr, Same
  <1>5. y = GivenConf(text, x, e) /\ y \in R
    <2>1. y = GivenConf(text, x, e)
      BY <1>0, <1>4 DEF OutConf
    <2>2. y \in R
      BY <1>0, <1>2, OnPath DEF WholeStep
    <2> QED BY <2>1, <2>2
  <1>6. /\ tok' = IF e = "success" THEN ResetLevels(tok) ELSE tok
        /\ values' = IF e = "success" THEN Append(values, LevelOf(tok).current) ELSE values
        /\ err' = e /\ from' = p /\ char_offset' = 0 /\ obj' = Null
        /\ pc' = IF e \in Errors \/ p >= Len(text) \/ (e = "success" /\ text[p + 1] = NUL)
                 THEN "end" ELSE "idle"
        /\ UNCHANGED <<text, strict, whole>>
    BY OutErrorIs, StateIs DEF Out, Exhausted
  <1>7. LevelOf(x.tok) = LevelOf(tok)
    BY <1>2, SameTwin, TwinIs
  <1> HIDE DEF e, last
  <1>8. /\ y.tok = IF e = "success" THEN ResetLevels(x.tok) ELSE x.tok
        /\ y.values = values' /\ y.err = err' /\ y.obj = obj' /\ y.pos = p /\ y.pc = pc'
    <2> HIDE DEF p
    <2> QED BY <1>2, <1>5, <1>6, <1>7 DEF GivenConf, Conf
  <1>9. tok'.depth = y.tok.depth /\ tok'.stack = y.tok.stack
    BY <1>2, <1>6, <1>8, ResetTwin DEF Same
  <1>10. CASE pc' = "end"
    <2>1. y = f
      BY <1>5, <1>8, <1>10, OnPath
    <2>2. OutcomeOf(y) = Outcome'
      <3> QED BY <1>8, <1>9 DEF Outcome, OutcomeOf, State, Level, StateOf, LevelOf, Comments
    <2>3. whole' = Outcome'
      BY <1>6, <2>1, <2>2 DEF Second
    <2> QED BY <1>10, <2>3 DEF Settled
  <1>11. CASE pc' # "end"
    <2>1. pc' = "idle"
      BY <1>6, <1>11
    <2>2. Sound(tok')
      <3>1. TokInv'
        BY OutInv DEF Second
      <3> QED BY <2>1, <3>1 DEF TokInv
    <2>3. Same(tok', y.tok)
      <3>1. CASE e = "success"
        <4>1. tok' = ResetLevels(tok) /\ y.tok = ResetLevels(x.tok)
          BY <1>6, <1>8, <3>1
        <4>2. StateOf(tok') = "eatws"
          BY <1>2, <4>1, ResetTwin DEF StateOf, FreshLevel
        <4>3. Sound(y.tok)
          <5>1. tok.depth = 1
            <6>1. Shape(tok) /\ tok'.depth = tok.depth
              BY <1>2, <4>1, SameTwin, ResetTwin
            <6>2. AtOut /\ err = "success"
              <7>1. AtOut /\ p < Len(text)
                BY <1>1, <1>2, <1>6, <2>1 DEF Second, TokInv
              <7>2. err = "success"
                BY <3>1 DEF e, CallErr
              <7> QED BY <7>1, <7>2
            <6>3. p < Len(text)
              BY <1>1, <1>6, <2>1
            <6> QED BY <1>1, <6>2, <6>3 DEF AtOut
          <5>2. Shape(x.tok) /\ \A i \in 1..MaxDepth : i > 1 => x.tok.stack[i] = FreshLevel
            BY <1>2, <5>1 DEF Same, Sound, StackOK
          <5>3. x.tok.depth = 1
            BY <1>2, <5>1 DEF Same
          <5> QED BY <4>1, <5>2, <5>3, ResetSound
        <4> QED BY <1>9, <2>2, <4>2, <4>3 DEF Same, Buffered, Escapes
      <3>2. CASE e # "success"
        BY <1>2, <1>6, <1>8, <3>2
      <3> QED BY <3>1, <3>2
    <2>4. y.pos = from' + char_offset'
      BY <1>1, <1>6, <1>8
    <2>5. Abreast(y)'
      BY <1>8, <2>1, <2>3, <2>4 DEF Abreast
    <2> QED BY <1>5, <2>5
  <1> QED BY <1>10, <1>11

LEMMA AbreastCall ==
    ASSUME NEW R, NEW f, Second(R, f), NEW x \in R, Abreast(x), NEW n, Call(n)
    PROVE  \E y \in R : Abreast(y)'
  <1> DEFINE y == CallConf(x)
  <1>1. /\ pc = "idle" /\ pc' = "parse" /\ char_offset' = 0 /\ err' = "success"
        /\ UNCHANGED <<text, strict, tok, obj, from, values, whole>>
    BY DEF Call
  <1>2. char_offset = 0 /\ from \in Nat
    BY <1>1 DEF Second, TokInv, Position
  <1>3. y \in R
    BY <1>1, OnPath DEF WholeStep, Abreast
  <1>4. /\ y.pc = "parse" /\ y.pos = from + char_offset /\ y.values = values
        /\ y.err = "success" /\ y.obj = obj /\ Same(tok, y.tok)
    BY DEF CallConf, Conf, Abreast
  <1> HIDE DEF y
  <1>5. Abreast(y)'
    BY <1>1, <1>2, <1>4 DEF Abreast
  <1> QED BY <1>3, <1>5

LEMMA CutOut ==
    ASSUME NEW R, NEW f, Second(R, f), NEW x \in R, Cut(x), Out
    PROVE  Cut(x)'
  <1>1. /\ from \in Nat /\ len \in Nat /\ char_offset \in Nat /\ char_offset <= len
        /\ Len(text) \in Nat /\ from + len <= Len(text)
    BY PositionIs DEF Second
  <1>2. /\ pc = "out" /\ err = "continue" /\ State # "finish" /\ char_offset = len
        /\ from + char_offset < Len(text)
    BY DEF Cut, Waits, Out
  <1>3. obj = Null
    BY <1>2 DEF Second, NoValue
  <1>4. OutError = "continue"
    <2>1. ~SawNul
      BY <1>1, <1>2 DEF SawNul
    <2> QED BY <1>2, <2>1 DEF OutError
  <1>5. /\ UNCHANGED <<tok, values, text>> /\ from' = from + char_offset /\ char_offset' = 0
        /\ obj' = Null /\ pc' = "idle"
    BY <1>1, <1>2, <1>4 DEF Out, Exhausted, Errors
  <1>6. from' + char_offset' = from + char_offset
    BY <1>1, <1>5
  <1> QED BY <1>2, <1>3, <1>5, <1>6 DEF Cut, Waits

LEMMA CutCall ==
    ASSUME NEW R, NEW f, Second(R, f), NEW x \in R, Cut(x), NEW n, Call(n)
    PROVE  Abreast(x)'
  <1>1. /\ pc = "idle" /\ pc' = "parse" /\ char_offset' = 0 /\ err' = "success"
        /\ UNCHANGED <<text, strict, tok, obj, from, values, whole>>
    BY DEF Call
  <1>2. char_offset = 0 /\ from \in Nat
    BY <1>1 DEF Second, TokInv, Position
  <1> QED BY <1>1, <1>2 DEF Cut, Waits, Abreast
-----------------------------------------------------------------------------
(* A value that has been given at the end of a piece is given later when the *)
(* text is in one piece.                                                     *)

LEMMA BlankIs ==
    ASSUME NEW q
    PROVE  /\ Blank(q)[1] = AtState(FreshLevel, q)
           /\ Blank(q)[1].state = q /\ Blank(q)[1].saved_state = "start"
           /\ DOMAIN Blank(q) = 1..MaxDepth
  BY DepthAssumption DEF Blank, AtState, FreshLevel

LEMMA BlankNext ==
    ASSUME NEW q, NEW s
    PROVE  [Blank(q) EXCEPT ![1] = AtState(Blank(q)[1], s)] = Blank(s)
  <1>1. AtState(AtState(FreshLevel, q), s) = AtState(FreshLevel, s)
    BY DEF AtState, FreshLevel
  <1>2. [Blank(q) EXCEPT ![1] = AtState(FreshLevel, s)] = Blank(s)
    BY DepthAssumption DEF Blank, AtState, FreshLevel
  <1>3. AtState(Blank(q)[1], s) = AtState(FreshLevel, s)
    BY <1>1, BlankIs
  <1> QED BY <1>2, <1>3

LEMMA BlankFresh ==
    Blank("eatws") = [i \in 1..MaxDepth |-> FreshLevel]
  BY DEF Blank, FreshLevel

\* A character behind the value ends it.
LEMMA FinishRuns ==
    ASSUME NEW R, NEW f, Second(R, f), NEW x \in R, x.pc = "parse", x.pos < Len(text),
           x.err = "success", Sound(x.tok), x.tok.depth = 1,
           StateOf(x.tok) = "eatws", SavedOf(x.tok) = "finish",
           ~Stays(strict, "eatws", text[x.pos + 1])
    PROVE  \E z \in R : /\ z.pc = "out" /\ z.pos = x.pos /\ z.err = "success"
                        /\ z.values = x.values /\ Sound(z.tok) /\ z.tok.depth = 1
                        /\ StateOf(z.tok) = "finish"
                        /\ LevelOf(z.tok).current = LevelOf(x.tok).current
  <1> DEFINE a == text[x.pos + 1]
             t == Goto(x.tok, "finish")
             y == CharConf(text, strict, x)
             z == CharConf(text, strict, y)
  <1>1. CharStep(strict, x.tok, x.obj, a) = Res(t, x.obj, "redo")
    BY DEF CharStep, EatwsOf, Stays
  <1>2. /\ y.tok = t /\ y.obj = x.obj /\ y.pos = x.pos /\ y.pc = "parse" /\ y.values = x.values
        /\ y.err = "success"
    <2> HIDE DEF t
    <2> QED BY <1>1 DEF CharConf, Conf, Res, Errors
  <1>3. y \in R
    BY OnPath DEF WholeStep
  <1>4. /\ Sound(t) /\ StateOf(t) = "finish" /\ t.depth = 1
    BY GotoSaved
  <1>5. LevelOf(t).current = LevelOf(x.tok).current
    <2>1. Shape(x.tok)
            /\ t.stack = [x.tok.stack EXCEPT ![1] = AtState(LevelOf(x.tok), "finish")]
      BY GotoAt DEF Sound
    <2>2. LevelOf(t) = AtState(LevelOf(x.tok), "finish")
      <3> HIDE DEF t
      <3> QED BY <1>4, <2>1, DepthAssumption DEF Shape, LevelOf
    <2>3. DOMAIN LevelOf(x.tok) = LevelFields
      BY LevelSound
    <2> HIDE DEF t
    <2> QED BY <2>2, <2>3 DEF LevelFields, AtState
  <1> HIDE DEF t, y
  <1>6. CharStep(strict, y.tok, y.obj, a) = Res(t, y.obj, "out")
    BY <1>2, <1>4 DEF CharStep, FinishOf
  <1>7. /\ z.tok = t /\ z.pos = x.pos /\ z.pc = "out" /\ z.values = x.values
             /\ z.err = "success"
    BY <1>2, <1>6 DEF CharConf, Conf, Res, Errors
  <1>8. z \in R
    <2>1. z = WholeStep(text, strict, y)
      BY <1>2 DEF WholeStep
    <2>2. y.pc # "end"
      BY <1>2
    <2> HIDE DEF z
    <2> QED BY <1>3, <2>1, <2>2, OnPath
  <1> HIDE DEF z
  <1> QED BY <1>4, <1>5, <1>7, <1>8

\* Where that is not an error, the next call begins the next value with it.
LEMMA RestartRuns ==
    ASSUME NEW R, NEW f, Second(R, f), NEW z \in R, z.pc = "out", z.pos \in Nat,
           z.pos < Len(text),
           z.err = "success", Sound(z.tok), z.tok.depth = 1, StateOf(z.tok) = "finish",
           ~strict, text[z.pos + 1] # NUL, ~Stays(strict, "eatws", text[z.pos + 1])
    PROVE  \E y \in R : /\ y.pc = "parse" /\ y.pos = z.pos /\ y.err = "success" /\ y.obj = Null
                        /\ y.values = Append(z.values, LevelOf(z.tok).current)
                        /\ Sound(y.tok) /\ y.tok.depth = 1 /\ y.tok.stack = Blank("start")
  <1> DEFINE a == text[z.pos + 1]
             e == CallErr(strict, Last(text) = NUL /\ z.pos >= Len(text) - 1, z.tok, z.err)
             v == Append(z.values, LevelOf(z.tok).current)
             r == GivenConf(text, z, e)
             s == CallConf(r)
             y == CharConf(text, strict, s)
             t == Goto(s.tok, "start")
  <1>1. e = "success"
    BY DEF CallErr
  <1>2. r \in R
    BY OnPath DEF WholeStep, OutConf
  <1> HIDE DEF e
  <1>3. /\ r.tok = ResetLevels(z.tok) /\ r.obj = Null /\ r.pos = z.pos /\ r.pc = "idle"
        /\ r.values = v /\ r.err = "success"
    <2>1. Len(text) \in Nat /\ ~(z.pos >= Len(text))
      BY PositionIs DEF Second
    <2> HIDE DEF v
    <2> QED BY <1>1, <2>1 DEF GivenConf, Conf, Errors, v
  <1> HIDE DEF r, v
  <1>4. s \in R
    BY <1>2, <1>3, OnPath DEF WholeStep
  <1>5. /\ s.tok = ResetLevels(z.tok) /\ s.obj = Null /\ s.pos = z.pos /\ s.pc = "parse"
        /\ s.values = v /\ s.err = "success"
    BY <1>3 DEF CallConf, Conf
  <1>6. /\ Sound(s.tok) /\ s.tok.depth = 1 /\ s.tok.stack = Blank("eatws")
        /\ StateOf(s.tok) = "eatws" /\ SavedOf(s.tok) = "start"
    <2>1. Shape(z.tok) /\ \A i \in 1..MaxDepth : i > 1 => z.tok.stack[i] = FreshLevel
      BY DEF Sound, StackOK
    <2>2. /\ Sound(ResetLevels(z.tok)) /\ ResetLevels(z.tok).depth = 1
          /\ ResetLevels(z.tok).stack = Blank("eatws")
               /\ LevelOf(ResetLevels(z.tok)) = FreshLevel
      BY <2>1, ResetSound, BlankFresh
    <2> HIDE DEF s
    <2> QED BY <1>5, <2>2 DEF StateOf, SavedOf, FreshLevel
  <1> HIDE DEF s
  <1>7. CharStep(strict, s.tok, s.obj, a) = Res(t, Null, "redo")
    BY <1>5, <1>6 DEF CharStep, EatwsOf, Stays
  <1>8. y \in R
    <2>1. y = WholeStep(text, strict, s)
      BY <1>5 DEF WholeStep
    <2>2. s.pc # "end"
      BY <1>5
    <2> HIDE DEF y
    <2> QED BY <1>4, <2>1, <2>2, OnPath
  <1>9. /\ y.tok = t /\ y.obj = Null /\ y.pos = z.pos /\ y.pc = "parse" /\ y.values = v
        /\ y.err = "success"
    <2> HIDE DEF t
    <2> QED BY <1>5, <1>7 DEF CharConf, Conf, Res, Errors
  <1>10. Sound(t) /\ t.depth = 1
    BY <1>6, GotoSaved
  <1>11. t.stack = Blank("start")
    <2>1. t.stack = [s.tok.stack EXCEPT ![1] = AtState(LevelOf(s.tok), "start")]
      BY <1>6, GotoAt DEF Sound
    <2>2. LevelOf(s.tok) = Blank("eatws")[1]
      BY <1>6 DEF LevelOf
    <2> HIDE DEF t
    <2> QED BY <1>6, <2>1, <2>2, BlankNext
  <1> HIDE DEF y, t
  <1> QED BY <1>8, <1>9, <1>10, <1>11 DEF v

LEMMA GivenOut ==
    ASSUME NEW R, NEW f, Second(R, f), NEW x \in R, Given(x), Out
    PROVE  Settled' \/ Ahead(x)'
  <1> DEFINE p == from + char_offset
  <1>1. /\ from \in Nat /\ len \in Nat /\ char_offset \in Nat /\ char_offset <= len
        /\ Len(text) \in Nat /\ from + len <= Len(text) /\ Last(text) = text[Len(text)]
        /\ \A i \in 1..Len(text) : text[i] = NUL => i = Len(text)
    BY PositionIs DEF Second
  <1>2. /\ pc = "out" /\ err = "success" /\ char_offset = len /\ p < Len(text)
        /\ tok.depth = 1 /\ StateOf(tok) = "eatws" /\ SavedOf(tok) = "finish"
        /\ x.pc = "parse" /\ x.err = "success" /\ x.pos = p
        /\ x.obj = obj /\ Same(tok, x.tok) /\ x.values = values
    BY StateIs DEF Given, Waits
  <1>3. ~SawNul
    BY <1>1, <1>2 DEF SawNul
  <1>4. OutError = "success"
    BY <1>2, <1>3, StateIs DEF OutError
  <1>5. /\ tok' = ResetLevels(tok) /\ values' = Append(values, LevelOf(tok).current)
        /\ err' = "success" /\ from' = p /\ char_offset' = 0 /\ obj' = Null
        /\ pc' = IF text[p + 1] = NUL THEN "end" ELSE "idle"
        /\ UNCHANGED <<text, strict, whole>>
    BY <1>1, <1>2, <1>4, StateIs DEF Out, Exhausted, Errors
  <1>6. /\ tok'.depth = 1 /\ tok'.stack = Blank("eatws") /\ LevelOf(tok') = FreshLevel
    <2>1. Shape(tok) /\ \A i \in 1..MaxDepth : i > 1 => tok.stack[i] = FreshLevel
      BY <1>2 DEF Same, Sound, StackOK
    <2> QED BY <1>2, <1>5, <2>1, ResetSound, BlankFresh
  <1>7. /\ Sound(x.tok) /\ x.tok.depth = 1 /\ LevelOf(x.tok) = LevelOf(tok)
        /\ StateOf(x.tok) = "eatws" /\ SavedOf(x.tok) = "finish"
    BY <1>2, SameTwin, TwinIs DEF Same
  <1>8. CASE text[p + 1] = NUL
    <2>1. p + 1 = Len(text)
      BY <1>1, <1>2, <1>8
    <2>2. ~Stays(strict, "eatws", text[x.pos + 1])
      BY <1>2, <1>8 DEF Stays, Comments, Space, NUL
    <2>3. x.pos < Len(text)
      BY <1>2
    <2>4. PICK z \in R : /\ z.pc = "out" /\ z.pos = x.pos /\ z.err = "success"
                         /\ z.values = x.values /\ Sound(z.tok) /\ z.tok.depth = 1
                         /\ StateOf(z.tok) = "finish"
                         /\ LevelOf(z.tok).current = LevelOf(x.tok).current
      BY <1>2, <1>7, <2>2, <2>3, FinishRuns
    <2>5. Last(text) = NUL /\ z.pos >= Len(text) - 1
      BY <1>1, <1>2, <1>8, <2>1, <2>4
    <2>6. CallErr(strict, TRUE, z.tok, z.err) = "success"
      BY <2>4 DEF CallErr
    <2>7. text[z.pos + 1] = NUL
      BY <1>2, <1>8, <2>4
    <2>8. whole = <<Append(z.values, LevelOf(z.tok).current), "complete">>
      BY <2>4, <2>5, <2>6, <2>7, Completes
    <2>9. whole = <<values', "complete">>
      BY <1>2, <1>5, <1>7, <2>4, <2>8
    <2>10. Outcome' = <<values', "complete">>
      BY <1>5, <1>6 DEF Outcome, Level, LevelOf, Errors
    <2> QED BY <1>5, <1>8, <2>9, <2>10 DEF Settled
  <1>9. CASE text[p + 1] # NUL
    <2>1. pc' = "idle" /\ from' < Len(text)' /\ x.pos = from' + char_offset'
      BY <1>1, <1>2, <1>5, <1>9
    <2>2. /\ x.tok.stack[1].state = "eatws" /\ x.tok.stack[1].saved_state = "finish"
          /\ values' = Append(x.values, x.tok.stack[1].current)
      BY <1>2, <1>5, <1>7 DEF StateOf, SavedOf, LevelOf
    <2>3. "eatws" \in Blanks
      BY DEF Blanks
    <2> QED BY <1>2, <1>5, <1>6, <1>7, <2>1, <2>2, <2>3 DEF Ahead
  <1> QED BY <1>8, <1>9

LEMMA DoomedChar ==
    ASSUME NEW R, NEW f, Second(R, f), Doomed, Character
    PROVE  Doomed'
  <1>1. /\ from \in Nat /\ len \in Nat /\ char_offset \in Nat /\ char_offset <= len
        /\ Len(text) \in Nat /\ from + len <= Len(text) /\ Last(text) = text[Len(text)]
    BY PositionIs DEF Second
  <1>2. CharMove /\ pc = "parse" /\ char_offset < len
    BY SturdyMove DEF Second
  <1>3. /\ Last(text) = NUL /\ whole = <<values, "complete">> /\ StateOf(tok) = "start"
        /\ State # "finish" /\ Saved # "finish" /\ from + char_offset = Len(text) - 1
    BY <1>2, StateIs DEF Doomed
  <1>4. c = NUL /\ from + len = Len(text) /\ char_offset >= len - 1
    <2>1. from + char_offset + 1 = Len(text) /\ from + len = Len(text)
            /\ char_offset >= len - 1
      BY <1>1, <1>2, <1>3
    <2> QED BY <1>1, <1>3, <2>1 DEF c
  <1>5. CharStep(strict, tok, obj, c) = Res(tok, obj, "unexpected")
    BY <1>3, <1>4 DEF CharStep, StartOf, QuotesOf, NUL, Digit
  <1>6. /\ tok' = tok /\ char_offset' = char_offset /\ pc' = "out"
        /\ UNCHANGED <<text, from, len, values, whole>>
    BY <1>2, <1>5 DEF CharMove, Res, caller
  <1>7. State' = State /\ Saved' = Saved
    BY <1>6 DEF State, Saved, Level
  <1> QED BY <1>3, <1>4, <1>6, <1>7 DEF Doomed

LEMMA DoomedOut ==
    ASSUME NEW R, NEW f, Second(R, f), Doomed, Out
    PROVE  Settled'
  <1>1. SawNul /\ pc = "out" /\ whole = <<values, "complete">> /\ Last(text) = NUL
    BY DEF Doomed, SawNul, Out
  <1>2. OutError = "eof"
    BY <1>1 DEF OutError, Doomed
  <1>3. /\ tok' = tok /\ values' = values /\ err' = "eof" /\ pc' = "end" /\ whole' = whole
        /\ text' = text
    BY <1>2 DEF Out, Errors
  <1>4. Outcome' = <<values, "eof">>
    BY <1>3 DEF Outcome, Errors
  <1> QED BY <1>1, <1>3, <1>4 DEF Settled
\* Both are in the same blanks or comment, with the value of the one in one piece before it.
LEMMA AheadIs ==
    ASSUME NEW x, Ahead(x)
    PROVE  \E q \in Blanks :
             /\ tok.depth = 1 /\ tok.stack = Blank(q)
             /\ StateOf(tok) = q /\ SavedOf(tok) = "start" /\ LevelOf(tok) = Blank(q)[1]
             /\ Sound(x.tok) /\ x.tok.depth = 1 /\ StateOf(x.tok) = q
                  /\ SavedOf(x.tok) = "finish"
             /\ values = Append(x.values, LevelOf(x.tok).current)
  BY BlankIs DEF Ahead, StateOf, SavedOf, LevelOf

LEMMA AheadChar ==
    ASSUME NEW R, NEW f, Second(R, f), NEW x \in R, Ahead(x), Character
    PROVE  Excused' \/ Doomed' \/ \E y \in R : Abreast(y)' \/ Ahead(y)'
  <1> DEFINE p == from + char_offset
             r == CharStep(strict, tok, obj, c)
  <1>1. /\ from \in Nat /\ len \in Nat /\ char_offset \in Nat /\ char_offset <= len
        /\ Len(text) \in Nat /\ from + len <= Len(text) /\ Last(text) = text[Len(text)]
        /\ \A i \in 1..Len(text) : text[i] = NUL => i = Len(text)
    BY PositionIs DEF Second
  <1>2. CharMove /\ pc = "parse" /\ char_offset < len /\ TokInv
    BY SturdyMove DEF Second
  <1>3. PICK q \in Blanks :
             /\ tok.depth = 1 /\ tok.stack = Blank(q)
             /\ StateOf(tok) = q /\ SavedOf(tok) = "start" /\ LevelOf(tok) = Blank(q)[1]
             /\ Sound(x.tok) /\ x.tok.depth = 1 /\ StateOf(x.tok) = q
                  /\ SavedOf(x.tok) = "finish"
             /\ values = Append(x.values, LevelOf(x.tok).current)
    BY AheadIs
  <1>4. /\ x.pc = "parse" /\ x.err = "success" /\ x.pos = p /\ obj = Null /\ x.pos < Len(text)
        /\ text[x.pos + 1] = c /\ x.pos \in Nat
    BY <1>1, <1>2 DEF Ahead, c
  <1>5. /\ tok' = r.tok /\ obj' = r.obj /\ UNCHANGED <<text, strict, from, len, values, whole>>
        /\ char_offset' = IF r.end = "next" THEN char_offset + 1 ELSE char_offset
        /\ pc' = IF r.end = "redo" \/ (r.end = "next" /\ c # NUL) THEN "parse" ELSE "out"
        /\ err' = IF r.end \in Errors THEN r.end ELSE err
    BY <1>2 DEF CharMove, caller
  <1>6. Sound(tok) /\ err = "success"
    BY <1>2 DEF TokInv, InParse
  <1>7. c = NUL <=> p + 1 = Len(text) /\ Last(text) = NUL
    <2>1. p + 1 \in 1..Len(text) /\ c = text[p + 1]
      BY <1>1, <1>2 DEF c
    <2> QED BY <1>1, <2>1
  <1>8. TokInv'
    BY <1>2, CharMoveInv
  <1> HIDE DEF r
  <1>9. CASE Stays(strict, q, c)
    <2> DEFINE s == AfterBlank(q, c)
               n == CharStep(strict, x.tok, x.obj, c)
               y == CharConf(text, strict, x)
    <2>1. /\ r.obj = Null /\ r.end = BlankEnd(q, c) /\ r.tok.depth = 1
               /\ r.tok.stack = Blank(s)
          /\ s \in Blanks
      <3>1. /\ r.obj = obj /\ r.end = BlankEnd(q, c) /\ r.tok.depth = tok.depth /\ s \in Blanks
            /\ \/ r.tok.stack = tok.stack /\ s = q
               \/ r.tok.stack = [tok.stack EXCEPT ![tok.depth] = AtState(LevelOf(tok), s)]
        BY <1>3, <1>6, <1>9, BlankStep DEF r
      <3>2. [tok.stack EXCEPT ![tok.depth] = AtState(LevelOf(tok), s)] = Blank(s)
        BY <1>3, BlankNext
      <3> HIDE DEF s
      <3> QED BY <1>3, <1>4, <3>1, <3>2
    <2>2. /\ n.end = BlankEnd(q, c) /\ n.tok.depth = 1
          /\ \/ n.tok.stack = x.tok.stack /\ s = q
             \/ n.tok.stack = [x.tok.stack EXCEPT ![1] = AtState(LevelOf(x.tok), s)]
      <3>1. /\ n.end = BlankEnd(q, c) /\ n.tok.depth = x.tok.depth
            /\ \/ n.tok.stack = x.tok.stack /\ s = q
               \/ n.tok.stack = [x.tok.stack EXCEPT ![x.tok.depth] =
                    AtState(LevelOf(x.tok), s)]
        BY <1>3, <1>9, BlankStep
      <3> HIDE DEF s, n
      <3> QED BY <1>3, <3>1
    <2>3. Sound(n.tok)
      <3>1. TextOK(text, x.tok, p) /\ Reading(text, p, c)
        <4>1. StateOf(x.tok) \notin Textual
          BY <1>3 DEF Blanks, Comments, Textual
        <4>2. Reading(text, p, c)
          BY <1>2, ReadingText
        <4> QED BY <4>1, <4>2 DEF TextOK, Textual
      <3> HIDE DEF p
      <3> QED BY <1>3, <3>1, CharKept DEF Kept
    <2>4. /\ StateOf(n.tok) = s /\ SavedOf(n.tok) = "finish"
          /\ LevelOf(n.tok).current = LevelOf(x.tok).current
      <3>1. LevelOf(n.tok) = IF n.tok.stack = x.tok.stack THEN LevelOf(x.tok)
              ELSE AtState(LevelOf(x.tok), s)
        <4>1. Shape(x.tok) /\ x.tok.depth = 1
          BY <1>3 DEF Sound
        <4> HIDE DEF n, s
        <4> QED BY <2>2, <4>1, DepthAssumption DEF Shape, LevelOf
      <3>2. DOMAIN LevelOf(x.tok) = LevelFields
        BY <1>3, LevelSound
      <3>3. n.tok.stack = x.tok.stack => s = q \/ LevelOf(n.tok) = AtState(LevelOf(x.tok), s)
        <4>1. Shape(x.tok) /\ x.tok.depth = 1
          BY <1>3 DEF Sound
        <4> HIDE DEF n, s
        <4> QED BY <2>2, <4>1, DepthAssumption DEF Shape, LevelOf
      <3> HIDE DEF n, s
      <3> QED BY <1>3, <3>1, <3>2, <3>3 DEF AtState, StateOf, SavedOf, LevelFields
    <2> HIDE DEF n, s
    <2>5. y \in R
      BY <1>4, OnPath DEF WholeStep
    <2>6. /\ y.tok = n.tok /\ y.values = x.values
          /\ y.pos = IF n.end = "next" THEN p + 1 ELSE p
          /\ y.pc = IF n.end = "redo" \/ (n.end = "next" /\ c # NUL) THEN "parse" ELSE "out"
          /\ y.err = IF n.end \in Errors THEN n.end ELSE "success"
      <3> HIDE DEF p
      <3> QED BY <1>4 DEF CharConf, Conf, n
    <2>7. /\ tok'.depth = 1 /\ tok'.stack = Blank(s) /\ obj' = Null
      BY <1>5, <2>1
    <2>8. CASE BlankEnd(q, c) = "comment"
      <3> DEFINE last == Last(text) = NUL /\ y.pos >= Len(text) - 1
      <3>1. y.pc = "out" /\ y.err = "comment"
        BY <2>2, <2>6, <2>8 DEF Errors
      <3>2. CallErr(strict, last, y.tok, y.err) = "comment"
        <4>1. StateOf(y.tok) # "finish" /\ SavedOf(y.tok) = "finish"
          BY <2>1, <2>4, <2>6 DEF Blanks, Comments
        <4> HIDE DEF y, last
        <4> QED BY <3>1, <4>1 DEF CallErr
      <3> HIDE DEF y
      <3>3. whole[2] = "comment"
        <4>1. last <=> Last(text) = NUL /\ y.pos >= Len(text) - 1
          OBVIOUS
        <4>2. "comment" \in Errors
          BY DEF Errors
        <4> HIDE DEF last
        <4> QED BY <2>5, <3>1, <3>2, <4>1, <4>2, FailsSo
      <3> QED BY <1>5, <3>3 DEF Excused
    <2>9. CASE BlankEnd(q, c) # "comment"
      <3>1. BlankEnd(q, c) = "next" /\ r.end = "next" /\ n.end = "next"
        BY <2>1, <2>2, <2>9 DEF BlankEnd
      <3>2. y.pos = p + 1 /\ y.err = "success" /\ from' + char_offset' = p + 1
              /\ err' = "success"
        BY <1>1, <1>5, <1>6, <2>6, <3>1 DEF Errors
      <3>3. CASE c # NUL
        <4>1. y.pc = "parse" /\ pc' = "parse"
          BY <1>5, <2>6, <3>1, <3>3
        <4>2. PICK z : z = y
          OBVIOUS
        <4> HIDE DEF y
        <4>3. /\ Sound(z.tok) /\ z.tok.depth = 1 /\ z.tok.stack[1].state = s
              /\ z.tok.stack[1].saved_state = "finish"
              /\ values' = Append(z.values, z.tok.stack[1].current)
          BY <1>3, <1>5, <2>2, <2>3, <2>4, <2>6, <4>2 DEF StateOf, SavedOf, LevelOf
        <4>4. Ahead(z)'
          BY <2>1, <2>7, <3>2, <4>1, <4>2, <4>3 DEF Ahead
        <4> QED BY <2>5, <4>2, <4>4
      <3>4. CASE c = NUL
        <4>1. y.pc = "out" /\ pc' = "out" /\ p + 1 = Len(text) /\ Last(text) = NUL
          BY <1>5, <1>7, <2>6, <3>1, <3>4
        <4>2. /\ StateOf(y.tok) = s /\ s # "finish" /\ SavedOf(y.tok) = "finish"
                   /\ Sound(y.tok)
              /\ y.tok.depth = 1 /\ y.values = x.values
              /\ LevelOf(y.tok).current = LevelOf(x.tok).current
          BY <2>1, <2>2, <2>3, <2>4, <2>6 DEF Blanks, Comments
        <4> HIDE DEF y
        <4>3. CallErr(strict, TRUE, y.tok, y.err) = "success"
          BY <3>2, <4>2 DEF CallErr
        <4>4. y.pos >= Len(text) /\ (TRUE <=> Last(text) = NUL /\ y.pos >= Len(text) - 1)
          BY <1>1, <3>2, <4>1
        <4>5. whole = <<Append(y.values, LevelOf(y.tok).current), "complete">>
          BY <2>5, <4>1, <4>2, <4>3, <4>4, Completes
        <4>6. whole' = <<values', "complete">>
          BY <1>3, <1>5, <4>2, <4>5
        <4>7. State' = s /\ Saved' = "start"
          BY <2>7, BlankIs DEF State, Saved, Level
        <4>8. from' + len' = Len(text') /\ char_offset' >= len' - 1 /\ Last(text') = NUL
          BY <1>1, <1>2, <1>5, <3>1, <4>1
        <4> QED BY <4>1, <4>2, <4>6, <4>7, <4>8 DEF Doomed
      <3> QED BY <3>3, <3>4
    <2> QED BY <2>8, <2>9
  <1>10. CASE ~Stays(strict, q, c)
    <2>1. q = "eatws"
      BY <1>10 DEF Stays, Blanks
    <2>2. /\ r = Res(Goto(tok, "start"), Null, "redo")
      BY <1>3, <1>4, <1>10, <2>1 DEF r, CharStep, EatwsOf, Stays
    <2>3. /\ tok' = Goto(tok, "start") /\ obj' = Null /\ pc' = "parse" /\ err' = "success"
          /\ char_offset' = char_offset
      <3>1. r.tok = Goto(tok, "start") /\ r.obj = Null /\ r.end = "redo"
        BY <2>2 DEF Res
      <3> QED BY <1>5, <1>6, <3>1 DEF Errors
    <2>4. /\ tok'.depth = 1 /\ tok'.stack = Blank("start") /\ StateOf(tok') = "start"
      <3>1. /\ Goto(tok, "start").depth = tok.depth /\ StateOf(Goto(tok, "start")) = "start"
            /\ Goto(tok, "start").stack =
                 [tok.stack EXCEPT ![tok.depth] = AtState(LevelOf(tok), "start")]
        BY <1>6, GotoAt, GotoIs DEF Sound
      <3>2. [tok.stack EXCEPT ![tok.depth] = AtState(LevelOf(tok), "start")] = Blank("start")
        BY <1>3, BlankNext
      <3> QED BY <1>3, <2>3, <3>1, <3>2
    <2>5. PICK z \in R : /\ z.pc = "out" /\ z.pos = x.pos /\ z.err = "success"
                         /\ z.values = x.values /\ Sound(z.tok) /\ z.tok.depth = 1
                         /\ StateOf(z.tok) = "finish"
                         /\ LevelOf(z.tok).current = LevelOf(x.tok).current
      BY <1>3, <1>4, <1>10, <2>1, FinishRuns
    <2>6. CASE c = NUL
      <3>1. Last(text) = NUL /\ p + 1 = Len(text)
        BY <1>7, <2>6
      <3>2. CallErr(strict, TRUE, z.tok, z.err) = "success"
        BY <2>5 DEF CallErr
      <3>3. text[z.pos + 1] = NUL /\ (TRUE <=> Last(text) = NUL /\ z.pos >= Len(text) - 1)
        BY <1>1, <1>4, <2>5, <2>6, <3>1
      <3>4. whole = <<Append(z.values, LevelOf(z.tok).current), "complete">>
        BY <2>5, <3>2, <3>3, Completes
      <3>5. whole' = <<values', "complete">>
        BY <1>3, <1>5, <2>5, <3>4
      <3>6. State' = "start" /\ Saved' = "start"
        BY <2>4, BlankIs DEF State, Saved, Level
      <3>7. from' + char_offset' = Len(text') - 1 /\ char_offset' < len'
        BY <1>1, <1>2, <1>5, <2>3, <3>1
      <3> QED BY <1>5, <2>3, <3>1, <3>5, <3>6, <3>7 DEF Doomed
    <2>7. CASE c # NUL /\ strict
      <3>1. ~(Last(text) = NUL /\ z.pos >= Len(text) - 1)
        BY <1>1, <1>4, <1>7, <2>5, <2>7
      <3>2. CallErr(strict, FALSE, z.tok, z.err) = "unexpected"
        BY <2>5, <2>7 DEF CallErr
      <3>3. whole[2] = "unexpected"
        <4>1. "unexpected" \in Errors /\ (FALSE <=> Last(text) = NUL /\ z.pos >= Len(text) - 1)
          BY <3>1 DEF Errors
        <4> QED BY <2>5, <3>2, <4>1, FailsSo
      <3> QED BY <1>5, <2>7, <3>3 DEF Excused
    <2>8. CASE c # NUL /\ ~strict
      <3>1. z.pos \in Nat /\ z.pos < Len(text) /\ text[z.pos + 1] # NUL
            /\ ~Stays(strict, "eatws", text[z.pos + 1])
        BY <1>4, <1>10, <2>1, <2>5, <2>8
      <3>2. PICK y \in R :
                /\ y.pc = "parse" /\ y.pos = z.pos /\ y.err = "success" /\ y.obj = Null
                /\ y.values = Append(z.values, LevelOf(z.tok).current)
                /\ Sound(y.tok) /\ y.tok.depth = 1 /\ y.tok.stack = Blank("start")
        BY <2>5, <2>8, <3>1, RestartRuns
      <3>3. Sound(tok')
        BY <1>8, <2>3 DEF TokInv
      <3>4. Same(tok', y.tok)
        BY <2>4, <3>2, <3>3 DEF Same, Buffered, Escapes
      <3>5. y.pos = from' + char_offset' /\ y.values = values'
        BY <1>3, <1>4, <1>5, <2>3, <2>5, <3>2
      <3>6. Abreast(y)'
        BY <2>3, <3>2, <3>4, <3>5 DEF Abreast
      <3> QED BY <3>6
    <2> QED BY <2>6, <2>7, <2>8
  <1> QED BY <1>9, <1>10

LEMMA AheadEnd ==
    ASSUME NEW R, NEW f, Second(R, f), NEW x \in R, Ahead(x), EndOfPiece
    PROVE  Ahead(x)'
  <1>1. /\ pc = "parse" /\ char_offset = len /\ pc' = "out" /\ tok' = tok
        /\ UNCHANGED <<text, strict, char_offset, obj, from, len, values, whole>>
        /\ err' = EndErr(tok)
    BY StateIs DEF EndOfPiece, EndErr, Second, NoPair, locals, caller
  <1>2. SavedOf(tok) = "start"
    BY AheadIs
  <1>3. err' = "continue"
    BY <1>1, <1>2 DEF EndErr
  <1>4. from + len = Len(text) => Last(text) # NUL
    BY <1>1 DEF Second, TokInv, InParse
  <1> QED BY <1>1, <1>3, <1>4 DEF Ahead

LEMMA AheadOut ==
    ASSUME NEW R, NEW f, Second(R, f), NEW x \in R, Ahead(x), Out
    PROVE  Excused' \/ Settled' \/ Ahead(x)'
  <1> DEFINE p == from + char_offset
  <1>1. /\ from \in Nat /\ len \in Nat /\ char_offset \in Nat /\ char_offset <= len
        /\ Len(text) \in Nat /\ from + len <= Len(text)
    BY PositionIs DEF Second
  <1>2. PICK q \in Blanks :
             /\ tok.depth = 1 /\ tok.stack = Blank(q)
             /\ StateOf(tok) = q /\ SavedOf(tok) = "start" /\ LevelOf(tok) = Blank(q)[1]
             /\ Sound(x.tok) /\ x.tok.depth = 1 /\ StateOf(x.tok) = q
                  /\ SavedOf(x.tok) = "finish"
             /\ values = Append(x.values, LevelOf(x.tok).current)
    BY AheadIs
  <1>3. /\ pc = "out" /\ err = "continue" /\ char_offset = len
        /\ (from + len = Len(text) => Last(text) # NUL)
        /\ x.pc = "parse" /\ x.err = "success" /\ x.pos = p /\ obj = Null
    BY DEF Ahead, Out
  <1>4. OutError = "continue"
    <2>1. ~SawNul
      BY <1>3 DEF SawNul
    <2> QED BY <1>2, <1>3, <2>1, StateIs DEF OutError, Blanks, Comments
  <1>5. /\ UNCHANGED <<text, strict, tok, values, whole>> /\ from' = p /\ char_offset' = 0
        /\ obj' = Null /\ err' = "continue"
        /\ pc' = IF p >= Len(text) THEN "end" ELSE "idle"
    BY <1>4 DEF Out, Exhausted, Errors
  <1>6. CASE p < Len(text)
    <2>1. pc' = "idle" /\ from' < Len(text') /\ x.pos = from' + char_offset'
      BY <1>1, <1>3, <1>5, <1>6
    <2> QED BY <1>5, <2>1 DEF Ahead
  <1>7. CASE ~(p < Len(text))
    <2>1. p = Len(text) /\ pc' = "end" /\ Last(text) # NUL
      BY <1>1, <1>3, <1>5, <1>7
    <2> DEFINE y == EndConf(x)
    <2>2. y \in R
      BY <1>1, <1>3, <1>7, OnPath DEF WholeStep
    <2>3. /\ y.tok = x.tok /\ y.pos = p /\ y.pc = "out" /\ y.values = x.values
          /\ y.err = IF q = "eatws" THEN "success" ELSE "continue"
      BY <1>2, <1>3 DEF EndConf, Conf, EndErr
    <2> HIDE DEF y
    <2>4. CallErr(strict, FALSE, y.tok, y.err) = y.err
      BY <1>2, <2>3 DEF CallErr, Blanks, Comments
    <2>5. FALSE <=> Last(text) = NUL /\ y.pos >= Len(text) - 1
      BY <2>1
    <2>6. CASE q = "eatws"
      <3>1. y.pos >= Len(text)
        BY <1>1, <2>1, <2>3
      <3>2. whole = <<Append(y.values, LevelOf(y.tok).current), "complete">>
        BY <1>2, <2>2, <2>3, <2>4, <2>5, <2>6, <3>1, Completes
      <3>3. whole' = <<values', "complete">>
        BY <1>2, <1>5, <2>3, <3>2
      <3>4. LevelOf(tok) = FreshLevel
        BY <1>2, <2>6, BlankFresh, DepthAssumption
      <3>5. Outcome' = <<values', "complete">>
        BY <1>2, <1>5, <3>4, StateIs DEF Outcome, Level, LevelOf, Errors
      <3> QED BY <2>1, <3>3, <3>5 DEF Settled
    <2>7. CASE q # "eatws"
      <3> DEFINE z == OutConf(text, strict, y)
      <3>1. z \in R
        BY <2>2, <2>3, OnPath DEF WholeStep
      <3>2. z = GivenConf(text, y, "continue")
        <4>1. CallErr(strict, Last(text) = NUL /\ y.pos >= Len(text) - 1, y.tok,
                y.err) = "continue"
          BY <2>3, <2>4, <2>5, <2>7 DEF CallErr
        <4> QED BY <4>1 DEF OutConf
      <3>3. z.pc = "end" /\ z.err = "continue" /\ z.tok = x.tok
        <4>1. y.pos >= Len(text)
          BY <1>1, <2>1, <2>3
        <4> HIDE DEF z
        <4> QED BY <2>3, <3>2, <4>1 DEF GivenConf, Conf
      <3> HIDE DEF z
      <3>4. OutcomeOf(z)[2] = "comment"
        <4>1. LevelOf(z.tok) # FreshLevel
          BY <1>2, <2>7, <3>3 DEF StateOf, FreshLevel
        <4>2. StateOf(z.tok) \in Comments
          BY <1>2, <2>7, <3>3 DEF Blanks
        <4> QED BY <3>3, <4>1, <4>2 DEF OutcomeOf, Errors
      <3>5. z = f
        BY <3>1, <3>3, OnPath
      <3>6. whole' [2] = "comment"
        BY <1>5, <3>4, <3>5 DEF Second
      <3> QED BY <3>6 DEF Excused
    <2> QED BY <2>6, <2>7
  <1> QED BY <1>6, <1>7

LEMMA AheadCall ==
    ASSUME NEW R, NEW f, Second(R, f), NEW x \in R, Ahead(x), NEW n, Call(n)
    PROVE  Ahead(x)'
  <1>1. /\ pc = "idle" /\ pc' = "parse" /\ char_offset' = 0 /\ err' = "success"
        /\ UNCHANGED <<text, strict, tok, obj, from, values, whole>>
    BY DEF Call
  <1>2. char_offset = 0 /\ from \in Nat
    BY <1>1 DEF Second, TokInv, Position
  <1>3. x.pos = from' + char_offset'
    BY <1>1, <1>2 DEF Ahead
  <1> QED BY <1>1, <1>3 DEF Ahead
-----------------------------------------------------------------------------
(* The cuts do not matter.                                                   *)

\* Every step of the parse in pieces follows that in one piece.
LEMMA FollowingNext ==
    ASSUME NEW R, NEW f, Second(R, f), whole # <<>>, Following(R), TokenerNext
    PROVE  Following(R)' /\ UNCHANGED <<text, strict, whole>>
  <1>1. whole' = whole
    <2>1. CASE Character
      BY <2>1, SturdyMove DEF Second, CharMove, caller
    <2>2. CASE CallWhole \/ CallPiece \/ EndOfPiece \/ Out \/ Again
      BY <2>2 DEF CallWhole, CallPiece, Call, EndOfPiece, Out, Again, caller
    <2> QED BY <2>1, <2>2 DEF TokenerNext, Parse, Character
  <1>2. text' = text /\ strict' = strict
    BY TextStays
  <1>3. CASE Excused
    BY <1>1, <1>2, <1>3 DEF Excused, Following
  <1>4. CASE Character
    <2>1. pc = "parse"
      BY <1>4, InLoop
    <2>2. ASSUME Doomed PROVE Following(R)'
      BY <1>4, <2>2, DoomedChar DEF Following
    <2>3. ASSUME NEW x \in R, Abreast(x) PROVE Following(R)'
      BY <1>4, <2>3, AbreastChar DEF Following
    <2>4. ASSUME NEW x \in R, Ahead(x) PROVE Following(R)'
      BY <1>4, <2>4, AheadChar DEF Following
    <2>5. ~Settled /\ \A x \in R : ~Cut(x) /\ ~Given(x)
      BY <2>1 DEF Settled, Cut, Given
    <2> QED BY <1>1, <1>2, <1>3, <2>2, <2>3, <2>4, <2>5 DEF Following
  <1>5. CASE EndOfPiece
    <2>1. pc = "parse" /\ char_offset = len /\ len \in Nat
      BY <1>5, PositionIs DEF EndOfPiece, Second
    <2>2. ~Doomed
      BY <2>1 DEF Doomed
    <2>3. ASSUME NEW x \in R, Abreast(x) PROVE Following(R)'
      BY <1>5, <2>3, AbreastEnd DEF Following
    <2>4. ASSUME NEW x \in R, Ahead(x) PROVE Following(R)'
      BY <1>5, <2>4, AheadEnd DEF Following
    <2>5. ~Settled /\ \A x \in R : ~Cut(x) /\ ~Given(x)
      BY <2>1 DEF Settled, Cut, Given
    <2> QED BY <1>1, <1>2, <1>3, <2>2, <2>3, <2>4, <2>5 DEF Following
  <1>6. CASE Out
    <2>1. pc = "out"
      BY <1>6 DEF Out
    <2>2. ASSUME Doomed PROVE Following(R)'
      BY <1>6, <2>2, DoomedOut DEF Following
    <2>3. ASSUME NEW x \in R, Abreast(x) PROVE Following(R)'
      BY <1>6, <2>3, AbreastOut DEF Following
    <2>4. ASSUME NEW x \in R, Cut(x) PROVE Following(R)'
      BY <1>6, <2>4, CutOut DEF Following
    <2>5. ASSUME NEW x \in R, Given(x) PROVE Following(R)'
      BY <1>6, <2>5, GivenOut DEF Following
    <2>6. ASSUME NEW x \in R, Ahead(x) PROVE Following(R)'
      BY <1>6, <2>6, AheadOut DEF Following
    <2>7. ~Settled
      BY <2>1 DEF Settled
    <2> QED BY <1>1, <1>2, <1>3, <2>2, <2>3, <2>4, <2>5, <2>6, <2>7 DEF Following
  <1>7. CASE CallPiece
    <2>1. PICK n \in 1..Remaining : Call(n)
      BY <1>7 DEF CallPiece
    <2>2. pc = "idle"
      BY <2>1 DEF Call
    <2>3. ASSUME NEW x \in R, Abreast(x) PROVE Following(R)'
      BY <2>1, <2>3, AbreastCall DEF Following
    <2>4. ASSUME NEW x \in R, Cut(x) PROVE Following(R)'
      BY <2>1, <2>4, CutCall DEF Following
    <2>5. ASSUME NEW x \in R, Ahead(x) PROVE Following(R)'
      BY <2>1, <2>5, AheadCall DEF Following
    <2>6. ~Settled /\ ~Doomed /\ \A x \in R : ~Given(x)
      BY <2>2 DEF Settled, Doomed, Given
    <2> QED BY <1>1, <1>2, <1>3, <2>3, <2>4, <2>5, <2>6 DEF Following
  <1>8. ~CallWhole /\ ~Again
    BY DEF CallWhole, Again
  <1> QED BY <1>1, <1>2, <1>4, <1>5, <1>6, <1>7, <1>8 DEF TokenerNext, Parse, Character

LEMMA FollowingSame ==
    ASSUME NEW R, Following(R), UNCHANGED tokenerVars
    PROVE  Following(R)'
  <1>1. /\ UNCHANGED <<State, Saved, Level, Outcome>>
        /\ UNCHANGED <<text, strict, tok, char_offset, err, obj, pc, from, len, values, whole>>
    BY DEF tokenerVars, State, Saved, Level, Outcome
  <1>2. ASSUME NEW x \in R
        PROVE  (Abreast(x) => Abreast(x)') /\ (Cut(x) => Cut(x)') /\ (Given(x) => Given(x)')
               /\ (Ahead(x) => Ahead(x)')
    BY <1>1 DEF Abreast, Cut, Given, Ahead, Waits
  <1>3. (Excused => Excused') /\ (Settled => Settled') /\ (Doomed => Doomed')
    BY <1>1 DEF Excused, Settled, Doomed
  <1> QED BY <1>2, <1>3 DEF Following

CutFacts == TokInv /\ NoPair /\ NoValue /\ CutInv

LEMMA CutInvInit == TokenerInit => CutFacts
  <1> SUFFICES ASSUME TokenerInit PROVE CutFacts
    OBVIOUS
  <1>1. NoPair /\ NoValue /\ whole = <<>>
    BY DEF TokenerInit, NoPair, NoValue
  <1>2. Now = Begin
    BY DEF TokenerInit, Now, Begin
  <1>3. Path(text, strict, {Begin}, Now)
    BY <1>2 DEF Path
  <1> QED BY <1>1, <1>3, TokInvInit DEF CutFacts, CutInv

LEMMA CutInvNext ==
    ASSUME CutFacts, [TokenerNext]_tokenerVars
    PROVE  CutFacts'
  <1>1. TokInv' /\ NoPair' /\ NoValue'
    BY TokInvNext, NoPairNext, NoValueNext DEF CutFacts
  <1>2. SUFFICES ASSUME ~Fragile PROVE CutInv'
    BY <1>1, TextStays DEF CutFacts, CutInv, Fragile
  <1>3. UNCHANGED <<text, strict>>
    BY TextStays
  <1>4. CASE whole = <<>> /\ \E R : Path(text, strict, R, Now)
    <2>1. CASE UNCHANGED tokenerVars
      <3>1. Now' = Now /\ whole' = whole
        BY <2>1 DEF tokenerVars, Now
      <3> QED BY <1>3, <1>4, <3>1 DEF CutInv
    <2>2. CASE TokenerNext /\ ~Again
      BY <1>2, <1>4, <2>2, WholePath DEF CutFacts, CutInv
    <2>3. CASE Again
      <3>1. PICK R : Path(text, strict, R, Now)
        BY <1>4
      <3>2. PICK f : f = Now
        OBVIOUS
      <3>3. Abreast(Begin)' /\ whole' = OutcomeOf(f) /\ f.pc = "end" /\ Begin \in R
        BY <2>3, <3>1, <3>2, AgainFollows DEF CutFacts, Path
      <3>4. Following(R)'
        BY <3>3 DEF Following
      <3>5. Path(text', strict', R, f)
        BY <1>3, <3>1, <3>2
      <3> QED BY <3>3, <3>4, <3>5 DEF CutInv
    <2> QED BY <2>1, <2>2, <2>3
  <1>5. ASSUME NEW R, NEW f, Path(text, strict, R, f), f.pc = "end", whole = OutcomeOf(f),
               Following(R)
        PROVE  CutInv'
    <2>1. Second(R, f) /\ whole # <<>>
      BY <1>2, <1>5 DEF CutFacts, Second, OutcomeOf
    <2>2. CASE TokenerNext
      <3>1. Following(R)' /\ whole' = whole
        BY <1>5, <2>1, <2>2, FollowingNext
      <3> QED BY <1>3, <1>5, <3>1 DEF CutInv
    <2>3. CASE UNCHANGED tokenerVars
      <3>1. Following(R)' /\ whole' = whole
        BY <1>5, <2>3, FollowingSame DEF tokenerVars
      <3> QED BY <1>3, <1>5, <3>1 DEF CutInv
    <2> QED BY <2>2, <2>3
  <1> QED BY <1>2, <1>4, <1>5 DEF CutFacts, CutInv

LEMMA CutInvShows == CutFacts => CutsDoNotMatter
  <1> SUFFICES ASSUME CutFacts, pc = "end", whole # <<>>, ~Fragile
               PROVE  Outcome = whole \/ Excused
                      \/ (Last(text) = NUL /\ whole[2] = "complete"
                           /\ Outcome = <<whole[1], "eof">>)
    BY DEF CutsDoNotMatter, Excused
  <1>1. PICK R, f : /\ Path(text, strict, R, f) /\ f.pc = "end"
                    /\ whole = OutcomeOf(f) /\ Following(R)
    BY DEF CutFacts, CutInv
  <1>2. Second(R, f)
    BY <1>1 DEF CutFacts, Second
  <1>3. ASSUME NEW x \in R, Abreast(x) PROVE Outcome = whole
    <2>1. x = f
      BY <1>2, <1>3, OnPath DEF Abreast
    <2>2. x.err = err /\ x.values = values /\ x.tok.depth = tok.depth
            /\ LevelOf(x.tok) = LevelOf(tok)
      BY <1>3 DEF Abreast, Same, LevelOf
    <2> QED BY <1>1, <2>1, <2>2, OutcomeIs
  <1>4. ~Doomed /\ \A x \in R : ~Cut(x) /\ ~Given(x) /\ ~Ahead(x)
    BY DEF Doomed, Cut, Given, Ahead
  <1> QED BY <1>1, <1>3, <1>4 DEF Following, Settled

\* What json_tokener_parse_ex makes of a text in pieces is what it makes of it in one
\* piece, wherever it is cut and at every step: the values and the error at the end are
\* the same but for the exceptions that CutsDoNotMatter names (json_tokener.c, 210-218,
\* 258-261 and 849-882).
THEOREM CutsDoNotMatterAlways == TokenerSpec => []CutsDoNotMatter
  BY CutInvInit, CutInvNext, CutInvShows, PTL DEF TokenerSpec
=============================================================================
