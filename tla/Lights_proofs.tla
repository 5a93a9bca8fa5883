---------------------------- MODULE Lights_proofs ----------------------------
(* Theorems about the light service, for any colours, flashes, displays and    *)
(* writes that fail.                                                           *)
EXTENDS Lights, TLAPS

-----------------------------------------------------------------------------
(* What the writes that a call has left will make of a node.                *)

Value == Int \cup Seq(Int)
Writes == [node : Node, value : Value, onFail : {"ignore", "off", "return"}]

\* A write of w changes node m, and gives it a value.
Affects(w, m) ==
    \/ w.node = m
    \/ w.node[2] = "brightness" /\ w.node[1] \in Part /\ m = <<w.node[1], "blink">>
Gives(w, m) == IF w.node = m THEN w.value ELSE 0

\* No write of s changes node m; the last one that does leaves v there.
Clear(s, m) == \A i \in 1..Len(s) : ~Affects(s[i], m)
Leaves(s, m, v) ==
    \E i \in 1..Len(s) : /\ Affects(s[i], m) /\ Gives(s[i], m) = v
                         /\ \A j \in 1..Len(s) : j > i => ~Affects(s[j], m)

\* Node m will hold v when the call in progress has ended.
Ends(m, v) == Leaves(todo, m, v) \/ (Clear(todo, m) /\ node[m] = v)

LEMMA WrittenNode ==
    ASSUME NEW w \in Writes, NEW m \in Node
    PROVE  Written(w.node, w.value)[m] = IF Affects(w, m) THEN Gives(w, m) ELSE node[m]
  BY DEF Written, Affects, Gives, Writes

\* A write that succeeds is what the rest of the call need not do.
LEMMA WriteEnds ==
    ASSUME todo \in Seq(Writes), NEW m \in Node, NEW v, Write, Ends(m, v)
    PROVE  Ends(m, v)'
  <1>1. /\ todo # <<>> /\ todo' = Tail(todo) /\ todo[1] \in Writes
        /\ node' = Written(todo[1].node, todo[1].value)
    BY DEF Write, AtRest
  <1>2. /\ Len(todo') = Len(todo) - 1 /\ Len(todo) \in Nat \ {0}
        /\ \A i \in 1..Len(todo') : todo'[i] = todo[i + 1]
    BY <1>1
  <1>3. node'[m] = IF Affects(todo[1], m) THEN Gives(todo[1], m) ELSE node[m]
    BY <1>1, WrittenNode
  <1>4. CASE Clear(todo, m) /\ node[m] = v
    BY <1>2, <1>3, <1>4 DEF Ends, Clear
  <1>5. ASSUME NEW i \in 1..Len(todo), Affects(todo[i], m), Gives(todo[i], m) = v,
               \A j \in 1..Len(todo) : j > i => ~Affects(todo[j], m)
        PROVE  Ends(m, v)'
    <2>1. \A j \in 1..Len(todo') : j + 1 \in 1..Len(todo) /\ (j + 1 > i <=> j > i - 1)
      BY <1>2
    <2>2. CASE i = 1
      <3>1. Clear(todo', m)
        BY <1>2, <1>5, <2>1, <2>2 DEF Clear
      <3> QED BY <1>3, <1>5, <2>2, <3>1 DEF Ends
    <2>3. CASE i # 1
      <3>1. i - 1 \in 1..Len(todo') /\ todo'[i - 1] = todo[i]
        BY <1>2, <2>3
      <3>2. Leaves(todo', m, v)
        BY <1>2, <1>5, <2>1, <3>1 DEF Leaves
      <3> QED BY <3>2 DEF Ends
    <2> QED BY <2>2, <2>3
  <1> QED BY <1>4, <1>5 DEF Ends, Leaves

\* A write that would not change the node may as well be left out.
LEMMA SkipEnds ==
    ASSUME todo \in Seq(Writes), todo # <<>>, NEW m, NEW v, ~Affects(todo[1], m), Ends(m, v),
           todo' = Tail(todo), node' = node
    PROVE  Ends(m, v)'
  <1>2. /\ Len(todo') = Len(todo) - 1 /\ Len(todo) \in Nat \ {0}
        /\ \A i \in 1..Len(todo') : todo'[i] = todo[i + 1]
    OBVIOUS
  <1>4. CASE Clear(todo, m) /\ node[m] = v
    BY <1>2, <1>4 DEF Ends, Clear
  <1>5. ASSUME NEW i \in 1..Len(todo), Affects(todo[i], m), Gives(todo[i], m) = v,
               \A j \in 1..Len(todo) : j > i => ~Affects(todo[j], m)
        PROVE  Ends(m, v)'
    <2>1. \A j \in 1..Len(todo') : j + 1 \in 1..Len(todo) /\ (j + 1 > i <=> j > i - 1)
      BY <1>2
    <2>2. i - 1 \in 1..Len(todo') /\ todo'[i - 1] = todo[i]
      BY <1>2, <1>5
    <2>3. Leaves(todo', m, v)
      BY <1>2, <1>5, <2>1, <2>2 DEF Leaves
    <2> QED BY <2>3 DEF Ends
  <1> QED BY <1>4, <1>5 DEF Ends, Leaves

LEMMA RestEnds == ASSUME todo = <<>>, NEW m, NEW v PROVE Ends(m, v) <=> node[m] = v
  BY DEF Ends, Leaves, Clear

\* Writes one after the other.
LEMMA ClearConcat ==
    ASSUME NEW s \in Seq(Writes), NEW t \in Seq(Writes), NEW m, Clear(s, m), Clear(t, m)
    PROVE  Clear(s \o t, m)
  BY DEF Clear

LEMMA LeavesConcat ==
    ASSUME NEW s \in Seq(Writes), NEW t \in Seq(Writes), NEW m, NEW v,
           Leaves(t, m, v) \/ (Leaves(s, m, v) /\ Clear(t, m))
    PROVE  Leaves(s \o t, m, v)
  <1>1. CASE Leaves(t, m, v)
    <2>1. PICK i \in 1..Len(t) :
             /\ Affects(t[i], m) /\ Gives(t[i], m) = v
             /\ \A j \in 1..Len(t) : j > i => ~Affects(t[j], m)
      BY <1>1 DEF Leaves
    <2>2. Len(s) + i \in 1..Len(s \o t) /\ (s \o t)[Len(s) + i] = t[i]
      OBVIOUS
    <2>3. ASSUME NEW j \in 1..Len(s \o t), j > Len(s) + i PROVE ~Affects((s \o t)[j], m)
      <3>1. j - Len(s) \in 1..Len(t) /\ j - Len(s) > i /\ (s \o t)[j] = t[j - Len(s)]
        BY <2>3
      <3> QED BY <2>1, <3>1
    <2> QED BY <2>1, <2>2, <2>3 DEF Leaves
  <1>2. CASE Leaves(s, m, v) /\ Clear(t, m)
    <2>1. PICK i \in 1..Len(s) :
             /\ Affects(s[i], m) /\ Gives(s[i], m) = v
             /\ \A j \in 1..Len(s) : j > i => ~Affects(s[j], m)
      BY <1>2 DEF Leaves
    <2>2. i \in 1..Len(s \o t) /\ (s \o t)[i] = s[i]
      OBVIOUS
    <2>3. ASSUME NEW j \in 1..Len(s \o t), j > i PROVE ~Affects((s \o t)[j], m)
      <3>1. CASE j <= Len(s)
        BY <2>1, <2>3, <3>1
      <3>2. CASE j > Len(s)
        <4>1. j - Len(s) \in 1..Len(t) /\ (s \o t)[j] = t[j - Len(s)]
          BY <3>2
        <4> QED BY <1>2, <4>1 DEF Clear
      <3> QED BY <3>1, <3>2
    <2> QED BY <2>1, <2>2, <2>3 DEF Leaves
  <1> QED BY <1>1, <1>2

LEMMA OneWrite ==
    ASSUME NEW w \in Writes, NEW m
    PROVE  /\ <<w>> \in Seq(Writes)
           /\ ~Affects(w, m) => Clear(<<w>>, m)
           /\ Affects(w, m) => Leaves(<<w>>, m, Gives(w, m))
  BY DEF Clear, Leaves

LEMMA NoWrites == <<>> \in Seq(Writes) /\ \A m : Clear(<<>>, m)
  BY DEF Clear

\* The writes of a component show unless those of another one change the node.
LEMMA EachPartLeaves ==
    ASSUME NEW writes \in [Part -> Seq(Writes)], NEW m
    PROVE  /\ EachPart(writes) \in Seq(Writes)
           /\ (\A q \in Part : Clear(writes[q], m)) => Clear(EachPart(writes), m)
           /\ \A v : \A p \in Part :
                 Leaves(writes[p], m, v) /\ (\A q \in Part \ {p} : Clear(writes[q], m))
                    => Leaves(EachPart(writes), m, v)
  <1>1. /\ writes["red"] \in Seq(Writes) /\ writes["green"] \in Seq(Writes)
        /\ writes["blue"] \in Seq(Writes)
        /\ writes["red"] \o writes["green"] \in Seq(Writes)
        /\ "red" \in Part /\ "green" \in Part /\ "blue" \in Part
    BY DEF Part
  <1>2. EachPart(writes) = (writes["red"] \o writes["green"]) \o writes["blue"]
    BY DEF EachPart
  <1>3. (\A q \in Part : Clear(writes[q], m)) => Clear(EachPart(writes), m)
    BY <1>1, <1>2, ClearConcat
  <1>4. ASSUME NEW v, NEW p \in Part,
               Leaves(writes[p], m, v), \A q \in Part \ {p} : Clear(writes[q], m)
        PROVE  Leaves(EachPart(writes), m, v)
    <2>1. CASE p = "blue"
      BY <1>1, <1>2, <1>4, <2>1, LeavesConcat
    <2>2. CASE p # "blue"
      <3>1. Clear(writes["blue"], m)
        BY <1>1, <1>4, <2>2
      <3>2. Leaves(writes["red"] \o writes["green"], m, v)
        <4>1. CASE p = "green"
          BY <1>1, <1>4, <4>1, LeavesConcat
        <4>2. CASE p = "red"
          <5>1. Clear(writes["green"], m)
            BY <1>1, <1>4, <4>2
          <5> QED BY <1>1, <1>4, <4>2, <5>1, LeavesConcat
        <4> QED BY <2>2, <4>1, <4>2 DEF Part
      <3> QED BY <1>1, <1>2, <3>1, <3>2, LeavesConcat
    <2> QED BY <2>1, <2>2
  <1> QED BY <1>1, <1>2, <1>3, <1>4

-----------------------------------------------------------------------------
(* The writes of a request for the LED.                                     *)

LedWrites ==
    {w \in Writes : /\ Unit(w.node) = "led" /\ w.onFail # "return"
                    /\ w.onFail = "off" => \E p \in Part : w.node = <<p, "blink">>}

Kind == {"brightness", "duty_pcts", "pause_lo", "pause_hi", "blink"}
States == [color : [Part -> 0..255],
           flash : [mode : {"NONE", "TIMED", "HARDWARE"}, onMs : Int, offMs : Int]]

LEMMA LedStates == LedState \subseteq States
  BY FlashAssumption, ColorAssumption DEF LedState, States, Unlit

\* A node of a component is not one of the others.
LEMMA PartNodes ==
    ASSUME NEW p \in Part, NEW k \in Kind
    PROVE  /\ <<p, k>> \in Node /\ <<p, k>> # RGB_BLINK_FILE /\ Unit(<<p, k>>) = "led"
           /\ RGB_BLINK_FILE \in Node /\ Unit(RGB_BLINK_FILE) = "led"
           /\ RGB_BLINK_FILE[1] \notin Part
  BY DEF Part, Kind, Node, RGB_BLINK_FILE, LCD_FILE, PERSISTENCE_FILE, Unit

LEMMA EachPartOf ==
    ASSUME NEW S, NEW writes \in [Part -> Seq(S)]
    PROVE  EachPart(writes) \in Seq(S)
  <1>1. "red" \in Part /\ "green" \in Part /\ "blue" \in Part
    BY DEF Part
  <1> QED BY <1>1 DEF EachPart

\* One write for each component.
LEMMA PartWrites ==
    ASSUME NEW k \in Kind, NEW val \in [Part -> Value],
           NEW writes, writes = [p \in Part |-> <<W(<<p, k>>, val[p])>>]
    PROVE  /\ EachPart(writes) \in Seq(LedWrites)
           /\ \A p \in Part : Leaves(EachPart(writes), <<p, k>>, val[p])
           /\ k = "brightness" => \A p \in Part : Leaves(EachPart(writes), <<p, "blink">>, 0)
           /\ \A m : (\A p \in Part : m # <<p, k>> /\ (k = "brightness" => m # <<p, "blink">>))
                        => Clear(EachPart(writes), m)
  <1>1. ASSUME NEW p \in Part
        PROVE  W(<<p, k>>, val[p]) \in LedWrites /\ W(<<p, k>>, val[p]) \in Writes
    BY <1>1, PartNodes DEF W, LedWrites, Writes
  <1>2. writes \in [Part -> Seq(LedWrites)] /\ writes \in [Part -> Seq(Writes)]
    <2>1. ASSUME NEW p \in Part PROVE writes[p] \in Seq(LedWrites) /\ writes[p] \in Seq(Writes)
      <3>1. writes[p] = <<W(<<p, k>>, val[p])>>
        OBVIOUS
      <3> QED BY <1>1, <3>1
    <2> QED BY <2>1
  <1>3. \A p \in Part : \A m : Affects(W(<<p, k>>, val[p]), m) <=>
           m = <<p, k>> \/ (k = "brightness" /\ m = <<p, "blink">>)
    BY DEF Affects, W
  <1>4. \A p \in Part : /\ Gives(W(<<p, k>>, val[p]), <<p, k>>) = val[p]
                        /\ k = "brightness" => Gives(W(<<p, k>>, val[p]), <<p, "blink">>) = 0
    BY DEF Gives, W
  <1>5. \A p \in Part : writes[p] = <<W(<<p, k>>, val[p])>>
    OBVIOUS
  <1>6. \A p \in Part : \A m : ~(m = <<p, k>> \/ (k = "brightness" /\ m = <<p, "blink">>))
                                  => Clear(writes[p], m)
    BY <1>1, <1>3, <1>5, OneWrite
  <1>7. \A p \in Part : /\ Leaves(writes[p], <<p, k>>, val[p])
                        /\ k = "brightness" => Leaves(writes[p], <<p, "blink">>, 0)
    <2>1. ASSUME NEW p \in Part
          PROVE  /\ Leaves(writes[p], <<p, k>>, val[p])
                 /\ k = "brightness" => Leaves(writes[p], <<p, "blink">>, 0)
      <3> DEFINE w == W(<<p, k>>, val[p])
      <3>1. w \in Writes /\ writes[p] = <<w>>
        BY <1>1, <1>5
      <3>2. /\ Affects(w, <<p, k>>) /\ Gives(w, <<p, k>>) = val[p]
            /\ k = "brightness" => Affects(w, <<p, "blink">>) /\ Gives(w, <<p, "blink">>) = 0
        BY <1>3, <1>4
      <3> HIDE DEF w
      <3>3. Leaves(<<w>>, <<p, k>>, val[p])
        BY <3>1, <3>2, OneWrite
      <3>4. k = "brightness" => Leaves(<<w>>, <<p, "blink">>, 0)
        BY <3>1, <3>2, OneWrite
      <3> QED BY <3>1, <3>3, <3>4
    <2> QED BY <2>1
  <1>8. EachPart(writes) \in Seq(LedWrites)
    BY <1>2, EachPartOf
  <1>9. ASSUME NEW p \in Part
        PROVE  /\ Leaves(EachPart(writes), <<p, k>>, val[p])
               /\ k = "brightness" => Leaves(EachPart(writes), <<p, "blink">>, 0)
    <2>1. \A q \in Part \ {p} : /\ Clear(writes[q], <<p, k>>)
                                /\ k = "brightness" => Clear(writes[q], <<p, "blink">>)
      <3>1. ASSUME NEW q \in Part \ {p}
            PROVE  /\ ~(<<p, k>> = <<q, k>> \/ (k = "brightness" /\ <<p, k>> = <<q, "blink">>))
                   /\ ~(<<p, "blink">> = <<q, k>> \/ (k = "brightness" /\ <<p, "blink">> = <<q, "blink">>))
        OBVIOUS
      <3> QED BY <1>6, <3>1
    <2>2. /\ Leaves(writes[p], <<p, k>>, val[p])
          /\ k = "brightness" => Leaves(writes[p], <<p, "blink">>, 0)
      BY <1>7
    <2>3. Leaves(EachPart(writes), <<p, k>>, val[p])
      BY <1>2, <2>1, <2>2, EachPartLeaves
    <2>4. k = "brightness" => Leaves(EachPart(writes), <<p, "blink">>, 0)
      BY <1>2, <2>1, <2>2, EachPartLeaves
    <2> QED BY <2>3, <2>4
  <1>10. ASSUME NEW m, \A p \in Part : m # <<p, k>> /\ (k = "brightness" => m # <<p, "blink">>)
         PROVE  Clear(EachPart(writes), m)
    <2>1. \A p \in Part : Clear(writes[p], m)
      BY <1>6, <1>10
    <2> QED BY <1>2, <2>1, EachPartLeaves
  <1> QED BY <1>8, <1>9, <1>10

\* What a request has the nodes of the LED hold: <<node, value>>.
Goals(rgb, state) ==
    IF ~Blinks(state)
    THEN {<< <<p, "brightness">>, state.color[p]>> : p \in Part}
           \cup {<< <<p, "blink">>, 0>> : p \in Part}
           \cup (IF rgb THEN {<<RGB_BLINK_FILE, 0>>} ELSE {})
    ELSE IF rgb
    THEN {<<RGB_BLINK_FILE, 1>>}
           \cup {<< <<p, "duty_pcts">>, getScaledDutyPcts(state.color[p])>> : p \in Part}
           \cup {<< <<p, "pause_lo">>, state.flash.offMs>> : p \in Part}
           \cup {<< <<p, "pause_hi">>, state.flash.onMs>> : p \in Part}
    ELSE {<< <<p, "blink">>, IF state.flash.onMs = state.flash.offMs THEN 2 ELSE 1>> :
             p \in {q \in Part : state.color[q] # 0}}

\* The writes of a request reach all of its goals.
Reaches(s, rgb, state) ==
    s \in Seq(LedWrites) /\ \A g \in Goals(rgb, state) : Leaves(s, g[1], g[2])

LEMMA LedSeq == \A s \in Seq(LedWrites) : s \in Seq(Writes)
  BY DEF LedWrites

LEMMA StopBlinkWrites ==
    \A found \in BOOLEAN :
        /\ StopBlink(found) \in Seq(LedWrites)
        /\ found => Leaves(StopBlink(found), RGB_BLINK_FILE, 0)
        /\ \A m : m # RGB_BLINK_FILE => Clear(StopBlink(found), m)
  <1> DEFINE w == W(RGB_BLINK_FILE, 0)
  <1>1. /\ w \in LedWrites /\ w \in Writes
        /\ \A m : Affects(w, m) <=> m = RGB_BLINK_FILE
        /\ Gives(w, RGB_BLINK_FILE) = 0
    <2>1. w \in Writes
      BY PartNodes DEF W, Writes, Value, Kind, Part, RGB_BLINK_FILE, Node
    <2> QED BY <2>1 DEF LedWrites, W, Unit, RGB_BLINK_FILE, LCD_FILE, PERSISTENCE_FILE, Affects,
                       Gives, Part
  <1>2. \A found \in BOOLEAN : StopBlink(found) = IF found THEN <<w>> ELSE <<>>
    BY DEF StopBlink
  <1> HIDE DEF w
  <1>3. /\ <<w>> \in Seq(LedWrites) /\ <<>> \in Seq(LedWrites)
        /\ Leaves(<<w>>, RGB_BLINK_FILE, 0)
        /\ \A m : m # RGB_BLINK_FILE => Clear(<<w>>, m)
        /\ \A m : Clear(<<>>, m)
    BY <1>1, OneWrite, NoWrites
  <1>4. StopBlink(TRUE) = <<w>> /\ StopBlink(FALSE) = <<>>
    BY <1>2
  <1> QED BY <1>3, <1>4

\* A component that is to blink is told so.
LEMMA BlinkWrites ==
    ASSUME NEW color \in [Part -> 0..255], NEW v \in {1, 2}, NEW writes,
           writes = [p \in Part |-> IF color[p] = 0 THEN <<>>
                                    ELSE <<WOr(<<p, "blink">>, v, "off")>>]
    PROVE  /\ EachPart(writes) \in Seq(LedWrites)
           /\ \A p \in Part : color[p] # 0 => Leaves(EachPart(writes), <<p, "blink">>, v)
  <1>1. ASSUME NEW p \in Part
        PROVE  /\ WOr(<<p, "blink">>, v, "off") \in LedWrites
               /\ WOr(<<p, "blink">>, v, "off") \in Writes
               /\ \A m : Affects(WOr(<<p, "blink">>, v, "off"), m) <=> m = <<p, "blink">>
               /\ Gives(WOr(<<p, "blink">>, v, "off"), <<p, "blink">>) = v
    <2>1. <<p, "blink">> \in Node /\ Unit(<<p, "blink">>) = "led"
      BY PartNodes DEF Kind
    <2> QED BY <2>1 DEF WOr, LedWrites, Writes, Value, Affects, Gives
  <1>2. ASSUME NEW p \in Part
        PROVE  /\ writes[p] \in Seq(LedWrites) /\ writes[p] \in Seq(Writes)
               /\ \A m : m # <<p, "blink">> => Clear(writes[p], m)
               /\ color[p] # 0 => Leaves(writes[p], <<p, "blink">>, v)
    <2> DEFINE w == WOr(<<p, "blink">>, v, "off")
    <2>1. /\ w \in LedWrites /\ w \in Writes
          /\ \A m : Affects(w, m) <=> m = <<p, "blink">>
          /\ Gives(w, <<p, "blink">>) = v
      BY <1>1
    <2>2. writes[p] = IF color[p] = 0 THEN <<>> ELSE <<w>>
      OBVIOUS
    <2> HIDE DEF w
    <2> QED BY <2>1, <2>2, OneWrite, NoWrites
  <1>3. writes \in [Part -> Seq(LedWrites)] /\ writes \in [Part -> Seq(Writes)]
    BY <1>2
  <1>4. ASSUME NEW p \in Part, color[p] # 0 PROVE Leaves(EachPart(writes), <<p, "blink">>, v)
    <2>1. \A q \in Part \ {p} : Clear(writes[q], <<p, "blink">>)
      <3>1. ASSUME NEW q \in Part \ {p} PROVE <<p, "blink">> # <<q, "blink">>
        OBVIOUS
      <3> QED BY <1>2, <3>1
    <2> QED BY <1>2, <1>3, <1>4, <2>1, EachPartLeaves
  <1> QED BY <1>3, <1>4, EachPartOf

LEMMA DutyPcts == ASSUME NEW b \in 0..255 PROVE getScaledDutyPcts(b) \in Value
  <1>1. /\ Len(Ramp) = 8 /\ Ramp \in Seq(Int)
    BY DEF Ramp
  <1>2. [i \in DOMAIN Ramp |-> (Ramp[i] * b) \div 255] \in Seq(Int)
    <2>1. DOMAIN Ramp = 1..8
      BY <1>1
    <2>2. \A i \in 1..8 : Ramp[i] * b \in Int
      <3>1. ASSUME NEW i \in 1..8 PROVE Ramp[i] \in Int
        BY DEF Ramp
      <3>3. b \in Int
        OBVIOUS
      <3>2. \A x, y \in Int : x * y \in Int
        OBVIOUS
      <3> QED BY <3>1, <3>2, <3>3
    <2>3. \A i \in 1..8 : (Ramp[i] * b) \div 255 \in Int
      BY <2>2
    <2>4. [i \in 1..8 |-> (Ramp[i] * b) \div 255] \in [1..8 -> Int]
      BY <2>3
    <2> QED BY <2>1, <2>4
  <1>3. <<0>> \in Seq(Int)
    OBVIOUS
  <1> QED BY <1>2, <1>3 DEF getScaledDutyPcts, Value

LEMMA SpeakerReaches ==
    ASSUME NEW state \in States, NEW rgb \in BOOLEAN
    PROVE  /\ Reaches(SpeakerWrites(state, rgb, rgb), rgb, state)
           /\ \A first \in BOOLEAN : SpeakerWrites(state, first, rgb) \in Seq(LedWrites)
  <1> DEFINE on == state.flash.onMs
             off == state.flash.offMs
             color == [p \in Part |-> state.color[p]]
             Steady == [p \in Part |-> <<W(<<p, "brightness">>, state.color[p])>>]
             duty == [p \in Part |-> getScaledDutyPcts(state.color[p])]
             Duty == [p \in Part |-> <<W(<<p, "duty_pcts">>, getScaledDutyPcts(state.color[p]))>>]
             low == [p \in Part |-> off]
             Low == [p \in Part |-> <<W(<<p, "pause_lo">>, off)>>]
             high == [p \in Part |-> on]
             High == [p \in Part |-> <<W(<<p, "pause_hi">>, on)>>]
             v == IF on = off THEN 2 ELSE 1
             Blink == [p \in Part |-> IF state.color[p] = 0 THEN <<>>
                                      ELSE <<WOr(<<p, "blink">>, v, "off")>>]
  <1>0. /\ state.color \in [Part -> 0..255] /\ on \in Int /\ off \in Int
        /\ \A p \in Part : state.color[p] \in 0..255
    BY DEF States
  <1>1. \A first \in BOOLEAN : SpeakerWrites(state, first, rgb) =
           StopBlink(first) \o
           (IF ~Blinks(state) THEN EachPart(Steady)
            ELSE IF rgb
            THEN EachPart(Duty) \o EachPart(Low) \o EachPart(High) \o <<W(RGB_BLINK_FILE, 1)>>
            ELSE EachPart(Blink))
    BY DEF SpeakerWrites
  <1> DEFINE Stop == StopBlink(rgb)
  <1>5. /\ Stop \in Seq(LedWrites)
        /\ rgb => Leaves(Stop, RGB_BLINK_FILE, 0)
        /\ \A m : m # RGB_BLINK_FILE => Clear(Stop, m)
        /\ \A first \in BOOLEAN : StopBlink(first) \in Seq(LedWrites)
    BY StopBlinkWrites
  <1>6. ASSUME NEW s \in Seq(LedWrites), NEW first \in BOOLEAN
        PROVE  StopBlink(first) \o s \in Seq(LedWrites)
    BY <1>5
  <1>2. CASE ~Blinks(state)
    <2>1. color \in [Part -> Value] /\ Steady = [p \in Part |-> <<W(<<p, "brightness">>, color[p])>>]
      <3>1. \A p \in Part : state.color[p] \in Value
        <4>1. \A p \in Part : state.color[p] \in Int
          BY <1>0
        <4> QED BY <4>1 DEF Value
      <3>2. \A p \in Part : color[p] = state.color[p]
        OBVIOUS
      <3> QED BY <3>1, <3>2
    <2> DEFINE s == EachPart(Steady)
    <2>2. /\ s \in Seq(LedWrites)
          /\ \A p \in Part : /\ Leaves(s, <<p, "brightness">>, color[p])
                             /\ Leaves(s, <<p, "blink">>, 0)
          /\ Clear(s, RGB_BLINK_FILE)
      <3> HIDE DEF Steady, color
      <3> QED BY <2>1, PartWrites, PartNodes DEF Kind
    <2>3. \A first \in BOOLEAN : SpeakerWrites(state, first, rgb) = StopBlink(first) \o s
      BY <1>1, <1>2
    <2>4. \A p \in Part : color[p] = state.color[p]
      OBVIOUS
    <2> HIDE DEF s, color, Steady
    <2>5. Stop \o s \in Seq(LedWrites)
      BY <1>5, <2>2
    <2>6. \A p \in Part : /\ Leaves(Stop \o s, <<p, "brightness">>, color[p])
                          /\ Leaves(Stop \o s, <<p, "blink">>, 0)
      BY <1>5, <2>2, LeavesConcat, LedSeq
    <2>7. rgb => Leaves(Stop \o s, RGB_BLINK_FILE, 0)
      BY <1>5, <2>2, LeavesConcat, LedSeq
    <2>8. ASSUME NEW g \in Goals(rgb, state) PROVE Leaves(Stop \o s, g[1], g[2])
      <3>1. \/ \E p \in Part : g = << <<p, "brightness">>, color[p]>> \/ g = << <<p, "blink">>, 0>>
            \/ rgb /\ g = <<RGB_BLINK_FILE, 0>>
        BY <1>2, <2>4, <2>8 DEF Goals
      <3>2. CASE rgb /\ g = <<RGB_BLINK_FILE, 0>>
        <4>1. g[1] = RGB_BLINK_FILE /\ g[2] = 0
          BY <3>2
        <4> QED BY <2>7, <3>2, <4>1
      <3>3. ASSUME NEW p \in Part, g = << <<p, "brightness">>, color[p]>> \/ g = << <<p, "blink">>, 0>>
            PROVE  Leaves(Stop \o s, g[1], g[2])
        <4>1. \/ g[1] = <<p, "brightness">> /\ g[2] = color[p]
              \/ g[1] = <<p, "blink">> /\ g[2] = 0
          BY <3>3
        <4> QED BY <2>6, <4>1
      <3> QED BY <3>1, <3>2, <3>3
    <2>9. \A first \in BOOLEAN : SpeakerWrites(state, first, rgb) \in Seq(LedWrites)
      BY <1>6, <2>2, <2>3
    <2>10. SpeakerWrites(state, rgb, rgb) = Stop \o s
      BY <2>3
    <2> QED BY <2>5, <2>8, <2>9, <2>10 DEF Reaches
  <1>3. CASE Blinks(state) /\ ~rgb
    <2> DEFINE s == EachPart(Blink)
    <2>1. /\ s \in Seq(LedWrites)
          /\ \A p \in Part : state.color[p] # 0 => Leaves(s, <<p, "blink">>, v)
      <3>1. v \in {1, 2}
        OBVIOUS
      <3> HIDE DEF v
      <3> QED BY <1>0, <3>1, BlinkWrites
    <2>2. \A first \in BOOLEAN : SpeakerWrites(state, first, rgb) = StopBlink(first) \o s
      BY <1>1, <1>3
    <2> HIDE DEF s
    <2>3. Stop \o s \in Seq(LedWrites)
      BY <1>5, <2>1
    <2>4. \A p \in Part : state.color[p] # 0 => Leaves(Stop \o s, <<p, "blink">>, v)
      BY <1>5, <2>1, LeavesConcat, LedSeq
    <2>5. \A first \in BOOLEAN : SpeakerWrites(state, first, rgb) \in Seq(LedWrites)
      BY <1>6, <2>1, <2>2
    <2>6. SpeakerWrites(state, rgb, rgb) = Stop \o s
      BY <2>2
    <2> QED BY <1>3, <2>3, <2>4, <2>5, <2>6 DEF Reaches, Goals
  <1>4. CASE Blinks(state) /\ rgb
    <2> DEFINE d == EachPart(Duty)
               l == EachPart(Low)
               h == EachPart(High)
               w == W(RGB_BLINK_FILE, 1)
               s == Stop \o (d \o l \o h \o <<w>>)
    <2>1. duty \in [Part -> Value] /\ low \in [Part -> Value] /\ high \in [Part -> Value]
      BY <1>0, DutyPcts DEF Value
    <2>2. /\ Duty = [p \in Part |-> <<W(<<p, "duty_pcts">>, duty[p])>>]
          /\ Low = [p \in Part |-> <<W(<<p, "pause_lo">>, low[p])>>]
          /\ High = [p \in Part |-> <<W(<<p, "pause_hi">>, high[p])>>]
      OBVIOUS
    <2>3. /\ d \in Seq(LedWrites) /\ l \in Seq(LedWrites) /\ h \in Seq(LedWrites)
          /\ \A p \in Part : /\ Leaves(d, <<p, "duty_pcts">>, duty[p])
                             /\ Leaves(l, <<p, "pause_lo">>, low[p])
                             /\ Leaves(h, <<p, "pause_hi">>, high[p])
                             /\ Clear(l, <<p, "duty_pcts">>) /\ Clear(h, <<p, "duty_pcts">>)
                             /\ Clear(h, <<p, "pause_lo">>)
      <3> HIDE DEF Duty, duty, Low, low, High, high
      <3>1. d \in Seq(LedWrites) /\ \A p \in Part : Leaves(d, <<p, "duty_pcts">>, duty[p])
        BY <2>1, <2>2, PartWrites DEF Kind
      <3>2. /\ l \in Seq(LedWrites) /\ \A p \in Part : Leaves(l, <<p, "pause_lo">>, low[p])
            /\ \A m : (\A p \in Part : m # <<p, "pause_lo">>) => Clear(l, m)
        BY <2>1, <2>2, PartWrites DEF Kind
      <3>3. /\ h \in Seq(LedWrites) /\ \A p \in Part : Leaves(h, <<p, "pause_hi">>, high[p])
            /\ \A m : (\A p \in Part : m # <<p, "pause_hi">>) => Clear(h, m)
        BY <2>1, <2>2, PartWrites DEF Kind
      <3>4. \A p, q \in Part : /\ <<p, "duty_pcts">> # <<q, "pause_lo">>
                               /\ <<p, "duty_pcts">> # <<q, "pause_hi">>
                               /\ <<p, "pause_lo">> # <<q, "pause_hi">>
        OBVIOUS
      <3> HIDE DEF d, l, h
      <3> QED BY <3>1, <3>2, <3>3, <3>4
    <2>4. /\ w \in LedWrites /\ w \in Writes /\ <<w>> \in Seq(LedWrites)
          /\ \A m : m # RGB_BLINK_FILE => Clear(<<w>>, m)
          /\ Leaves(<<w>>, RGB_BLINK_FILE, 1)
      <3>1. w \in Writes /\ w \in LedWrites
        BY DEF W, Writes, Value, LedWrites, Unit, RGB_BLINK_FILE, LCD_FILE, PERSISTENCE_FILE, Node
      <3>2. (\A m : Affects(w, m) <=> m = RGB_BLINK_FILE) /\ Gives(w, RGB_BLINK_FILE) = 1
        BY DEF W, Affects, Gives, RGB_BLINK_FILE, Part
      <3> HIDE DEF w
      <3> QED BY <3>1, <3>2, OneWrite
    <2>5. \A first \in BOOLEAN :
             SpeakerWrites(state, first, rgb) = StopBlink(first) \o (d \o l \o h \o <<w>>)
      BY <1>1, <1>4
    <2>13. SpeakerWrites(state, rgb, rgb) = s
      BY <2>5
    <2>6. \A p \in Part : /\ duty[p] = getScaledDutyPcts(state.color[p])
                          /\ low[p] = off /\ high[p] = on
      OBVIOUS
    <2> HIDE DEF d, l, h, w, duty, low, high
    <2>7. /\ d \o l \in Seq(LedWrites) /\ d \o l \o h \in Seq(LedWrites)
          /\ d \o l \o h \o <<w>> \in Seq(LedWrites) /\ s \in Seq(LedWrites)
      BY <2>3, <2>4, <1>5
    <2>8. ASSUME NEW p \in Part
          PROVE  /\ Leaves(d \o l \o h, <<p, "duty_pcts">>, duty[p])
                 /\ Leaves(d \o l \o h, <<p, "pause_lo">>, low[p])
                 /\ Leaves(d \o l \o h, <<p, "pause_hi">>, high[p])
      <3>1. /\ Leaves(d \o l, <<p, "duty_pcts">>, duty[p])
            /\ Leaves(d \o l, <<p, "pause_lo">>, low[p])
        BY <2>3, LeavesConcat, LedSeq
      <3> QED BY <2>3, <2>7, <3>1, LeavesConcat, LedSeq
    <2>9. ASSUME NEW m, NEW x, m # RGB_BLINK_FILE, Leaves(d \o l \o h, m, x)
          PROVE  Leaves(s, m, x)
      <3>1. Leaves(d \o l \o h \o <<w>>, m, x)
        BY <2>4, <2>7, <2>9, LeavesConcat, LedSeq
      <3> QED BY <2>7, <3>1, <1>5, LeavesConcat, LedSeq
    <2>10. Leaves(s, RGB_BLINK_FILE, 1)
      <3>1. Leaves(d \o l \o h \o <<w>>, RGB_BLINK_FILE, 1)
        BY <2>4, <2>7, LeavesConcat, LedSeq
      <3> QED BY <2>7, <3>1, <1>5, LeavesConcat, LedSeq
    <2>14. \A first \in BOOLEAN : SpeakerWrites(state, first, rgb) \in Seq(LedWrites)
      BY <1>6, <2>5, <2>7
    <2> HIDE DEF s
    <2>11. \A p \in Part : /\ Leaves(s, <<p, "duty_pcts">>, duty[p])
                           /\ Leaves(s, <<p, "pause_lo">>, low[p])
                           /\ Leaves(s, <<p, "pause_hi">>, high[p])
      BY <2>8, <2>9, PartNodes DEF Kind
    <2>12. ASSUME NEW g \in Goals(rgb, state) PROVE Leaves(s, g[1], g[2])
      <3>1. \/ g = <<RGB_BLINK_FILE, 1>>
            \/ \E p \in Part : \/ g = << <<p, "duty_pcts">>, duty[p]>>
                               \/ g = << <<p, "pause_lo">>, low[p]>>
                               \/ g = << <<p, "pause_hi">>, high[p]>>
        BY <1>4, <2>6, <2>12 DEF Goals
      <3>2. \/ g[1] = RGB_BLINK_FILE /\ g[2] = 1
            \/ \E p \in Part : \/ g[1] = <<p, "duty_pcts">> /\ g[2] = duty[p]
                               \/ g[1] = <<p, "pause_lo">> /\ g[2] = low[p]
                               \/ g[1] = <<p, "pause_hi">> /\ g[2] = high[p]
        BY <3>1
      <3> QED BY <2>10, <2>11, <3>2
    <2> QED BY <2>7, <2>12, <2>13, <2>14 DEF Reaches
  <1> QED BY <1>2, <1>3, <1>4

-----------------------------------------------------------------------------
(* The invariant.                                                           *)

LcdWrites ==
    {w \in Writes : /\ Unit(w.node) = "lcd" /\ w.onFail # "off"
                    /\ w.onFail = "return" => w.node = PERSISTENCE_FILE}

\* A call writes nodes of the LED or nodes of the display.  The service has the
\* last request for each light.
LightsTypes ==
    /\ device \in Devices
    /\ node \in [Node -> Value]
    /\ batteryState \in LedState /\ notificationState \in LedState
    /\ g_last_backlight_mode \in Brightness
    /\ todo \in Seq(LedWrites) \cup Seq(LcdWrites)
    /\ DOMAIN request \subseteq Light
    /\ "BATTERY" \in DOMAIN request => request["BATTERY"] = batteryState
    /\ "NOTIFICATIONS" \in DOMAIN request => request["NOTIFICATIONS"] = notificationState
    /\ "BACKLIGHT" \in DOMAIN request => /\ request["BACKLIGHT"] \in LcdState
                                         /\ device.persistence =>
                                              g_last_backlight_mode = request["BACKLIGHT"].mode
    /\ told \in BOOLEAN

\* The LED will show the state that comes first, whatever it showed before.
LedInv ==
    "led" \notin failed /\ DOMAIN request \cap {"BATTERY", "NOTIFICATIONS"} # {} =>
        \A g \in Goals(device.rgb, Shown(batteryState, notificationState)) : Ends(g[1], g[2])

\* The display will be in the mode that the service remembers.
ModeInv ==
    device.persistence /\ told =>
        Ends(PERSISTENCE_FILE, IF g_last_backlight_mode = "LOW_PERSISTENCE" THEN 1 ELSE 0)

\* It will have the brightness asked for, and had that asked for before.
LcdInv ==
    ~device.persistence =>
        /\ "BACKLIGHT" \in DOMAIN request /\ "lcd" \notin failed =>
              Ends(LCD_FILE, Scaled(rgbToBrightness(request["BACKLIGHT"].color)))
        /\ \A b \in before : b.asked \in 0..255 /\ b.lcd = Scaled(b.asked)

-----------------------------------------------------------------------------
(* The devices are apart.                                                   *)

LEMMA LedApart ==
    ASSUME NEW s \in Seq(LedWrites)
    PROVE  /\ s \in Seq(Writes)
           /\ Clear(s, PERSISTENCE_FILE) /\ Clear(s, LCD_FILE)
  <1>1. ASSUME NEW w \in LedWrites PROVE ~Affects(w, PERSISTENCE_FILE) /\ ~Affects(w, LCD_FILE)
    BY DEF LedWrites, Affects, Unit, PERSISTENCE_FILE, LCD_FILE, Part
  <1>2. \A i \in 1..Len(s) : s[i] \in LedWrites
    OBVIOUS
  <1> QED BY <1>1, <1>2, LedSeq DEF Clear

LEMMA LcdApart ==
    ASSUME NEW s \in Seq(LcdWrites)
    PROVE  /\ s \in Seq(Writes)
           /\ \A m : Unit(m) = "led" => Clear(s, m)
  <1>1. ASSUME NEW w \in LcdWrites, NEW m, Affects(w, m) PROVE Unit(m) = "lcd"
    BY <1>1 DEF LcdWrites, Affects, Unit, PERSISTENCE_FILE, LCD_FILE, Part
  <1>2. \A i \in 1..Len(s) : s[i] \in LcdWrites
    OBVIOUS
  <1> QED BY <1>1, <1>2 DEF Clear, LcdWrites

LEMMA GoalNodes ==
    ASSUME NEW rgb, NEW state, NEW g \in Goals(rgb, state)
    PROVE  g[1] \in Node /\ Unit(g[1]) = "led"
  <1>1. g[1] = RGB_BLINK_FILE \/ \E p \in Part, k \in Kind : g[1] = <<p, k>>
    BY DEF Goals, Kind
  <1>2. "red" \in Part /\ "blink" \in Kind
    BY DEF Part, Kind
  <1> QED BY <1>1, <1>2, PartNodes

LEMMA LcdNodes == PERSISTENCE_FILE \in Node /\ LCD_FILE \in Node
  BY DEF Node

LEMMA Bright == ASSUME NEW color \in [Part -> 0..255] PROVE rgbToBrightness(color) \in 0..255
  <1>1. color["red"] \in 0..255 /\ color["green"] \in 0..255 /\ color["blue"] \in 0..255
    BY DEF Part
  <1>2. \A r, g, b \in 0..255 : (77 * r + 150 * g + 29 * b) \div 256 \in 0..255
    OBVIOUS
  <1> QED BY <1>1, <1>2 DEF rgbToBrightness

LEMMA ScaledInt == ASSUME NEW b \in 0..255 PROVE Scaled(b) \in Int
  <1>1. \A x, y \in Int : Or(x, y) \in Int
    BY DEF Or
  <1>2. ExtraBits \in {0, 2, 4} /\ 2 ^ 2 = 4 /\ 2 ^ 4 = 16
    BY DEF ExtraBits
  <1>3. /\ b \in Int /\ b * 4 \in Int /\ b \div 4 \in Int
        /\ b * 16 \in Int /\ b \div 16 \in Int
    OBVIOUS
  <1> HIDE DEF Or
  <1> QED BY <1>1, <1>2, <1>3 DEF Scaled

\* The state that the LED is to show is one of the two.
LEMMA ShownStates ==
    ASSUME NEW b \in LedState, NEW n \in LedState
    PROVE  Shown(b, n) \in States
  BY LedStates DEF Shown

-----------------------------------------------------------------------------
(* The steps.                                                               *)

Inv == LightsTypes /\ LedInv /\ ModeInv /\ LcdInv

LEMMA CalledRequest ==
    ASSUME NEW light, NEW state, Called(light, state)
    PROVE  /\ DOMAIN request' = {light} \cup DOMAIN request
           /\ request'[light] = state
           /\ \A l \in DOMAIN request : l # light => request'[l] = request[l]
           /\ light \in Light \/ light \in device.used
           /\ UNCHANGED <<device, node>>
  BY DEF Called

LEMMA LedCalled ==
    ASSUME Inv, NEW light \in {"BATTERY", "NOTIFICATIONS"}, NEW state \in LedState, AtRest,
           Called(light, state),
           /\ batteryState' = IF light = "BATTERY" THEN state ELSE batteryState
           /\ notificationState' = IF light = "NOTIFICATIONS" THEN state ELSE notificationState,
           handleSpeakerBatteryLocked(batteryState', notificationState'),
           UNCHANGED <<g_last_backlight_mode, told, before>>
    PROVE  Inv'
  <1>1. /\ device' = device /\ node' = node
        /\ DOMAIN request' = {light} \cup DOMAIN request
        /\ request'[light] = state
        /\ \A l \in DOMAIN request : l # light => request'[l] = request[l]
    BY CalledRequest
  <1>2. batteryState' \in LedState /\ notificationState' \in LedState
    BY DEF Inv, LightsTypes
  <1> DEFINE shown == Shown(batteryState', notificationState')
  <1>10. shown \in States
    BY <1>2, ShownStates
  <1>11. PICK first \in Found, second \in Found :
           /\ todo' = SpeakerWrites(shown, first, second)
           /\ IF device.rgb /\ {first, second} # {TRUE}
              THEN failed' = failed \cup {"led"} ELSE failed' = failed \ {"led"}
    BY Zenon DEF handleSpeakerBatteryLocked
  <1> HIDE DEF shown
  <1>12. /\ device.rgb \in BOOLEAN /\ first \in BOOLEAN /\ second \in BOOLEAN
         /\ ~device.rgb => first = FALSE /\ second = FALSE
    BY DeviceAssumption DEF Inv, LightsTypes, Found
  <1>14. "led" \notin failed' => ~(device.rgb /\ {first, second} # {TRUE})
    BY <1>11
  <1>15. {first, second} = {TRUE} => first = TRUE /\ second = TRUE
    OBVIOUS
  <1>16. "led" \notin failed' => first = device.rgb /\ second = device.rgb
    BY <1>12, <1>14, <1>15
  <1>13. "lcd" \in failed' <=> "lcd" \in failed
    <2>1. failed' = failed \cup {"led"} \/ failed' = failed \ {"led"}
      BY <1>11
    <2> QED BY <2>1
  <1>3. "led" \notin failed' => Reaches(todo', device.rgb, shown)
    <2>1. Reaches(SpeakerWrites(shown, device.rgb, device.rgb), device.rgb, shown)
      BY <1>10, <1>12, SpeakerReaches
    <2> QED BY <1>11, <1>16, <2>1
  <1>4. todo = <<>> /\ todo' \in Seq(LedWrites)
    <2>1. SpeakerWrites(shown, first, second) \in Seq(LedWrites)
      BY <1>10, <1>12, SpeakerReaches
    <2> QED BY <1>11, <2>1 DEF AtRest
  <1>5. LightsTypes'
    BY <1>1, <1>2, <1>4 DEF Inv, LightsTypes, Light
  <1>6. LedInv'
    BY <1>1, <1>3 DEF LedInv, Reaches, Ends, shown
  <1>7. \A m \in {PERSISTENCE_FILE, LCD_FILE} : \A v : Ends(m, v) => Ends(m, v)'
    <2>1. \A m \in {PERSISTENCE_FILE, LCD_FILE} : Clear(todo', m)
      BY <1>4, LedApart
    <2> QED BY <1>1, <1>4, <2>1, RestEnds DEF Ends
  <1>8. ModeInv'
    BY <1>1, <1>7 DEF Inv, ModeInv
  <1>9. LcdInv'
    <2>1. \A b : Scaled(b)' = Scaled(b)
      BY <1>1 DEF Scaled, ExtraBits
    <2>2. "BACKLIGHT" \in DOMAIN request' =>
             "BACKLIGHT" \in DOMAIN request /\ request'["BACKLIGHT"] = request["BACKLIGHT"]
      BY <1>1
    <2>3. "lcd" \notin failed' => "lcd" \notin failed
      BY <1>13
    <2> QED BY <1>1, <1>7, <2>1, <2>2, <2>3 DEF Inv, LcdInv
  <1> QED BY <1>5, <1>6, <1>8, <1>9 DEF Inv

LEMMA BatteryStep ==
    ASSUME Inv, NEW state \in LedState, setLightBattery(state) PROVE Inv'
  BY LedCalled DEF setLightBattery, Inv, LightsTypes

LEMMA NotificationsStep ==
    ASSUME Inv, NEW state \in LedState, setLightNotifications(state) PROVE Inv'
  BY LedCalled DEF setLightNotifications, Inv, LightsTypes

\* A display is told its mode when that is not the one it is remembered to have.
LEMMA BacklightStep ==
    ASSUME Inv, NEW state \in LcdState, setLightBacklight(state)
    PROVE  Inv'
  <1> DEFINE lcd == W(LCD_FILE, Scaled(Target(state)))
             bit == IF state.mode = "LOW_PERSISTENCE" THEN 1 ELSE 0
             persist == WOr(PERSISTENCE_FILE, bit, "return")
             asked == rgbToBrightness(state.color)
  <1>1. /\ device' = device /\ node' = node
        /\ DOMAIN request' = {"BACKLIGHT"} \cup DOMAIN request
        /\ request'["BACKLIGHT"] = state
        /\ \A l \in DOMAIN request : l # "BACKLIGHT" => request'[l] = request[l]
        /\ failed' = failed \ {"lcd"}
        /\ UNCHANGED <<batteryState, notificationState, told>>
    BY CalledRequest DEF setLightBacklight, Called
  <1>2. /\ todo = <<>>
        /\ todo' = IF Switches(state.mode) THEN <<persist, lcd>> ELSE <<lcd>>
        /\ g_last_backlight_mode' = Remembered(state.mode)
    BY DEF setLightBacklight, AtRest
  <1>3. state.mode \in Brightness /\ state.color \in [Part -> 0..255]
    BY ColorAssumption DEF LcdState
  <1>4. asked \in 0..255
    BY <1>3, Bright
  <1>5. lcd \in LcdWrites /\ persist \in LcdWrites
    <2>1. Target(state) \in 0..255
      BY <1>4 DEF Target, LpBrightness
    <2>2. Scaled(Target(state)) \in Int /\ bit \in Int
      BY <2>1, ScaledInt
    <2> QED BY <2>2, LcdNodes DEF W, WOr, LcdWrites, Writes, Value, Unit
  <1>6. /\ lcd.node = LCD_FILE /\ lcd.value = Scaled(Target(state))
        /\ persist.node = PERSISTENCE_FILE /\ persist.value = bit
    BY DEF W, WOr
  <1> HIDE DEF lcd, persist
  <1>7. todo' \in Seq(LcdWrites)
    BY <1>2, <1>5
  <1>8. LightsTypes'
    <2>1. device.persistence => Remembered(state.mode) = state.mode
      BY DEF Remembered
    <2>2. Remembered(state.mode) \in Brightness
      BY <1>3 DEF Remembered, Inv, LightsTypes
    <2> QED BY <1>1, <1>2, <1>7, <2>1, <2>2 DEF Inv, LightsTypes, Light
  <1>9. LedInv'
    <2>1. \A m, v : Unit(m) = "led" /\ Ends(m, v) => Ends(m, v)'
      BY <1>1, <1>2, <1>7, RestEnds, LcdApart DEF Ends
    <2>2. /\ "led" \notin failed' => "led" \notin failed
          /\ DOMAIN request' \cap {"BATTERY", "NOTIFICATIONS"}
                = DOMAIN request \cap {"BATTERY", "NOTIFICATIONS"}
      BY <1>1
    <2> QED BY <1>1, <2>1, <2>2, GoalNodes DEF Inv, LedInv
  <1>10. /\ ~Affects(lcd, PERSISTENCE_FILE) /\ Affects(lcd, LCD_FILE)
         /\ Gives(lcd, LCD_FILE) = Scaled(Target(state))
         /\ Affects(persist, PERSISTENCE_FILE) /\ Gives(persist, PERSISTENCE_FILE) = bit
    BY <1>6 DEF Affects, Gives, LCD_FILE, PERSISTENCE_FILE, Part
  <1>11. \A v : v = Scaled(Target(state)) => Ends(LCD_FILE, v)'
    <2>1. Leaves(todo', LCD_FILE, Scaled(Target(state)))
      <3>1. CASE Switches(state.mode)
        <4>1. todo' = <<persist, lcd>> /\ Len(todo') = 2 /\ todo'[2] = lcd
          BY <1>2, <3>1
        <4> QED BY <1>10, <4>1 DEF Leaves
      <3>2. CASE ~Switches(state.mode)
        <4>1. todo' = <<lcd>> /\ Len(todo') = 1 /\ todo'[1] = lcd
          BY <1>2, <3>2
        <4> QED BY <1>10, <4>1 DEF Leaves
      <3> QED BY <3>1, <3>2
    <2>2. \A v : Leaves(todo', LCD_FILE, v) => Ends(LCD_FILE, v)'
      BY DEF Ends
    <2> QED BY <2>1, <2>2
  <1>12. ModeInv'
    <2> SUFFICES ASSUME device.persistence, told
                 PROVE  Ends(PERSISTENCE_FILE,
                             IF g_last_backlight_mode = "LOW_PERSISTENCE" THEN 1 ELSE 0)'
      BY <1>1 DEF ModeInv
    <2>1. node[PERSISTENCE_FILE] = IF g_last_backlight_mode = "LOW_PERSISTENCE" THEN 1 ELSE 0
      BY <1>2, RestEnds DEF Inv, ModeInv
    <2>2. g_last_backlight_mode' = state.mode
      BY <1>2 DEF Remembered
    <2>3. CASE Switches(state.mode)
      <3>1. todo' = <<persist, lcd>> /\ Len(todo') = 2 /\ todo'[1] = persist /\ todo'[2] = lcd
        BY <1>2, <2>3
      <3>2. Leaves(todo', PERSISTENCE_FILE, bit)
        BY <1>10, <3>1 DEF Leaves
      <3> QED BY <2>2, <3>2 DEF Ends
    <2>4. CASE ~Switches(state.mode)
      <3>1. todo' = <<lcd>> /\ Len(todo') = 1 /\ todo'[1] = lcd
        BY <1>2, <2>4
      <3>2. Clear(todo', PERSISTENCE_FILE)
        BY <1>10, <3>1 DEF Clear
      <3>3. state.mode = "LOW_PERSISTENCE" <=> g_last_backlight_mode = "LOW_PERSISTENCE"
        BY <2>4 DEF Switches
      <3> QED BY <1>1, <2>1, <2>2, <3>2, <3>3 DEF Ends
    <2> QED BY <2>3, <2>4
  <1>13. LcdInv'
    <2> SUFFICES ASSUME ~device.persistence PROVE LcdInv'
      BY <1>1 DEF LcdInv
    <2>1. Target(state) = asked
      BY DEF Target, Switches
    <2>3. \A b : Scaled(b)' = Scaled(b)
      BY <1>1 DEF Scaled, ExtraBits
    <2>2. Ends(LCD_FILE, Scaled(asked))'
      <3>1. \A v : v = Scaled(asked) => Ends(LCD_FILE, v)'
        BY <1>11, <2>1
      <3> QED BY <2>3, <3>1
    <2>4. ASSUME NEW b \in before' PROVE b.asked \in 0..255 /\ b.lcd = Scaled(b.asked)
      <3>1. /\ "BACKLIGHT" \in DOMAIN request /\ "lcd" \notin failed
            /\ b.asked = rgbToBrightness(request["BACKLIGHT"].color) /\ b.lcd = node[LCD_FILE]
        BY <2>4 DEF setLightBacklight
      <3>2. request["BACKLIGHT"].color \in [Part -> 0..255]
        BY <3>1, ColorAssumption DEF Inv, LightsTypes, LcdState
      <3>3. node[LCD_FILE] = Scaled(b.asked)
        BY <1>2, <3>1, RestEnds DEF Inv, LcdInv
      <3> QED BY <3>1, <3>2, <3>3, Bright
    <2> QED BY <1>1, <2>2, <2>3, <2>4 DEF LcdInv
  <1> QED BY <1>8, <1>9, <1>12, <1>13 DEF Inv

LEMMA WriteStep == ASSUME Inv, Write PROVE Inv'
  <1>1. /\ todo # <<>> /\ todo' = Tail(todo)
        /\ node' = Written(todo[1].node, todo[1].value)
        /\ UNCHANGED <<device, batteryState, notificationState, g_last_backlight_mode, request,
                       failed, told, before>>
    BY DEF Write, AtRest
  <1>2. todo \in Seq(Writes) /\ todo[1] \in Writes
    <2>1. todo \in Seq(Writes)
      BY LedApart, LcdApart DEF Inv, LightsTypes
    <2> QED BY <1>1, <2>1
  <1>3. node' \in [Node -> Value]
    <2>1. \A m \in Node : node'[m] = IF Affects(todo[1], m) THEN Gives(todo[1], m) ELSE node[m]
      BY <1>1, <1>2, WrittenNode
    <2>2. \A m \in Node : node'[m] \in Value
      <3>1. todo[1].value \in Value /\ 0 \in Value /\ \A m \in Node : node[m] \in Value
        BY <1>2 DEF Writes, Value, Inv, LightsTypes
      <3> QED BY <2>1, <3>1 DEF Gives
    <2>3. node' = [m \in Node |-> node'[m]]
      BY <1>1 DEF Written
    <2> QED BY <2>2, <2>3
  <1>4. LightsTypes'
    <2>1. todo' \in Seq(LedWrites) \cup Seq(LcdWrites)
      BY <1>1 DEF Inv, LightsTypes
    <2> QED BY <1>1, <1>3, <2>1 DEF Inv, LightsTypes
  <1>5. \A m \in Node : \A v : Ends(m, v) => Ends(m, v)'
    BY <1>2, WriteEnds
  <1>6. LedInv'
    BY <1>1, <1>5, GoalNodes DEF Inv, LedInv
  <1>7. ModeInv'
    BY <1>1, <1>5, LcdNodes DEF Inv, ModeInv
  <1>8. LcdInv'
    <2>1. \A b : Scaled(b)' = Scaled(b)
      BY <1>1 DEF Scaled, ExtraBits
    <2> QED BY <1>1, <1>5, <2>1, LcdNodes DEF Inv, LcdInv
  <1> QED BY <1>4, <1>6, <1>7, <1>8 DEF Inv

\* After a write that fails nothing is said of its device, but for what the failed
\* write would not have changed.
LEMMA WriteFailsStep == ASSUME Inv, WriteFails PROVE Inv'
  <1> DEFINE w == todo[1]
  <1>0. todo # <<>> /\ Head(todo) = w
    BY DEF WriteFails, AtRest
  <1>1. /\ todo # <<>>
        /\ \/ todo' = Tail(todo)
           \/ /\ w.onFail = "off"
              /\ todo' = <<W(<<w.node[1], "brightness">>, 0)>> \o Tail(todo)
           \/ w.onFail = "return" /\ todo' = <<>>
        /\ told' = (told /\ w.node # PERSISTENCE_FILE)
        /\ failed' = failed \cup {Unit(w.node)}
        /\ UNCHANGED <<device, node, batteryState, notificationState, g_last_backlight_mode,
                       request, before>>
    <2> HIDE DEF w
    <2> QED BY <1>0, Zenon DEF WriteFails
  <1>2. \A b : Scaled(b)' = Scaled(b)
    BY <1>1 DEF Scaled, ExtraBits
  <1>3. CASE todo \in Seq(LedWrites)
    <2>1. w \in LedWrites /\ Tail(todo) \in Seq(LedWrites)
      BY <1>1, <1>3
    <2>2. todo' \in Seq(LedWrites)
      <3>1. CASE todo' = Tail(todo)
        BY <2>1, <3>1
      <3>2. CASE w.onFail = "off" /\ todo' = <<W(<<w.node[1], "brightness">>, 0)>> \o Tail(todo)
        <4>1. PICK p \in Part : w.node = <<p, "blink">>
          BY <2>1, <3>2 DEF LedWrites
        <4>2. W(<<w.node[1], "brightness">>, 0) \in LedWrites
          <5>1. <<p, "brightness">> \in Node /\ Unit(<<p, "brightness">>) = "led"
            BY PartNodes DEF Kind
          <5> QED BY <4>1, <5>1 DEF W, LedWrites, Writes, Value
        <4> HIDE DEF w
        <4> QED BY <2>1, <3>2, <4>2
      <3>3. w.onFail # "return"
        BY <2>1 DEF LedWrites
      <3> HIDE DEF w
      <3> QED BY <1>1, <3>1, <3>2, <3>3
    <2>3. Unit(w.node) = "led"
      BY <2>1 DEF LedWrites
    <2>4. \A m \in {PERSISTENCE_FILE, LCD_FILE} : \A v : Ends(m, v) => Ends(m, v)'
      <3>1. \A m \in {PERSISTENCE_FILE, LCD_FILE} : Clear(todo, m) /\ Clear(todo', m)
        BY <1>3, <2>2, LedApart
      <3>2. \A m \in {PERSISTENCE_FILE, LCD_FILE} : \A v : ~Leaves(todo, m, v)
        BY <3>1 DEF Leaves, Clear
      <3> QED BY <1>1, <3>1, <3>2 DEF Ends
    <2>5. told' => told
      BY <1>1
    <2> HIDE DEF w
    <2>6. LightsTypes'
      BY <1>1, <2>2 DEF Inv, LightsTypes
    <2>7. LedInv'
      BY <1>1, <2>3 DEF LedInv
    <2>8. ModeInv'
      BY <1>1, <2>4, <2>5 DEF Inv, ModeInv
    <2>9. LcdInv'
      BY <1>1, <1>2, <2>4 DEF Inv, LcdInv
    <2> QED BY <2>6, <2>7, <2>8, <2>9 DEF Inv
  <1>4. CASE todo \in Seq(LcdWrites)
    <2>1. w \in LcdWrites /\ Tail(todo) \in Seq(LcdWrites) /\ todo \in Seq(Writes)
      BY <1>1, <1>4, LcdApart
    <2>2. todo' = Tail(todo) \/ (todo' = <<>> /\ w.node = PERSISTENCE_FILE)
      BY <1>1, <2>1 DEF LcdWrites, Writes
    <2>3. Unit(w.node) = "lcd"
      BY <2>1 DEF LcdWrites
    <2>4. todo' \in Seq(LcdWrites)
      <3>1. <<>> \in Seq(LcdWrites)
        OBVIOUS
      <3> QED BY <2>1, <2>2, <3>1, Zenon
    <2>5. \A m, v : Unit(m) = "led" /\ Ends(m, v) => Ends(m, v)'
      <3>1. \A m : Unit(m) = "led" => Clear(todo, m) /\ Clear(todo', m)
        BY <1>4, <2>4, LcdApart
      <3>2. \A m, v : Unit(m) = "led" => ~Leaves(todo, m, v)
        BY <3>1 DEF Leaves, Clear
      <3> QED BY <1>1, <3>1, <3>2 DEF Ends
    <2>6. told' => told /\ ~Affects(w, PERSISTENCE_FILE) /\ todo' = Tail(todo)
      <3>1. told' => told /\ w.node # PERSISTENCE_FILE
        BY <1>1
      <3>2. w.node # PERSISTENCE_FILE => ~Affects(w, PERSISTENCE_FILE)
        BY DEF Affects, PERSISTENCE_FILE, Part
      <3> QED BY <2>2, <3>1, <3>2
    <2>7. LightsTypes'
      BY <1>1, <2>4, <2>6 DEF Inv, LightsTypes
    <2>8. LedInv'
      BY <1>1, <2>5, GoalNodes DEF Inv, LedInv
    <2>9. ModeInv'
      <3>1. \A v : told' /\ Ends(PERSISTENCE_FILE, v) => Ends(PERSISTENCE_FILE, v)'
        BY <1>1, <2>1, <2>6, SkipEnds
      <3> QED BY <1>1, <2>6, <3>1 DEF Inv, ModeInv
    <2>10. LcdInv'
      BY <1>1, <1>2, <2>3 DEF Inv, LcdInv
    <2> QED BY <2>7, <2>8, <2>9, <2>10 DEF Inv
  <1> QED BY <1>3, <1>4 DEF Inv, LightsTypes

LEMMA LeftoverStates == Leftover \subseteq LedState
  BY DEF Leftover, LedState

\* After a start nothing was asked for; the display is in the mode that a service
\* remembers at first, if it was when the service started.
LEMMA DieStep == ASSUME Inv, Die PROVE Inv'
  <1>1. /\ todo' = <<>> /\ request' = <<>> /\ DOMAIN request' = {} /\ before' = {}
        /\ g_last_backlight_mode' = "USER" /\ told' = (node[PERSISTENCE_FILE] = 0)
        /\ UNCHANGED <<device, node>>
        /\ batteryState' \in LedState /\ notificationState' \in LedState
    BY LeftoverStates DEF Die, Unset
  <1>2. LightsTypes'
    BY <1>1 DEF Inv, LightsTypes, Brightness
  <1>3. LedInv' /\ LcdInv'
    BY <1>1 DEF LedInv, LcdInv
  <1>4. told' => Ends(PERSISTENCE_FILE, 0)'
    <2>1. told' => node'[PERSISTENCE_FILE] = 0
      BY <1>1, Zenon
    <2>2. Clear(todo', PERSISTENCE_FILE)
      BY <1>1 DEF Clear
    <2> QED BY <2>1, <2>2 DEF Ends
  <1>5. ModeInv'
    BY <1>1, <1>4 DEF ModeInv
  <1> QED BY <1>2, <1>3, <1>5 DEF Inv

LEMMA InitInv == Init => Inv
  <1> SUFFICES ASSUME Init PROVE Inv
    OBVIOUS
  <1>1. /\ todo = <<>> /\ request = <<>> /\ DOMAIN request = {} /\ before = {}
        /\ g_last_backlight_mode = "USER" /\ device \in Devices /\ told = TRUE
        /\ batteryState \in LedState /\ notificationState \in LedState
    BY LeftoverStates DEF Init, Unset
  <1>2. node \in [Node -> Value] /\ node[PERSISTENCE_FILE] = 0
    <2>1. <<0>> \in Value /\ 0 \in Value
      BY DEF Value
    <2>2. \A n \in Node : (IF n[2] = "duty_pcts" THEN <<0>> ELSE 0) \in Value
      BY <2>1
    <2> QED BY <2>2, LcdNodes DEF Init, PERSISTENCE_FILE
  <1>3. LightsTypes
    BY <1>1, <1>2 DEF LightsTypes, Brightness
  <1>4. LedInv /\ LcdInv
    BY <1>1 DEF LedInv, LcdInv
  <1>5. ModeInv
    BY <1>1, <1>2 DEF ModeInv, Ends, Clear
  <1> QED BY <1>3, <1>4, <1>5 DEF Inv

LEMMA StepInv == Inv /\ [Next]_vars => Inv'
  <1> SUFFICES ASSUME Inv, [Next]_vars PROVE Inv'
    OBVIOUS
  <1>1. CASE UNCHANGED vars
    BY <1>1 DEF vars, Inv, LightsTypes, LedInv, ModeInv, LcdInv, Ends, Scaled, ExtraBits
  <1>2. CASE Next
    BY <1>2, BatteryStep, NotificationsStep, BacklightStep, WriteStep, WriteFailsStep, DieStep
       DEF Next
  <1> QED BY <1>1, <1>2

-----------------------------------------------------------------------------
(* The theorems.                                                            *)

\* Whatever is asked for, fails or dies: what is on the nodes and what the call in
\* progress has still to write add up to what was asked for last (Light.cpp:182-340).
THEOREM LightsInductive == Spec => []Inv
  BY InitInv, StepInv, PTL DEF Spec

\* When no node fails in a call the LED shows the last request for the
\* battery or for notifications, whichever comes first (setSpeakerLightLocked): on
\* every device, for any colours and flashes, after any failed writes and deaths.
THEOREM LedShows == Spec => []LedShowsPriority
  <1>1. Inv => LedShowsPriority
    <2> SUFFICES ASSUME Inv, AtRest, "led" \notin failed,
                        {"BATTERY", "NOTIFICATIONS"} \subseteq DOMAIN request
                 PROVE  LET state == IF isLit(request["BATTERY"]) THEN request["BATTERY"]
                                     ELSE request["NOTIFICATIONS"]
                        IN \A p \in Part : \/ Lamp(p) = Wanted(state, p)
                                           \/ ~device.rgb /\ Blinks(state) /\ state.color[p] = 0
      BY DEF LedShowsPriority
    <2> DEFINE state == Shown(batteryState, notificationState)
    <2>1. state = IF isLit(request["BATTERY"]) THEN request["BATTERY"]
                  ELSE request["NOTIFICATIONS"]
      BY DEF Inv, LightsTypes, Shown
    <2>2. device.rgb \in BOOLEAN
      BY DeviceAssumption DEF Inv, LightsTypes
    <2> HIDE DEF state
    <2>3. \A g \in Goals(device.rgb, state) : node[g[1]] = g[2]
      BY RestEnds DEF Inv, LedInv, AtRest, state
    <2>4. ASSUME NEW m, NEW v, <<m, v>> \in Goals(device.rgb, state) PROVE node[m] = v
      <3>1. node[<<m, v>>[1]] = <<m, v>>[2]
        BY <2>3, <2>4
      <3> QED BY <3>1
    <2>5. ASSUME NEW p \in Part, ~(~device.rgb /\ Blinks(state) /\ state.color[p] = 0)
          PROVE  Lamp(p) = Wanted(state, p)
      <3>1. CASE ~Blinks(state) /\ device.rgb
        <4>1. /\ << <<p, "brightness">>, state.color[p]>> \in Goals(device.rgb, state)
              /\ << <<p, "blink">>, 0>> \in Goals(device.rgb, state)
              /\ <<RGB_BLINK_FILE, 0>> \in Goals(device.rgb, state)
          BY <3>1 DEF Goals
        <4>2. /\ node[<<p, "brightness">>] = state.color[p] /\ node[<<p, "blink">>] = 0
              /\ node[RGB_BLINK_FILE] = 0
          BY <2>4, <4>1
        <4> QED BY <3>1, <4>2 DEF Lamp, Wanted
      <3>2. CASE ~Blinks(state) /\ ~device.rgb
        <4>1. /\ << <<p, "brightness">>, state.color[p]>> \in Goals(device.rgb, state)
              /\ << <<p, "blink">>, 0>> \in Goals(device.rgb, state)
          BY <3>2 DEF Goals
        <4>2. node[<<p, "brightness">>] = state.color[p] /\ node[<<p, "blink">>] = 0
          BY <2>4, <4>1
        <4> QED BY <3>2, <4>2 DEF Lamp, Wanted
      <3>3. CASE Blinks(state) /\ device.rgb
        <4>1. /\ << <<p, "duty_pcts">>, getScaledDutyPcts(state.color[p])>>
                    \in Goals(device.rgb, state)
              /\ << <<p, "pause_lo">>, state.flash.offMs>> \in Goals(device.rgb, state)
              /\ << <<p, "pause_hi">>, state.flash.onMs>> \in Goals(device.rgb, state)
              /\ <<RGB_BLINK_FILE, 1>> \in Goals(device.rgb, state)
          BY <3>3 DEF Goals
        <4>2. /\ node[<<p, "duty_pcts">>] = getScaledDutyPcts(state.color[p])
              /\ node[<<p, "pause_lo">>] = state.flash.offMs
              /\ node[<<p, "pause_hi">>] = state.flash.onMs
              /\ node[RGB_BLINK_FILE] = 1
          BY <2>4, <4>1
        <4> QED BY <3>3, <4>2 DEF Lamp, Wanted
      <3>4. CASE Blinks(state) /\ ~device.rgb
        <4> DEFINE v == IF state.flash.onMs = state.flash.offMs THEN 2 ELSE 1
        <4>1. << <<p, "blink">>, v>> \in Goals(device.rgb, state)
          BY <2>5, <3>4 DEF Goals
        <4>2. node[<<p, "blink">>] = v
          BY <2>4, <4>1
        <4> QED BY <3>4, <4>2 DEF Lamp, Wanted
      <3> QED BY <2>2, <3>1, <3>2, <3>3, <3>4
    <2> QED BY <2>1, <2>5
  <1> QED BY <1>1, LightsInductive, PTL

\* The display is in low persistence mode when the last request was one, though the
\* mode is written at changes only (setLightBacklight).
THEOREM PersistenceIsFollowed == Spec => []PersistenceFollows
  <1>1. Inv => PersistenceFollows
    <2> SUFFICES ASSUME Inv, AtRest, device.persistence, told, "BACKLIGHT" \in DOMAIN request
                 PROVE  node[PERSISTENCE_FILE] = 1
                          <=> request["BACKLIGHT"].mode = "LOW_PERSISTENCE"
      BY DEF PersistenceFollows
    <2>1. node[PERSISTENCE_FILE] = IF g_last_backlight_mode = "LOW_PERSISTENCE" THEN 1 ELSE 0
      BY RestEnds DEF Inv, ModeInv, AtRest
    <2> QED BY <2>1 DEF Inv, LightsTypes
  <1> QED BY <1>1, LightsInductive, PTL

\* What the driver is given of a brightness, by a display of 8 and of 12 bits.
LEMMA ScaledBits ==
    ASSUME NEW b \in 0..255, device.lcd_max \in {255, 4095}
    PROVE  Scaled(b) = IF device.lcd_max = 255 THEN b ELSE 16 * b + b \div 16
  <1>1. CASE device.lcd_max = 255
    BY <1>1 DEF Scaled, ExtraBits
  <1>2. CASE device.lcd_max = 4095
    <2>1. Scaled(b) = Or(b * 2 ^ 4, b \div 2 ^ 4) /\ 2 ^ 4 = 16
      BY <1>2 DEF Scaled, ExtraBits
    <2>2. Or(b * 16, b \div 16) = 16 * b + b \div 16
      BY SMTT(60) DEF Or
    <2> HIDE DEF Or
    <2> QED BY <1>2, <2>1, <2>2
  <1> QED BY <1>1, <1>2

\* A brighter request never gives a darker display, and the brightest one gives all
\* that the display has (setLightBacklight), whatever was asked for in between.
THEOREM BrighterNeverDarker ==
    ASSUME \A d \in Devices : d.lcd_max \in {255, 1023, 4095}
    PROVE  Spec => []BrighterIsBrighter
  <1>1. Inv => BrighterIsBrighter
    <2> SUFFICES ASSUME Inv, AtRest, "BACKLIGHT" \in DOMAIN request, "lcd" \notin failed,
                        device.lcd_max # 1023, ~device.persistence
                 PROVE  LET asked == rgbToBrightness(request["BACKLIGHT"].color)
                            lcd == node[LCD_FILE]
                        IN /\ asked = 255 <=> lcd = device.lcd_max
                           /\ \A b \in before : b.asked <= asked => b.lcd <= lcd
      BY DEF BrighterIsBrighter
    <2>1. request["BACKLIGHT"] \in LcdState
      BY DEF Inv, LightsTypes
    <2>2. rgbToBrightness(request["BACKLIGHT"].color) \in 0..255
      BY <2>1, ColorAssumption, Bright DEF LcdState
    <2>3. device.lcd_max \in {255, 4095}
      BY DEF Inv, LightsTypes
    <2> DEFINE asked == rgbToBrightness(request["BACKLIGHT"].color)
               scale(b) == IF device.lcd_max = 255 THEN b ELSE 16 * b + b \div 16
    <2> HIDE DEF asked
    <2>4. asked \in 0..255
      BY <2>2 DEF asked
    <2>5. node[LCD_FILE] = scale(asked)
      <3>1. node[LCD_FILE] = Scaled(asked)
        BY RestEnds DEF Inv, LcdInv, AtRest, asked
      <3> QED BY <2>3, <2>4, <3>1, ScaledBits
    <2>6. \A b \in before : b.asked \in 0..255 /\ b.lcd = scale(b.asked)
      BY <2>3, ScaledBits DEF Inv, LcdInv
    <2>7. asked = 255 <=> scale(asked) = device.lcd_max
      BY <2>3, <2>4
    <2>8. ASSUME NEW b \in before, b.asked <= asked PROVE b.lcd <= node[LCD_FILE]
      <3>1. b.asked \in 0..255 /\ b.lcd = scale(b.asked)
        BY <2>6
      <3>2. PICK x \in 0..255 : x = b.asked
        BY <3>1
      <3>3. x <= asked
        BY <2>8, <3>2
      <3>4. PICK y \in 0..255 : y = asked
        BY <2>4
      <3>5. x \div 16 <= y \div 16
        BY <3>3, <3>4
      <3>6. scale(x) <= scale(y)
        BY <3>3, <3>5, <3>4
      <3> QED BY <2>5, <3>1, <3>2, <3>4, <3>6
    <2> QED BY <2>5, <2>7, <2>8 DEF asked
  <1> QED BY <1>1, LightsInductive, PTL

=============================================================================
