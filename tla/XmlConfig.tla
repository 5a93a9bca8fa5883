----------------------------- MODULE XmlConfig -----------------------------
(***************************************************************************)
(* The configuration of the power modes, as the power HAL loads it when it *)
(* starts (init_all_rqb_params of hardware/power/Hints.cpp, on             *)
(* hardware/power/expatparser.c): the file is parsed once for each mode,   *)
(* and the callbacks keep the parameters of that mode only.  The globals   *)
(* of the callbacks outlive a parse.                                       *)
(*                                                                         *)
(* Outside src/: expat, which calls back at the start and at the end of    *)
(* each element, and stops where the text ends early; and the file: a root *)
(* with elements of a name and children, which have attributes.  The value *)
(* of an attribute is the place where it stands.                           *)
(***************************************************************************)
EXTENDS Integers, Sequences, FiniteSets, Functions

CONSTANTS
    Modes,      \* what the power modes are called, in order
    Longer,     \* pairs of a name and the mode whose name it begins with
    Files,      \* the contents the file may have
    MaxErrors   \* how many parses may fail, a bound

\* strncmp takes any name that begins with the mode's.
BeginsWith(elm, m) == elm = m \/ <<elm, m>> \in Longer

\* The modes have names of their own, with which that of the root does not begin.
ASSUME ConfigAssumption ==
    /\ Modes \in Seq(STRING) \ {<<>>} /\ MaxErrors \in Nat
    /\ \A i, j \in DOMAIN Modes : Modes[i] = Modes[j] => i = j
    /\ \A m \in Range(Modes) : ~BeginsWith("root", m)

\* The elements of the root, and theirs.
Leaf == [elm : STRING, attr : Seq(STRING)]
Branch == [elm : STRING, kids : Seq(Leaf)]
ASSUME FilesAssumption == Files \subseteq Seq(Branch)

\* struct rqbalance_params.
Plain == {"balance_level", "up_thresholds", "down_thresholds"}
Cpus == {"min_cpus", "max_cpus"}
CLUSTER_MAX == 2
Limits(j) == IF j = 0 THEN {"cluster0_freq_min", "cluster0_freq_max"}
             ELSE {"cluster1_freq_min", "cluster1_freq_max"}
AllLimits == UNION {Limits(j) : j \in 0..(CLUSTER_MAX - 1)}
Param == Plain \cup Cpus \cup AllLimits

\* The parameters as calloc leaves them, and as a parse begins with them.
Zero == [p \in Param |-> <<>>]
Default == [p \in Param |-> IF p \in AllLimits THEN <<0>> ELSE <<>>]

ENOENT == 2
E2BIG == 7
EIO == 5
EINVAL == 22

VARIABLES
    file,                         \* the file of this behaviour
    xml_depth, parse, main_node,  \* the globals of the callbacks
    expat,                        \* where expat is in the file, Nowhere between parses
    trqb,                         \* the parameters the parse has found
    rqb,                          \* rqb[m]: the parameters of mode m
    result                        \* what the parses so far returned

globals == <<xml_depth, parse, main_node>>
xvars == <<file, globals, expat, trqb, rqb, result>>

-----------------------------------------------------------------------------
\* Where expat is in the file: open elements are open, and of the root and of the
\* element in it n and k children have begun.
At(open, n, k) == [open |-> open, n |-> n, k |-> k]
Nowhere == At(-1, 0, 0)
Before == At(0, 0, 0)
After == At(0, Len(file) + 1, 0)

\* It goes on to the start of an element, unless the innermost open one has to end.
Begins ==
    CASE expat = Before -> {At(1, 0, 0)}
      [] expat.open = 1 /\ expat.n < Len(file) -> {At(2, expat.n + 1, 0)}
      [] expat.open = 2 /\ expat.k < Len(file[expat.n].kids) -> {At(3, expat.n, expat.k + 1)}
      [] OTHER -> {}
ElementAt(x) ==
    CASE x.open = 1 -> [elm |-> "root", attr |-> <<>>]
      [] x.open = 2 -> [elm |-> file[x.n].elm, attr |-> <<>>]
      [] x.open = 3 -> file[x.n].kids[x.k]

\* An attribute of rqbalance is taken up to the first limit that is found, which ends
\* the callback; none is found behind an attribute that is no parameter, for the search
\* goes on with the cluster the last one ended with.
EndsCallback(attr, i) == attr[i] \in AllLimits /\ \A h \in 1..(i - 1) : attr[h] \in Plain
RqbalanceTakes(attr) ==
    {attr[i] : i \in {i \in DOMAIN attr :
        /\ attr[i] \in Plain \/ EndsCallback(attr, i)
        /\ \A h \in 1..(i - 1) : ~EndsCallback(attr, h)}}

\* The parameters that parseElm takes from an element.
Takes(e) ==
    CASE e.elm = "cpuquiet" -> Cpus \cap Range(e.attr)
      [] e.elm = "rqbalance" -> RqbalanceTakes(e.attr)
      [] OTHER -> {}
parseElm(params, e, place) == [p \in Param |-> IF p \in Takes(e) THEN place ELSE params[p]]

-----------------------------------------------------------------------------
XInit ==
    /\ file \in Files
    /\ xml_depth = 0 /\ parse = -1 /\ main_node = Modes[1]
    /\ expat = Nowhere
    /\ trqb = Zero /\ rqb = [m \in Range(Modes) |-> Zero]
    /\ result = <<>>

Loaded == Len(result) = Len(Modes)
Between == expat = Nowhere /\ ~Loaded
Errors == Cardinality({n \in DOMAIN result : result[n] # 0})

\* parse_xml_data for the next mode.
BeginParse ==
    /\ Between
    /\ main_node' = Modes[Len(result) + 1]
    /\ trqb' = Default
    /\ expat' = Before
    /\ UNCHANGED <<file, xml_depth, parse, rqb, result>>

\* The file cannot be opened or read, or is too large.
NoFile ==
    /\ Between /\ Errors < MaxErrors
    /\ \E e \in {-ENOENT, -E2BIG, -EIO} : result' = Append(result, e)
    /\ UNCHANGED <<file, globals, expat, trqb, rqb>>

startElm ==
    /\ \E x \in Begins : LET e == ElementAt(x) IN
       /\ expat' = x
       /\ xml_depth' = xml_depth + 1
       /\ parse' = IF BeginsWith(e.elm, main_node) THEN xml_depth' ELSE parse
       /\ trqb' = IF parse' > 0 THEN parseElm(trqb, e, <<x.n, x.k>>) ELSE trqb
    /\ UNCHANGED <<file, main_node, rqb, result>>

\* Mutant: the end of the element of the mode is not noticed.
LeaveMode_Never == parse

\* The element of the mode ends.
LeaveMode == IF parse > 0 /\ parse = xml_depth THEN -1 ELSE parse

endElm ==
    /\ expat.open > 0 /\ Begins = {}
    /\ expat' = IF expat.open = 1 THEN After ELSE [expat EXCEPT !.open = @ - 1]
    /\ parse' = LeaveMode
    /\ xml_depth' = xml_depth - 1
    /\ UNCHANGED <<file, main_node, trqb, rqb, result>>

\* The text that was read ends early, or is wrong, behind the root too: the globals stay
\* as they are.
XmlError ==
    /\ expat # Nowhere /\ Errors < MaxErrors
    /\ result' = Append(result, -EINVAL)
    /\ expat' = Nowhere
    /\ UNCHANGED <<file, globals, trqb, rqb>>

EndParse ==
    /\ expat = After
    /\ rqb' = [rqb EXCEPT ![main_node] = trqb]
    /\ result' = Append(result, 0)
    /\ expat' = Nowhere
    /\ UNCHANGED <<file, globals, trqb>>

XNext == BeginParse \/ NoFile \/ startElm \/ endElm \/ XmlError \/ EndParse

-----------------------------------------------------------------------------
\* What the file says of mode m: for each parameter the last place in elements of
\* that name.
ElementOf(p) == IF p \in Cpus THEN "cpuquiet" ELSE "rqbalance"
Says(kid, p) == kid.elm = ElementOf(p) /\ p \in Range(kid.attr)
Places(m, p) ==
    UNION {{<<n, k>> : k \in {k \in DOMAIN file[n].kids : Says(file[n].kids[k], p)}}
           : n \in {n \in DOMAIN file : file[n].elm = m}}
Declared(m) ==
    [p \in Param |->
        IF Places(m, p) = {} THEN Default[p]
        ELSE CHOOSE x \in Places(m, p) :
                \A y \in Places(m, p) : y[1] < x[1] \/ (y[1] = x[1] /\ y[2] <= x[2])]

\* A file without names that begin with that of a mode, except elements of the root that
\* have it, and with a limit as the last attribute of its element, behind attributes
\* that are parameters.
Conventional ==
    \A t \in Range(file) :
        /\ \A m \in Range(Modes) : <<t.elm, m>> \notin Longer
        /\ \A k \in Range(t.kids), m \in Range(Modes) : ~BeginsWith(k.elm, m)
        /\ \A k \in Range(t.kids) : k.elm = "rqbalance" =>
              \A i \in DOMAIN k.attr : k.attr[i] \in Plain \/ (i = Len(k.attr) /\ k.attr[i] \in AllLimits)

\* The parse of mode n is of such a file, and expat stopped none before.
Sound(n) == Conventional /\ \A i \in 1..(n - 1) : result[i] # -EINVAL

\* A mode whose parse succeeds has the parameters the file gives it, all of them and
\* none of another mode, whatever the parses before it came to, as long as expat
\* stopped none of them; a mode whose parse fails has none.
ConfigAsWritten ==
    \A n \in DOMAIN result :
        /\ result[n] # 0 => rqb[Modes[n]] = Zero
        /\ result[n] = 0 /\ Sound(n) => rqb[Modes[n]] = Declared(Modes[n])

-----------------------------------------------------------------------------
\* Not so in this code (README, 6): a parse that fails leaves nothing behind for the
\* next mode; an attribute is taken wherever it stands.
EveryParseClean ==
    \A n \in DOMAIN result : Conventional /\ result[n] = 0 => rqb[Modes[n]] = Declared(Modes[n])
EveryAttribute ==
    \A n \in DOMAIN result :
        result[n] = 0 /\ (\A i \in 1..(n - 1) : result[i] # -EINVAL) =>
            rqb[Modes[n]] = Declared(Modes[n])

=============================================================================
