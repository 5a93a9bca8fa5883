-------------------------- MODULE PowerMode_proofs --------------------------
(***************************************************************************)
(* Proofs about the power HAL, for any threads, modes, files and limits: a *)
(* mode that is loaded has the parameters that the file gives it           *)
(* (XmlConfig), and a call that overlapped no other leaves the driver with *)
(* all of them (PowerMode, PowerHal).                                      *)
(***************************************************************************)
EXTENDS PowerHal, TLAPS

-----------------------------------------------------------------------------
(* The configuration, for any modes, files and parses that fail.            *)

\* A place is where a parameter stands; the later of two of them.
Earlier(x, y) == x[1] < y[1] \/ (x[1] = y[1] /\ x[2] <= y[2])
Place == {<<>>, <<0>>} \cup Text

\* The parameters of a mode; the CPUs are a text of the file, or not there.
Params == {ps \in [Param -> Place] : \A p \in Cpus : ps[p] # <<0>>}

\* v is a text of the file.
Given(v) == v \in Text /\ v # <<0>>

\* v is the last place of S, or d if there is none.
Last(v, S, d) ==
    IF S = {} THEN v = d ELSE v \in S /\ \A y \in S : Earlier(y, v)

\* The child k of the element n of the file has begun.
Begun(x) == x[1] < expat.n \/ (x[1] = expat.n /\ x[2] <= expat.k)

FileShape == file \in Files /\ file \in Seq(Branch)

\* expat is in the file.
ExpatInv ==
    /\ expat \in [open : -1..3, n : 0..(Len(file) + 1), k : Nat]
    /\ expat.open = -1 => expat = Nowhere
    /\ expat.open = 0 => expat \in {Before, After}
    /\ expat.open = 1 => /\ expat.n <= Len(file)
                         /\ expat.n > 0 => expat.k = Len(file[expat.n].kids)
    /\ expat.open \in {2, 3} => /\ expat.n \in 1..Len(file)
                                /\ expat.k <= Len(file[expat.n].kids)

\* The modes parsed so far, and the one that is being parsed.
ResultInv ==
    /\ result \in Seq(Int) /\ Len(result) <= Len(Modes)
    /\ expat # Nowhere => Len(result) < Len(Modes) /\ main_node = Modes[Len(result) + 1]
    /\ trqb \in Params /\ rqb \in [Range(Modes) -> Params]
    /\ \A n \in 1..Len(Modes) : n > Len(result) => rqb[Modes[n]] = Zero

\* As long as expat stopped no parse the globals say where it is, and the parameters
\* found are the last ones of their name that have begun.
ParseInv ==
    Conventional /\ (\A i \in DOMAIN result : result[i] # -EINVAL) =>
        /\ xml_depth = IF expat = Nowhere THEN 0 ELSE expat.open
        /\ parse = IF expat.open >= 2 /\ file[expat.n].elm = main_node THEN 2 ELSE -1
        /\ expat # Nowhere =>
              \A p \in Param :
                  Last(trqb[p], {x \in Places(main_node, p) : Begun(x)}, Default[p])

XInv == FileShape /\ ExpatInv /\ ResultInv /\ ParseInv /\ ConfigAsWritten

-----------------------------------------------------------------------------
(* Places in the file.                                                      *)

LEMMA ParamsApart ==
    /\ \A p \in Plain : p \in Param /\ p \notin Cpus /\ p \notin AllLimits
    /\ \A p \in AllLimits : p \in Param /\ p \notin Cpus
    /\ \A p \in Param : p \in Plain \cup Cpus \cup AllLimits
    /\ Default \in Params /\ Zero \in Params
  <1>1. AllLimits = Limits(0) \cup Limits(1)
    BY DEF AllLimits, CLUSTER_MAX
  <1>2. AllLimits = {"cluster0_freq_min", "cluster0_freq_max",
                     "cluster1_freq_min", "cluster1_freq_max"}
    BY <1>1 DEF Limits
  <1>3. \A p \in AllLimits : p \notin Cpus
    BY <1>2 DEF Cpus
  <1>4. <<>> # <<0>>
    OBVIOUS
  <1>5. Default \in Params /\ Zero \in Params
    <2>1. Default \in [Param -> Place] /\ Zero \in [Param -> Place]
      BY DEF Default, Zero, Place
    <2>2. \A p \in Cpus : p \in Param
      BY DEF Param
    <2>3. \A p \in Cpus : Default[p] # <<0>> /\ Zero[p] # <<0>>
      BY <1>3, <1>4, <2>2 DEF Default, Zero
    <2> QED BY <2>1, <2>3 DEF Params
  <1> QED BY <1>2, <1>5 DEF Plain, Cpus, Param

LEMMA FileIs ==
    ASSUME FileShape
    PROVE  /\ Len(file) \in Nat /\ DOMAIN file = 1..Len(file)
           /\ \A n \in 1..Len(file) :
                 /\ file[n] \in Range(file)
                 /\ file[n].elm \in STRING /\ Len(file[n].kids) \in Nat
                 /\ DOMAIN file[n].kids = 1..Len(file[n].kids)
                 /\ \A k \in 1..Len(file[n].kids) :
                       file[n].kids[k] \in Leaf \cap Range(file[n].kids)
  <1>1. Len(file) \in Nat /\ DOMAIN file = 1..Len(file)
          /\ \A n \in DOMAIN file : file[n] \in Branch
    BY DEF FileShape
  <1>2. \A n \in DOMAIN file : file[n] \in Range(file)
    BY DEF Range
  <1>3. ASSUME NEW n \in DOMAIN file
        PROVE  file[n].elm \in STRING /\ file[n].kids \in Seq(Leaf)
    BY <1>1 DEF Branch
  <1>4. ASSUME NEW n \in DOMAIN file
        PROVE  /\ Len(file[n].kids) \in Nat /\ DOMAIN file[n].kids = 1..Len(file[n].kids)
               /\ \A k \in DOMAIN file[n].kids : file[n].kids[k] \in Leaf
    BY <1>3
  <1>5. ASSUME NEW n \in DOMAIN file, NEW k \in DOMAIN file[n].kids
        PROVE  file[n].kids[k] \in Range(file[n].kids)
    BY DEF Range
  <1> QED BY <1>1, <1>2, <1>3, <1>4, <1>5

\* The children of the elements of mode m that give p, and no others.
LEMMA PlaceIs ==
    ASSUME FileShape, NEW m, NEW p, NEW x
    PROVE  x \in Places(m, p) <=>
             \E n \in 1..Len(file), k \in Nat :
                /\ x = <<n, k>> /\ k \in 1..Len(file[n].kids)
                /\ file[n].elm = m /\ Says(file[n].kids[k], p)
  <1>1. DOMAIN file = 1..Len(file)
    BY FileIs
  <1>2. ASSUME NEW n \in 1..Len(file)
        PROVE  DOMAIN file[n].kids = 1..Len(file[n].kids) /\ Len(file[n].kids) \in Nat
    BY FileIs
  <1>3. ASSUME x \in Places(m, p)
        PROVE  \E n \in 1..Len(file), k \in Nat :
                  /\ x = <<n, k>> /\ k \in 1..Len(file[n].kids)
                  /\ file[n].elm = m /\ Says(file[n].kids[k], p)
    <2>1. PICK n \in DOMAIN file : file[n].elm = m
             /\ x \in {<<n, k>> : k \in {k \in DOMAIN file[n].kids : Says(file[n].kids[k], p)}}
      BY <1>3 DEF Places
    <2>2. PICK k \in DOMAIN file[n].kids : x = <<n, k>> /\ Says(file[n].kids[k], p)
      BY <2>1
    <2>3. n \in 1..Len(file) /\ k \in 1..Len(file[n].kids) /\ k \in Nat
      BY <1>1, <1>2
    <2> QED BY <2>1, <2>2, <2>3
  <1>4. ASSUME NEW n \in 1..Len(file), NEW k \in 1..Len(file[n].kids), x = <<n, k>>,
               file[n].elm = m, Says(file[n].kids[k], p)
        PROVE  x \in Places(m, p)
    <2>1. n \in {i \in DOMAIN file : file[i].elm = m}
      BY <1>1, <1>4
    <2>2. k \in {j \in DOMAIN file[n].kids : Says(file[n].kids[j], p)}
      BY <1>2, <1>4
    <2>3. x \in {<<n, j>> : j \in {j \in DOMAIN file[n].kids : Says(file[n].kids[j], p)}}
      BY <2>2, <1>4
    <2> QED BY <2>1, <2>3 DEF Places
  <1> QED BY <1>3, <1>4

\* There is at most one last place.
LEMMA LastIsDeclared ==
    ASSUME FileShape, NEW m, NEW p \in Param, NEW v, Last(v, Places(m, p), Default[p])
    PROVE  v = Declared(m)[p]
  <1>1. CASE Places(m, p) = {}
    BY <1>1 DEF Last, Declared
  <1>2. CASE Places(m, p) # {}
    <2>1. v \in Places(m, p) /\ \A y \in Places(m, p) : Earlier(y, v)
      BY <1>2 DEF Last
    <2>2. ASSUME NEW w \in Places(m, p), \A y \in Places(m, p) : Earlier(y, w)
          PROVE  w = v
      <3>1. PICK n \in 1..Len(file), k \in Nat : w = <<n, k>>
        BY PlaceIs
      <3>2. PICK i \in 1..Len(file), j \in Nat : v = <<i, j>>
        BY <2>1, PlaceIs
      <3>3. Earlier(<<n, k>>, <<i, j>>) /\ Earlier(<<i, j>>, <<n, k>>)
        BY <2>1, <2>2, <3>1, <3>2
      <3>4. n = i /\ k = j
        BY <3>3 DEF Earlier, FileShape
      <3> QED BY <3>1, <3>2, <3>4
    <2>3. Declared(m)[p] = CHOOSE x \in Places(m, p) : \A y \in Places(m, p) : Earlier(y, x)
      BY <1>2 DEF Declared, Earlier
    <2> QED BY <2>1, <2>2, <2>3
  <1> QED BY <1>1, <1>2

\* In a conventional file an element gives what it says.
LEMMA TakesWhatItSays ==
    ASSUME NEW e \in Leaf, NEW p \in Param,
           e.elm = "rqbalance" =>
              \A i \in DOMAIN e.attr :
                 e.attr[i] \in Plain \/ (i = Len(e.attr) /\ e.attr[i] \in AllLimits)
    PROVE  p \in Takes(e) <=> Says(e, p)
  <1> USE DEF Leaf
  <1>1. CASE e.elm = "cpuquiet"
    BY <1>1 DEF Takes, Says, ElementOf
  <1>2. CASE e.elm = "rqbalance"
    <2>1. \A h \in DOMAIN e.attr : EndsCallback(e.attr, h) => h = Len(e.attr)
      BY <1>2, ParamsApart DEF EndsCallback
    <2>2. DOMAIN e.attr = 1..Len(e.attr) /\ Len(e.attr) \in Nat
      OBVIOUS
    <2>3. \A i \in DOMAIN e.attr :
             /\ e.attr[i] \in Plain \/ EndsCallback(e.attr, i)
             /\ \A h \in 1..(i - 1) : ~EndsCallback(e.attr, h)
      BY <1>2, <2>1, <2>2 DEF EndsCallback
    <2>4. p \in RqbalanceTakes(e.attr) <=> \E i \in DOMAIN e.attr : p = e.attr[i]
      BY <2>3 DEF RqbalanceTakes
    <2>5. (\E i \in DOMAIN e.attr : p = e.attr[i]) => p \notin Cpus
      BY <1>2, ParamsApart
    <2> QED BY <1>2, <2>4, <2>5 DEF Takes, Says, ElementOf, Range
  <1>3. CASE e.elm # "cpuquiet" /\ e.elm # "rqbalance"
    BY <1>3 DEF Takes, Says, ElementOf
  <1> QED BY <1>1, <1>2, <1>3

-----------------------------------------------------------------------------
(* The steps of a parse.                                                    *)

\* The file is conventional, and expat has stopped no parse of it.
Clean == Conventional /\ \A i \in DOMAIN result : result[i] # -EINVAL

LEMMA Positions ==
    /\ \A a, b, c : At(a, b, c).open = a /\ At(a, b, c).n = b /\ At(a, b, c).k = c
    /\ Nowhere.open = -1 /\ Before.open = 0 /\ After.open = 0
    /\ Before.n = 0 /\ Before.k = 0 /\ After.n = Len(file) + 1 /\ After.k = 0
    /\ Nowhere.n = 0 /\ Nowhere.k = 0
  BY DEF At, Nowhere, Before, After

\* The mode in hand is one of the modes.
LEMMA MainIsMode ==
    ASSUME ResultInv, expat # Nowhere
    PROVE  main_node \in Range(Modes) /\ main_node = Modes[Len(result) + 1]
  BY ConfigAssumption DEF ResultInv, Range

\* Nothing of the file is changed by a step of a parse.
LEMMA ParseKeepsFile ==
    ASSUME FileShape, XNext
    PROVE  /\ FileShape' /\ file' = file
           /\ Conventional' = Conventional
           /\ \A m : Declared(m)' = Declared(m) /\ \A p : Places(m, p)' = Places(m, p)
  <1>1. file' = file
    BY DEF XNext, BeginParse, NoFile, startElm, endElm, XmlError, EndParse
  <1> QED BY <1>1 DEF FileShape, Conventional, Declared, Places

LEMMA StepExpat ==
    ASSUME XInv, XNext
    PROVE  ExpatInv'
  <1>1. FileShape /\ ExpatInv /\ file' = file
    BY ParseKeepsFile DEF XInv
  <1>2. CASE BeginParse
    BY <1>1, <1>2, Positions, FileIs DEF BeginParse, ExpatInv, Before, Nowhere, After, At
  <1>3. CASE NoFile \/ XmlError \/ EndParse
    <2>1. expat' = Nowhere
      BY <1>3 DEF NoFile, XmlError, EndParse, Between
    <2> QED BY <1>1, <2>1, FileIs DEF ExpatInv, Before, Nowhere, After, At
  <1>4. CASE startElm
    <2>1. PICK x \in Begins : expat' = x
      BY <1>4 DEF startElm
    <2>2. CASE expat = Before
      BY <1>1, <2>1, <2>2, FileIs DEF Begins, ExpatInv, Before, Nowhere, After, At
    <2>3. CASE expat # Before /\ expat.open = 1 /\ expat.n < Len(file)
      BY <1>1, <2>1, <2>3, FileIs DEF Begins, ExpatInv, Before, Nowhere, After, At
    <2>4. CASE expat # Before /\ expat.open = 2 /\ expat.k < Len(file[expat.n].kids)
      BY <1>1, <2>1, <2>4, FileIs DEF Begins, ExpatInv, Before, Nowhere, After, At
    <2> QED BY <2>1, <2>2, <2>3, <2>4 DEF Begins
  <1>5. CASE endElm
    <2>1. expat.open \in 1..3 /\ Begins = {}
          /\ expat' = IF expat.open = 1 THEN After ELSE [expat EXCEPT !.open = @ - 1]
      BY <1>1, <1>5 DEF endElm, ExpatInv
    <2>2. expat.open = 2 => ~(expat.k < Len(file[expat.n].kids))
      BY <2>1, Positions DEF Begins
    <2>3. CASE expat.open = 1
      BY <1>1, <2>1, <2>3, FileIs DEF ExpatInv, Before, Nowhere, After, At
    <2>4. CASE expat.open \in {2, 3}
      BY <1>1, <2>1, <2>2, <2>4, FileIs DEF ExpatInv, Before, Nowhere, After, At
    <2> QED BY <2>1, <2>3, <2>4
  <1> QED BY <1>2, <1>3, <1>4, <1>5 DEF XNext

\* The values of parameters that a parse has found: only a child gives any.
LEMMA TakenPlace ==
    ASSUME NEW params \in Params, NEW e, NEW v,
           Takes(e) = {} \/ Given(v)
    PROVE  parseElm(params, e, v) \in Params
  <1>1. params \in [Param -> Place] /\ \A p \in Cpus : params[p] # <<0>> /\ p \in Param
    BY DEF Params, Param
  <1>2. parseElm(params, e, v) = [p \in Param |-> IF p \in Takes(e) THEN v ELSE params[p]]
    BY DEF parseElm
  <1>3. CASE Takes(e) = {}
    BY <1>1, <1>2, <1>3 DEF Params
  <1>4. CASE Given(v)
    <2>1. v \in Place
      BY <1>4 DEF Given, Place
    <2> HIDE DEF Place
    <2>2. parseElm(params, e, v) \in [Param -> Place]
      BY <1>1, <1>2, <2>1
    <2>3. \A p \in Cpus : parseElm(params, e, v)[p] # <<0>>
      BY <1>1, <1>2, <1>4 DEF Given
    <2> QED BY <2>2, <2>3 DEF Params
  <1> QED BY <1>3, <1>4

LEMMA PlaceInText ==
    ASSUME FileShape, NEW n \in 1..Len(file), NEW k \in 1..Len(file[n].kids)
    PROVE  <<n, k>> \in Text /\ <<n, k>> # <<0>>
  <1>1. file \in Files /\ n \in DOMAIN file /\ k \in DOMAIN file[n].kids
    BY FileIs DEF FileShape
  <1>2. <<n, k>> \in {<<n, j>> : j \in DOMAIN file[n].kids}
    BY <1>1
  <1>3. <<n, k>> \in UNION {{<<i, j>> : j \in DOMAIN file[i].kids} : i \in DOMAIN file}
    BY <1>1, <1>2
  <1>4. <<n, k>> \in Text
    BY <1>1, <1>3 DEF Text
  <1>5. Len(<<n, k>>) = 2 /\ Len(<<0>>) = 1
    OBVIOUS
  <1> QED BY <1>4, <1>5

LEMMA StepResult ==
    ASSUME XInv, XNext
    PROVE  ResultInv'
  <1>1. /\ result \in Seq(Int) /\ Len(result) \in 0..Len(Modes) /\ Len(Modes) \in Nat
        /\ trqb \in Params /\ rqb \in [Range(Modes) -> Params]
        /\ \A n \in 1..Len(Modes) : n > Len(result) => rqb[Modes[n]] = Zero
        /\ \A i, j \in 1..Len(Modes) : Modes[i] = Modes[j] => i = j
    BY ConfigAssumption DEF XInv, ResultInv
  <1>2. ASSUME expat # Nowhere
        PROVE  Len(result) < Len(Modes) /\ main_node = Modes[Len(result) + 1]
    BY <1>2 DEF XInv, ResultInv
  <1>3. CASE BeginParse
    <2>1. Len(result) < Len(Modes)
      BY <1>1, <1>3 DEF BeginParse, Between, Loaded
    <2>2. /\ trqb' \in Params /\ rqb' = rqb /\ result' = result
          /\ main_node' = Modes[Len(result) + 1]
      BY <1>3, ParamsApart DEF BeginParse
    <2> QED BY <1>1, <2>1, <2>2 DEF ResultInv
  <1>4. CASE NoFile \/ XmlError
    <2>1. PICK e \in Int : result' = Append(result, e)
      BY <1>4 DEF NoFile, XmlError, ENOENT, E2BIG, EIO, EINVAL
    <2>2. Len(result) < Len(Modes)
      BY <1>1, <1>2, <1>4 DEF NoFile, XmlError, Between, Loaded
    <2>3. expat' = Nowhere /\ trqb' = trqb /\ rqb' = rqb
      BY <1>4 DEF NoFile, XmlError, Between
    <2> QED BY <1>1, <2>1, <2>2, <2>3 DEF ResultInv
  <1>5. CASE startElm
    <2>1. PICK x \in Begins :
             trqb' = IF parse' > 0 THEN parseElm(trqb, ElementAt(x), <<x.n, x.k>>) ELSE trqb
      BY <1>5 DEF startElm
    <2>2. expat # Nowhere
      BY <2>1, Positions DEF Begins, XInv, ExpatInv
    <2>3. Takes(ElementAt(x)) = {} \/ (<<x.n, x.k>> \in Text /\ <<x.n, x.k>> # <<0>>)
      <3>1. x.open \in {1, 2} \/ (x.n \in 1..Len(file) /\ x.k \in 1..Len(file[x.n].kids))
        <4>1. x.open \in {1, 2} \/ (/\ expat.open = 2 /\ expat.k < Len(file[expat.n].kids)
                                    /\ x.n = expat.n /\ x.k = expat.k + 1)
          BY <2>1, Positions DEF Begins
        <4>2. /\ FileShape /\ expat.k \in Nat
              /\ expat.open = 2 => expat.n \in 1..Len(file)
          BY DEF XInv, ExpatInv
        <4> QED BY <4>1, <4>2, FileIs
      <3>2. CASE x.open \in {1, 2}
        <4>1. ElementAt(x).attr = <<>>
          BY <3>2 DEF ElementAt
        <4> QED BY <4>1 DEF Takes, Range, RqbalanceTakes
      <3>3. CASE x.n \in 1..Len(file) /\ x.k \in 1..Len(file[x.n].kids)
        BY <3>3, PlaceInText DEF XInv
      <3> QED BY <3>1, <3>2, <3>3
    <2>5. trqb' \in Params
      BY <1>1, <2>1, <2>3, TakenPlace DEF Given
    <2>4. main_node' = main_node /\ rqb' = rqb /\ result' = result
      BY <1>5 DEF startElm
    <2> QED BY <1>1, <1>2, <2>2, <2>4, <2>5 DEF ResultInv
  <1>6. CASE endElm
    <2>1. expat # Nowhere
      BY <1>6, Positions DEF endElm
    <2> QED BY <1>1, <1>2, <1>6, <2>1 DEF endElm, ResultInv
  <1>7. CASE EndParse
    <2>1. expat # Nowhere
      BY <1>7, Positions DEF EndParse
    <2>2. rqb' = [rqb EXCEPT ![main_node] = trqb] /\ result' = Append(result, 0)
          /\ expat' = Nowhere /\ trqb' = trqb
      BY <1>7 DEF EndParse
    <2>3. ASSUME NEW n \in 1..Len(Modes), n > Len(result')
          PROVE  rqb'[Modes[n]] = Zero
      <3>1. n > Len(result) + 1 /\ n # Len(result) + 1
        BY <1>1, <2>2, <2>3
      <3>2. Modes[n] # main_node
        BY <1>1, <1>2, <2>1, <3>1
      <3> QED BY <1>1, <2>2, <3>1, <3>2
    <2>4. result' \in Seq(Int) /\ Len(result') <= Len(Modes)
      BY <1>1, <1>2, <2>1, <2>2
    <2>5. rqb' \in [Range(Modes) -> Params]
      BY <1>1, <2>2
    <2> QED BY <1>1, <2>2, <2>3, <2>4, <2>5 DEF ResultInv
  <1> QED BY <1>3, <1>4, <1>5, <1>6, <1>7 DEF XNext

\* Results before the last one.
LEMMA CleanBefore ==
    ASSUME XInv, XNext, Conventional', \A i \in DOMAIN result' : result'[i] # -EINVAL
    PROVE  /\ Conventional /\ \A i \in DOMAIN result : result[i] # -EINVAL
           /\ ~XmlError
  <1>1. Conventional /\ result \in Seq(Int)
    BY ParseKeepsFile DEF XInv, ResultInv
  <1>2. CASE result' = result
    <2>1. ~XmlError
      BY <1>1, <1>2 DEF XmlError
    <2> QED BY <1>1, <1>2, <2>1
  <1>3. ASSUME NEW e \in Int, result' = Append(result, e)
        PROVE  /\ \A i \in DOMAIN result : result[i] # -EINVAL
               /\ e # -EINVAL
    <2>1. Len(result) + 1 \in DOMAIN result' /\ result'[Len(result) + 1] = e
      BY <1>1, <1>3
    <2>2. \A i \in DOMAIN result : i \in DOMAIN result' /\ result'[i] = result[i]
      BY <1>1, <1>3
    <2> QED BY <2>1, <2>2
  <1>4. XmlError => result' = Append(result, -EINVAL) /\ -EINVAL \in Int
    BY DEF XmlError, EINVAL
  <1>5. result' = result \/ \E e \in Int : result' = Append(result, e)
    BY DEF XNext, BeginParse, NoFile, startElm, endElm, XmlError, EndParse,
           ENOENT, E2BIG, EIO, EINVAL
  <1>6. CASE result' # result
    <2>1. PICK e \in Int : result' = Append(result, e)
      BY <1>5, <1>6
    <2>2. XmlError => e = -EINVAL
      <3>1. Append(result, e)[Len(result) + 1] = e
        BY <1>1
      <3>2. Append(result, -EINVAL)[Len(result) + 1] = -EINVAL
        BY <1>1 DEF EINVAL
      <3> QED BY <1>4, <2>1, <3>1, <3>2
    <2> QED BY <1>1, <1>3, <2>1, <2>2
  <1> QED BY <1>2, <1>6

\* What has been parsed does not change.
LEMMA StepConfig ==
    ASSUME XInv, XNext
    PROVE  ConfigAsWritten'
  <1>1. /\ result \in Seq(Int) /\ Len(result) \in 0..Len(Modes) /\ Len(Modes) \in Nat
        /\ DOMAIN result = 1..Len(result)
        /\ trqb \in Params /\ rqb \in [Range(Modes) -> Params]
        /\ \A n \in 1..Len(Modes) : n > Len(result) => rqb[Modes[n]] = Zero
        /\ \A i, j \in 1..Len(Modes) : Modes[i] = Modes[j] => i = j
    BY ConfigAssumption DEF XInv, ResultInv
  <1>2. /\ FileShape /\ Conventional' = Conventional /\ \A m : Declared(m)' = Declared(m)
        /\ \A n \in DOMAIN result :
              /\ result[n] # 0 => rqb[Modes[n]] = Zero
              /\ Conventional /\ result[n] = 0
                   /\ (\A i \in 1..(n - 1) : result[i] # -EINVAL) =>
                    rqb[Modes[n]] = Declared(Modes[n])
    BY ParseKeepsFile DEF XInv, ConfigAsWritten, Sound
  <1>3. CASE result' = result /\ rqb' = rqb
    BY <1>2, <1>3 DEF ConfigAsWritten, Sound
  <1>4. ASSUME NEW e \in Int \ {0}, result' = Append(result, e), rqb' = rqb,
               Len(result) < Len(Modes)
        PROVE  ConfigAsWritten'
    <2>1. /\ DOMAIN result' = 1..(Len(result) + 1) /\ result'[Len(result) + 1] = e
          /\ \A n \in DOMAIN result : result'[n] = result[n]
      BY <1>1, <1>4
    <2>2. rqb[Modes[Len(result) + 1]] = Zero
      BY <1>1, <1>4
    <2> SUFFICES ASSUME NEW n \in DOMAIN result'
                 PROVE  /\ result'[n] # 0 => rqb[Modes[n]] = Zero
                        /\ Conventional /\ result'[n] = 0
                             /\ (\A i \in 1..(n - 1) : result'[i] # -EINVAL) =>
                              rqb[Modes[n]] = Declared(Modes[n])
      BY <1>2, <1>4 DEF ConfigAsWritten, Sound
    <2>3. CASE n = Len(result) + 1
      BY <1>4, <2>1, <2>2, <2>3
    <2>4. CASE n \in DOMAIN result
      <3>1. \A i \in 1..(n - 1) : i \in DOMAIN result
        BY <1>1, <2>4
      <3> QED BY <1>2, <2>1, <2>4, <3>1
    <2> QED BY <1>1, <2>1, <2>3, <2>4
  <1>5. CASE NoFile \/ XmlError
    <2>1. PICK e \in Int \ {0} : result' = Append(result, e)
      BY <1>5 DEF NoFile, XmlError, ENOENT, E2BIG, EIO, EINVAL
    <2>2. Len(result) < Len(Modes)
      BY <1>1, <1>5 DEF NoFile, XmlError, Between, Loaded, XInv, ResultInv
    <2>3. rqb' = rqb
      BY <1>5 DEF NoFile, XmlError
    <2> QED BY <1>4, <2>1, <2>2, <2>3
  <1>6. CASE EndParse
    <2>1. expat = After /\ expat # Nowhere
      BY <1>6, Positions DEF EndParse
    <2>2. /\ rqb' = [rqb EXCEPT ![main_node] = trqb] /\ result' = Append(result, 0)
          /\ Len(result) < Len(Modes) /\ main_node = Modes[Len(result) + 1]
      BY <1>6, <2>1 DEF EndParse, XInv, ResultInv
    <2>3. /\ DOMAIN result' = 1..(Len(result) + 1) /\ result'[Len(result) + 1] = 0
          /\ \A n \in DOMAIN result : result'[n] = result[n]
      BY <1>1, <2>2
    <2>4. rqb'[main_node] = trqb /\ \A m \in Range(Modes) : m # main_node => rqb'[m] = rqb[m]
      BY <1>1, <2>1, <2>2, MainIsMode DEF XInv
    <2> SUFFICES ASSUME NEW n \in DOMAIN result'
                 PROVE  /\ result'[n] # 0 => rqb'[Modes[n]] = Zero
                        /\ Conventional /\ result'[n] = 0
                             /\ (\A i \in 1..(n - 1) : result'[i] # -EINVAL) =>
                              rqb'[Modes[n]] = Declared(Modes[n])
      BY <1>2 DEF ConfigAsWritten, Sound
    <2>5. CASE n = Len(result) + 1
      <3> SUFFICES ASSUME Conventional, \A i \in 1..(n - 1) : result'[i] # -EINVAL
                   PROVE  trqb = Declared(main_node)
        BY <2>2, <2>3, <2>4, <2>5
      <3>1. \A i \in DOMAIN result : result[i] # -EINVAL
        BY <1>1, <2>3, <2>5
      <3>2. ASSUME NEW p \in Param PROVE trqb[p] = Declared(main_node)[p]
        <4>1. \A x \in Places(main_node, p) : Begun(x)
          BY <1>2, <2>1, Positions, PlaceIs, FileIs DEF Begun
        <4>2. {x \in Places(main_node, p) : Begun(x)} = Places(main_node, p)
          BY <4>1
        <4>3. Last(trqb[p], {x \in Places(main_node, p) : Begun(x)}, Default[p])
          BY <2>1, <3>1 DEF XInv, ParseInv
        <4>4. Last(trqb[p], Places(main_node, p), Default[p])
          BY <4>2, <4>3
        <4> QED BY <1>2, <4>4, LastIsDeclared
      <3>3. DOMAIN Declared(main_node) = Param /\ DOMAIN trqb = Param
        BY <1>1 DEF Declared, Params
      <3>4. Declared(main_node) = [p \in Param |-> Declared(main_node)[p]]
        BY DEF Declared
      <3>5. trqb = [p \in Param |-> trqb[p]]
        BY <1>1 DEF Params
      <3> QED BY <3>2, <3>4, <3>5
    <2>6. CASE n \in DOMAIN result
      <3>1. \A i \in 1..(n - 1) : i \in DOMAIN result
        BY <1>1, <2>6
      <3>2. Modes[n] # main_node /\ Modes[n] \in Range(Modes)
        BY <1>1, <2>2, <2>6, ConfigAssumption DEF Range
      <3> QED BY <1>2, <2>3, <2>4, <2>6, <3>1, <3>2
    <2> QED BY <1>1, <2>3, <2>5, <2>6
  <1>7. CASE BeginParse \/ startElm \/ endElm
    BY <1>3, <1>7 DEF BeginParse, startElm, endElm
  <1> QED BY <1>5, <1>6, <1>7 DEF XNext

\* In a conventional file the root and the children are not taken for a mode, and an
\* element of the root is if it has its name.
LEMMA Names ==
    ASSUME FileShape, Conventional, NEW m \in Range(Modes), NEW n \in 1..Len(file)
    PROVE  /\ ~BeginsWith("root", m)
           /\ BeginsWith(file[n].elm, m) <=> file[n].elm = m
           /\ \A k \in 1..Len(file[n].kids) : ~BeginsWith(file[n].kids[k].elm, m)
  <1>1. file[n] \in Range(file) /\ \A k \in 1..Len(file[n].kids) :
                                      file[n].kids[k] \in Range(file[n].kids)
    BY FileIs
  <1> QED BY <1>1, ConfigAssumption DEF Conventional, BeginsWith

\* The last place when nothing of that name has begun since.
LEMMA SameBegun ==
    ASSUME NEW m, NEW p, NEW v, NEW d, \A x \in Places(m, p) : Begun(x)' <=> Begun(x),
           Places(m, p)' = Places(m, p),
           Last(v, {x \in Places(m, p) : Begun(x)}, d)
    PROVE  Last(v, {x \in Places(m, p)' : Begun(x)'}, d)
  <1>1. {x \in Places(m, p)' : Begun(x)'} = {x \in Places(m, p) : Begun(x)}
    OBVIOUS
  <1> QED BY <1>1

\* What the steps have in common that begin or end an element.
LEMMA ParseGoesOn ==
    ASSUME XInv, Clean, startElm \/ endElm
    PROVE  /\ FileShape /\ ExpatInv /\ expat # Nowhere /\ Conventional
           /\ file' = file /\ main_node' = main_node /\ main_node \in Range(Modes)
           /\ \A p : Places(main_node, p)' = Places(main_node, p)
           /\ xml_depth = expat.open
           /\ parse = IF expat.open >= 2 /\ file[expat.n].elm = main_node THEN 2 ELSE -1
           /\ trqb \in Params
           /\ \A p \in Param :
                 Last(trqb[p], {x \in Places(main_node, p) : Begun(x)}, Default[p])
  <1>1. FileShape /\ ExpatInv /\ ResultInv /\ ParseInv /\ Conventional
    BY DEF XInv, Clean
  <1>2. expat # Nowhere
    <2>1. startElm => Begins # {}
      BY DEF startElm
    <2> QED BY <2>1, Positions DEF Begins, endElm
  <1>3. file' = file /\ main_node' = main_node
    BY DEF startElm, endElm
  <1>4. \A p : Places(main_node, p)' = Places(main_node, p)
    BY <1>3 DEF Places
  <1> QED BY <1>1, <1>2, <1>3, <1>4, MainIsMode DEF ParseInv, ResultInv, Clean

LEMMA StartParse ==
    ASSUME XInv, startElm, Clean
    PROVE  ParseInv'
  <1>1. /\ FileShape /\ ExpatInv /\ Conventional /\ main_node \in Range(Modes)
        /\ \A p : Places(main_node, p)' = Places(main_node, p)
        /\ \A p \in Param :
              Last(trqb[p], {x \in Places(main_node, p) : Begun(x)}, Default[p])
    BY ParseGoesOn
  <1>2. /\ xml_depth = expat.open /\ trqb \in Params
        /\ file' = file /\ main_node' = main_node
        /\ parse = IF expat.open >= 2 /\ file[expat.n].elm = main_node THEN 2 ELSE -1
    BY ParseGoesOn
  <1>3. PICK x \in Begins :
           /\ expat' = x /\ xml_depth' = xml_depth + 1
           /\ parse' = IF BeginsWith(ElementAt(x).elm, main_node) THEN xml_depth' ELSE parse
           /\ trqb' = IF parse' > 0 THEN parseElm(trqb, ElementAt(x), <<x.n, x.k>>) ELSE trqb
    BY <1>1 DEF startElm
  <1> SUFFICES
           /\ expat' # Nowhere /\ xml_depth' = expat'.open
           /\ parse' = IF expat'.open >= 2 /\ file[expat'.n].elm = main_node THEN 2 ELSE -1
           /\ \A p \in Param :
                 Last(trqb'[p], {y \in Places(main_node, p)' : Begun(y)'}, Default[p])
    BY <1>2 DEF ParseInv, Nowhere
  <1>4. CASE expat = Before
    <2>1. x = At(1, 0, 0) /\ ElementAt(x).elm = "root"
      BY <1>3, <1>4, Positions DEF Begins, ElementAt
    <2>2. ~BeginsWith("root", main_node)
      BY <1>1, ConfigAssumption
    <2>3. parse' = -1 /\ trqb' = trqb /\ xml_depth' = 1 /\ expat'.open = 1 /\ expat' # Nowhere
      BY <1>2, <1>3, <1>4, <2>1, <2>2, Positions
    <2>4. ASSUME NEW p \in Param, NEW y \in Places(main_node, p) PROVE Begun(y)' <=> Begun(y)
      BY <1>3, <1>4, <2>1, Positions, PlaceIs DEF Begun
    <2> QED BY <1>1, <2>3, <2>4, SameBegun
  <1>5. CASE expat # Before /\ expat.open = 1 /\ expat.n < Len(file)
    <2> DEFINE n == expat.n + 1
    <2>1. x = At(2, n, 0) /\ ElementAt(x) = [elm |-> file[n].elm, attr |-> <<>>]
      BY <1>3, <1>5, Positions, SMTT(60) DEF Begins, ElementAt
    <2>2. n \in 1..Len(file) /\ expat.n \in Nat
      BY <1>1, <1>5, FileIs DEF ExpatInv
    <2>3. /\ parse' = IF file[n].elm = main_node THEN 2 ELSE -1
          /\ xml_depth' = 2 /\ expat'.open = 2 /\ expat'.n = n /\ expat' # Nowhere
      BY <1>1, <1>2, <1>3, <1>5, <2>1, <2>2, Names, Positions
    <2>4. trqb' = trqb
      <3>1. Takes(ElementAt(x)) = {}
        BY <2>1 DEF Takes, Range, RqbalanceTakes
      <3>2. parseElm(trqb, ElementAt(x), <<x.n, x.k>>) = [p \in Param |-> trqb[p]]
        BY <3>1 DEF parseElm
      <3>3. trqb = [p \in Param |-> trqb[p]]
        BY <1>2 DEF Params
      <3> QED BY <1>3, <3>2, <3>3
    <2>5. ASSUME NEW p \in Param, NEW y \in Places(main_node, p) PROVE Begun(y)' <=> Begun(y)
      <3>1. PICK i \in 1..Len(file), k \in Nat :
               y = <<i, k>> /\ k \in 1..Len(file[i].kids)
        BY <1>1, PlaceIs
      <3>2. Begun(y)' <=> i < n \/ (i = n /\ k <= 0)
        BY <1>3, <2>1, <3>1, Positions DEF Begun
      <3>3. Begun(y) <=> i < expat.n \/ (i = expat.n /\ k <= expat.k)
        BY <3>1 DEF Begun
      <3>4. expat.n > 0 => expat.k = Len(file[expat.n].kids)
        BY <1>1, <1>5 DEF ExpatInv
      <3> QED BY <2>2, <3>1, <3>2, <3>3, <3>4, FileIs
    <2> QED BY <1>1, <2>3, <2>4, <2>5, SameBegun
  <1>6. CASE expat # Before /\ expat.open = 2 /\ expat.k < Len(file[expat.n].kids)
    <2> DEFINE n == expat.n
               k == expat.k + 1
               e == file[n].kids[k]
    <2>1. x = At(3, n, k) /\ ElementAt(x) = e
      BY <1>3, <1>6, Positions, SMTT(60) DEF Begins, ElementAt
    <2>2. n \in 1..Len(file) /\ k \in 1..Len(file[n].kids) /\ expat.k \in Nat /\ k \in Nat
      BY <1>1, <1>6, FileIs DEF ExpatInv
    <2>3. e \in Leaf /\ e \in Range(file[n].kids) /\ file[n] \in Range(file)
      BY <1>1, <2>2, FileIs
    <2>4. ~BeginsWith(e.elm, main_node)
      BY <1>1, <2>2, Names
    <2>5. /\ parse = IF file[n].elm = main_node THEN 2 ELSE -1
          /\ parse' = parse /\ xml_depth' = 3
          /\ expat'.open = 3 /\ expat'.n = n /\ expat'.k = k /\ expat' # Nowhere
      BY <1>2, <1>3, <1>6, <2>1, <2>4, Positions
    <2>6. ASSUME NEW p \in Param, NEW y \in Places(main_node, p)
          PROVE  Begun(y)' <=> Begun(y) \/ y = <<n, k>>
      <3>1. PICK i \in 1..Len(file), j \in Nat : y = <<i, j>>
        BY <1>1, PlaceIs
      <3>2. Begun(y)' <=> i < n \/ (i = n /\ j <= k)
        BY <2>5, <3>1 DEF Begun
      <3>3. Begun(y) <=> i < n \/ (i = n /\ j <= expat.k)
        BY <3>1 DEF Begun
      <3> QED BY <2>2, <3>1, <3>2, <3>3
    <2>7. ASSUME NEW p \in Param
          PROVE  Last(trqb'[p], {y \in Places(main_node, p)' : Begun(y)'}, Default[p])
      <3>1. <<n, k>> \in Places(main_node, p) <=> file[n].elm = main_node /\ Says(e, p)
        <4>1. ASSUME NEW i \in 1..Len(file), NEW j \in Nat, <<n, k>> = <<i, j>>
              PROVE  n = i /\ k = j
          BY <4>1
        <4> QED BY <1>1, <2>2, <4>1, PlaceIs
      <3>2. p \in Takes(e) <=> Says(e, p)
        <4>1. e.elm = "rqbalance" =>
                \A i \in DOMAIN e.attr :
                   e.attr[i] \in Plain \/ (i = Len(e.attr) /\ e.attr[i] \in AllLimits)
          BY <1>1, <2>3 DEF Conventional
        <4> QED BY <2>3, <4>1, TakesWhatItSays
      <3>3. trqb'[p] = IF file[n].elm = main_node /\ p \in Takes(e) THEN <<n, k>> ELSE trqb[p]
        <4>1. trqb' = IF file[n].elm = main_node THEN parseElm(trqb, e, <<n, k>>) ELSE trqb
          BY <1>3, <2>1, <2>5, Positions
        <4> QED BY <4>1 DEF parseElm
      <3>4. CASE file[n].elm = main_node /\ p \in Takes(e)
        <4>1. <<n, k>> \in {y \in Places(main_node, p)' : Begun(y)'}
          BY <1>1, <2>6, <3>1, <3>2, <3>4
        <4>2. ASSUME NEW y \in Places(main_node, p), Begun(y)' PROVE Earlier(y, <<n, k>>)
          <5>1. PICK i \in 1..Len(file), j \in Nat : y = <<i, j>>
            BY <1>1, PlaceIs
          <5>2. i < n \/ (i = n /\ j <= k)
            BY <2>5, <4>2, <5>1 DEF Begun
          <5> QED BY <5>1, <5>2 DEF Earlier
        <4> QED BY <1>1, <3>3, <3>4, <4>1, <4>2 DEF Last
      <3>5. CASE ~(file[n].elm = main_node /\ p \in Takes(e))
        <4>1. \A y \in Places(main_node, p) : Begun(y)' <=> Begun(y)
          BY <2>6, <3>1, <3>2, <3>5
        <4>2. Last(trqb[p], {y \in Places(main_node, p)' : Begun(y)'}, Default[p])
          BY <1>1, <4>1, SameBegun
        <4> QED BY <3>3, <3>5, <4>2
      <3> QED BY <3>4, <3>5
    <2>8. xml_depth' = expat'.open
      BY <2>5
    <2>9. parse' = IF expat'.open >= 2 /\ file[expat'.n].elm = main_node THEN 2 ELSE -1
      BY <2>5
    <2> HIDE DEF n, k, e
    <2> QED BY <2>5, <2>7, <2>8, <2>9
  <1>7. \/ expat = Before
        \/ expat # Before /\ expat.open = 1 /\ expat.n < Len(file)
        \/ expat # Before /\ expat.open = 2 /\ expat.k < Len(file[expat.n].kids)
    BY <1>3 DEF Begins
  <1> QED BY <1>4, <1>5, <1>6, <1>7

LEMMA EndElement ==
    ASSUME XInv, endElm, Clean
    PROVE  ParseInv'
  <1>1. /\ FileShape /\ ExpatInv /\ Conventional /\ main_node \in Range(Modes)
        /\ \A p : Places(main_node, p)' = Places(main_node, p)
        /\ \A p \in Param :
              Last(trqb[p], {x \in Places(main_node, p) : Begun(x)}, Default[p])
    BY ParseGoesOn
  <1>2. /\ xml_depth = expat.open /\ trqb \in Params
        /\ file' = file /\ main_node' = main_node
        /\ parse = IF expat.open >= 2 /\ file[expat.n].elm = main_node THEN 2 ELSE -1
    BY ParseGoesOn
  <1>3. /\ expat.open \in 1..3 /\ Begins = {} /\ xml_depth' = xml_depth - 1 /\ trqb' = trqb
        /\ expat' = IF expat.open = 1 THEN After ELSE [expat EXCEPT !.open = @ - 1]
        /\ parse' = IF parse > 0 /\ parse = xml_depth THEN -1 ELSE parse
    BY <1>1 DEF endElm, LeaveMode, ExpatInv
  <1> SUFFICES
           /\ expat' # Nowhere /\ xml_depth' = expat'.open
           /\ parse' = IF expat'.open >= 2 /\ file[expat'.n].elm = main_node THEN 2 ELSE -1
           /\ \A p \in Param :
                 Last(trqb'[p], {y \in Places(main_node, p)' : Begun(y)'}, Default[p])
    BY <1>2 DEF ParseInv, Nowhere
  <1>4. CASE expat.open = 1
    <2>1. expat' = After /\ ~(expat.n < Len(file)) /\ expat # Before
      BY <1>3, <1>4, Positions DEF Begins
    <2>2. expat.n = Len(file) /\ expat.n \in Nat
      BY <1>1, <1>4, <2>1, FileIs DEF ExpatInv
    <2>3. expat' # Nowhere /\ xml_depth' = 0 /\ expat'.open = 0 /\ parse' = -1
          /\ expat'.n = Len(file) + 1
      BY <1>2, <1>3, <1>4, <2>1, Positions
    <2>4. ASSUME NEW p \in Param, NEW y \in Places(main_node, p) PROVE Begun(y)' <=> Begun(y)
      <3>1. PICK i \in 1..Len(file), k \in Nat : y = <<i, k>> /\ k \in 1..Len(file[i].kids)
        BY <1>1, PlaceIs
      <3>2. Begun(y)'
        BY <2>3, <3>1, FileIs DEF Begun
      <3>3. expat.n > 0 => expat.k = Len(file[expat.n].kids)
        BY <1>1, <1>4 DEF ExpatInv
      <3>4. i < expat.n \/ (i = expat.n /\ k <= expat.k)
        <4>1. CASE i = expat.n
          BY <3>1, <3>3, <4>1
        <4>2. CASE i # expat.n
          BY <2>2, <3>1, <4>2
        <4> QED BY <4>1, <4>2
      <3>5. Begun(y)
        BY <3>1, <3>4 DEF Begun
      <3> QED BY <3>2, <3>5
    <2>5. \A p \in Param :
             Last(trqb'[p], {y \in Places(main_node, p)' : Begun(y)'}, Default[p])
      BY <1>1, <1>3, <2>4, SameBegun
    <2>6. xml_depth' = expat'.open
      BY <2>3
    <2>7. parse' = IF expat'.open >= 2 /\ file[expat'.n].elm = main_node THEN 2 ELSE -1
      BY <2>3
    <2> QED BY <2>3, <2>5, <2>6, <2>7
  <1>5. CASE expat.open \in {2, 3}
    <2>1. expat'.open = expat.open - 1 /\ expat'.n = expat.n /\ expat'.k = expat.k
      BY <1>3, <1>5 DEF ExpatInv
    <2>2. expat' # Nowhere /\ xml_depth' = expat'.open
      <3>1. xml_depth = expat.open
        BY <1>2
      <3>2. xml_depth' = xml_depth - 1
        BY <1>3
      <3>3. expat'.open \in {1, 2}
        BY <1>5, <2>1
      <3>4. xml_depth' = expat'.open
        BY <3>2, <3>1, <2>1
      <3>5. expat' # Nowhere
        BY <3>3, Positions
      <3> QED BY <3>4, <3>5
    <2>3. parse' = IF expat'.open >= 2 /\ file[expat'.n].elm = main_node THEN 2 ELSE -1
      BY <1>2, <1>3, <1>5, <2>1
    <2>4. ASSUME NEW p \in Param, NEW y \in Places(main_node, p) PROVE Begun(y)' <=> Begun(y)
      BY <2>1 DEF Begun
    <2>5. \A p \in Param :
             Last(trqb'[p], {y \in Places(main_node, p)' : Begun(y)'}, Default[p])
      BY <1>1, <1>3, <2>4, SameBegun
    <2> QED BY <2>2, <2>3, <2>5
  <1>6. expat.open = 1 \/ expat.open \in {2, 3}
    BY <1>3
  <1> QED BY <1>4, <1>5, <1>6

LEMMA StepParse ==
    ASSUME XInv, XNext
    PROVE  ParseInv'
  <1> SUFFICES ASSUME Conventional', \A i \in DOMAIN result' : result'[i] # -EINVAL
               PROVE  ParseInv'
    BY DEF ParseInv
  <1>1. Clean /\ ~XmlError
    BY CleanBefore DEF Clean
  <1>2. FileShape /\ file' = file /\ \A m, p : Places(m, p)' = Places(m, p)
    BY ParseKeepsFile DEF XInv
  <1>3. CASE startElm
    BY <1>1, <1>3, StartParse
  <1>4. CASE endElm
    BY <1>1, <1>4, EndElement
  <1>5. CASE NoFile \/ EndParse
    <2>1. expat' = Nowhere /\ xml_depth' = xml_depth /\ parse' = parse
          /\ expat \in {Nowhere, After}
      BY <1>5 DEF NoFile, EndParse, Between, globals
    <2>2. xml_depth = 0 /\ parse = -1
      BY <1>1, <2>1, Positions DEF XInv, ParseInv, Clean
    <2> QED BY <2>1, <2>2, Positions DEF ParseInv
  <1>6. CASE BeginParse
    <2>1. /\ expat = Nowhere /\ expat' = Before /\ xml_depth' = xml_depth /\ parse' = parse
          /\ trqb' = Default
      BY <1>6 DEF BeginParse, Between
    <2>2. xml_depth = 0 /\ parse = -1
      BY <1>1, <2>1, Positions DEF XInv, ParseInv, Clean
    <2>3. ASSUME NEW p \in Param, NEW y \in Places(main_node', p) PROVE ~Begun(y)'
      BY <1>2, <2>1, Positions, PlaceIs DEF Begun
    <2>4. \A p \in Param : Last(trqb'[p], {y \in Places(main_node, p)' : Begun(y)'},
            Default[p])
      <3> SUFFICES ASSUME NEW p \in Param
                   PROVE  {y \in Places(main_node, p)' : Begun(y)'} = {}
        BY <2>1 DEF Last
      <3>1. Places(main_node, p)' = Places(main_node', p)
        BY <1>2 DEF Places
      <3> QED BY <2>3, <3>1
    <2>5. expat'.open = 0 /\ xml_depth' = 0 /\ parse' = -1
      BY <2>1, <2>2, Positions
    <2> QED BY <2>4, <2>5 DEF ParseInv
  <1> QED BY <1>1, <1>3, <1>4, <1>5, <1>6 DEF XNext

\* A step of the parses keeps the invariant.
LEMMA StepX == XInv /\ XNext => XInv'
  BY ParseKeepsFile, StepExpat, StepResult, StepConfig, StepParse DEF XInv

\* So it is when the parses begin, and when the file is forgotten.
NoneParsed ==
    /\ FileShape /\ expat = Nowhere /\ xml_depth = 0 /\ parse = -1 /\ result = <<>>
    /\ trqb = Zero /\ rqb = [m \in Range(Modes) |-> Zero]

LEMMA NoneParsedInv == NoneParsed => XInv
  <1> SUFFICES ASSUME NoneParsed PROVE XInv
    OBVIOUS
  <1> USE DEF NoneParsed
  <1>1. ExpatInv
    BY Positions, FileIs DEF ExpatInv, Nowhere, At
  <1>2. ResultInv
    <2>1. \A n \in 1..Len(Modes) : Modes[n] \in Range(Modes)
      BY ConfigAssumption DEF Range
    <2>2. Len(Modes) \in Nat
      BY ConfigAssumption
    <2> QED BY <2>1, <2>2, ParamsApart DEF ResultInv
  <1>3. ParseInv
    BY Positions DEF ParseInv
  <1>4. ConfigAsWritten
    BY DEF ConfigAsWritten, Sound
  <1> QED BY <1>1, <1>2, <1>3, <1>4 DEF XInv

LEMMA XInitInv == XInit => XInv
  BY NoneParsedInv, FilesAssumption DEF XInit, FileShape, NoneParsed

-----------------------------------------------------------------------------
(* The modes that are set, for any threads, limits and parameters.          *)

\* The nine parameters by their index.
LEMMA OrderIs ==
    /\ Len(Order) = 9 /\ MaxAt = 4 /\ MinAt = 5 /\ Idle = 0
    /\ Order[4] = "max_cpus" /\ Order[5] = "min_cpus"
    /\ \A i \in 1..9 : Order[i] \in Param
    /\ \A i \in 1..9 : /\ i # 4 => Order[i] # "max_cpus"
                       /\ i # 5 => Order[i] # "min_cpus"
    /\ \A i, j \in 1..9 : Order[i] = Order[j] => i = j
    /\ \A p \in Param : \E i \in 1..9 : p = Order[i]
    /\ Cpus = {"min_cpus", "max_cpus"} /\ \A p \in Cpus : p \in Param
  <1>1. Len(Order) = 9
    BY DEF Order
  <1>2. /\ Order[1] = "up_thresholds" /\ Order[2] = "down_thresholds"
        /\ Order[3] = "balance_level" /\ Order[4] = "max_cpus" /\ Order[5] = "min_cpus"
        /\ Order[6] = "cluster0_freq_max" /\ Order[7] = "cluster0_freq_min"
        /\ Order[8] = "cluster1_freq_max" /\ Order[9] = "cluster1_freq_min"
    BY DEF Order
  <1>3. \A i \in 1..9 : i \in {1, 2, 3, 4, 5, 6, 7, 8, 9}
    OBVIOUS
  <1>4. \A i \in 1..9 : /\ i # 4 => Order[i] # "max_cpus"
                        /\ i # 5 => Order[i] # "min_cpus"
    BY <1>2, <1>3
  <1>5. \A i, j \in 1..9 : Order[i] = Order[j] => i = j
    BY <1>2, <1>3
  <1>6. AllLimits = {"cluster0_freq_min", "cluster0_freq_max",
                     "cluster1_freq_min", "cluster1_freq_max"}
    <2>1. AllLimits = Limits(0) \cup Limits(1)
      BY DEF AllLimits, CLUSTER_MAX
    <2> QED BY <2>1 DEF Limits
  <1>7. Param = {"balance_level", "up_thresholds", "down_thresholds", "min_cpus", "max_cpus",
                 "cluster0_freq_min", "cluster0_freq_max",
                 "cluster1_freq_min", "cluster1_freq_max"}
    BY <1>6 DEF Param, Plain, Cpus
  <1>8. \A i \in 1..9 : Order[i] \in Param
    BY <1>2, <1>3, <1>7
  <1>9. \A p \in Param : \E i \in 1..9 : p = Order[i]
    BY <1>2, <1>7
  <1>10. Cpus = {"min_cpus", "max_cpus"} /\ \A p \in Cpus : p \in Param
    BY <1>7 DEF Cpus
  <1> QED BY <1>1, <1>2, <1>4, <1>5, <1>8, <1>9, <1>10 DEF MaxAt, MinAt, Idle

\* The parameters that the parses leave; the limits of the CPUs are texts.
RqbOK == rqb \in [Range(Modes) -> Params]

LEMMA CpuTexts ==
    ASSUME RqbOK, NEW m \in Range(Modes)
    PROVE  /\ rqb[m] \in [Param -> Place]
           /\ \A p \in Cpus : rqb[m][p] # <<>> => rqb[m][p] \in Text
  BY OrderIs DEF RqbOK, Params, Place

LEMMA KernelInText == Kernel \in Text /\ Kernel # <<>>
  BY DEF Text, Kernel

\* What the driver has of a parameter after a write of it.
LEMMA StoredIsText ==
    ASSUME TypeOK, RqbOK, NEW m \in Range(Modes), NEW p \in Param
    PROVE  /\ Stored(p, rqb[m][p]) \in Text \cup {<<0>>}
           /\ p \in Cpus => Stored(p, rqb[m][p]) \in Text
  <1>0. PICK v : v = rqb[m][p]
    OBVIOUS
  <1>1. v \in {<<>>, <<0>>} \cup Text /\ (p \in Cpus /\ v # <<>> => v \in Text)
    BY <1>0, CpuTexts DEF Place
  <1>2. driver[p] \in Text \cup {<<0>>} /\ (p \in Cpus => driver[p] \in Text)
    BY DEF TypeOK
  <1>3. (Stored(p, v) = v /\ v # <<>>) \/ Stored(p, v) = driver[p]
    BY DEF Stored
  <1>4. v # <<>> => v \in Text \cup {<<0>>}
    BY <1>1
  <1>5. Stored(p, v) \in Text \cup {<<0>>}
    BY <1>2, <1>3, <1>4
  <1>6. p \in Cpus => Stored(p, v) \in Text
    BY <1>1, <1>2, <1>3
  <1> QED BY <1>0, <1>5, <1>6

\* The initial state is in the types.
LEMMA InitTypeOK == Init => TypeOK
  <1> SUFFICES ASSUME Init PROVE TypeOK
    OBVIOUS
  <1>1. driver \in [Param -> Text \cup {<<0>>}] /\ \A p \in Cpus : driver[p] \in Text
    <2>1. driver = [p \in Param |-> Kernel] /\ Kernel \in Text
      BY KernelInText DEF Init
    <2> QED BY <2>1, OrderIs
  <1>2. cur_pwrmode \in Range(Modes) /\ rqparm \in [Thread -> Range(Modes)]
    BY ModeAssumption DEF Init
  <1>3. at \in [Thread -> 0..(Len(Order) + 1)] /\ retry \in [Thread -> 0..2]
    BY OrderIs DEF Init
  <1>4. cpus_error \in [Thread -> BOOLEAN] /\ lone \in BOOLEAN
    BY DEF Init
  <1> QED BY <1>1, <1>2, <1>3, <1>4 DEF TypeOK

\* A step keeps to the types.
LEMMA StepTypeOK ==
    ASSUME TypeOK, LoneInv, RqbOK, Next
    PROVE  TypeOK'
  <1>1. ASSUME NEW t \in Thread, SetPowerMode(t) PROVE TypeOK'
    <2>1. lone' \in BOOLEAN
      BY <1>1, Zenon DEF SetPowerMode, AtRest
    <2>2. PICK m \in Asks[t], b \in BOOLEAN :
             /\ rqparm' = [rqparm EXCEPT ![t] = m]
             /\ cpus_error' = [cpus_error EXCEPT ![t] = b]
      BY <1>1 DEF SetPowerMode
    <2>3. m \in Range(Modes)
      BY ModeAssumption
    <2>4. rqparm' \in [Thread -> Range(Modes)] /\ cpus_error' \in [Thread -> BOOLEAN]
      BY <2>2, <2>3 DEF TypeOK
    <2>5. at' \in [Thread -> 0..(Len(Order) + 1)] /\ retry' \in [Thread -> 0..2]
      BY <1>1, OrderIs DEF SetPowerMode, TypeOK
    <2> QED BY <1>1, <2>1, <2>4, <2>5 DEF SetPowerMode, TypeOK
  <1>2. ASSUME NEW t \in Thread, Write(t) PROVE TypeOK'
    <2> DEFINE p == Order[at[t]]
               v == rqb[rqparm[t]][p]
               ok == Accepts(p, v)
    <2>0. at[t] \in 1..9 /\ p \in Param
      BY <1>2, OrderIs DEF Write
    <2>1. /\ driver' \in [Param -> Text \cup {<<0>>}]
          /\ \A q \in Cpus : driver'[q] \in Text
      <3>1. driver' = [driver EXCEPT ![p] = Stored(p, v)]
        BY <1>2 DEF Write
      <3>2. Stored(p, v) \in Text \cup {<<0>>} /\ (p \in Cpus => Stored(p, v) \in Text)
        BY <2>0, StoredIsText DEF TypeOK
      <3> HIDE DEF p, v
      <3> QED BY <2>0, <3>1, <3>2, OrderIs DEF TypeOK
    <2>2. /\ at' \in [Thread -> 0..(Len(Order) + 1)] /\ retry' \in [Thread -> 0..2]
          /\ cpus_error' \in [Thread -> BOOLEAN]
      <3>1. CASE at[t] = MinAt /\ AfterCpus(t, cpus_error[t] \/ ~ok)
        <4>1. retry[t] \in {0, 1} /\ retry[t] + 1 \in 0..2
          BY <3>1 DEF LoneInv, TypeOK, TwoTries, MaxAt, MinAt
        <4> HIDE DEF ok
        <4>2. at' = [at EXCEPT ![t] = 4] \/ at' = [at EXCEPT ![t] = 6]
          BY <3>1, <4>1 DEF AfterCpus, MaxAt, MinAt
        <4>3. cpus_error' = [cpus_error EXCEPT ![t] = FALSE] \/ cpus_error' = cpus_error
          BY <3>1, Zenon DEF AfterCpus
        <4>4. retry' = [retry EXCEPT ![t] = retry[t] + 1] \/ retry' = retry
          BY <3>1 DEF AfterCpus
        <4>5. at' \in [Thread -> 0..(Len(Order) + 1)]
          BY <4>2, OrderIs DEF TypeOK
        <4>6. cpus_error' \in [Thread -> BOOLEAN]
          BY <4>3 DEF TypeOK
        <4>7. retry' \in [Thread -> 0..2]
          BY <4>1, <4>4 DEF TypeOK
        <4> QED BY <4>5, <4>6, <4>7
      <3>2. CASE at[t] # MinAt /\ at' = [at EXCEPT ![t] = @ + 1]
                 /\ cpus_error' = [cpus_error EXCEPT ![t] = @ \/ ~ok] /\ UNCHANGED retry
        <4> HIDE DEF ok
        <4>1. cpus_error' \in [Thread -> BOOLEAN]
          BY <3>2 DEF TypeOK
        <4> QED BY <2>0, <3>2, <4>1, OrderIs DEF TypeOK
      <3> QED BY <1>2, <3>1, <3>2 DEF Write
    <2> QED BY <1>2, <2>1, <2>2 DEF Write, TypeOK, locals
  <1>3. ASSUME NEW t \in Thread, Return(t) PROVE TypeOK'
    BY <1>3, OrderIs DEF Return, TypeOK, locals
  <1> QED BY <1>1, <1>2, <1>3 DEF Next

\* Nothing is written at first.
LEMMA InitLone == Init => LoneInv
  <1> SUFFICES ASSUME Init PROVE LoneInv
    OBVIOUS
  <1>1. driver["max_cpus"] = Kernel /\ driver["min_cpus"] = Kernel
    BY OrderIs DEF Init
  <1>2. LimitsInOrder
    BY <1>1, ModeAssumption DEF LimitsInOrder
  <1>3. \A t \in Thread : at[t] = Idle
    BY DEF Init
  <1> QED BY <1>2, <1>3 DEF Init, LoneInv, TwoTries, MaxAt, MinAt, Idle

\* A call begins: it is lone only if no other is in progress, and has written
\* nothing yet.
LEMMA BeginLone ==
    ASSUME TypeOK, LoneInv, NEW t \in Thread, SetPowerMode(t)
    PROVE  LoneInv'
  <1>1. at'[t] = 1 /\ retry'[t] = 0 /\ driver' = driver
    BY DEF SetPowerMode, TypeOK
  <1>2. \A s \in Thread : s # t => at'[s] = at[s] /\ retry'[s] = retry[s]
    BY DEF SetPowerMode, TypeOK
  <1>3. lone' => \A s \in Thread : at[s] = Idle
    BY Zenon DEF SetPowerMode, AtRest
  <1>4. LimitsInOrder'
    BY <1>1 DEF LoneInv, LimitsInOrder
  <1>5. \A s \in Thread : TwoTries(s)'
    BY <1>1, <1>2 DEF LoneInv, TwoTries, MaxAt, MinAt
  <1>6. ASSUME lone'
        PROVE  /\ \A r, s \in Thread : at'[r] # Idle /\ at'[s] # Idle => r = s
               /\ \A s \in Thread : at'[s] # Idle => Written(s)'
               /\ ~AtRest'
    <2>1. \A s \in Thread : at'[s] # Idle => s = t
      BY <1>2, <1>3, <1>6
    <2>2. Written(t)'
      BY <1>1, OrderIs DEF Written, CpusWritten
    <2>3. ~AtRest'
      BY <1>1, OrderIs DEF AtRest
    <2> QED BY <2>1, <2>2, <2>3
  <1> QED BY <1>4, <1>5, <1>6 DEF LoneInv

\* A parameter is written: the limits of the CPUs stay in order, and a lone call has
\* written one more, or goes on to its second try.
LEMMA WriteLone ==
    ASSUME TypeOK, LoneInv, RqbOK, rqb' = rqb, NEW t \in Thread, Write(t)
    PROVE  LoneInv'
  <1> DEFINE m == rqparm[t]
             ps == rqb[m]
             p == Order[at[t]]
             ok == Accepts(p, ps[p])
             failed == cpus_error[t] \/ ~ok
             max == driver["max_cpus"]
             min == driver["min_cpus"]
             most == ps["max_cpus"]
             least == ps["min_cpus"]
  <1>0. /\ at[t] \in 1..9 /\ p \in Param /\ "max_cpus" \in Param /\ "min_cpus" \in Param
        /\ m \in Range(Modes) /\ max \in Text /\ min \in Text
        /\ most # <<>> => most \in Text /\ MinCpus[most] \in Nat /\ MaxCpus[most] \in Nat
        /\ least # <<>> => least \in Text /\ MinCpus[least] \in Nat /\ MaxCpus[least] \in Nat
        /\ MinCpus[max] \in Nat /\ MaxCpus[max] \in Nat
        /\ MinCpus[min] \in Nat /\ MaxCpus[min] \in Nat /\ MinCpus[min] <= MaxCpus[max]
    <2>1. /\ at[t] \in 1..9 /\ p \in Param /\ "max_cpus" \in Param /\ "min_cpus" \in Param
          /\ "max_cpus" \in Cpus /\ "min_cpus" \in Cpus
      BY OrderIs DEF Write
    <2>2. m \in Range(Modes) /\ max \in Text /\ min \in Text
      BY <2>1 DEF TypeOK
    <2>3. MinCpus[min] <= MaxCpus[max]
      BY DEF LoneInv, LimitsInOrder
    <2>4. (most # <<>> => most \in Text) /\ (least # <<>> => least \in Text)
      BY <2>1, <2>2, CpuTexts
    <2> HIDE DEF m, ps, p, max, min, most, least
    <2> QED BY <2>1, <2>2, <2>3, <2>4, ModeAssumption
  <1>1. /\ driver'[p] = Stored(p, ps[p])
        /\ \A q \in Param : q # p => driver'[q] = driver[q]
    BY <1>0 DEF Write, TypeOK
  <1>2. rqparm' = rqparm /\ cur_pwrmode' = cur_pwrmode /\ (lone' <=> lone)
    BY DEF Write
  <1>3. \A s \in Thread : s # t => at'[s] = at[s] /\ retry'[s] = retry[s]
    BY DEF Write, AfterCpus, TypeOK
  <1>4. /\ p = "max_cpus" <=> at[t] = 4
        /\ p = "min_cpus" <=> at[t] = 5
    BY <1>0, OrderIs
  <1>5. /\ at[t] = 4 /\ most # <<>> => (ok <=> MinCpus[min] <= MaxCpus[most])
        /\ at[t] = 5 /\ least # <<>> => (ok <=> MinCpus[least] <= MaxCpus[max])
        /\ at[t] \notin {4, 5} => ok
    BY <1>4 DEF Accepts
  <1>6. /\ at[t] # 5 => /\ at'[t] = at[t] + 1 /\ retry'[t] = retry[t]
                        /\ ~ok => cpus_error'[t]
        /\ at[t] = 5 /\ failed /\ retry[t] = 0 => at'[t] = 4 /\ retry'[t] = 1
        /\ at[t] = 5 /\ failed /\ retry[t] = 1 => at'[t] = 6
        /\ at[t] = 5 /\ ~failed => at'[t] = 6
    <2>1. CASE at[t] = 5
      <3>1. AfterCpus(t, failed)
        BY <2>1, OrderIs DEF Write
      <3> HIDE DEF failed
      <3> QED BY <2>1, <3>1, OrderIs DEF AfterCpus, TypeOK
    <2>2. CASE at[t] # 5
      <3>1. at' = [at EXCEPT ![t] = @ + 1] /\ cpus_error' = [cpus_error EXCEPT ![t] = @ \/ ~ok]
            /\ retry' = retry
        BY <2>2, OrderIs DEF Write
      <3> HIDE DEF ok
      <3>2. ~ok => cpus_error'[t]
        BY <3>1 DEF TypeOK
      <3> QED BY <1>0, <2>2, <3>1, <3>2 DEF TypeOK
    <2> QED BY <2>1, <2>2
  <1>7. retry[t] \in 0..2 /\ (at[t] \in 1..3 => retry[t] = 0)
          /\ (at[t] \in 4..5 => retry[t] < 2)
    BY DEF LoneInv, TypeOK, TwoTries, MaxAt, MinAt
  <1>8. Stored(p, ps[p]) = IF ps[p] # <<>> /\ ok THEN ps[p] ELSE driver[p]
    BY DEF Stored
  <1> HIDE DEF ok
  <1>9. /\ at[t] = 4 => /\ driver'["min_cpus"] = min
                        /\ driver'["max_cpus"] = IF most # <<>> /\ ok THEN most ELSE max
        /\ at[t] = 5 => /\ driver'["max_cpus"] = max
                        /\ driver'["min_cpus"] = IF least # <<>> /\ ok THEN least ELSE min
        /\ at[t] \notin {4, 5} => driver'["max_cpus"] = max /\ driver'["min_cpus"] = min
    BY <1>0, <1>1, <1>4, <1>8
  <1>10. LimitsInOrder'
    BY <1>0, <1>5, <1>9 DEF LimitsInOrder
  <1>11. at[t] \in 1..9 /\ p \in Param
    BY <1>0
  <1>12. \A s \in Thread : TwoTries(s)'
    <2>1. /\ at'[t] \in 1..3 => retry'[t] = 0
          /\ at'[t] \in 4..5 => retry'[t] < 2
      BY <1>11, <1>6, <1>7
    <2> QED BY <1>3, <2>1 DEF LoneInv, TwoTries, MaxAt, MinAt
  <1>13. at'[t] # Idle
    BY <1>11, <1>6, <1>7, OrderIs
  <1>14. ASSUME lone
         PROVE  /\ \A r, s \in Thread : at'[r] # Idle /\ at'[s] # Idle => r = s
                /\ \A s \in Thread : at'[s] # Idle => Written(s)'
                /\ ~AtRest'
    <2>1. \A s \in Thread : at'[s] # Idle => s = t
      <3>1. \A s \in Thread : s # t => at[s] = Idle
        BY <1>11, <1>14, OrderIs DEF LoneInv
      <3> QED BY <1>3, <3>1
    <2>2. Written(t)
      BY <1>11, <1>14, OrderIs DEF LoneInv
    <2>3. \A i \in 1..9 : i < at'[t] /\ i \notin {4, 5} /\ ps[Order[i]] # <<>> =>
                              driver'[Order[i]] = ps[Order[i]]
      <3> SUFFICES ASSUME NEW i \in 1..9, i < at'[t], i \notin {4, 5}, ps[Order[i]] # <<>>
                   PROVE  driver'[Order[i]] = ps[Order[i]]
        OBVIOUS
      <3>1. CASE i < at[t]
        <4>1. driver[Order[i]] = ps[Order[i]]
          BY <2>2, <3>1, OrderIs DEF Written
        <4>2. Order[i] \in Param /\ Order[i] # p
          BY <1>11, <3>1, OrderIs
        <4> QED BY <1>1, <4>1, <4>2
      <3>2. CASE ~(i < at[t])
        <4>1. i = at[t] /\ ok
          BY <1>11, <1>5, <1>6, <1>7, <3>2
        <4> QED BY <1>1, <1>8, <4>1
      <3> QED BY <3>1, <3>2
    <2>4. ASSUME Fits(ps)
          PROVE  /\ at'[t] = 4 /\ retry'[t] > 0 => driver'["min_cpus"] = least
                 /\ at'[t] = 5 /\ retry'[t] = 0 => driver'["max_cpus"] = most \/ cpus_error'[t]
                 /\ at'[t] = 5 /\ retry'[t] = 0 /\ driver'["max_cpus"] # most =>
                       MaxCpus[most] < MinCpus[driver'["min_cpus"]]
                 /\ at'[t] > 5 \/ (at'[t] = 5 /\ retry'[t] > 0) =>
                       driver'["max_cpus"] = most /\ driver'["min_cpus"] = least
      <3>0. most # <<>> /\ least # <<>> /\ MinCpus[least] <= MaxCpus[most]
        BY <2>4 DEF Fits
      <3>1. /\ at[t] = 4 /\ retry[t] > 0 => min = least
            /\ at[t] = 5 /\ retry[t] = 0 => max = most \/ cpus_error[t]
            /\ at[t] = 5 /\ retry[t] = 0 /\ max # most => MaxCpus[most] < MinCpus[min]
            /\ at[t] > 5 \/ (at[t] = 5 /\ retry[t] > 0) => max = most /\ min = least
        BY <2>2, <2>4, OrderIs DEF Written, CpusWritten
      <3>2. CASE at[t] < 4
        BY <1>0, <1>6, <1>7, <3>2
      <3>3. CASE at[t] = 4
        <4>1. at'[t] = 5 /\ retry'[t] = retry[t] /\ (~ok => cpus_error'[t])
          BY <1>6, <3>3
        <4>2. driver'["min_cpus"] = min /\ driver'["max_cpus"] = IF ok THEN most ELSE max
          BY <1>9, <3>0, <3>3
        <4>3. ok <=> MinCpus[min] <= MaxCpus[most]
          BY <1>5, <3>0, <3>3
        <4>4. retry[t] > 0 => min = least
          BY <3>1, <3>3
        <4> HIDE DEF m, ps, max, min, most, least
        <4> QED BY <1>0, <1>7, <3>0, <4>1, <4>2, <4>3, <4>4
      <3>4. CASE at[t] = 5
        <4>1. ok
          <5>1. max = most \/ MaxCpus[most] < MinCpus[min]
            BY <1>7, <3>1, <3>4
          <5>2. ok <=> MinCpus[least] <= MaxCpus[max]
            BY <1>5, <3>0, <3>4
          <5> HIDE DEF m, ps, max, min, most, least
          <5> QED BY <1>0, <3>0, <5>1, <5>2
        <4>2. driver'["max_cpus"] = max /\ driver'["min_cpus"] = least
          BY <1>9, <3>0, <3>4, <4>1
        <4> QED BY <1>6, <1>7, <3>1, <3>4, <4>1, <4>2
      <3>5. CASE at[t] > 5
        BY <1>0, <1>6, <1>9, <3>1, <3>5
      <3> QED BY <1>0, <3>2, <3>3, <3>4, <3>5
    <2>5. Written(t)'
      <3>1. rqb'[rqparm'[t]] = ps /\ (Fits(ps)' <=> Fits(ps))
        BY <1>2 DEF Fits
      <3>2. Fits(rqb[rqparm[t]])' => Fits(ps)
        BY <1>2 DEF Fits
      <3> QED BY <1>2, <2>3, <2>4, <3>1, <3>2, OrderIs DEF Written, CpusWritten
    <2>6. ~AtRest'
      BY <1>13 DEF AtRest
    <2> QED BY <2>1, <2>5, <2>6
  <1> QED BY <1>2, <1>10, <1>12, <1>14 DEF LoneInv

\* A lone call that returns has written every parameter.
LEMMA ReturnLone ==
    ASSUME TypeOK, LoneInv, rqb' = rqb, NEW t \in Thread, Return(t)
    PROVE  LoneInv'
  <1> DEFINE ps == rqb[rqparm[t]]
  <1>1. /\ at[t] = 10 /\ at'[t] = Idle /\ driver' = driver /\ (lone' <=> lone)
        /\ cur_pwrmode' = rqparm[t] /\ rqparm' = rqparm /\ retry' = retry
        /\ cpus_error' = cpus_error
        /\ \A s \in Thread : s # t => at'[s] = at[s]
    BY OrderIs DEF Return, TypeOK, locals
  <1>2. LimitsInOrder'
    BY <1>1 DEF LoneInv, LimitsInOrder
  <1>3. \A s \in Thread : TwoTries(s)'
    BY <1>1 DEF LoneInv, TwoTries, MaxAt, MinAt, Idle
  <1>4. ASSUME lone
        PROVE  /\ \A s \in Thread : at'[s] = Idle
               /\ Applied(rqb[cur_pwrmode])'
    <2>1. \A s \in Thread : at'[s] = Idle
      BY <1>1, <1>4, OrderIs DEF LoneInv
    <2>2. Written(t)
      BY <1>1, <1>4, OrderIs DEF LoneInv
    <2>3. ASSUME NEW i \in 1..9, ps[Order[i]] # <<>>, Order[i] \in Cpus => Fits(ps)
          PROVE  driver[Order[i]] = ps[Order[i]]
      <3>1. CASE i \in {4, 5}
        <4>1. Fits(ps)
          BY <2>3, <3>1, OrderIs
        <4> QED BY <1>1, <2>2, <3>1, <4>1, OrderIs DEF Written, CpusWritten
      <3>2. CASE i \notin {4, 5}
        BY <1>1, <2>2, <2>3, <3>2, OrderIs DEF Written
      <3> QED BY <3>1, <3>2
    <2>4. ASSUME NEW p \in Param, ps[p] # <<>>, p \in Cpus => Fits(ps)
          PROVE  driver[p] = ps[p]
      BY <2>3, <2>4, OrderIs
    <2>5. Applied(ps)
      BY <2>4 DEF Applied
    <2>6. rqb'[cur_pwrmode'] = ps
      BY <1>1
    <2> HIDE DEF ps
    <2> QED BY <1>1, <2>1, <2>5, <2>6 DEF Applied, Fits
  <1> QED BY <1>1, <1>2, <1>3, <1>4 DEF LoneInv

\* A step keeps the invariant.
LEMMA StepLone ==
    ASSUME TypeOK, LoneInv, RqbOK, rqb' = rqb, Next
    PROVE  LoneInv'
  BY BeginLone, WriteLone, ReturnLone DEF Next

-----------------------------------------------------------------------------
(* The power HAL.                                                           *)

\* Until the configuration is loaded nothing is written, and then it stays; the thermal
\* limit is that of the balanced mode.
HalInv ==
    /\ hal \in {"loading", "starting", "running"}
    /\ hal = "loading" => ~lone /\ AtRest
    /\ hal # "loading" =>
          /\ Loaded
          /\ LET max == rqb[Balanced]["max_cpus"] IN max # <<>> => thermal = max

FullInv == XInv /\ TypeOK /\ LoneInv /\ HalInv

LEMMA InitFull == HalInit => FullInv
  <1> SUFFICES ASSUME HalInit PROVE FullInv
    OBVIOUS
  <1>1. XInv /\ TypeOK /\ LoneInv
    BY XInitInv, InitTypeOK, InitLone DEF HalInit
  <1>2. HalInv
    BY DEF HalInit, Init, HalInv, AtRest
  <1> QED BY <1>1, <1>2 DEF FullInv

\* What does not change with the configuration.
LEMMA SameConfig ==
    ASSUME XInv, UNCHANGED xvars
    PROVE  XInv' /\ rqb' = rqb /\ (Loaded' <=> Loaded)
  <1>1. /\ file' = file /\ expat' = expat /\ xml_depth' = xml_depth /\ parse' = parse
        /\ main_node' = main_node /\ result' = result /\ trqb' = trqb /\ rqb' = rqb
    BY DEF xvars, globals
  <1>2. /\ FileShape' = FileShape /\ ExpatInv' = ExpatInv /\ ResultInv' = ResultInv
        /\ Conventional' = Conventional /\ \A m : Declared(m)' = Declared(m)
    BY <1>1 DEF FileShape, ExpatInv, ResultInv, Conventional, Declared, Places, Before, After,
                Nowhere
  <1>3. ParseInv' = ParseInv
    BY <1>1, <1>2 DEF ParseInv, Places, Begun, Nowhere
  <1>4. ConfigAsWritten' = ConfigAsWritten
    BY <1>1, <1>2 DEF ConfigAsWritten, Sound
  <1> QED BY <1>1, <1>2, <1>3, <1>4 DEF XInv, Loaded

\* A step of the parses, before the first mode is set.
LEMMA LoadStep ==
    ASSUME FullInv, Load
    PROVE  FullInv'
  <1>1. XInv' /\ UNCHANGED <<vars, hal, thermal>> /\ hal = "loading"
    BY StepX DEF Load, FullInv
  <1>2. /\ driver' = driver /\ cur_pwrmode' = cur_pwrmode /\ at' = at /\ rqparm' = rqparm
        /\ cpus_error' = cpus_error /\ retry' = retry /\ lone' = lone /\ hal' = hal
    BY <1>1 DEF vars, locals
  <1>3. TypeOK'
    BY <1>2 DEF FullInv, TypeOK
  <1>4. ~lone' /\ AtRest'
    BY <1>1, <1>2 DEF FullInv, HalInv, AtRest
  <1>5. LoneInv'
    BY <1>2, <1>4 DEF FullInv, LoneInv, LimitsInOrder, TwoTries
  <1>6. HalInv'
    BY <1>1, <1>2, <1>4 DEF HalInv
  <1> QED BY <1>1, <1>3, <1>5, <1>6 DEF FullInv

\* A step of a call of SetPowerMode.
LEMMA CallStep ==
    ASSUME FullInv, Next, UNCHANGED xvars
    PROVE  XInv' /\ TypeOK' /\ LoneInv' /\ rqb' = rqb /\ (Loaded' <=> Loaded)
  <1>1. XInv' /\ rqb' = rqb /\ (Loaded' <=> Loaded)
    BY SameConfig DEF FullInv
  <1>2. RqbOK
    BY DEF FullInv, XInv, ResultInv, RqbOK
  <1>3. TypeOK' /\ LoneInv'
    BY <1>1, <1>2, StepTypeOK, StepLone DEF FullInv
  <1> QED BY <1>1, <1>3

LEMMA StepFull == FullInv /\ [HalNext]_<<vars, xvars, hal, thermal>> => FullInv'
  <1> SUFFICES ASSUME FullInv, [HalNext]_<<vars, xvars, hal, thermal>> PROVE FullInv'
    OBVIOUS
  <1>1. CASE Load
    BY <1>1, LoadStep
  <1>2. CASE SetFirst
    <2>1. Next /\ UNCHANGED xvars /\ Loaded /\ hal' = "starting"
      BY <1>2, StarterAssumption DEF SetFirst, Next
    <2>2. rqb[Balanced]["max_cpus"] # <<>> => thermal' = rqb[Balanced]["max_cpus"]
      BY <1>2 DEF SetFirst
    <2>3. XInv' /\ TypeOK' /\ LoneInv' /\ rqb' = rqb /\ Loaded'
      BY <2>1, CallStep
    <2> QED BY <2>1, <2>2, <2>3 DEF FullInv, HalInv
  <1>3. CASE Starting \/ Running
    <2>1. /\ Next /\ UNCHANGED xvars /\ thermal' = thermal /\ hal # "loading"
          /\ hal' \in {"starting", "running"}
      BY <1>3, StarterAssumption DEF Starting, Running, Next
    <2>2. XInv' /\ TypeOK' /\ LoneInv' /\ rqb' = rqb /\ (Loaded' <=> Loaded)
      BY <2>1, CallStep
    <2> QED BY <2>1, <2>2 DEF FullInv, HalInv
  <1>4. CASE UNCHANGED <<vars, xvars, hal, thermal>>
    <2>1. XInv' /\ rqb' = rqb /\ (Loaded' <=> Loaded)
      BY <1>4, SameConfig DEF FullInv
    <2>2. UNCHANGED vars /\ hal' = hal /\ thermal' = thermal
      BY <1>4
    <2>3. TypeOK'
      BY <2>2 DEF FullInv, TypeOK, vars, locals
    <2>4. LoneInv'
      BY <2>1, <2>2 DEF FullInv, vars, locals, LoneInv, LimitsInOrder, TwoTries, Written,
                        CpusWritten, AtRest, Applied, Fits
    <2>5. HalInv'
      BY <2>1, <2>2 DEF FullInv, HalInv, AtRest, vars
    <2> QED BY <2>1, <2>3, <2>4, <2>5 DEF FullInv
  <1> QED BY <1>1, <1>2, <1>3, <1>4 DEF HalNext

\* All invariants of the power HAL, for any files, modes, threads and limits.
THEOREM HalInductive == HalSpec => []FullInv
  BY InitFull, StepFull, PTL DEF HalSpec

\* Every variable of SetPowerMode keeps to its set, and no call tries the limits of the
\* CPUs more than twice: what goes to the driver are texts that the file has.
THEOREM ModeTypeCorrect == HalSpec => []TypeOK
  BY HalInductive, PTL DEF FullInv

\* Whatever the file says and whichever parses fail, a mode that is loaded has the
\* parameters the file gives it and none of another (parse_xml_data), or none at all.
THEOREM ConfigLoaded == HalSpec => []ConfigAsWritten
  <1>1. FullInv => ConfigAsWritten
    BY DEF FullInv, XInv
  <1> QED BY HalInductive, <1>1, PTL

\* What is meant for a mode is what the parses left for it.
LEMMA MeantIsRead ==
    ASSUME XInv, Loaded, NEW m \in Range(Modes)
    PROVE  Meant(m) = rqb[m]
  <1> DEFINE n == CHOOSE n \in DOMAIN Modes : Modes[n] = m
  <1>1. n \in DOMAIN Modes /\ Modes[n] = m
    BY DEF Range
  <1>2. n \in DOMAIN result
    BY <1>1, ConfigAssumption DEF Loaded, XInv, ResultInv
  <1>3. /\ result[n] # 0 => rqb[m] = Zero
        /\ result[n] = 0 /\ Sound(n) => rqb[m] = Declared(m)
    BY <1>1, <1>2 DEF XInv, ConfigAsWritten
  <1> HIDE DEF n
  <1>4. Meant(m) = CASE result[n] # 0 -> Zero
                     [] result[n] = 0 /\ Sound(n) -> Declared(m)
                     [] OTHER -> rqb[m]
    BY DEF Meant, n
  <1> QED BY <1>3, <1>4

\* From the file to the driver: once the configuration is loaded, by parses any of which
\* may have failed, a call that overlapped no other leaves the driver with every parameter
\* that the file gives its mode, whatever the calls before it left there and however the
\* limits of the CPUs of the modes lie to each other.
THEOREM HalCallsApply == HalSpec => []LoneCallApplies
  <1>1. FullInv => LoneCallApplies
    <2> SUFFICES ASSUME FullInv PROVE LoneCallApplies
      OBVIOUS
    <2>1. Balanced \in Range(Modes) /\ cur_pwrmode \in Range(Modes)
      BY ModeAssumption DEF FullInv, TypeOK
    <2>2. CASE hal = "loading"
      BY <2>2 DEF FullInv, HalInv, LoneCallApplies
    <2>3. CASE hal # "loading"
      <3>1. Meant(Balanced) = rqb[Balanced] /\ Meant(cur_pwrmode) = rqb[cur_pwrmode]
        BY <2>1, <2>3, MeantIsRead DEF FullInv, HalInv
      <3> QED BY <2>3, <3>1 DEF FullInv, HalInv, LoneInv, LoneCallApplies
    <2> QED BY <2>2, <2>3
  <1> QED BY HalInductive, <1>1, PTL

=============================================================================
