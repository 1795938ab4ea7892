------------------------- MODULE RequireSend_proofs -------------------------
(***************************************************************************)
(* What the two require-send checks find, for every set of names and of    *)
(* chains and for programs of any length and depth.                        *)
(***************************************************************************)
EXTENDS RequireSend, FiniteSetTheorems, TLAPS

Maps   == UNION {[D -> Nat] : D \in SUBSET Names}
Stacks == Seq(Maps)
Blocks == Seq([fn : BOOLEAN, holds : Maps])

\* How many functions the blocks up to the i-th are in.
FnDepth(b, i) == Cardinality({j \in 1 .. i : b[j].fn})

-----------------------------------------------------------------------------
(* What the operations on maps and stacks do, said without EXCEPT.          *)

\* t is s with an empty map on top, or s without its top.
Pushed(s, t) ==
    /\ t \in Stacks /\ Len(t) = Len(s) + 1
    /\ \A i \in 1 .. Len(s) : t[i] = s[i]
    /\ DOMAIN t[Len(t)] = {}
Popped(s, t) ==
    /\ t \in Stacks /\ Len(t) = Len(s) - 1
    /\ \A i \in 1 .. Len(t) : t[i] = s[i]

\* t is s with l for x in the top map.
Marked(s, t, x, l) ==
    /\ t \in Stacks /\ Len(t) = Len(s)
    /\ \A i \in 1 .. Len(s) - 1 : t[i] = s[i]
    /\ DOMAIN t[Len(s)] = DOMAIN s[Len(s)] \cup {x}
    /\ t[Len(s)][x] = l
    /\ \A y \in DOMAIN s[Len(s)] \ {x} : t[Len(s)][y] = s[Len(s)][y]

\* t is s without some of its entries for x, the innermost one in any case.
Dropped(s, t, x) ==
    /\ t \in Stacks /\ Len(t) = Len(s)
    /\ \A i \in 1 .. Len(s) : \A y \in DOMAIN t[i] : y \in DOMAIN s[i] /\ t[i][y] = s[i][y]
    /\ \A i \in 1 .. Len(s) : \A y \in DOMAIN s[i] \ {x} : y \in DOMAIN t[i]
    /\ \A i \in 1 .. Len(s) :
          (\A j \in i + 1 .. Len(s) : x \notin DOMAIN s[j]) => x \notin DOMAIN t[i]

\* The lines that a stack holds.
Within(s, n) == \A i \in 1 .. Len(s) : \A y \in DOMAIN s[i] : s[i][y] \in 1 .. n

\* c is b with x set to v in the n-th block.
Bound(b, c, n, x, v) ==
    /\ c \in Blocks /\ Len(c) = Len(b)
    /\ \A i \in 1 .. Len(b) : c[i].fn = b[i].fn
    /\ \A i \in (1 .. Len(b)) \ {n} : c[i].holds = b[i].holds
    /\ DOMAIN c[n].holds = DOMAIN b[n].holds \cup {x}
    /\ c[n].holds[x] = v
    /\ \A y \in DOMAIN b[n].holds \ {x} : c[n].holds[y] = b[n].holds[y]

\* The elements of a sequence, and those that pop() leaves.
LEMMA Elements == ASSUME NEW R, NEW s \in Seq(R), NEW i \in 1 .. Len(s) PROVE s[i] \in R
OBVIOUS
LEMMA FrontFacts ==
    ASSUME NEW R, NEW s \in Seq(R), s # <<>>
    PROVE  /\ Len(s) \in Nat /\ Len(s) >= 1
           /\ Front(s) \in Seq(R) /\ Len(Front(s)) = Len(s) - 1
           /\ \A i \in 1 .. Len(s) - 1 : Front(s)[i] = s[i]
<1>1. Len(s) \in Nat /\ Len(s) >= 1 /\ Len(s) - 1 \in Nat /\ Len(s) - 1 + 1 - 1 = Len(s) - 1
  OBVIOUS
<1>2. Len(SubSeq(s, 1, Len(s) - 1)) = Len(s) - 1
  BY <1>1
<1>3. SubSeq(s, 1, Len(s) - 1) \in Seq(R)
  BY <1>1
<1>4. \A i \in 1 .. Len(s) - 1 : SubSeq(s, 1, Len(s) - 1)[i] = s[i]
  BY <1>1
<1> QED
  BY <1>1, <1>2, <1>3, <1>4 DEF Front

\* A set of positions that is not empty has a last one.
LEMMA MaxExists ==
    ASSUME NEW n \in Nat, NEW T, T \subseteq 1 .. n, T # {}
    PROVE  Max(T) \in T /\ \A y \in T : Max(T) >= y
<1> DEFINE Above(m) == {y \in T : y > m}
           Sets == {Above(m) : m \in T}
<1>1. IsFiniteSet(1 .. n)
  <2>1. 1 \in Int /\ n \in Int
    OBVIOUS
  <2> QED
    BY <2>1, FS_Interval
<1>2. IsFiniteSet(T)
  BY <1>1, FS_Subset
<1>3. Sets \subseteq FiniteSubsetsOf(T) /\ Sets # {}
  <2>1. Sets \subseteq SUBSET T /\ Sets # {}
    OBVIOUS
  <2> QED
    BY <1>2, <2>1, FS_FiniteSubsetsOfFinite
<1>4. PICK U \in Sets : \A V \in Sets : ~(<<V, U>> \in StrictSubsetOrdering(T))
  <2>1. IsWellFoundedOn(StrictSubsetOrdering(T), FiniteSubsetsOf(T))
    BY FS_StrictSubsetOrderingWellFounded
  <2> HIDE DEF Sets
  <2> QED
    BY <1>3, <2>1, WFMin
<1>5. PICK m \in T : U = Above(m)
  OBVIOUS
<1>6. ASSUME NEW y \in T, ~(m >= y) PROVE FALSE
  <2>1. y \in Above(m) /\ y \notin Above(y) /\ m \in Int /\ y \in Int
    BY <1>6
  <2>2. Above(y) \subseteq Above(m) /\ Above(y) # Above(m)
    <3>1. ASSUME NEW z \in T, z > y PROVE z > m
      <4>1. z \in Int /\ y \in Int /\ m \in Int /\ y > m
        BY <1>6
      <4> QED
        BY <3>1, <4>1
    <3> QED
      BY <2>1, <3>1
  <2>3. Above(y) \in Sets /\ Above(y) \in SUBSET T /\ U \in SUBSET T
    OBVIOUS
  <2> HIDE DEF Above
  <2> QED
    BY <1>4, <1>5, <2>2, <2>3 DEF StrictSubsetOrdering
<1> QED
  BY <1>6 DEF Max

\* A Map after set() and after delete().
LEMMA MapFacts ==
    /\ <<>> \in Maps /\ DOMAIN <<>> = {}
    /\ \A f \in Maps : DOMAIN f \subseteq Names /\ \A y \in DOMAIN f : f[y] \in Nat
    /\ \A f \in Maps, x \in Names, v \in Nat : With(f, x, v) \in Maps
    /\ \A f \in Maps, x \in Names : Forget(f, x) \in Maps
<1>1. \A f \in Maps : DOMAIN f \subseteq Names /\ \A y \in DOMAIN f : f[y] \in Nat
  BY DEF Maps
<1>2. <<>> \in [{} -> Nat] /\ DOMAIN <<>> = {}
  OBVIOUS
<1>3. ASSUME NEW f \in Maps, NEW x \in Names, NEW v \in Nat PROVE With(f, x, v) \in Maps
  <2>1. With(f, x, v) \in [DOMAIN f \cup {x} -> Nat] /\ DOMAIN f \cup {x} \in SUBSET Names
    BY <1>1 DEF With
  <2> QED
    BY <2>1 DEF Maps
<1>4. ASSUME NEW f \in Maps, NEW x \in Names PROVE Forget(f, x) \in Maps
  <2>1. Forget(f, x) \in [DOMAIN f \ {x} -> Nat] /\ DOMAIN f \ {x} \in SUBSET Names
    BY <1>1 DEF Forget
  <2> QED
    BY <2>1 DEF Maps
<1>5. <<>> \in Maps
  BY <1>2 DEF Maps
<1> QED
  BY <1>1, <1>2, <1>3, <1>4, <1>5

\* push() and pop().
LEMMA PushPops ==
    /\ \A s \in Stacks : Pushed(s, Append(s, <<>>))
    /\ \A s \in Stacks : s # <<>> => Popped(s, Front(s))
<1>1. ASSUME NEW s \in Stacks PROVE Pushed(s, Append(s, <<>>))
  BY MapFacts DEF Pushed, Stacks
<1>2. ASSUME NEW s \in Stacks, s # <<>> PROVE Popped(s, Front(s))
  BY <1>2, FrontFacts DEF Popped, Stacks
<1> QED
  BY <1>1, <1>2

\* set() in the top map.
LEMMA Marks ==
    ASSUME NEW s \in Stacks, s # <<>>, NEW x \in Names, NEW l \in Nat
    PROVE  Marked(s, [s EXCEPT ![Len(s)] = With(@, x, l)], x, l)
<1>1. Len(s) \in 1 .. Len(s) /\ s[Len(s)] \in Maps
  BY DEF Stacks
<1>2. With(s[Len(s)], x, l) \in Maps
  BY <1>1, MapFacts
<1>3. [s EXCEPT ![Len(s)] = With(@, x, l)] \in Stacks
  BY <1>1, <1>2 DEF Stacks
<1> QED
  BY <1>1, <1>3 DEF Marked, Stacks, With

\* delete() in the innermost map that has the name.
LEMMA Drops ==
    ASSUME NEW s \in Stacks, NEW x \in Names
    PROVE  Dropped(s, ClearPending(s, x), x)
<1> DEFINE having == {i \in DOMAIN s : x \in DOMAIN s[i]}
<1>1. CASE having = {}
  BY <1>1 DEF ClearPending, Dropped, Stacks
<1>2. CASE having # {}
  <2> DEFINE m == Max(having)
             t == [s EXCEPT ![m] = Forget(@, x)]
  <2>1. m \in having /\ \A i \in having : m >= i
    <3>1. Len(s) \in Nat /\ having \subseteq 1 .. Len(s)
      BY DEF Stacks
    <3> HIDE DEF having
    <3> QED
      BY <1>2, <3>1, MaxExists
  <2>2. m \in 1 .. Len(s) /\ s[m] \in Maps /\ Forget(s[m], x) \in Maps
    BY <2>1, MapFacts DEF Stacks
  <2> HIDE DEF m
  <2>3. t \in Stacks /\ Len(t) = Len(s) /\ t[m] = Forget(s[m], x)
        /\ \A i \in (1 .. Len(s)) \ {m} : t[i] = s[i]
    BY <2>2 DEF Stacks
  <2>4. ClearPending(s, x) = t
    BY <1>2 DEF ClearPending, m
  <2>5. \A i \in 1 .. Len(s) : (\A j \in i + 1 .. Len(s) : x \notin DOMAIN s[j]) =>
            i = m \/ x \notin DOMAIN s[i]
    BY <2>1, <2>2 DEF Stacks
  <2> HIDE DEF t
  <2>6. Dropped(s, t, x)
    BY <2>2, <2>3, <2>5 DEF Dropped, Forget
  <2> QED
    BY <2>4, <2>6
<1> QED
  BY <1>1, <1>2

\* None of them adds a line but set().
LEMMA KeepWithin ==
    ASSUME NEW s \in Stacks, NEW t, NEW n \in Nat, Within(s, n)
    PROVE  /\ Pushed(s, t) \/ Popped(s, t) \/ t = s => Within(t, n) /\ Within(t, n + 1)
           /\ \A x : Marked(s, t, x, n + 1) => Within(t, n + 1)
           /\ \A x : Dropped(s, t, x) => Within(t, n) /\ Within(t, n + 1)
<1>0. Len(s) \in Nat /\ \A i \in 1 .. n : i \in 1 .. n + 1
  BY DEF Stacks
<1>1. ASSUME Pushed(s, t) PROVE Within(t, n) /\ Within(t, n + 1)
  <2>1. \A i \in 1 .. Len(t) : i \in 1 .. Len(s) \/ i = Len(t)
    BY <1>0, <1>1 DEF Pushed
  <2> QED
    BY <1>0, <1>1, <2>1 DEF Pushed, Within
<1>2. ASSUME Popped(s, t) PROVE Within(t, n) /\ Within(t, n + 1)
  <2>1. \A i \in 1 .. Len(t) : i \in 1 .. Len(s)
    BY <1>0, <1>2 DEF Popped
  <2> QED
    BY <1>0, <1>2, <2>1 DEF Popped, Within
<1>3. ASSUME NEW x, Marked(s, t, x, n + 1) PROVE Within(t, n + 1)
  <2>1. \A i \in 1 .. Len(t) : i \in 1 .. Len(s) - 1 \/ (i = Len(s) /\ i \in 1 .. Len(s))
    BY <1>0, <1>3 DEF Marked
  <2>2. \A i \in 1 .. Len(s) - 1 : i \in 1 .. Len(s)
    BY <1>0
  <2>3. n + 1 \in 1 .. n + 1
    OBVIOUS
  <2> QED
    BY <1>0, <1>3, <2>1, <2>2, <2>3 DEF Marked, Within
<1>4. ASSUME NEW x, Dropped(s, t, x) PROVE Within(t, n) /\ Within(t, n + 1)
  BY <1>0, <1>4 DEF Dropped, Within
<1> QED
  BY <1>0, <1>1, <1>2, <1>3, <1>4 DEF Within

\* A declaration sets its name in the last block, an assignment where it is.
LEMMA Binds ==
    ASSUME NEW b \in Blocks, NEW n \in 1 .. Len(b), NEW x \in Names, NEW v \in Nat
    PROVE  /\ Bound(b, [b EXCEPT ![n].holds = With(@, x, v)], n, x, v)
           /\ x \in DOMAIN b[n].holds => Bound(b, [b EXCEPT ![n].holds[x] = v], n, x, v)
<1>1. b[n] \in [fn : BOOLEAN, holds : Maps]
  BY Elements DEF Blocks
<1>2. ASSUME NEW c, NEW h \in Maps, c = [b EXCEPT ![n] = [@ EXCEPT !.holds = h]],
             DOMAIN h = DOMAIN b[n].holds \cup {x}, h[x] = v,
             \A y \in DOMAIN b[n].holds \ {x} : h[y] = b[n].holds[y]
      PROVE  Bound(b, c, n, x, v)
  <2>1. [b[n] EXCEPT !.holds = h] \in [fn : BOOLEAN, holds : Maps]
    BY <1>1
  <2>2. c \in Blocks /\ Len(c) = Len(b)
    BY <1>2, <2>1 DEF Blocks
  <2>3. c[n].holds = h /\ c[n].fn = b[n].fn /\ \A i \in (1 .. Len(b)) \ {n} : c[i] = b[i]
    BY <1>1, <1>2 DEF Blocks
  <2> QED
    BY <1>2, <2>2, <2>3 DEF Bound
<1>3. Bound(b, [b EXCEPT ![n].holds = With(@, x, v)], n, x, v)
  <2>1. With(b[n].holds, x, v) \in Maps
    BY <1>1, MapFacts
  <2>2. [b EXCEPT ![n].holds = With(@, x, v)] =
           [b EXCEPT ![n] = [@ EXCEPT !.holds = With(b[n].holds, x, v)]]
    OBVIOUS
  <2> QED
    BY <1>2, <2>1, <2>2 DEF With
<1>4. ASSUME x \in DOMAIN b[n].holds PROVE Bound(b, [b EXCEPT ![n].holds[x] = v], n, x, v)
  <2>1. [b[n].holds EXCEPT ![x] = v] = With(b[n].holds, x, v)
    BY <1>1, <1>4 DEF With, Maps
  <2>2. [b EXCEPT ![n].holds[x] = v] = [b EXCEPT ![n].holds = With(@, x, v)]
    BY <2>1
  <2> QED
    BY <1>3, <2>2
<1> QED
  BY <1>3, <1>4

\* The function depth grows by one with each function's body.
LEMMA Depths ==
    ASSUME NEW b \in Blocks
    PROVE  /\ \A i \in 0 .. Len(b) : FnDepth(b, i) \in Nat
           /\ \A i \in 1 .. Len(b) :
                 FnDepth(b, i) = FnDepth(b, i - 1) + (IF b[i].fn THEN 1 ELSE 0)
           /\ FnDepth(b, 0) = 0
           /\ \A i, j \in 0 .. Len(b) : i <= j => FnDepth(b, i) <= FnDepth(b, j)
           /\ \A i, j \in 0 .. Len(b) :
                 (\A k \in i + 1 .. j : ~b[k].fn) /\ i <= j => FnDepth(b, i) = FnDepth(b, j)
<1> DEFINE fns(i) == {j \in 1 .. i : b[j].fn}
<1>1. ASSUME NEW i \in 0 .. Len(b) PROVE IsFiniteSet(fns(i)) /\ FnDepth(b, i) \in Nat
  <2>1. 1 \in Int /\ i \in Int
    BY DEF Blocks
  <2>2. IsFiniteSet(1 .. i)
    BY <2>1, FS_Interval
  <2>3. IsFiniteSet(fns(i))
    BY <2>2, FS_Subset
  <2> QED
    BY <2>3, FS_CardinalityType DEF FnDepth
<1>2. ASSUME NEW i \in 1 .. Len(b)
      PROVE  FnDepth(b, i) = FnDepth(b, i - 1) + (IF b[i].fn THEN 1 ELSE 0)
  <2>1. IsFiniteSet(fns(i - 1)) /\ i \notin fns(i - 1)
    BY <1>1, Len(b) \in Nat DEF Blocks
  <2>2. fns(i) = IF b[i].fn THEN fns(i - 1) \cup {i} ELSE fns(i - 1)
    OBVIOUS
  <2>3. Cardinality(fns(i - 1)) \in Nat
    BY <2>1, FS_CardinalityType
  <2> HIDE DEF fns
  <2>4. FnDepth(b, i) = Cardinality(fns(i)) /\ FnDepth(b, i - 1) = Cardinality(fns(i - 1))
    BY DEF FnDepth, fns
  <2>5. Cardinality(fns(i - 1) \cup {i}) = Cardinality(fns(i - 1)) + 1
    BY <2>1, FS_AddElement
  <2> QED
    BY <2>2, <2>3, <2>4, <2>5
<1>3. FnDepth(b, 0) = 0
  <2>1. fns(0) = {}
    OBVIOUS
  <2> QED
    BY <2>1, FS_EmptySet DEF FnDepth
<1>4. ASSUME NEW i \in 0 .. Len(b), NEW j \in 0 .. Len(b), i <= j
      PROVE  FnDepth(b, i) <= FnDepth(b, j)
  <2>1. fns(i) \in SUBSET fns(j) /\ IsFiniteSet(fns(j))
    BY <1>1, <1>4
  <2> QED
    BY <2>1, FS_Subset DEF FnDepth
<1>5. ASSUME NEW i \in 0 .. Len(b), NEW j \in 0 .. Len(b), i <= j,
             \A k \in i + 1 .. j : ~b[k].fn
      PROVE  FnDepth(b, i) = FnDepth(b, j)
  <2>1. fns(i) = fns(j)
    BY <1>5
  <2> QED
    BY <2>1 DEF FnDepth
<1> QED
  BY <1>1, <1>2, <1>3, <1>4, <1>5

\* It depends on the kinds of the blocks alone.
LEMMA SameDepths ==
    ASSUME NEW b, NEW c, NEW n \in Nat, \A i \in 1 .. n : b[i].fn = c[i].fn
    PROVE  \A i \in 0 .. n : FnDepth(b, i) = FnDepth(c, i)
<1> SUFFICES ASSUME NEW i \in 0 .. n
             PROVE  {j \in 1 .. i : b[j].fn} = {j \in 1 .. i : c[j].fn}
  BY DEF FnDepth
<1> QED
  OBVIOUS

-----------------------------------------------------------------------------
(* The program, and how the stacks of the checks follow its blocks.         *)

ProgInv ==
    /\ language \in Languages /\ line \in 0 .. MaxLines /\ ended \in BOOLEAN
    /\ blocks \in Blocks /\ blocks # <<>> /\ blocks[1].fn
    /\ DOMAIN named \subseteq 1 .. line
    /\ \A e \in DOMAIN named : named[e] \in Names \cup {None}
    /\ sent \subseteq 1 .. line /\ handed \subseteq DOMAIN named
    /\ ahead \in {"any", "brace", "other"}
    /\ quiet \subseteq 1 .. line /\ quiet \cap DOMAIN named = {}
    /\ produced \subseteq {Log, Made} /\ traits \subseteq Traits

\* A name holds no event but its own, and no event is held twice.
HeldInv ==
    /\ \A i \in 1 .. Len(blocks) : \A x \in DOMAIN blocks[i].holds :
          blocks[i].holds[x] # 0 =>
              blocks[i].holds[x] \in DOMAIN named /\ named[blocks[i].holds[x]] = x
    /\ \A i, j \in 1 .. Len(blocks) : \A x \in DOMAIN blocks[i].holds \cap DOMAIN blocks[j].holds :
          blocks[i].holds[x] = blocks[j].holds[x] /\ blocks[i].holds[x] # 0 => i = j

\* The scanner has a scope per block, the rule one per function.
StackInv ==
    /\ scopeStack \in Stacks /\ scopes \in Stacks
    /\ ~ended => /\ Len(scopeStack) = Len(blocks)
                 /\ Len(scopes) = FnDepth(blocks, Len(blocks))
    /\ Within(scopeStack, line) /\ Within(scopes, line)
    /\ findings \cup reports \subseteq 1 .. line
    /\ produced \subseteq knownLoggers /\ knownLoggers \subseteq {Log, Made}

Base == ProgInv /\ HeldInv /\ StackInv

-----------------------------------------------------------------------------
(* What each statement does, said with the operators above.                 *)

Opened(fn) ==
    /\ blocks' \in Blocks /\ Len(blocks') = Len(blocks) + 1
    /\ \A i \in 1 .. Len(blocks) : blocks'[i] = blocks[i]
    /\ blocks'[Len(blocks')].fn = fn /\ DOMAIN blocks'[Len(blocks')].holds = {}
    /\ Pushed(scopeStack, scopeStack')
    /\ IF fn THEN Pushed(scopes, scopes') ELSE UNCHANGED scopes
    /\ UNCHANGED <<findings, reports>>

Left ==
    /\ Len(blocks) > 1
    /\ blocks' \in Blocks /\ Len(blocks') = Len(blocks) - 1
    /\ \A i \in 1 .. Len(blocks') : blocks'[i] = blocks[i]
    /\ Popped(scopeStack, scopeStack')
    /\ findings' = findings \cup Range(scopeStack[Len(scopeStack)])
    /\ IF blocks[Len(blocks)].fn
       THEN Len(scopes) > 1 /\ Popped(scopes, scopes')
            /\ reports' = reports \cup Range(scopes[Len(scopes)])
       ELSE UNCHANGED <<scopes, reports>>

\* x is set to an event or to none in the h-th block.
Assigned(h, x, c) ==
    /\ Bound(blocks, blocks', h, x, Event(c))
    /\ traits \cup ChainTraits(c) \subseteq traits'
    /\ LiveAs(x) # {} => "reuse" \in traits'
    /\ x \in DOMAIN blocks[h].holds /\ blocks[h].holds[x] \in Live => "overwrite" \in traits'
    /\ h # Len(blocks) => "outer" \in traits'
    /\ (\E i \in h + 1 .. Len(blocks) : blocks[i].fn) => "captured" \in traits'

\* The h-th block is the one that a use of x sees.
Seen(h, x) ==
    /\ x \in DOMAIN blocks[h].holds /\ Value(x) = blocks[h].holds[x]
    /\ \A j \in h + 1 .. Len(blocks) : x \notin DOMAIN blocks[j].holds

\* No event is added to those that are live, none is taken from them; the line
\* itself may send one.
Quietly ==
    /\ Live' = Live /\ sent' \subseteq sent \cup {Here}
    /\ \A e \in DOMAIN named : e \in DOMAIN named' /\ named'[e] = named[e]
    /\ traits \subseteq traits'

\* Where a declared name is found.
LEMMA HomeFacts ==
    ASSUME Base, NEW x \in Names, Declared(x)
    PROVE  Home(x) \in 1 .. Len(blocks) /\ Seen(Home(x), x)
<1> DEFINE having == {i \in DOMAIN blocks : x \in DOMAIN blocks[i].holds}
<1>1. /\ Len(blocks) \in Nat /\ DOMAIN blocks = 1 .. Len(blocks)
      /\ having \subseteq 1 .. Len(blocks) /\ having # {}
  BY DEF Base, ProgInv, Blocks, Declared
<1>2. Max(having) \in having /\ \A i \in having : Max(having) >= i
  <2> HIDE DEF having
  <2> QED
    BY <1>1, MaxExists
<1>3. Home(x) = Max(having)
  BY DEF Home
<1>4. \A j \in Home(x) + 1 .. Len(blocks) : x \notin DOMAIN blocks[j].holds
  <2>1. ASSUME NEW j \in Home(x) + 1 .. Len(blocks), x \in DOMAIN blocks[j].holds PROVE FALSE
    <3>1. Home(x) \in 1 .. Len(blocks)
      BY <1>1, <1>2, <1>3
    <3>2. j \in having /\ j \in Int /\ Home(x) \in Int /\ Home(x) < j
      BY <2>1, <3>1, <1>1
    <3> HIDE DEF having
    <3> QED
      BY <1>2, <1>3, <3>2
  <2> QED
    BY <2>1
<1> QED
  BY <1>1, <1>2, <1>3, <1>4 DEF Seen, Value

\* A use may drop the innermost entry of its name, or two.
LEMMA DropTwice ==
    ASSUME NEW s \in Stacks, NEW x \in Names
    PROVE  Dropped(s, ClearPending(ClearPending(s, x), x), x)
<1>1. Dropped(s, ClearPending(s, x), x)
  BY Drops
<1>2. Dropped(ClearPending(s, x), ClearPending(ClearPending(s, x), x), x)
  BY <1>1, Drops DEF Dropped
<1> DEFINE t == ClearPending(s, x)
           u == ClearPending(t, x)
<1> HIDE DEF t, u
<1>3. ASSUME Dropped(s, t, x), Dropped(t, u, x) PROVE Dropped(s, u, x)
  BY <1>3 DEF Dropped
<1> QED
  BY <1>1, <1>2, <1>3 DEF t, u

LEMMA OpenFacts == ASSUME Base, NEW fn \in BOOLEAN, Open(fn) PROVE Opened(fn)
<1>1. Pushed(scopeStack, scopeStack') /\ (fn => Pushed(scopes, scopes'))
  BY PushPops DEF Open, ScanOpen, RuleEnter, Base, StackInv
<1>2. [fn |-> fn, holds |-> <<>>] \in [fn : BOOLEAN, holds : Maps]
  BY MapFacts
<1>3. blocks' = Append(blocks, [fn |-> fn, holds |-> <<>>]) /\ blocks \in Blocks
  BY DEF Open, EnterBlock, Base, ProgInv
<1>4. /\ blocks' \in Blocks /\ Len(blocks') = Len(blocks) + 1
      /\ \A i \in 1 .. Len(blocks) : blocks'[i] = blocks[i]
      /\ blocks'[Len(blocks')] = [fn |-> fn, holds |-> <<>>]
  BY <1>2, <1>3 DEF Blocks
<1> QED
  BY <1>1, <1>4, MapFacts DEF Opened, Open, ScanOpen, RuleEnter

\* The block that is left is a function's only if the rule has a scope above
\* the file's.
LEMMA LeaveFacts ==
    ASSUME Base, ~ended, Len(blocks) > 1, blocks' = Front(blocks), ScanClose,
           RuleLeave(Last(blocks).fn)
    PROVE  Left
<1>1. /\ blocks' \in Blocks /\ Len(blocks') = Len(blocks) - 1
      /\ \A i \in 1 .. Len(blocks') : blocks'[i] = blocks[i]
  BY FrontFacts DEF Blocks, Base, ProgInv
<1>2. Len(scopeStack) > 1 /\ scopeStack # <<>>
  BY DEF Base, StackInv
<1>3. Popped(scopeStack, scopeStack') /\ findings' = findings \cup Range(scopeStack[Len(scopeStack)])
  BY <1>2, PushPops DEF ScanClose, Base, StackInv, Last
<1>4. CASE blocks[Len(blocks)].fn
  <2>1. Len(blocks) \in Nat /\ 1 \in 1 .. Len(blocks) /\ Len(blocks) - 1 \in 1 .. Len(blocks)
    BY DEF Base, ProgInv, Blocks
  <2>2. FnDepth(blocks, 1) = 1 /\ FnDepth(blocks, 1) <= FnDepth(blocks, Len(blocks) - 1)
    BY <2>1, Depths DEF Base, ProgInv
  <2>3. FnDepth(blocks, Len(blocks)) = FnDepth(blocks, Len(blocks) - 1) + 1
        /\ FnDepth(blocks, Len(blocks) - 1) \in Nat
    BY <1>4, <2>1, Depths DEF Base, ProgInv
  <2>4. Len(scopes) > 1 /\ scopes # <<>>
    BY <2>2, <2>3 DEF Base, StackInv
  <2> QED
    BY <1>1, <1>3, <1>4, <2>4, PushPops DEF Left, RuleLeave, Base, StackInv, Last
<1>5. CASE ~blocks[Len(blocks)].fn
  BY <1>1, <1>3, <1>5 DEF Left, RuleLeave, Last
<1> QED
  BY <1>4, <1>5

\* An event's line is new.
LEMMA EventFacts ==
    ASSUME Base, NEW c \in Chains, NEW x \in Names \cup {None}, NewEvent(c, x)
    PROVE  /\ line \in Nat /\ Here \in Nat /\ Here \notin DOMAIN named /\ Event(c) \in Nat
           /\ DOMAIN named' = DOMAIN named \cup (IF Builds(c) THEN {Here} ELSE {})
           /\ Builds(c) => named'[Here] = x
           /\ \A e \in DOMAIN named : named'[e] = named[e]
           /\ sent' = sent \cup (IF Sends(c) THEN {Here} ELSE {})
           /\ Here \notin sent
<1>1. line \in Nat /\ Here = line + 1 /\ Here \notin DOMAIN named /\ Here \notin sent
  BY ProgramAssumption DEF Base, ProgInv, Here
<1> QED
  BY <1>1 DEF NewEvent, With, Event

\* A chain that sends its event leaves none, and the scanner takes it for
\* delivered unless it is behind a pipe or an emit of Gleam.
LEMMA SendFacts ==
    ASSUME NEW c \in Chains, Sends(c)
    PROVE  /\ ~Builds(c)
           /\ \A lang :
                 /\ c.calls[1] # "field"
                 /\ lang = "gleam" => "emit" \notin {c.calls[i] : i \in DOMAIN c.calls}
                 => ~Pends(c, lang)
<1> DEFINE s == c.calls
<1>1. /\ s \in Seq(CallKinds) /\ s # <<>>
      /\ \A i \in DOMAIN s : s[i] \in {"emit", "send"} => i = Len(s)
      /\ \A i, j \in DOMAIN s : {s[i], s[j]} \subseteq {"level", "emit"} => i = j
  BY ProgramAssumption DEF Chains
<1>2. Len(s) \in Nat /\ DOMAIN s = 1 .. Len(s) /\ 1 \in DOMAIN s /\ s[1] \in CallKinds
  BY <1>1
<1> HIDE DEF s
<1>3. PICK i \in DOMAIN s :
         \/ s[i] = "emit"
         \/ s[i] = "level" /\ \E j \in DOMAIN s : j > i /\ s[j] = "send"
  BY DEF Sends, s
<1>4. ASSUME Builds(c) PROVE FALSE
  <2>1. PICK k \in DOMAIN s : s[k] = "level" /\ \A j \in DOMAIN s : j > k => s[j] # "send"
    BY <1>4 DEF Builds, s
  <2>2. k = i
    BY <1>1, <1>3, <2>1
  <2> QED
    BY <1>3, <2>1, <2>2
<1>5. ASSUME NEW lang, s[1] # "field",
             lang = "gleam" => "emit" \notin {s[k] : k \in DOMAIN s}
      PROVE  ~Pends(c, lang)
  <2>1. CASE s[i] = "emit"
    <3>1. lang # "gleam" /\ i = Len(s)
      BY <1>1, <1>5, <2>1
    <3>2. CASE s[1] = "emit"
      <4>1. Len(s) = 1
        BY <1>1, <1>2, <3>2
      <4>2. s = <<"emit">>
        BY <1>1, <3>2, <4>1
      <4> QED
        BY <3>1, <4>2 DEF Pends, Delivered, s
    <3>3. CASE s[1] # "emit"
      <4>1. s[1] # "level"
        <5>1. ASSUME s[1] = "level" PROVE FALSE
          <6>1. 1 = i
            BY <1>1, <1>2, <2>1, <5>1
          <6> QED
            BY <2>1, <5>1, <6>1
        <5> QED
          BY <5>1
      <4> QED
        BY <3>1, <3>3, <4>1 DEF Pends, Noticed, s
    <3> QED
      BY <3>2, <3>3
  <2>2. CASE s[i] # "emit"
    <3>1. "send" \in Range(s)
      BY <1>3, <2>2 DEF Range
    <3> QED
      BY <3>1 DEF Pends, Delivered, s
  <2> QED
    BY <2>1, <2>2
<1> QED
  BY <1>4, <1>5 DEF s

LEMMA LetFacts ==
    ASSUME Base, NEW x \in Names, NEW c \in Chains, Declare(x, c)
    PROVE  Len(blocks) \in 1 .. Len(blocks) /\ Assigned(Len(blocks), x, c)
<1>1. Len(blocks) \in 1 .. Len(blocks) /\ Len(blocks) \in Nat
  BY DEF Base, ProgInv, Blocks
<1>2. Event(c) \in Nat
  BY EventFacts DEF Declare
<1>3. Bound(blocks, blocks', Len(blocks), x, Event(c))
  BY <1>1, <1>2, Binds DEF Declare, Base, ProgInv
<1>4. ~ \E i \in Len(blocks) + 1 .. Len(blocks) : blocks[i].fn
  BY <1>1
<1> QED
  BY <1>1, <1>3, <1>4 DEF Declare, Assigned, Last

LEMMA AssignFacts ==
    ASSUME Base, NEW x \in Names, NEW c \in Chains, Assign(x, c)
    PROVE  Home(x) \in 1 .. Len(blocks) /\ Assigned(Home(x), x, c)
<1>1. Home(x) \in 1 .. Len(blocks) /\ Seen(Home(x), x)
  BY HomeFacts DEF Assign
<1>2. Event(c) \in Nat
  BY EventFacts DEF Assign
<1>3. Bound(blocks, blocks', Home(x), x, Event(c))
  BY <1>1, <1>2, Binds DEF Assign, Base, ProgInv, Seen
<1> QED
  BY <1>1, <1>3 DEF Assign, Assigned, Captured, Seen

-----------------------------------------------------------------------------
(* Every step keeps the base invariant.                                     *)

\* A line that is written keeps ProgInv if its blocks and its events do.
LEMMA WriteProg ==
    ASSUME Base, Write, blocks' \in Blocks, blocks' # <<>>, blocks'[1].fn,
           \/ UNCHANGED named /\ quiet' \in {quiet, {Here}}
           \/ UNCHANGED quiet /\ \E c \in Chains, x \in Names \cup {None} : NewEvent(c, x),
           sent' \subseteq sent \cup DOMAIN named \cup {Here}, handed' \subseteq DOMAIN named',
           ahead' \in {"any", "brace", "other"},
           produced' \subseteq {Log, Made}, traits' \subseteq Traits
    PROVE  ProgInv'
<1>1. line \in Nat /\ line' = line + 1 /\ line' \in 0 .. MaxLines /\ Here = line'
      /\ ended' \in BOOLEAN /\ language' \in Languages
  BY ProgramAssumption DEF Write, Here, Base, ProgInv
<1>2. Here \notin DOMAIN named /\ Here \notin quiet /\ Here \in 1 .. line'
      /\ 1 .. line \subseteq 1 .. line'
  BY <1>1 DEF Base, ProgInv
<1>2a. sent' \subseteq 1 .. line'
  BY <1>2 DEF Base, ProgInv
<1>3. ASSUME UNCHANGED named, quiet' \in {quiet, {Here}} PROVE ProgInv'
  <2>1. /\ DOMAIN named \subseteq 1 .. line' /\ quiet' \subseteq 1 .. line'
        /\ quiet' \cap DOMAIN named = {}
    BY <1>2, <1>3 DEF Base, ProgInv
  <2>2. \A e \in DOMAIN named : named[e] \in Names \cup {None}
    BY DEF Base, ProgInv
  <2> QED
    BY <1>1, <1>2a, <1>3, <2>1, <2>2 DEF ProgInv
<1>4. ASSUME UNCHANGED quiet, NEW c \in Chains, NEW x \in Names \cup {None}, NewEvent(c, x)
      PROVE  ProgInv'
  <2>1. /\ DOMAIN named' \subseteq DOMAIN named \cup {Here}
        /\ \A e \in DOMAIN named' : named'[e] \in Names \cup {None}
    <3>1. /\ DOMAIN named' = DOMAIN named \cup (IF Builds(c) THEN {Here} ELSE {})
          /\ Builds(c) => named'[Here] = x
          /\ \A e \in DOMAIN named : named'[e] = named[e]
      BY <1>4, EventFacts
    <3>2. \A e \in DOMAIN named : named[e] \in Names \cup {None}
      BY DEF Base, ProgInv
    <3> QED
      BY <3>1, <3>2
  <2>2. DOMAIN named' \subseteq 1 .. line' /\ quiet' \subseteq 1 .. line'
        /\ quiet' \cap DOMAIN named' = {}
    BY <1>2, <1>4, <2>1 DEF Base, ProgInv
  <2> QED
    BY <1>1, <1>2a, <2>1, <2>2 DEF ProgInv
<1> QED
  BY <1>3, <1>4

\* The file is one function's block without names.
LEMMA InitBase == Init => Base
<1> SUFFICES ASSUME Init PROVE Base
  OBVIOUS
<1> USE DEF Init, ProgramInit, ScannerInit, RuleInit
<1>1. [fn |-> TRUE, holds |-> <<>>] \in [fn : BOOLEAN, holds : Maps]
  BY MapFacts
<1>2. blocks \in Blocks /\ Len(blocks) = 1 /\ blocks[1].fn /\ DOMAIN blocks[1].holds = {}
  BY <1>1, MapFacts DEF Blocks
<1>3. ProgInv
  <2>1. 0 \in 0 .. MaxLines /\ blocks # <<>>
    BY <1>2, ProgramAssumption
  <2>2. DOMAIN named = {}
    BY MapFacts
  <2> QED
    BY <1>2, <2>1, <2>2, LoggerAssumption DEF ProgInv
<1>4. HeldInv
  BY <1>2 DEF HeldInv
<1>5. FnDepth(blocks, 1) = 1
  <2>1. FnDepth(blocks, 1) = FnDepth(blocks, 1 - 1) + 1 /\ FnDepth(blocks, 0) = 0 /\ 1 - 1 = 0
    BY <1>2, Depths
  <2> QED
    BY <2>1
<1>6. scopeStack \in Stacks /\ scopes \in Stacks /\ Len(scopes) = 1 /\ Len(scopeStack) = 1
      /\ DOMAIN scopes[1] = {} /\ DOMAIN scopeStack[1] = {}
  BY MapFacts DEF Stacks
<1>7. StackInv
  BY <1>2, <1>5, <1>6, LoggerAssumption DEF StackInv, Within, Range
<1> QED
  BY <1>3, <1>4, <1>7 DEF Base

LEMMA OpenBase == ASSUME Base, NEW fn \in BOOLEAN, Open(fn) PROVE Base'
<1>1. Opened(fn) /\ Len(blocks) \in Nat /\ ~ended /\ ~ended'
  BY OpenFacts DEF Open, EnterBlock, Statement, Write, Base, ProgInv, Blocks
<1>2. ProgInv'
  BY <1>1, ProgramAssumption DEF Opened, Open, EnterBlock, Statement, Write, Here, Base, ProgInv
<1>3. HeldInv'
  BY <1>1 DEF Opened, Open, EnterBlock, Base, HeldInv
<1>4. FnDepth(blocks', Len(blocks')) = FnDepth(blocks, Len(blocks)) + (IF fn THEN 1 ELSE 0)
  <2>1. FnDepth(blocks', Len(blocks)) = FnDepth(blocks, Len(blocks))
    <3>1. Len(blocks) \in 0 .. Len(blocks) /\ \A i \in 1 .. Len(blocks) : blocks[i].fn = blocks'[i].fn
      BY <1>1 DEF Opened
    <3> QED
      BY <1>1, <3>1, SameDepths
  <2>2. Len(blocks') \in 1 .. Len(blocks') /\ Len(blocks') - 1 = Len(blocks) /\ blocks' \in Blocks
    BY <1>1 DEF Opened
  <2>3. FnDepth(blocks', Len(blocks')) =
           FnDepth(blocks', Len(blocks') - 1) + (IF blocks'[Len(blocks')].fn THEN 1 ELSE 0)
    BY <2>2, Depths
  <2> QED
    BY <1>1, <2>1, <2>2, <2>3 DEF Opened
<1>5. /\ scopeStack' \in Stacks /\ scopes' \in Stacks
      /\ Len(scopeStack') = Len(blocks') /\ Len(scopes') = FnDepth(blocks', Len(blocks'))
  BY <1>1, <1>4 DEF Opened, Pushed, Base, StackInv
<1>6. line' = line + 1 /\ line \in Nat
  BY ProgramAssumption DEF Open, EnterBlock, Statement, Write, Here, Base, ProgInv
<1>7. Within(scopeStack', line') /\ Within(scopes', line')
  BY <1>1, <1>6, KeepWithin DEF Opened, Base, StackInv
<1>8. StackInv'
  BY <1>1, <1>5, <1>6, <1>7 DEF Opened, Open, EnterBlock, ScanOpen, RuleEnter, Base, StackInv
<1> QED
  BY <1>2, <1>3, <1>8 DEF Base

LEMMA TraitFacts == \A c \in Chains : ChainTraits(c) \subseteq Traits
BY DEF ChainTraits, Traits

LEMMA LeaveBase ==
    ASSUME Base, Left, Write, ScanClose, RuleLeave(Last(blocks).fn), UNCHANGED quiet, ProgInv',
           \A e \in DOMAIN named : e \in DOMAIN named' /\ named'[e] = named[e],
           UNCHANGED produced
    PROVE  Base'
<1>1. Len(blocks) \in Nat /\ Len(blocks') \in Nat /\ Len(blocks') >= 1
      /\ \A i \in 1 .. Len(blocks') : i \in 1 .. Len(blocks) /\ blocks'[i] = blocks[i]
      /\ line' = line + 1 /\ line \in Nat /\ ~ended
  BY ProgramAssumption DEF Left, Base, ProgInv, Blocks, Write, Here
<1>2. HeldInv'
  BY <1>1 DEF Base, HeldInv
<1>3. FnDepth(blocks, Len(blocks)) = FnDepth(blocks', Len(blocks')) + (IF blocks[Len(blocks)].fn THEN 1 ELSE 0)
      /\ FnDepth(blocks', Len(blocks')) \in Nat
  <2>1. Len(blocks') = Len(blocks) - 1 /\ Len(blocks) \in 1 .. Len(blocks) /\ blocks \in Blocks
        /\ blocks' \in Blocks /\ Len(blocks') \in 0 .. Len(blocks')
    BY <1>1 DEF Left, Base, ProgInv
  <2>2. FnDepth(blocks', Len(blocks')) = FnDepth(blocks, Len(blocks'))
    BY <1>1, <2>1, SameDepths
  <2>3. FnDepth(blocks', Len(blocks')) \in Nat
    BY <2>1, Depths
  <2> QED
    BY <2>1, <2>2, <2>3, Depths
<1>4. scopeStack' \in Stacks /\ Len(scopeStack') = Len(blocks')
  BY <1>1 DEF Left, Popped, Base, StackInv
<1>5. scopes' \in Stacks /\ Len(scopes') = FnDepth(blocks', Len(blocks'))
  BY <1>1, <1>3 DEF Left, Popped, Base, StackInv
<1>6. Within(scopeStack', line') /\ Within(scopes', line')
  BY <1>1, KeepWithin DEF Left, Base, StackInv
<1>7. findings' \cup reports' \subseteq 1 .. line'
  <2>1. Len(scopeStack) \in 1 .. Len(scopeStack)
    BY <1>1 DEF Left, Base, StackInv
  <2>2. Range(scopeStack[Len(scopeStack)]) \subseteq 1 .. line'
    BY <1>1, <2>1 DEF Base, StackInv, Within, Range
  <2>3. blocks[Len(blocks)].fn => Range(scopes[Len(scopes)]) \subseteq 1 .. line'
    <3>1. ASSUME blocks[Len(blocks)].fn PROVE Len(scopes) \in 1 .. Len(scopes)
      BY <3>1 DEF Left, Base, StackInv, Stacks
    <3> QED
      BY <1>1, <3>1 DEF Base, StackInv, Within, Range
  <2> QED
    BY <1>1, <2>2, <2>3 DEF Left, Base, StackInv
<1>8. StackInv'
  BY <1>4, <1>5, <1>6, <1>7 DEF Base, StackInv, ScanClose, RuleLeave
<1> QED
  BY <1>2, <1>8 DEF Base

\* A block that is left, with an event behind `return` or without.
LEMMA CloseFacts == ASSUME Base, Close PROVE Base' /\ Left /\ Quietly
<1>1. Left
  BY LeaveFacts DEF Close, LeaveBlock, Write
<1>2. Quietly
  BY DEF Close, LeaveBlock, Quietly, Live
<1>3. blocks' # <<>> /\ blocks'[1].fn
  BY <1>1 DEF Left, Base, ProgInv, Blocks
<1>4. ProgInv'
  BY <1>1, <1>3, WriteProg DEF Left, Close, LeaveBlock, Base, ProgInv
<1>5. Base'
  BY <1>1, <1>4, LeaveBase DEF Close, LeaveBlock
<1> QED
  BY <1>1, <1>2, <1>5

\* An event that is handed on at once.
LEMMA HandFacts ==
    ASSUME Base, NEW c \in Chains, NEW tail \in BOOLEAN, HandOff(c, tail),
           blocks' \in Blocks, blocks' # <<>>, blocks'[1].fn
    PROVE  ProgInv' /\ Quietly /\ (c.calls[1] = "field" => "late" \in traits')
<1>1. NewEvent(c, None)
  BY DEF HandOff
<1>2. /\ DOMAIN named' = DOMAIN named \cup (IF Builds(c) THEN {Here} ELSE {})
      /\ \A e \in DOMAIN named : named'[e] = named[e]
      /\ sent' \subseteq sent \cup {Here} /\ sent \subseteq sent'
      /\ Builds(c) => sent' = sent
  BY <1>1, EventFacts, SendFacts
<1>3. handed' = handed \cup (IF Builds(c) THEN {Here} ELSE {})
      /\ traits' = traits \cup ChainTraits(c)
  BY DEF HandOff
<1>4. Quietly
  <2>1. DOMAIN named' \ (sent' \cup handed') = DOMAIN named \ (sent \cup handed)
    <3>1. Here \notin DOMAIN named /\ handed \subseteq DOMAIN named
      BY <1>1, EventFacts DEF Base, ProgInv
    <3> QED
      BY <1>2, <1>3, <3>1
  <2> QED
    BY <1>2, <1>3, <2>1 DEF Quietly, Live
<1>5. ProgInv'
  <2>1. Write /\ UNCHANGED <<quiet, produced>> /\ ahead' \in {"any", "brace", "other"}
    BY DEF HandOff, Statement
  <2> QED
    BY <1>1, <1>2, <1>3, <2>1, WriteProg, TraitFacts DEF Base, ProgInv
<1> QED
  BY <1>3, <1>4, <1>5 DEF ChainTraits

LEMMA TailFacts == ASSUME Base, NEW c \in Chains, TailChain(c) PROVE Base' /\ Left /\ Quietly
<1>1. Left
  BY LeaveFacts DEF TailChain, HandOff, Statement, Write, ScanTail
<1>2. blocks' # <<>> /\ blocks'[1].fn /\ blocks' \in Blocks
  BY <1>1 DEF Left, Base, ProgInv, Blocks
<1>3. ProgInv' /\ Quietly
  BY <1>2, HandFacts DEF TailChain
<1>4. Base'
  BY <1>1, <1>3, LeaveBase DEF TailChain, HandOff, Statement, ScanTail, Quietly
<1> QED
  BY <1>1, <1>3, <1>4

\* t is s after set(), after delete(), or untouched.
Touched(s, t, l) ==
    \/ t = s
    \/ \E x \in Names : Marked(s, t, x, l) \/ Dropped(s, t, x)

\* A line that opens and closes no block keeps the stacks in step with them.
LEMMA SameBlocks ==
    ASSUME Base, Write, blocks' \in Blocks, Len(blocks') = Len(blocks),
           \A i \in 1 .. Len(blocks) : blocks'[i].fn = blocks[i].fn,
           Touched(scopeStack, scopeStack', Here), Touched(scopes, scopes', Here),
           findings' \subseteq findings \cup {Here}, reports' \subseteq reports \cup {Here},
           produced' \subseteq knownLoggers', knownLoggers' \subseteq {Log, Made}
    PROVE  StackInv'
<1>1. line \in Nat /\ line' = line + 1 /\ Here = line + 1 /\ ~ended /\ Len(blocks) \in Nat
      /\ Len(blocks) \in 0 .. Len(blocks)
  BY ProgramAssumption DEF Write, Here, Base, ProgInv, Blocks
<1>2. FnDepth(blocks', Len(blocks')) = FnDepth(blocks, Len(blocks))
  <2>1. \A i \in 1 .. Len(blocks) : blocks[i].fn = blocks'[i].fn
    OBVIOUS
  <2>2. \A i \in 0 .. Len(blocks) : FnDepth(blocks, i) = FnDepth(blocks', i)
    BY <1>1, <2>1, SameDepths
  <2> QED
    BY <1>1, <2>2
<1>3. ASSUME NEW s \in Stacks, NEW t, Touched(s, t, Here), Within(s, line)
      PROVE  t \in Stacks /\ Len(t) = Len(s) /\ Within(t, line')
  <2>1. t \in Stacks /\ Len(t) = Len(s)
    BY <1>3 DEF Touched, Marked, Dropped
  <2>2. Within(t, line')
    BY <1>1, <1>3, KeepWithin DEF Touched
  <2> QED
    BY <2>1, <2>2
<1>4. findings' \cup reports' \subseteq 1 .. line'
  BY <1>1 DEF Base, StackInv
<1> QED
  BY <1>1, <1>2, <1>3, <1>4 DEF Base, StackInv

\* Setting a name to a new event or to none.
LEMMA AssignedHeld ==
    ASSUME Base, NEW x \in Names, NEW c \in Chains, NEW h \in 1 .. Len(blocks),
           Assigned(h, x, c), NewEvent(c, x)
    PROVE  HeldInv'
<1>1. /\ Here \in Nat /\ Here \notin DOMAIN named /\ Len(blocks') = Len(blocks)
      /\ DOMAIN named' = DOMAIN named \cup (IF Builds(c) THEN {Here} ELSE {})
      /\ Builds(c) => named'[Here] = x
      /\ \A e \in DOMAIN named : named'[e] = named[e]
  BY EventFacts DEF Assigned, Bound
<1>2. ASSUME NEW i \in 1 .. Len(blocks), NEW y \in DOMAIN blocks'[i].holds
      PROVE  \/ i = h /\ y = x /\ blocks'[i].holds[y] = Event(c)
             \/ /\ y \in DOMAIN blocks[i].holds /\ blocks'[i].holds[y] = blocks[i].holds[y]
                /\ ~(i = h /\ y = x)
  BY DEF Assigned, Bound
<1>3. Event(c) # 0 => Event(c) = Here /\ Builds(c)
  BY DEF Event
<1>4. ASSUME NEW i \in 1 .. Len(blocks), NEW y \in DOMAIN blocks'[i].holds,
             blocks'[i].holds[y] # 0
      PROVE  blocks'[i].holds[y] \in DOMAIN named' /\ named'[blocks'[i].holds[y]] = y
  BY <1>1, <1>2, <1>3, <1>4 DEF Base, HeldInv
<1>5. ASSUME NEW i \in 1 .. Len(blocks), NEW j \in 1 .. Len(blocks),
             NEW y \in DOMAIN blocks'[i].holds \cap DOMAIN blocks'[j].holds,
             blocks'[i].holds[y] = blocks'[j].holds[y], blocks'[i].holds[y] # 0
      PROVE  i = j
  <2>1. CASE i = h /\ y = x
    BY <1>1, <1>2, <1>3, <1>5, <2>1 DEF Base, HeldInv
  <2>2. CASE j = h /\ y = x
    BY <1>1, <1>2, <1>3, <1>5, <2>2 DEF Base, HeldInv
  <2>3. CASE ~(i = h /\ y = x) /\ ~(j = h /\ y = x)
    BY <1>2, <1>5, <2>3 DEF Base, HeldInv
  <2> QED
    BY <2>1, <2>2, <2>3
<1> QED
  BY <1>1, <1>4, <1>5 DEF HeldInv

\* What the checks do with it.
LEMMA SetScans ==
    ASSUME Base, ~ended, NEW x \in Names, NEW c \in Chains,
           NEW next, ScanAssigned(x, c, Here, language, next), RuleAssigned(x, c, Here)
    PROVE  /\ ~Pends(c, language) => UNCHANGED scannerVars
           /\ Pends(c, language) /\ BehindPipe(c, language) =>
                 Report(Here) \/ UNCHANGED scannerVars
           /\ Pends(c, language) /\ ~BehindPipe(c, language) =>
                 Marked(scopeStack, scopeStack', x, Here) /\ UNCHANGED findings
           /\ IF Undelivered(c) THEN Marked(scopes, scopes', x, Here) ELSE UNCHANGED scopes
           /\ UNCHANGED <<reports, knownLoggers>>
           /\ Len(scopes) >= 1
<1>1. scopeStack \in Stacks /\ scopeStack # <<>> /\ scopes \in Stacks
  BY DEF Base, StackInv, ProgInv, Blocks, Stacks
<1>2. Len(scopes) >= 1 /\ scopes # <<>>
  <2>1. Len(blocks) \in 1 .. Len(blocks) /\ 1 \in 1 .. Len(blocks) /\ 1 - 1 = 0 /\ 1 <= Len(blocks)
        /\ 1 \in 0 .. Len(blocks) /\ Len(blocks) \in 0 .. Len(blocks)
    BY DEF Base, ProgInv, Blocks
  <2>2. FnDepth(blocks, 1) = FnDepth(blocks, 1 - 1) + 1 /\ FnDepth(blocks, 0) = 0
    BY <2>1, Depths DEF Base, ProgInv
  <2>3. FnDepth(blocks, 1) <= FnDepth(blocks, Len(blocks)) /\ FnDepth(blocks, Len(blocks)) \in Nat
    BY <2>1, Depths DEF Base, ProgInv
  <2> QED
    BY <2>1, <2>2, <2>3 DEF Base, StackInv
<1>3. Here \in Nat
  BY ProgramAssumption DEF Here, Base, ProgInv
<1>4. Pends(c, language) /\ ~BehindPipe(c, language) =>
         Marked(scopeStack, scopeStack', x, Here) /\ UNCHANGED findings
  BY <1>1, <1>3, Marks DEF ScanAssigned, Mark
<1>5. Undelivered(c) => Marked(scopes, scopes', x, Here)
  BY <1>1, <1>2, <1>3, Marks DEF RuleAssigned, MarkPending
<1> QED
  BY <1>2, <1>4, <1>5 DEF ScanAssigned, RuleAssigned

LEMMA SetBase ==
    ASSUME Base, NEW x \in Names, NEW c \in Chains, LetChain(x, c) \/ AssignChain(x, c)
    PROVE  /\ Base' /\ ~ended /\ NewEvent(c, x) /\ UNCHANGED <<handed, quiet>>
           /\ ScanAssigned(x, c, Here, language, ahead') /\ RuleAssigned(x, c, Here)
           /\ \E h \in 1 .. Len(blocks) : Assigned(h, x, c)
<1>1. PICK h \in 1 .. Len(blocks) : Assigned(h, x, c)
  BY LetFacts, AssignFacts DEF LetChain, AssignChain
<1>2. /\ Write /\ ~ended /\ NewEvent(c, x) /\ UNCHANGED <<handed, quiet, produced>>
      /\ ScanAssigned(x, c, Here, language, ahead') /\ RuleAssigned(x, c, Here)
      /\ traits' \subseteq Traits /\ ahead' \in {"any", "brace", "other"}
  BY TraitFacts DEF LetChain, AssignChain, Declare, Assign, Statement, Write, Base, ProgInv, Traits
<1>3. /\ blocks' \in Blocks /\ blocks' # <<>> /\ blocks'[1].fn /\ Len(blocks') = Len(blocks)
      /\ \A i \in 1 .. Len(blocks) : blocks'[i].fn = blocks[i].fn
  BY <1>1 DEF Assigned, Bound, Base, ProgInv, Blocks
<1>4. ProgInv'
  BY <1>2, <1>3, WriteProg, EventFacts DEF Base, ProgInv
<1>5. HeldInv'
  BY <1>1, <1>2, AssignedHeld
<1>6. StackInv'
  <2>1. Touched(scopeStack, scopeStack', Here) /\ findings' \subseteq findings \cup {Here}
    BY <1>2, SetScans DEF Touched, Report, scannerVars
  <2>2. Touched(scopes, scopes', Here) /\ reports' = reports /\ knownLoggers' = knownLoggers
    BY <1>2, SetScans DEF Touched
  <2> QED
    BY <1>2, <1>3, <2>1, <2>2, SameBlocks DEF Base, StackInv
<1> QED
  BY <1>1, <1>2, <1>4, <1>5, <1>6 DEF Base

LEMMA UseBase ==
    ASSUME Base, NEW x \in Names, NEW how \in Uses, UseName(x, how)
    PROVE  /\ Base' /\ ~ended
           /\ Home(x) \in 1 .. Len(blocks) /\ Seen(Home(x), x)
           /\ IF how \in {"send", "sendOf"} THEN Dropped(scopeStack, scopeStack', x)
              ELSE UNCHANGED scopeStack
           /\ Dropped(scopes, scopes', x)
           /\ UNCHANGED <<findings, reports, blocks, named, quiet>>
<1>1. Home(x) \in 1 .. Len(blocks) /\ Seen(Home(x), x)
  BY HomeFacts DEF UseName, Use
<1>2. Dropped(scopes, scopes', x)
  BY Drops, DropTwice DEF UseName, RuleUse, Base, StackInv
<1>3. IF how \in {"send", "sendOf"} THEN Dropped(scopeStack, scopeStack', x)
      ELSE UNCHANGED scopeStack
  <2>1. Cleared(x) = ClearPending(scopeStack, x)
    BY DEF Cleared, ClearPending
  <2> QED
    BY <2>1, Drops DEF UseName, ScanUse, Base, StackInv
<1>4. Write /\ UNCHANGED <<findings, reports, blocks, named, quiet, produced, knownLoggers>>
  BY DEF UseName, Use, Statement, ScanUse, RuleUse
<1>5. Value(x) # 0 => Value(x) \in DOMAIN named
  BY <1>1 DEF Seen, Base, HeldInv
<1>6. ProgInv'
  <2>1. /\ sent' \subseteq sent \cup DOMAIN named /\ handed' \subseteq DOMAIN named'
        /\ ahead' \in {"any", "brace", "other"}
    BY <1>4, <1>5 DEF UseName, Use, Statement, Base, ProgInv
  <2>2. traits' \subseteq Traits
    BY DEF UseName, Use, Base, ProgInv, Traits
  <2> QED
    BY <1>4, <2>1, <2>2, WriteProg DEF Base, ProgInv
<1>7. HeldInv'
  BY <1>4 DEF Base, HeldInv
<1>8. StackInv'
  <2>1. Touched(scopeStack, scopeStack', Here) /\ Touched(scopes, scopes', Here)
    BY <1>2, <1>3 DEF Touched
  <2> QED
    BY <1>4, <2>1, SameBlocks DEF Base, ProgInv, StackInv
<1> QED
  BY <1>1, <1>2, <1>3, <1>4, <1>6, <1>7, <1>8 DEF Base, Write

\* The statements that touch neither blocks nor pending maps.
LEMMA PlainBase ==
    ASSUME Base,
           \/ \E c \in Chains : BareChain(c) \/ GivenChain(c)
           \/ ProduceLogger \/ Suppress
    PROVE  Base' /\ ~ended /\ UNCHANGED <<blocks, scopeStack, scopes, ended>>
<1>1. /\ Write /\ ~ended /\ UNCHANGED <<blocks, scopeStack, scopes, ended>>
      /\ findings' \subseteq findings \cup {Here} /\ reports' \subseteq reports \cup {Here}
  BY DEF BareChain, GivenChain, ProduceLogger, Suppress, Stand, HandOff, Produce, Comment, Statement, Write,
     ScanStatement, ScanHandOff, ScanOther, Report, scannerVars, RuleStatement, RuleHandOff,
     RuleProduces, RuleOther, ruleVars
<1>2. produced' \subseteq knownLoggers' /\ knownLoggers' \subseteq {Log, Made}
  BY DEF BareChain, GivenChain, ProduceLogger, Suppress, Stand, HandOff, Produce, Comment,
     RuleStatement, RuleHandOff, RuleProduces, RuleOther, ruleVars, Base, StackInv
<1>3. /\ \/ UNCHANGED named /\ quiet' \in {quiet, {Here}}
         \/ UNCHANGED quiet /\ \E c \in Chains, x \in Names \cup {None} : NewEvent(c, x)
      /\ sent' \subseteq sent \cup {Here} /\ handed' \subseteq DOMAIN named'
      /\ ahead' \in {"any", "brace", "other"}
  <2>1. CASE ProduceLogger \/ Suppress
    BY <2>1 DEF ProduceLogger, Suppress, Produce, Comment, Statement, Base, ProgInv
  <2>2. ASSUME NEW c \in Chains, BareChain(c) \/ GivenChain(c)
        PROVE  /\ UNCHANGED quiet /\ NewEvent(c, None)
               /\ sent' \subseteq sent \cup {Here} /\ handed' \subseteq DOMAIN named'
               /\ ahead' \in {"any", "brace", "other"}
    <3>1. /\ NewEvent(c, None) /\ UNCHANGED quiet
          /\ handed' \subseteq handed \cup (IF Builds(c) THEN {Here} ELSE {})
          /\ ahead' \in {"any", "brace", "other"}
      BY <2>2 DEF BareChain, GivenChain, Stand, HandOff, Statement
    <3> QED
      BY <3>1, EventFacts DEF Base, ProgInv
  <2> QED
    BY <2>1, <2>2
<1>4. produced' \subseteq {Log, Made} /\ traits' \subseteq Traits
  BY TraitFacts DEF BareChain, GivenChain, ProduceLogger, Suppress, Stand, HandOff, Produce, Comment,
     Base, ProgInv
<1>5. ProgInv'
  BY <1>1, <1>3, <1>4, WriteProg DEF Base, ProgInv
<1>6. \A e \in DOMAIN named : e \in DOMAIN named' /\ named'[e] = named[e]
  BY <1>3, EventFacts
<1>7. HeldInv'
  BY <1>1, <1>6 DEF Base, HeldInv
<1>8. StackInv'
  BY <1>1, <1>2, SameBlocks DEF Touched, Base, ProgInv
<1> QED
  BY <1>1, <1>5, <1>7, <1>8 DEF Base

LEMMA EndBase == ASSUME Base, EndOfFile PROVE Base'
<1>1. /\ ended' = TRUE /\ scopeStack' = <<>> /\ scopes' = Front(scopes) /\ Len(blocks) = 1
      /\ UNCHANGED <<language, line, blocks, named, sent, handed, produced, traits, quiet, ahead,
                     knownLoggers>>
  BY DEF EndOfFile, End, ScanEnd, RuleEnd
<1>2. ProgInv' /\ HeldInv'
  <2>1. ended' \in BOOLEAN
    BY <1>1
  <2>2. ProgInv'
    <3>1. UNCHANGED <<language, line, blocks, named, sent, handed, produced, traits, quiet, ahead>>
      BY <1>1
    <3> QED
      BY <2>1, <3>1 DEF Base, ProgInv
  <2>3. HeldInv'
    <3>1. UNCHANGED <<blocks, named>>
      BY <1>1
    <3> QED
      BY <3>1 DEF Base, HeldInv
  <2> QED
    BY <2>2, <2>3
<1>3. FnDepth(blocks, 1) = FnDepth(blocks, 1 - 1) + 1 /\ FnDepth(blocks, 0) = 0
  BY <1>1, Depths DEF Base, ProgInv
<1>4. Len(scopes) = 1 /\ scopes # <<>> /\ line \in Nat
  BY <1>1, <1>3, ProgramAssumption DEF Base, ProgInv, StackInv, EndOfFile, End
<1>5. scopeStack' \in Stacks /\ Len(scopeStack') = 0 /\ Popped(scopes, scopes')
  BY <1>1, <1>4, PushPops DEF Base, StackInv, Stacks
<1>6. scopes' \in Stacks /\ Within(scopes', line) /\ Within(scopeStack', line)
  BY <1>4, <1>5, KeepWithin DEF Popped, Within, Base, StackInv
<1>7. findings' \cup reports' \subseteq 1 .. line
  <2>1. \A i \in 1 .. Len(scopeStack) : Range(scopeStack[i]) \subseteq 1 .. line
    BY DEF Base, StackInv, Within, Range
  <2>2. Range(scopes[Len(scopes)]) \subseteq 1 .. line
    BY <1>4 DEF Base, StackInv, Within, Range
  <2>3. DOMAIN scopeStack = 1 .. Len(scopeStack)
    BY DEF Base, StackInv, Stacks
  <2>4. findings' \subseteq 1 .. line
    BY <2>1, <2>3 DEF EndOfFile, ScanEnd, Base, StackInv
  <2> QED
    BY <2>2, <2>4 DEF EndOfFile, RuleEnd, Base, StackInv, Last
<1> QED
  BY <1>1, <1>2, <1>5, <1>6, <1>7 DEF Base, StackInv

LEMMA StepBase == Base /\ [Next]_vars => Base'
<1> SUFFICES ASSUME Base, [Next]_vars PROVE Base'
  OBVIOUS
<1>1. CASE UNCHANGED vars
  BY <1>1 DEF vars, programVars, scannerVars, ruleVars, Base, ProgInv, HeldInv, StackInv
<1>2. CASE Next
  BY <1>2, OpenBase, CloseFacts, TailFacts, SetBase, UseBase, PlainBase, EndBase DEF Next
<1> QED
  BY <1>1, <1>2

\* In every program, however long and deep, a name holds only its own events,
\* the scanner has a scope per open block and the rule one per open function.
THEOREM Invariance == Spec => []Base
<1>1. Base /\ [Next]_vars => Base'
  BY StepBase
<1> QED
  BY <1>1, InitBase, PTL DEF Spec

\* The types, in particular that every line a check holds was written.
THEOREM TypeCorrect == Spec => []TypeOK
<1>1. Base => TypeOK
  <2> SUFFICES ASSUME Base PROVE TypeOK
    OBVIOUS
  <2>1. /\ DOMAIN blocks = 1 .. Len(blocks) /\ DOMAIN scopeStack = 1 .. Len(scopeStack)
        /\ DOMAIN scopes = 1 .. Len(scopes) /\ line \in Nat
    BY ProgramAssumption DEF Base, ProgInv, StackInv, Blocks, Stacks
  <2>2. ASSUME NEW i \in 1 .. Len(blocks)
        PROVE  /\ blocks[i].fn \in BOOLEAN
               /\ DOMAIN blocks[i].holds \subseteq Names
               /\ \A x \in DOMAIN blocks[i].holds : blocks[i].holds[x] \in 0 .. line
    <3>1. blocks[i] \in [fn : BOOLEAN, holds : Maps]
      BY Elements DEF Base, ProgInv, Blocks
    <3>2. ASSUME NEW x \in DOMAIN blocks[i].holds PROVE blocks[i].holds[x] \in 0 .. line
      BY <2>1 DEF Base, ProgInv, HeldInv
    <3> QED
      BY <3>1, <3>2, MapFacts
  <2>3. ProgramTypeOK
    BY <2>1, <2>2 DEF ProgramTypeOK, Base, ProgInv
  <2>4. ASSUME NEW s \in Stacks, Within(s, line), NEW i \in 1 .. Len(s)
        PROVE  DOMAIN s[i] \subseteq Names /\ Range(s[i]) \subseteq 1 .. line
    BY <2>4, Elements, MapFacts DEF Stacks, Within, Range
  <2>5. ScannerTypeOK(1 .. line, Names) /\ RuleTypeOK(1 .. line, Names, {Log, Made})
    BY <2>1, <2>4 DEF ScannerTypeOK, RuleTypeOK, Base, StackInv
  <2> QED
    BY <2>3, <2>5 DEF TypeOK
<1> QED
  BY <1>1, Invariance, PTL

-----------------------------------------------------------------------------
(* What the checks make of a chain.                                         *)

LEMMA MinExists ==
    ASSUME NEW n \in Nat, NEW T, T \subseteq 1 .. n, T # {}
    PROVE  Min(T) \in T /\ \A y \in T : Min(T) <= y
<1> DEFINE U == {n + 1 - y : y \in T}
<1>1. U \subseteq 1 .. n /\ U # {}
  <2>1. \A y \in T : n + 1 - y \in 1 .. n
    <3> TAKE y \in T
    <3>1. y \in 1 .. n
      OBVIOUS
    <3> QED
      BY <3>1
  <2> QED
    BY <2>1
<1>2. Max(U) \in U /\ \A u \in U : Max(U) >= u
  <2> HIDE DEF U
  <2> QED
    BY <1>1, MaxExists
<1>3. PICK m \in T : Max(U) = n + 1 - m
  BY <1>2
<1>4. \A y \in T : m <= y
  <2> TAKE y \in T
  <2>1. m \in Int /\ y \in Int /\ n + 1 - y \in U
    OBVIOUS
  <2>2. n + 1 - m >= n + 1 - y
    BY <1>2, <1>3, <2>1
  <2> QED
    BY <2>1, <2>2
<1> QED
  BY <1>4 DEF Min

\* The scanner takes an event for pending if the chain starts with the level
\* call; the rule, if it knows the logger, and it takes for an event only a
\* chain that builds one or sends by itself.
LEMMA ChainFacts ==
    ASSUME NEW c \in Chains
    PROVE  /\ Builds(c) /\ c.calls[1] # "field" =>
                 \A lang : Pends(c, lang) /\ ~BehindPipe(c, lang)
           /\ Builds(c) /\ c.root \in knownLoggers => Undelivered(c)
           /\ Undelivered(c) /\ "emit" \notin {c.calls[i] : i \in DOMAIN c.calls} => Builds(c)
<1> DEFINE s == c.calls
<1>1. /\ s \in Seq(CallKinds) /\ s # <<>>
      /\ \A i \in DOMAIN s : s[i] \in {"emit", "send"} => i = Len(s)
  BY ProgramAssumption DEF Chains
<1>2. Len(s) \in Nat /\ DOMAIN s = 1 .. Len(s) /\ 1 \in DOMAIN s /\ s[1] \in CallKinds
  BY <1>1
<1> HIDE DEF s
<1>3. ASSUME Builds(c)
      PROVE  \E i \in 1 .. Len(s) : s[i] = "level" /\ \A j \in 1 .. Len(s) : s[j] # "send"
  <2>1. PICK i \in DOMAIN s : s[i] = "level" /\ \A j \in DOMAIN s : j > i => s[j] # "send"
    BY <1>3 DEF Builds, s
  <2>2. ASSUME NEW j \in DOMAIN s, s[j] = "send" PROVE FALSE
    <3>1. j = Len(s) /\ i # j
      BY <1>1, <2>1, <2>2
    <3> QED
      BY <1>2, <2>1, <2>2, <3>1
  <2> QED
    BY <1>2, <2>1, <2>2
<1>4. ASSUME Builds(c), s[1] # "field", NEW lang
      PROVE  Pends(c, lang) /\ ~BehindPipe(c, lang)
  <2>1. PICK i \in 1 .. Len(s) : s[i] = "level" /\ \A j \in 1 .. Len(s) : s[j] # "send"
    BY <1>3, <1>4
  <2>2. s[1] = "level"
    <3>1. s[1] # "emit"
      BY <1>1, <1>2, <2>1
    <3> QED
      BY <1>2, <1>4, <2>1, <3>1 DEF CallKinds
  <2>3. s # <<"emit">>
    BY <2>2
  <2>4. "level" \in Range(s) /\ "send" \notin Range(s)
    BY <1>2, <2>1 DEF Range
  <2> QED
    BY <2>2, <2>3, <2>4 DEF Pends, Noticed, Delivered, BehindPipe, s
<1>5. ASSUME Builds(c), c.root \in knownLoggers PROVE Undelivered(c)
  BY <1>2, <1>3, <1>5 DEF Undelivered, s
<1>6. ASSUME Undelivered(c), "emit" \notin {s[i] : i \in DOMAIN s} PROVE Builds(c)
  <2> DEFINE levels == {i \in DOMAIN s : s[i] \in {"level", "emit"}}
  <2>1. levels # {} /\ \A j \in DOMAIN s : j > Min(levels) => s[j] # "send"
    BY <1>6 DEF Undelivered, s
  <2>2. levels \subseteq 1 .. Len(s)
    BY <1>2
  <2>3. Min(levels) \in levels
    <3> HIDE DEF levels
    <3> QED
      BY <1>2, <2>1, <2>2, MinExists
  <2>4. Min(levels) \in DOMAIN s /\ s[Min(levels)] = "level"
    BY <1>6, <2>3
  <2> HIDE DEF levels
  <2> QED
    BY <2>1, <2>4 DEF Builds, s
<1> QED
  BY <1>4, <1>5, <1>6 DEF s

-----------------------------------------------------------------------------
(* The kinds of steps, by what they do to events and to what is pending.    *)

\* The lines that an event may have been built on by now.
Fresh == Here \in Nat /\ Here # 0 /\ Here \notin 1 .. line

\* The next line is an event called x if the chain builds one.
Born(x, c) ==
    /\ Live' = Live \cup (IF Builds(c) THEN {Here} ELSE {})
    /\ sent' = sent \cup (IF Sends(c) THEN {Here} ELSE {})
    /\ \A e \in DOMAIN named : e \in DOMAIN named' /\ named'[e] = named[e]
    /\ Builds(c) => named'[Here] = x
    /\ traits \cup ChainTraits(c) \subseteq traits'

Setting(x, c) ==
    /\ Born(x, c)
    /\ \E h \in 1 .. Len(blocks) : Assigned(h, x, c)
    /\ ScanAssigned(x, c, Here, language, ahead') /\ RuleAssigned(x, c, Here)

Standing(c) ==
    /\ Born(None, c) /\ ScanStatement(c, Here, language) /\ RuleStatement(c, Here)
    /\ UNCHANGED blocks

Passing ==
    /\ Quietly
    /\ findings \subseteq findings' /\ findings' \subseteq findings \cup {Here}
    /\ findings' = findings \/ "late" \in traits'
    /\ UNCHANGED <<blocks, scopeStack, scopes, reports>>

Using(x, how) ==
    /\ Home(x) \in 1 .. Len(blocks) /\ Seen(Home(x), x)
    /\ Live' = Live \ {Value(x)}
    /\ sent' \subseteq sent \cup {Value(x)}
    /\ how \notin {"send", "sendOf", "chainSend"} => sent' = sent
    /\ how = "chainSend" => "chainSend" \in traits'
    /\ Value(x) \notin Live /\ LiveAs(x) # {} => "mistaken" \in traits'
    /\ scopeStack' = IF how \in {"send", "sendOf"} THEN ClearPending(scopeStack, x) ELSE scopeStack
    /\ Dropped(scopes, scopes', x)
    /\ traits \subseteq traits'
    /\ UNCHANGED <<findings, reports, blocks, named>>

Ending ==
    /\ Live' = Live /\ sent' = sent /\ traits' = traits /\ ended'
    /\ findings' = findings \cup UNION {Range(scopeStack[i]) : i \in 1 .. Len(scopeStack)}
    /\ Len(scopes) = 1 /\ reports' = reports \cup Range(scopes[1])

LEMMA FreshFacts ==
    ASSUME Base
    PROVE  /\ Fresh /\ Here \notin DOMAIN named /\ Here \notin sent \cup findings \cup reports
           /\ 0 \notin Live /\ 0 \notin findings \cup reports /\ Live \subseteq 1 .. line
           /\ \A i \in 1 .. Len(blocks) : \A y \in DOMAIN blocks[i].holds :
                 blocks[i].holds[y] # 0 => blocks[i].holds[y] \in 1 .. line
<1>1. line \in Nat /\ Here = line + 1
  BY ProgramAssumption DEF Here, Base, ProgInv
<1> QED
  BY <1>1 DEF Fresh, Live, Base, ProgInv, HeldInv, StackInv

LEMMA OpenStep == ASSUME Base, NEW fn \in BOOLEAN, Open(fn) PROVE Opened(fn) /\ Quietly /\ ~ended /\ ~ended'
<1>1. Opened(fn)
  BY OpenFacts
<1>2. UNCHANGED <<named, sent, handed, traits>> /\ ~ended /\ ~ended'
  BY DEF Open, EnterBlock, Statement, Write
<1> QED
  BY <1>1, <1>2 DEF Quietly, Live

LEMMA BornFacts ==
    ASSUME Base, NEW c \in Chains, NEW x \in Names \cup {None}, NewEvent(c, x),
           UNCHANGED handed, traits \cup ChainTraits(c) \subseteq traits'
    PROVE  Born(x, c)
<1>1. /\ DOMAIN named' = DOMAIN named \cup (IF Builds(c) THEN {Here} ELSE {})
      /\ Builds(c) => named'[Here] = x
      /\ \A e \in DOMAIN named : named'[e] = named[e]
      /\ Here \notin DOMAIN named
      /\ sent' = sent \cup (IF Sends(c) THEN {Here} ELSE {}) /\ Here \notin sent
  BY EventFacts
<1>2. handed \subseteq DOMAIN named /\ (Builds(c) => ~Sends(c))
  BY SendFacts DEF Base, ProgInv
<1>3. Live' = Live \cup (IF Builds(c) THEN {Here} ELSE {})
  BY <1>1, <1>2 DEF Live
<1> QED
  BY <1>1, <1>3 DEF Born

LEMMA UseStep ==
    ASSUME Base, NEW x \in Names, NEW how \in Uses, UseName(x, how) PROVE Using(x, how)
<1>1. /\ Home(x) \in 1 .. Len(blocks) /\ Seen(Home(x), x) /\ Dropped(scopes, scopes', x)
      /\ UNCHANGED <<findings, reports, blocks, named>>
  BY UseBase
<1>2. Use(x, how) /\ scopeStack' = IF how \in {"send", "sendOf"} THEN ClearPending(scopeStack, x)
                                   ELSE scopeStack
  BY DEF UseName, ScanUse, Cleared, ClearPending
<1>3. Live' = Live \ {Value(x)}
  <2>1. sent' \cup handed' = sent \cup handed \cup (IF Value(x) = 0 THEN {} ELSE {Value(x)})
    BY <1>2 DEF Use, Uses
  <2>2. DOMAIN named' = DOMAIN named /\ 0 \notin Live
    BY <1>1, FreshFacts
  <2> QED
    BY <2>1, <2>2 DEF Live
<1>4. /\ sent' \subseteq sent \cup {Value(x)}
      /\ how \notin {"send", "sendOf", "chainSend"} => sent' = sent
      /\ how = "chainSend" => "chainSend" \in traits'
      /\ Value(x) \notin Live /\ LiveAs(x) # {} => "mistaken" \in traits'
      /\ traits \subseteq traits'
  BY <1>2 DEF Use
<1> QED
  BY <1>1, <1>2, <1>3, <1>4 DEF Using

LEMMA EndStep == ASSUME Base, EndOfFile PROVE Ending /\ ~ended
<1>1. Len(blocks) = 1 /\ ~ended /\ 1 \in 1 .. 1 /\ 1 - 1 = 0
  BY DEF EndOfFile, End
<1>2. FnDepth(blocks, 1) = FnDepth(blocks, 1 - 1) + 1 /\ FnDepth(blocks, 0) = 0
  BY <1>1, Depths DEF Base, ProgInv
<1>3. Len(scopes) = 1 /\ DOMAIN scopeStack = 1 .. Len(scopeStack)
  BY <1>1, <1>2 DEF Base, StackInv, Stacks
<1> QED
  BY <1>1, <1>3 DEF Ending, EndOfFile, End, ScanEnd, RuleEnd, Last, Live

\* Each step is of one of these kinds.
LEMMA Steps ==
    ASSUME Base, Next
    PROVE  /\ Base' /\ ~ended /\ traits \subseteq traits'
           /\ \/ /\ ~ended'
                 /\ \/ \E fn \in BOOLEAN : Opened(fn) /\ Quietly
                    \/ Left /\ Quietly
                    \/ \E x \in Names, c \in Chains : Setting(x, c)
                    \/ \E c \in Chains : Standing(c)
                    \/ Passing
                    \/ \E x \in Names, how \in Uses : Using(x, how)
              \/ Ending
<1>0. Base'
  BY StepBase
<1>1. ASSUME NEW fn \in BOOLEAN, Open(fn)
      PROVE  Opened(fn) /\ Quietly /\ ~ended /\ ~ended' /\ traits \subseteq traits'
  BY <1>1, OpenStep DEF Quietly
<1>2. ASSUME Close \/ \E c \in Chains : TailChain(c)
      PROVE  Left /\ Quietly /\ ~ended /\ ~ended' /\ traits \subseteq traits'
  <2>1. Left /\ Quietly
    BY <1>2, CloseFacts, TailFacts
  <2>2. ~ended /\ ~ended'
    BY <1>2 DEF Close, TailChain, LeaveBlock, HandOff, Statement, Write
  <2> QED
    BY <2>1, <2>2 DEF Quietly
<1>3. ASSUME NEW x \in Names, NEW c \in Chains, LetChain(x, c) \/ AssignChain(x, c)
      PROVE  Setting(x, c) /\ ~ended /\ ~ended' /\ traits \subseteq traits'
  <2>1. /\ ~ended /\ NewEvent(c, x) /\ UNCHANGED handed
        /\ ScanAssigned(x, c, Here, language, ahead') /\ RuleAssigned(x, c, Here)
        /\ \E h \in 1 .. Len(blocks) : Assigned(h, x, c)
    BY <1>3, SetBase
  <2>2. traits \cup ChainTraits(c) \subseteq traits'
    BY <2>1 DEF Assigned
  <2>3. ~ended'
    BY <1>3 DEF LetChain, AssignChain, Declare, Assign, Statement, Write
  <2> QED
    BY <2>1, <2>2, <2>3, BornFacts DEF Setting
<1>4. ASSUME NEW c \in Chains, BareChain(c)
      PROVE  Standing(c) /\ ~ended /\ ~ended' /\ traits \subseteq traits'
  <2>1. /\ NewEvent(c, None) /\ UNCHANGED <<handed, blocks>> /\ ~ended /\ ~ended'
        /\ ScanStatement(c, Here, language) /\ RuleStatement(c, Here)
        /\ traits \cup ChainTraits(c) \subseteq traits'
    BY <1>4 DEF BareChain, Stand, Statement, Write
  <2> QED
    BY <2>1, BornFacts DEF Standing
<1>5. ASSUME NEW c \in Chains, GivenChain(c)
      PROVE  Passing /\ ~ended /\ ~ended' /\ traits \subseteq traits'
  <2>1. Quietly /\ (c.calls[1] = "field" => "late" \in traits')
    BY <1>5, HandFacts DEF GivenChain, HandOff, Base, ProgInv
  <2> QED
    BY <1>5, <2>1 DEF Quietly, Passing, GivenChain, HandOff, Statement, Write, ScanHandOff, Report,
       BehindPipe, scannerVars, RuleHandOff, ruleVars
<1>6. ASSUME ProduceLogger \/ Suppress
      PROVE  Passing /\ ~ended /\ ~ended' /\ traits \subseteq traits'
  <2>1. UNCHANGED <<named, sent, handed, traits, blocks, scopeStack, scopes, reports, findings>>
        /\ ~ended /\ ~ended'
    BY <1>6 DEF ProduceLogger, Suppress, Produce, Comment, Statement, Write, ScanOther, scannerVars,
       RuleProduces, RuleOther, ruleVars
  <2> QED
    BY <2>1 DEF Passing, Quietly, Live
<1>7. ASSUME NEW x \in Names, NEW how \in Uses, UseName(x, how)
      PROVE  Using(x, how) /\ ~ended /\ ~ended' /\ traits \subseteq traits'
  <2>1. ~ended /\ ~ended'
    BY <1>7 DEF UseName, Use, Statement, Write
  <2> QED
    BY <1>7, <2>1, UseStep DEF Using
<1>8. ASSUME EndOfFile PROVE Ending /\ ~ended /\ traits \subseteq traits'
  BY <1>8, EndStep DEF Ending
<1> QED
  BY <1>0, <1>1, <1>2, <1>3, <1>4, <1>5, <1>6, <1>7, <1>8 DEF Next

-----------------------------------------------------------------------------
(* The scanner, as long as no name is assigned from an inner block: what is *)
(* pending in a scope is a name of that block.                              *)

Follows ==
    Lacks({"outer"}) /\ ~ended =>
        \A i \in 1 .. Len(blocks) : DOMAIN scopeStack[i] \subseteq DOMAIN blocks[i].holds

LEMMA FollowsInit == Init => Follows
BY MapFacts DEF Init, ProgramInit, ScannerInit, Follows

LEMMA FollowsStep == Base /\ Follows /\ [Next]_vars => Follows'
<1> SUFFICES ASSUME Base, Follows, [Next]_vars, Lacks({"outer"})', ~ended',
                    NEW i \in 1 .. Len(blocks'), NEW y \in DOMAIN scopeStack'[i]
             PROVE  y \in DOMAIN blocks'[i].holds
  BY DEF Follows
<1>1. CASE UNCHANGED vars
  BY <1>1 DEF vars, programVars, scannerVars, Follows, Lacks
<1>2. CASE Next
  <2>1. Base' /\ ~ended /\ traits \subseteq traits' /\ Lacks({"outer"})
    BY <1>2, Steps DEF Lacks
  <2>2. Len(scopeStack) = Len(blocks) /\ Len(blocks) \in Nat /\ Len(blocks') \in Nat
        /\ Len(scopeStack') = Len(blocks')
    BY <2>1 DEF Base, ProgInv, StackInv, Blocks
  <2>3. \A j \in 1 .. Len(blocks) : DOMAIN scopeStack[j] \subseteq DOMAIN blocks[j].holds
    BY <2>1 DEF Follows
  <2>4. ASSUME NEW fn \in BOOLEAN, Opened(fn) PROVE y \in DOMAIN blocks'[i].holds
    BY <2>2, <2>3, <2>4 DEF Opened, Pushed
  <2>5. CASE Left
    BY <2>2, <2>3, <2>5 DEF Left, Popped
  <2>6. ASSUME NEW x \in Names, NEW c \in Chains, Setting(x, c)
        PROVE  y \in DOMAIN blocks'[i].holds
    <3>1. PICK h \in 1 .. Len(blocks) : Assigned(h, x, c)
      BY <2>6 DEF Setting
    <3>2. h = Len(blocks) /\ Bound(blocks, blocks', h, x, Event(c))
      BY <3>1 DEF Assigned, Lacks
    <3>3. Marked(scopeStack, scopeStack', x, Here) \/ scopeStack' = scopeStack
      BY <2>1, <2>6, SetScans DEF Setting, Report, scannerVars
    <3> QED
      BY <2>2, <2>3, <3>2, <3>3 DEF Marked, Bound
  <2>7. ASSUME Passing \/ \E c \in Chains : Standing(c) PROVE y \in DOMAIN blocks'[i].holds
    BY <2>3, <2>7 DEF Standing, ScanStatement, Report, scannerVars, Passing
  <2>8. ASSUME NEW x \in Names, NEW how \in Uses, Using(x, how)
        PROVE  y \in DOMAIN blocks'[i].holds
    <3>1. Dropped(scopeStack, scopeStack', x) \/ scopeStack' = scopeStack
      BY <2>8, Drops DEF Using, Base, StackInv
    <3>2. blocks' = blocks
      BY <2>8 DEF Using
    <3> QED
      BY <2>2, <2>3, <3>1, <3>2 DEF Dropped
  <2> QED
    BY <1>2, <2>4, <2>5, <2>6, <2>7, <2>8, Steps DEF Ending
<1> QED
  BY <1>1, <1>2

\* What the scanner reported or holds was not sent, and it holds for a name
\* nothing that another name has.
Unsent ==
    /\ findings \cap sent = {}
    /\ ~ended =>
        /\ \A i \in 1 .. Len(blocks) : \A x \in DOMAIN scopeStack[i] : scopeStack[i][x] \notin sent
        /\ \A i \in 1 .. Len(blocks) : \A x \in DOMAIN blocks[i].holds :
              blocks[i].holds[x] \notin findings
        /\ \A i, j \in 1 .. Len(blocks) :
              \A x \in DOMAIN scopeStack[i], y \in DOMAIN blocks[j].holds :
                  scopeStack[i][x] = blocks[j].holds[y] => i = j /\ x = y

\* What a check by name follows; in Gleam no level call sends by itself.
Followed ==
    Lacks({"outer", "chainSend", "late"}) /\ (language = "gleam" => Lacks({"emit"}))

ScanReal == Followed => Unsent

LEMMA LanguageStays == Next => language' = language
BY DEF Next, Open, Close, LetChain, AssignChain, BareChain, GivenChain, TailChain, UseName,
   ProduceLogger, Suppress, EndOfFile, EnterBlock, LeaveBlock, Declare, Assign, Stand, HandOff,
   Use, Produce, Comment, End, Statement, Write

LEMMA ScanRealInit == Init => ScanReal
BY MapFacts DEF Init, ProgramInit, ScannerInit, ScanReal, Unsent

LEMMA ScanRealStep == Base /\ Follows /\ ScanReal /\ [Next]_vars => ScanReal'
<1> SUFFICES ASSUME Base, Follows, ScanReal, [Next]_vars, Followed'
             PROVE  Unsent'
  BY DEF ScanReal
<1>1. CASE UNCHANGED vars
  BY <1>1 DEF vars, programVars, scannerVars, ScanReal, Followed, Unsent, Lacks
<1>2. CASE Next
  <2>1. Base' /\ ~ended /\ traits \subseteq traits' /\ Unsent
        /\ "outer" \notin traits' /\ "chainSend" \notin traits' /\ "late" \notin traits'
        /\ (language = "gleam" => "emit" \notin traits')
    BY <1>2, Steps, LanguageStays DEF Lacks, Followed, ScanReal
  <2>2. /\ Len(scopeStack) = Len(blocks) /\ Len(blocks) \in Nat
        /\ \A j \in 1 .. Len(blocks) : DOMAIN scopeStack[j] \subseteq DOMAIN blocks[j].holds
        /\ Within(scopeStack, line)
    BY <2>1 DEF Base, ProgInv, StackInv, Blocks, Follows, Lacks
  <2>3. /\ findings \cap sent = {}
        /\ \A i \in 1 .. Len(blocks) : \A x \in DOMAIN scopeStack[i] : scopeStack[i][x] \notin sent
        /\ \A i \in 1 .. Len(blocks) : \A x \in DOMAIN blocks[i].holds :
              blocks[i].holds[x] \notin findings
        /\ \A i, j \in 1 .. Len(blocks) :
              \A x \in DOMAIN scopeStack[i], y \in DOMAIN blocks[j].holds :
                  scopeStack[i][x] = blocks[j].holds[y] => i = j /\ x = y
    BY <2>1 DEF Unsent
  <2>3a. /\ Here \notin findings
         /\ \A i \in 1 .. Len(blocks) : \A y \in DOMAIN scopeStack[i] : scopeStack[i][y] # Here
    BY <2>2, FreshFacts DEF Fresh, Within
  <2>4. ASSUME NEW fn \in BOOLEAN, Opened(fn), Quietly PROVE Unsent'
    <3>1. findings' = findings /\ sent' \subseteq sent \cup {Here} /\ Len(blocks') = Len(blocks) + 1
      BY <2>4 DEF Opened, Quietly
    <3>2. ASSUME NEW i \in 1 .. Len(blocks')
          PROVE  \/ i \in 1 .. Len(blocks) /\ blocks'[i] = blocks[i] /\ scopeStack'[i] = scopeStack[i]
                 \/ DOMAIN blocks'[i].holds = {} /\ DOMAIN scopeStack'[i] = {}
      BY <2>2, <2>4, <3>1 DEF Opened, Pushed
    <3> QED
      BY <2>3, <2>3a, <3>1, <3>2 DEF Unsent
  <2>5. ASSUME Left, Quietly PROVE Unsent'
    <3>1. /\ findings' = findings \cup Range(scopeStack[Len(blocks)])
          /\ sent' \subseteq sent \cup {Here}
          /\ \A i \in 1 .. Len(blocks') : i \in 1 .. Len(blocks) /\ i # Len(blocks)
                /\ blocks'[i] = blocks[i] /\ scopeStack'[i] = scopeStack[i]
          /\ Len(blocks) \in 1 .. Len(blocks)
      BY <2>2, <2>5 DEF Left, Popped, Quietly
    <3> QED
      BY <2>3, <2>3a, <3>1 DEF Unsent, Range
  <2>6. ASSUME NEW x \in Names, NEW c \in Chains, Setting(x, c) PROVE Unsent'
    <3>1. PICK h \in 1 .. Len(blocks) : Assigned(h, x, c)
      BY <2>6 DEF Setting
    <3>2. h = Len(blocks) /\ Bound(blocks, blocks', h, x, Event(c)) /\ Event(c) \in {0, Here}
      BY <2>1, <3>1 DEF Assigned, Event
    <3>3. /\ \/ Marked(scopeStack, scopeStack', x, Here) /\ sent' = sent
             \/ scopeStack' = scopeStack /\ sent' \subseteq sent \cup {Here}
          /\ findings' = findings
      <4>1. /\ c.calls[1] # "field"
            /\ language = "gleam" => "emit" \notin {c.calls[i] : i \in DOMAIN c.calls}
        BY <2>1, <2>6 DEF Setting, Born, ChainTraits
      <4>2. ~BehindPipe(c, language) /\ (Sends(c) => ~Pends(c, language))
        BY <4>1, SendFacts DEF BehindPipe
      <4> QED
        BY <2>1, <2>6, <4>2, SetScans DEF Setting, Born, scannerVars
    <3>4. ASSUME NEW i \in 1 .. Len(blocks), NEW y \in DOMAIN scopeStack'[i]
          PROVE  \/ i = h /\ y = x /\ scopeStack'[i][y] = Here
                 \/ y \in DOMAIN scopeStack[i] /\ scopeStack'[i][y] = scopeStack[i][y]
      BY <2>2, <3>2, <3>3 DEF Marked
    <3>5. ASSUME NEW i \in 1 .. Len(blocks), NEW y \in DOMAIN blocks'[i].holds
          PROVE  \/ i = h /\ y = x /\ blocks'[i].holds[y] \in {0, Here}
                 \/ y \in DOMAIN blocks[i].holds /\ blocks'[i].holds[y] = blocks[i].holds[y]
      BY <3>2 DEF Bound
    <3>6. /\ Here # 0 /\ Here \notin 1 .. line /\ Here \notin sent \cup findings
          /\ 0 \notin findings /\ 0 \notin 1 .. line
          /\ \A i \in 1 .. Len(blocks) : \A y \in DOMAIN blocks[i].holds :
                blocks[i].holds[y] # 0 => blocks[i].holds[y] \in 1 .. line
          /\ \A i \in 1 .. Len(blocks) : \A y \in DOMAIN scopeStack[i] :
                scopeStack[i][y] \in 1 .. line
      BY <2>2, FreshFacts DEF Fresh, Within
    <3>7. Len(blocks') = Len(blocks)
      BY <3>2 DEF Bound
    <3>8. ASSUME NEW i \in 1 .. Len(blocks), NEW j \in 1 .. Len(blocks),
                 NEW y \in DOMAIN scopeStack'[i], NEW z \in DOMAIN blocks'[j].holds,
                 scopeStack'[i][y] = blocks'[j].holds[z]
          PROVE  i = j /\ y = z
      BY <2>3, <3>4, <3>5, <3>6, <3>8
    <3>9. \A i \in 1 .. Len(blocks) : \A y \in DOMAIN scopeStack'[i] : scopeStack'[i][y] \notin sent'
      <4>1. CASE sent' = sent
        BY <2>3, <3>4, <3>6, <4>1
      <4>2. CASE scopeStack' = scopeStack /\ sent' \subseteq sent \cup {Here}
        BY <2>3, <2>3a, <4>2
      <4> QED
        BY <3>3, <4>1, <4>2
    <3>10. \A i \in 1 .. Len(blocks) : \A y \in DOMAIN blocks'[i].holds :
              blocks'[i].holds[y] \notin findings
      BY <2>3, <3>5, <3>6
    <3> QED
      BY <2>3, <2>3a, <3>3, <3>7, <3>8, <3>9, <3>10 DEF Unsent
  <2>7. ASSUME Passing \/ \E c \in Chains : Standing(c) PROVE Unsent'
    <3>1. /\ UNCHANGED <<blocks, scopeStack>>
          /\ \/ findings' = findings /\ sent' \subseteq sent \cup {Here}
             \/ findings' = findings \cup {Here} /\ sent' = sent
      <4>1. CASE Passing
        BY <2>1, <4>1 DEF Passing, Quietly
      <4>2. ASSUME NEW c \in Chains, Standing(c)
            PROVE  /\ UNCHANGED <<blocks, scopeStack>>
                   /\ \/ findings' = findings /\ sent' \subseteq sent \cup {Here}
                      \/ findings' = findings \cup {Here} /\ sent' = sent
        <5>1. /\ c.calls[1] # "field"
              /\ language = "gleam" => "emit" \notin {c.calls[i] : i \in DOMAIN c.calls}
          BY <2>1, <4>2 DEF Standing, Born, ChainTraits
        <5>2. Sends(c) => ~Pends(c, language)
          BY <5>1, SendFacts
        <5> QED
          BY <4>2, <5>2 DEF Standing, Born, ScanStatement, Report, scannerVars
      <4> QED
        BY <2>7, <4>1, <4>2
    <3>2. /\ Here # 0 /\ Here \notin sent /\ Here \notin 1 .. line
          /\ \A i \in 1 .. Len(blocks) : \A y \in DOMAIN blocks[i].holds :
                blocks[i].holds[y] # 0 => blocks[i].holds[y] \in 1 .. line
      BY FreshFacts DEF Fresh
    <3> QED
      BY <2>3, <2>3a, <3>1, <3>2 DEF Unsent
  <2>8. ASSUME NEW x \in Names, NEW how \in Uses, Using(x, how) PROVE Unsent'
    <3>1. /\ UNCHANGED <<findings, blocks>> /\ sent' \subseteq sent \cup {Value(x)}
          /\ sent' # sent => how \in {"send", "sendOf"}
          /\ Home(x) \in 1 .. Len(blocks) /\ x \in DOMAIN blocks[Home(x)].holds
          /\ Value(x) = blocks[Home(x)].holds[x]
          /\ \A j \in Home(x) + 1 .. Len(blocks) : x \notin DOMAIN blocks[j].holds
      BY <2>1, <2>8 DEF Using, Seen
    <3>2. /\ Dropped(scopeStack, scopeStack', x) \/ scopeStack' = scopeStack
          /\ how \in {"send", "sendOf"} => Dropped(scopeStack, scopeStack', x)
      BY <2>8, Drops DEF Using, Base, StackInv
    <3>3. ASSUME NEW i \in 1 .. Len(blocks), NEW y \in DOMAIN scopeStack'[i]
          PROVE  y \in DOMAIN scopeStack[i] /\ scopeStack'[i][y] = scopeStack[i][y]
      BY <2>2, <3>2 DEF Dropped
    <3>4. ASSUME NEW i \in 1 .. Len(blocks), NEW y \in DOMAIN scopeStack'[i],
                 scopeStack'[i][y] \in sent'
          PROVE  FALSE
      <4>1. scopeStack[i][y] = Value(x) /\ how \in {"send", "sendOf"}
        BY <2>3, <3>1, <3>3, <3>4
      <4>2. i = Home(x) /\ y = x
        BY <2>3, <3>1, <3>3, <4>1
      <4>3. \A j \in Home(x) + 1 .. Len(blocks) : j \in 1 .. Len(blocks)
        BY <2>2, <3>1
      <4>4. \A j \in Home(x) + 1 .. Len(blocks) : x \notin DOMAIN scopeStack[j]
        BY <2>2, <3>1, <4>3
      <4> QED
        BY <2>2, <3>2, <4>1, <4>2, <4>4 DEF Dropped
    <3> QED
      BY <2>3, <3>1, <3>3, <3>4 DEF Unsent
  <2>9. CASE Ending
    BY <2>2, <2>3, <2>9 DEF Ending, Unsent, Range
  <2> QED
    BY <1>2, <2>4, <2>5, <2>6, <2>7, <2>8, <2>9, Steps
<1> QED
  BY <1>1, <1>2

\* What the scanner reports was never sent, by its own chain or by its name, in
\* a program that does not assign to a name from an inner block, sends names as
\* such and, in Gleam, makes no level call that sends by itself.
THEOREM AlarmsAreReal == Spec => []ScannerRaisesNoFalseAlarm
<1>1. Base /\ Follows /\ ScanReal /\ [Next]_vars => (Follows /\ ScanReal)'
  BY FollowsStep, ScanRealStep
<1>2. Init => Follows /\ ScanReal
  BY FollowsInit, ScanRealInit
<1>3. ScanReal => ScannerRaisesNoFalseAlarm
  BY DEF ScanReal, Followed, Unsent, ScannerRaisesNoFalseAlarm, Printed
<1> QED
  BY <1>1, <1>2, <1>3, Invariance, PTL DEF Spec

-----------------------------------------------------------------------------
(* The scanner, as long as no pending event is overwritten, either: it      *)
(* holds what the names of the program hold.                                *)

Holding ==
    /\ \A i \in 1 .. Len(blocks) : \A x \in DOMAIN scopeStack[i] :
          scopeStack[i][x] \in Live =>
              x \in DOMAIN blocks[i].holds /\ blocks[i].holds[x] = scopeStack[i][x]
    /\ \A i \in 1 .. Len(blocks) : \A x \in DOMAIN blocks[i].holds :
          blocks[i].holds[x] \in Live =>
              x \in DOMAIN scopeStack[i] /\ scopeStack[i][x] = blocks[i].holds[x]
    /\ \A e \in Live : e \in findings \/
          \E i \in 1 .. Len(blocks) : \E x \in DOMAIN scopeStack[i] : scopeStack[i][x] = e

ScanLost ==
    Lacks({"overwrite", "mistaken", "outer", "late"}) =>
        IF ended THEN Live \subseteq findings ELSE Holding

LEMMA ScanLostInit == Init => ScanLost
<1> SUFFICES ASSUME Init PROVE ~ended /\ Holding
  BY DEF ScanLost
<1>1. ~ended /\ Len(blocks) = 1 /\ DOMAIN blocks[1].holds = {} /\ DOMAIN scopeStack[1] = {}
      /\ Live = {}
  BY MapFacts DEF Init, ProgramInit, ScannerInit, Live
<1> QED
  BY <1>1 DEF Holding

\* Sending a name that holds a pending event drops just that one.
LEMMA CutFacts ==
    ASSUME NEW s \in Stacks, NEW x \in Names, NEW h \in 1 .. Len(s), x \in DOMAIN s[h],
           \A j \in h + 1 .. Len(s) : x \notin DOMAIN s[j]
    PROVE  /\ Len(ClearPending(s, x)) = Len(s)
           /\ \A i \in (1 .. Len(s)) \ {h} : ClearPending(s, x)[i] = s[i]
           /\ DOMAIN ClearPending(s, x)[h] = DOMAIN s[h] \ {x}
           /\ \A y \in DOMAIN s[h] \ {x} : ClearPending(s, x)[h][y] = s[h][y]
<1> DEFINE having == {i \in DOMAIN s : x \in DOMAIN s[i]}
<1>1. Len(s) \in Nat /\ having \subseteq 1 .. Len(s) /\ h \in having /\ DOMAIN s = 1 .. Len(s)
  BY DEF Stacks
<1>2. \A i \in having : i <= h
  <2>1. ASSUME NEW i \in having, ~(i <= h) PROVE FALSE
    <3>1. i \in h + 1 .. Len(s)
      BY <1>1, <2>1
    <3> QED
      BY <3>1
  <2> QED
    BY <2>1
<1>3. Max(having) \in having /\ \A i \in having : Max(having) >= i
  <2> HIDE DEF having
  <2> QED
    BY <1>1, MaxExists
<1>4. Max(having) = h
  <2>1. Max(having) \in 1 .. Len(s) /\ h \in 1 .. Len(s)
    BY <1>1, <1>3
  <2>2. Max(having) <= h /\ Max(having) >= h
    <3> HIDE DEF having
    <3> QED
      BY <1>1, <1>2, <1>3
  <2> HIDE DEF having
  <2> QED
    BY <2>1, <2>2
<1>5. ClearPending(s, x) = [s EXCEPT ![h] = Forget(@, x)]
  BY <1>1, <1>4 DEF ClearPending
<1> QED
  BY <1>1, <1>5 DEF Forget, Stacks

LEMMA ScanLostStep == Base /\ Follows /\ ScanLost /\ [Next]_vars => ScanLost'
<1> SUFFICES ASSUME Base, Follows, ScanLost, [Next]_vars,
                    Lacks({"overwrite", "mistaken", "outer", "late"})'
             PROVE  IF ended' THEN Live' \subseteq findings' ELSE Holding'
  BY DEF ScanLost
<1>1. CASE UNCHANGED vars
  <2>1. UNCHANGED <<blocks, named, sent, handed, traits, ended, scopeStack, findings>>
    BY <1>1 DEF vars, programVars, scannerVars
  <2> QED
    BY <2>1 DEF ScanLost, Holding, Lacks, Live
<1>2. CASE Next
  <2>1. Base' /\ ~ended /\ traits \subseteq traits' /\ Holding
        /\ "overwrite" \notin traits' /\ "mistaken" \notin traits' /\ "outer" \notin traits'
        /\ "late" \notin traits'
    BY <1>2, Steps DEF Lacks, ScanLost
  <2>2. /\ Len(scopeStack) = Len(blocks) /\ Len(blocks) \in Nat /\ Len(blocks) >= 1
        /\ \A j \in 1 .. Len(blocks) : DOMAIN scopeStack[j] \subseteq DOMAIN blocks[j].holds
        /\ Within(scopeStack, line)
    BY <2>1 DEF Base, ProgInv, StackInv, Blocks, Follows, Lacks
  <2>3. /\ \A i \in 1 .. Len(blocks) : \A x \in DOMAIN scopeStack[i] :
              scopeStack[i][x] \in Live =>
                  x \in DOMAIN blocks[i].holds /\ blocks[i].holds[x] = scopeStack[i][x]
        /\ \A i \in 1 .. Len(blocks) : \A x \in DOMAIN blocks[i].holds :
              blocks[i].holds[x] \in Live =>
                  x \in DOMAIN scopeStack[i] /\ scopeStack[i][x] = blocks[i].holds[x]
        /\ \A e \in Live : e \in findings \/
              \E i \in 1 .. Len(blocks) : \E x \in DOMAIN scopeStack[i] : scopeStack[i][x] = e
    BY <2>1 DEF Holding
  <2>4. ASSUME NEW fn \in BOOLEAN, Opened(fn), Quietly PROVE Holding'
    <3>1. /\ findings' = findings /\ Live' = Live /\ Len(blocks') = Len(blocks) + 1
          /\ \A i \in 1 .. Len(blocks) : i \in 1 .. Len(blocks') /\ scopeStack'[i] = scopeStack[i]
      BY <2>2, <2>4 DEF Opened, Quietly, Pushed
    <3>2. ASSUME NEW i \in 1 .. Len(blocks')
          PROVE  \/ i \in 1 .. Len(blocks) /\ blocks'[i] = blocks[i] /\ scopeStack'[i] = scopeStack[i]
                 \/ DOMAIN blocks'[i].holds = {} /\ DOMAIN scopeStack'[i] = {}
      BY <2>2, <2>4, <3>1 DEF Opened, Pushed
    <3> QED
      BY <2>3, <3>1, <3>2 DEF Holding
  <2>5. ASSUME Left, Quietly PROVE Holding'
    <3>1. /\ findings' = findings \cup Range(scopeStack[Len(blocks)]) /\ Live' = Live
          /\ \A i \in 1 .. Len(blocks') : i \in 1 .. Len(blocks)
                /\ blocks'[i] = blocks[i] /\ scopeStack'[i] = scopeStack[i]
          /\ \A i \in 1 .. Len(blocks) : i = Len(blocks) \/ i \in 1 .. Len(blocks')
      BY <2>2, <2>5 DEF Left, Popped, Quietly
    <3>2. ASSUME NEW e \in Live
          PROVE  e \in findings' \/ \E i \in 1 .. Len(blocks') :
                    \E x \in DOMAIN scopeStack'[i] : scopeStack'[i][x] = e
      <4>1. CASE e \in findings
        BY <3>1, <4>1
      <4>2. ASSUME NEW i \in 1 .. Len(blocks), NEW x \in DOMAIN scopeStack[i], scopeStack[i][x] = e
            PROVE  e \in findings' \/ (i \in 1 .. Len(blocks') /\ scopeStack'[i] = scopeStack[i])
        BY <3>1, <4>2 DEF Range
      <4> QED
        BY <2>3, <4>1, <4>2
    <3> QED
      BY <2>3, <3>1, <3>2 DEF Holding
  <2>6. ASSUME NEW x \in Names, NEW c \in Chains, Setting(x, c) PROVE Holding'
    <3>1. PICK h \in 1 .. Len(blocks) : Assigned(h, x, c)
      BY <2>6 DEF Setting
    <3>2. /\ h = Len(blocks) /\ Bound(blocks, blocks', h, x, Event(c))
          /\ x \in DOMAIN blocks[h].holds => blocks[h].holds[x] \notin Live
      BY <2>1, <3>1 DEF Assigned
    <3>3. /\ Marked(scopeStack, scopeStack', x, Here) \/ (scopeStack' = scopeStack /\ ~Builds(c))
          /\ findings' = findings
      <4>1. c.calls[1] # "field"
        BY <2>1, <2>6 DEF Setting, Born, ChainTraits
      <4>2. ~BehindPipe(c, language) /\ (Builds(c) => Pends(c, language))
        BY <4>1, ChainFacts DEF BehindPipe
      <4> QED
        BY <2>1, <2>6, <4>2, SetScans DEF Setting, scannerVars
    <3>4. /\ Live' = Live \cup (IF Builds(c) THEN {Here} ELSE {})
          /\ Event(c) = IF Builds(c) THEN Here ELSE 0
      BY <2>6 DEF Setting, Born, Event
    <3>5. /\ Here # 0 /\ Here \notin Live /\ 0 \notin Live
          /\ \A i \in 1 .. Len(blocks) : \A y \in DOMAIN blocks[i].holds : blocks[i].holds[y] # Here
          /\ \A i \in 1 .. Len(blocks) : \A y \in DOMAIN scopeStack[i] : scopeStack[i][y] # Here
      BY <2>2, FreshFacts DEF Fresh, Within, Live
    <3>6. x \in DOMAIN scopeStack[h] => scopeStack[h][x] \notin Live
      BY <2>3, <3>2
    <3>7. /\ Len(blocks') = Len(blocks) /\ x \in DOMAIN blocks'[h].holds
          /\ blocks'[h].holds[x] = Event(c)
      BY <3>2 DEF Bound
    <3>8. ASSUME NEW i \in 1 .. Len(blocks), NEW y, ~(i = h /\ y = x)
          PROVE  /\ y \in DOMAIN blocks'[i].holds <=> y \in DOMAIN blocks[i].holds
                 /\ y \in DOMAIN blocks[i].holds => blocks'[i].holds[y] = blocks[i].holds[y]
                 /\ y \in DOMAIN scopeStack'[i] <=> y \in DOMAIN scopeStack[i]
                 /\ y \in DOMAIN scopeStack[i] => scopeStack'[i][y] = scopeStack[i][y]
      BY <2>2, <3>2, <3>3, <3>8 DEF Marked, Bound
    <3>9. \/ x \in DOMAIN scopeStack'[h] /\ scopeStack'[h][x] = Here
          \/ scopeStack'[h] = scopeStack[h] /\ ~Builds(c)
      BY <2>2, <3>2, <3>3 DEF Marked
    <3>10. ASSUME NEW i \in 1 .. Len(blocks), NEW y \in DOMAIN scopeStack'[i],
                  scopeStack'[i][y] \in Live'
           PROVE  y \in DOMAIN blocks'[i].holds /\ blocks'[i].holds[y] = scopeStack'[i][y]
      <4>1. CASE i = h /\ y = x
        BY <3>4, <3>5, <3>6, <3>7, <3>9, <3>10, <4>1
      <4>2. CASE ~(i = h /\ y = x)
        BY <2>3, <3>4, <3>5, <3>8, <3>10, <4>2
      <4> QED
        BY <4>1, <4>2
    <3>11. ASSUME NEW i \in 1 .. Len(blocks), NEW y \in DOMAIN blocks'[i].holds,
                  blocks'[i].holds[y] \in Live'
           PROVE  y \in DOMAIN scopeStack'[i] /\ scopeStack'[i][y] = blocks'[i].holds[y]
      <4>1. CASE i = h /\ y = x
        BY <3>4, <3>5, <3>7, <3>9, <3>11, <4>1
      <4>2. CASE ~(i = h /\ y = x)
        BY <2>3, <3>4, <3>5, <3>8, <3>11, <4>2
      <4> QED
        BY <4>1, <4>2
    <3>12. ASSUME NEW e \in Live'
           PROVE  e \in findings' \/ \E i \in 1 .. Len(blocks) :
                     \E y \in DOMAIN scopeStack'[i] : scopeStack'[i][y] = e
      <4>1. CASE e = Here
        BY <3>4, <3>5, <3>9, <4>1
      <4>2. CASE e \in Live
        <5>1. ASSUME NEW i \in 1 .. Len(blocks), NEW y \in DOMAIN scopeStack[i], scopeStack[i][y] = e
              PROVE  y \in DOMAIN scopeStack'[i] /\ scopeStack'[i][y] = e
          BY <3>6, <3>8, <4>2, <5>1
        <5> QED
          BY <2>3, <3>3, <4>2, <5>1
      <4> QED
        BY <3>4, <4>1, <4>2
    <3> QED
      BY <3>7, <3>10, <3>11, <3>12 DEF Holding
  <2>7. ASSUME Passing \/ \E c \in Chains : Standing(c) PROVE Holding'
    <3>1. /\ UNCHANGED <<blocks, scopeStack>> /\ findings \subseteq findings'
          /\ Live' = Live \/ (Live' = Live \cup {Here} /\ Here \in findings')
      <4>1. ASSUME NEW c \in Chains, Standing(c)
            PROVE  /\ UNCHANGED <<blocks, scopeStack>> /\ findings \subseteq findings'
                   /\ Live' = Live \/ (Live' = Live \cup {Here} /\ Here \in findings')
        <5>1. c.calls[1] # "field"
          BY <2>1, <4>1 DEF Standing, Born, ChainTraits
        <5>2. Builds(c) => Pends(c, language)
          BY <5>1, ChainFacts
        <5> QED
          BY <4>1, <5>2 DEF Standing, Born, ScanStatement, Report, scannerVars
      <4> QED
        BY <2>7, <4>1 DEF Passing, Quietly
    <3>2. /\ Here \notin Live
          /\ \A i \in 1 .. Len(blocks) : \A y \in DOMAIN blocks[i].holds : blocks[i].holds[y] # Here
          /\ \A i \in 1 .. Len(blocks) : \A y \in DOMAIN scopeStack[i] : scopeStack[i][y] # Here
      BY <2>2, FreshFacts DEF Fresh, Within, Live
    <3> QED
      BY <2>3, <3>1, <3>2 DEF Holding
  <2>8. ASSUME NEW x \in Names, NEW how \in Uses, Using(x, how) PROVE Holding'
    <3>1. /\ UNCHANGED <<findings, blocks>> /\ Live' = Live \ {Value(x)}
          /\ Value(x) \in Live \/ LiveAs(x) = {}
          /\ Home(x) \in 1 .. Len(blocks) /\ x \in DOMAIN blocks[Home(x)].holds
          /\ Value(x) = blocks[Home(x)].holds[x]
          /\ \A j \in Home(x) + 1 .. Len(blocks) : x \notin DOMAIN blocks[j].holds
      BY <2>1, <2>8 DEF Using, Seen
    <3>2. CASE scopeStack' = scopeStack
      BY <2>3, <3>1, <3>2 DEF Holding
    <3>3. CASE Value(x) \in Live /\ scopeStack' = ClearPending(scopeStack, x)
      <4>1. x \in DOMAIN scopeStack[Home(x)] /\ scopeStack[Home(x)][x] = Value(x)
        BY <2>3, <3>1, <3>3
      <4>2. \A j \in Home(x) + 1 .. Len(blocks) : j \in 1 .. Len(blocks)
        BY <2>2, <3>1
      <4>3. /\ \A i \in (1 .. Len(blocks)) \ {Home(x)} : scopeStack'[i] = scopeStack[i]
            /\ DOMAIN scopeStack'[Home(x)] = DOMAIN scopeStack[Home(x)] \ {x}
            /\ \A y \in DOMAIN scopeStack[Home(x)] \ {x} :
                  scopeStack'[Home(x)][y] = scopeStack[Home(x)][y]
        <5>1. \A j \in Home(x) + 1 .. Len(blocks) : x \notin DOMAIN scopeStack[j]
          BY <2>2, <3>1, <4>2
        <5>2. scopeStack \in Stacks
          BY DEF Base, StackInv
        <5> QED
          BY <2>2, <3>1, <3>3, <4>1, <5>1, <5>2, CutFacts
      <4>4. ASSUME NEW i \in 1 .. Len(blocks), NEW y, ~(i = Home(x) /\ y = x)
            PROVE  /\ y \in DOMAIN scopeStack'[i] <=> y \in DOMAIN scopeStack[i]
                   /\ y \in DOMAIN scopeStack[i] => scopeStack'[i][y] = scopeStack[i][y]
        BY <4>3, <4>4
      <4>5. x \notin DOMAIN scopeStack'[Home(x)]
        BY <4>3
      <4>6. ASSUME NEW i \in 1 .. Len(blocks), NEW y \in DOMAIN scopeStack'[i],
                   scopeStack'[i][y] \in Live'
            PROVE  y \in DOMAIN blocks'[i].holds /\ blocks'[i].holds[y] = scopeStack'[i][y]
        BY <2>3, <3>1, <4>4, <4>5, <4>6
      <4>7. ASSUME NEW i \in 1 .. Len(blocks), NEW y \in DOMAIN blocks'[i].holds,
                   blocks'[i].holds[y] \in Live'
            PROVE  y \in DOMAIN scopeStack'[i] /\ scopeStack'[i][y] = blocks'[i].holds[y]
        BY <2>3, <3>1, <4>4, <4>7
      <4>8. ASSUME NEW e \in Live'
            PROVE  e \in findings' \/ \E i \in 1 .. Len(blocks) :
                      \E y \in DOMAIN scopeStack'[i] : scopeStack'[i][y] = e
        <5>1. ASSUME NEW i \in 1 .. Len(blocks), NEW y \in DOMAIN scopeStack[i], scopeStack[i][y] = e
              PROVE  y \in DOMAIN scopeStack'[i] /\ scopeStack'[i][y] = e
          BY <3>1, <4>1, <4>4, <4>8, <5>1
        <5> QED
          BY <2>3, <3>1, <4>8, <5>1
      <4> QED
        BY <3>1, <4>6, <4>7, <4>8 DEF Holding
    <3>4. CASE LiveAs(x) = {} /\ scopeStack' = ClearPending(scopeStack, x)
      <4>1. Dropped(scopeStack, scopeStack', x)
        BY <3>4, Drops DEF Base, StackInv
      <4>2. ASSUME NEW i \in 1 .. Len(blocks), NEW y \in DOMAIN scopeStack'[i]
            PROVE  y \in DOMAIN scopeStack[i] /\ scopeStack'[i][y] = scopeStack[i][y]
        BY <2>2, <4>1 DEF Dropped
      <4>3. ASSUME NEW i \in 1 .. Len(blocks), NEW y \in DOMAIN scopeStack[i], y # x
            PROVE  y \in DOMAIN scopeStack'[i]
        BY <2>2, <4>1, <4>3 DEF Dropped
      <4>4. ASSUME NEW i \in 1 .. Len(blocks), NEW y \in DOMAIN blocks[i].holds,
                   blocks[i].holds[y] \in Live
            PROVE  y # x
        <5>1. named[blocks[i].holds[y]] = y
          BY <4>4, FreshFacts DEF Base, HeldInv
        <5> QED
          BY <3>4, <4>4, <5>1 DEF LiveAs
      <4>5. ASSUME NEW i \in 1 .. Len(blocks), NEW y \in DOMAIN scopeStack[i],
                   scopeStack[i][y] \in Live
            PROVE  y \in DOMAIN scopeStack'[i] /\ scopeStack'[i][y] = scopeStack[i][y]
        BY <2>3, <4>2, <4>3, <4>4, <4>5
      <4> QED
        BY <2>3, <3>1, <4>2, <4>5 DEF Holding
    <3> QED
      BY <2>8, <3>1, <3>2, <3>3, <3>4 DEF Using
  <2>9. CASE Ending
    BY <2>2, <2>3, <2>9 DEF Ending, Range
  <2> QED
    BY <1>2, <2>4, <2>5, <2>6, <2>7, <2>8, <2>9, Steps DEF Ending
<1> QED
  BY <1>1, <1>2

\* An event that nobody sent is reported, in every program that does not
\* overwrite it or reach it in a way that the scanner cannot follow.
THEOREM LostEventsAreReported == Spec => []ScannerReportsLostEvents
<1>1. Base /\ Follows /\ ScanLost /\ [Next]_vars => (Follows /\ ScanLost)'
  BY FollowsStep, ScanLostStep
<1>2. Init => Follows /\ ScanLost
  BY FollowsInit, ScanLostInit
<1>3. Base /\ ScanLost => ScannerReportsLostEvents
  BY DEF Base, ProgInv, ScanLost, ScannerReportsLostEvents, Lost, Live, Printed, Disabled
<1> QED
  BY <1>1, <1>2, <1>3, Invariance, PTL DEF Spec

-----------------------------------------------------------------------------
(* The rule, as long as a name is given no second event while the first is  *)
(* live and every logger is known: it holds every live event by its name.   *)

Tracking ==
    /\ \A e, f \in Live : named[e] = named[f] /\ named[e] # None => e = f
    /\ \A e \in Live : e \in reports \/
          \E k \in 1 .. Len(scopes) :
              named[e] \in DOMAIN scopes[k] /\ scopes[k][named[e]] = e

RuleLost ==
    Lacks({"reuse", "mistaken", "early"}) =>
        IF ended THEN Live \subseteq reports ELSE Tracking

LEMMA RuleLostInit == Init => RuleLost
BY MapFacts DEF Init, ProgramInit, RuleInit, Live, Tracking, RuleLost

LEMMA RuleLostStep == Base /\ RuleLost /\ [Next]_vars => RuleLost'
<1> SUFFICES ASSUME Base, RuleLost, [Next]_vars, Lacks({"reuse", "mistaken", "early"})'
             PROVE  IF ended' THEN Live' \subseteq reports' ELSE Tracking'
  BY DEF RuleLost
<1>1. CASE UNCHANGED vars
  <2>1. UNCHANGED <<named, sent, handed, traits, ended, scopes, reports>>
    BY <1>1 DEF vars, programVars, ruleVars
  <2> QED
    BY <2>1 DEF RuleLost, Tracking, Lacks, Live
<1>2. CASE Next
  <2>1. /\ Base' /\ ~ended /\ traits \subseteq traits'
        /\ "reuse" \notin traits' /\ "mistaken" \notin traits' /\ "early" \notin traits'
    BY <1>2, Steps DEF Lacks
  <2>2. Len(scopes) \in Nat /\ produced \subseteq knownLoggers
    BY DEF Base, StackInv, Stacks
  <2>3. /\ \A e, f \in Live : named[e] = named[f] /\ named[e] # None => e = f
        /\ \A e \in Live : e \in reports \/
              \E k \in 1 .. Len(scopes) :
                  named[e] \in DOMAIN scopes[k] /\ scopes[k][named[e]] = e
    BY <2>1 DEF RuleLost, Lacks, Tracking
  <2>4. /\ Live \subseteq DOMAIN named /\ Here \notin Live /\ Here \notin DOMAIN named
        /\ \A x \in Names : x # None
    BY FreshFacts, ProgramAssumption DEF Live
  \* An event stays tracked in a step that keeps its name and its entry.
  <2>5. ASSUME Live' \subseteq Live, \A e \in DOMAIN named : named'[e] = named[e],
               \A e \in Live' : \A k \in 1 .. Len(scopes) :
                   named[e] \in DOMAIN scopes[k] /\ scopes[k][named[e]] = e =>
                       \/ e \in reports'
                       \/ /\ k \in 1 .. Len(scopes')
                          /\ named[e] \in DOMAIN scopes'[k] /\ scopes'[k][named[e]] = e,
               reports \subseteq reports'
        PROVE  Tracking'
    BY <2>3, <2>4, <2>5 DEF Tracking
  <2>6. ASSUME NEW fn \in BOOLEAN, Opened(fn), Quietly PROVE Tracking'
    <3>1. /\ reports' = reports /\ Live' = Live /\ \A e \in DOMAIN named : named'[e] = named[e]
          /\ \A k \in 1 .. Len(scopes) : k \in 1 .. Len(scopes') /\ scopes'[k] = scopes[k]
      BY <2>2, <2>6 DEF Opened, Quietly, Pushed
    <3> QED
      BY <2>5, <3>1
  <2>7. ASSUME Left, Quietly PROVE Tracking'
    <3>1. Live' = Live /\ \A e \in DOMAIN named : named'[e] = named[e]
      BY <2>7 DEF Quietly
    <3>2. /\ reports \subseteq reports'
          /\ \A k \in 1 .. Len(scopes) :
                \/ Range(scopes[k]) \subseteq reports'
                \/ k \in 1 .. Len(scopes') /\ scopes'[k] = scopes[k]
      <4>1. CASE blocks[Len(blocks)].fn
        BY <2>2, <2>7, <4>1 DEF Left, Popped
      <4>2. CASE ~blocks[Len(blocks)].fn
        BY <2>7, <4>2 DEF Left
      <4> QED
        BY <4>1, <4>2
    <3> QED
      BY <2>5, <3>1, <3>2 DEF Range
  <2>8. ASSUME NEW x \in Names, NEW c \in Chains, Setting(x, c) PROVE Tracking'
    <3>1. LiveAs(x) = {} /\ reports' = reports
      BY <2>1, <2>8, SetScans DEF Setting, Assigned
    <3>2. Marked(scopes, scopes', x, Here) \/ (scopes' = scopes /\ ~Builds(c))
      <4>1. c.root \in knownLoggers
        BY <2>1, <2>2, <2>8 DEF Setting, Born, ChainTraits
      <4> QED
        BY <2>1, <2>8, <4>1, SetScans, ChainFacts DEF Setting
    <3>3. /\ Live' = Live \cup (IF Builds(c) THEN {Here} ELSE {})
          /\ \A e \in DOMAIN named : named'[e] = named[e]
          /\ Builds(c) => named'[Here] = x
      BY <2>8 DEF Setting, Born
    <3>4. \A e \in Live : named[e] # x
      BY <3>1 DEF LiveAs
    <3>5. /\ Len(scopes') = Len(scopes)
          /\ \A k \in 1 .. Len(scopes) : \A y \in DOMAIN scopes[k] \ {x} :
                y \in DOMAIN scopes'[k] /\ scopes'[k][y] = scopes[k][y]
          /\ Builds(c) => \E k \in 1 .. Len(scopes') :
                x \in DOMAIN scopes'[k] /\ scopes'[k][x] = Here
      <4>1. Len(scopes) \in 1 .. Len(scopes)
        BY <2>1, <2>2, <2>8, SetScans DEF Setting
      <4> QED
        BY <2>2, <3>2, <4>1 DEF Marked
    <3>6. ASSUME NEW e \in Live', NEW f \in Live', named'[e] = named'[f], named'[e] # None
          PROVE  e = f
      BY <2>3, <2>4, <3>3, <3>4, <3>6
    <3>7. ASSUME NEW e \in Live'
          PROVE  e \in reports' \/ \E k \in 1 .. Len(scopes') :
                    named'[e] \in DOMAIN scopes'[k] /\ scopes'[k][named'[e]] = e
      <4>1. CASE e = Here
        BY <2>4, <3>3, <3>5, <3>7, <4>1
      <4>2. CASE e \in Live
        BY <2>3, <2>4, <3>1, <3>3, <3>4, <3>5, <4>2
      <4> QED
        BY <3>3, <3>7, <4>1, <4>2
    <3> QED
      BY <3>6, <3>7 DEF Tracking
  <2>9. ASSUME NEW c \in Chains, Standing(c) PROVE Tracking'
    <3>1. /\ scopes' = scopes /\ reports \subseteq reports'
          /\ Live' = Live \cup (IF Builds(c) THEN {Here} ELSE {})
          /\ \A e \in DOMAIN named : named'[e] = named[e]
          /\ Builds(c) => named'[Here] = None /\ Here \in reports'
      <4>1. c.root \in knownLoggers
        BY <2>1, <2>2, <2>9 DEF Standing, Born, ChainTraits
      <4> QED
        BY <2>9, <4>1, ChainFacts DEF Standing, Born, RuleStatement
    <3>2. ASSUME NEW e \in Live', NEW f \in Live', named'[e] = named'[f], named'[e] # None
          PROVE  e = f
      BY <2>3, <2>4, <3>1, <3>2
    <3>3. ASSUME NEW e \in Live'
          PROVE  e \in reports' \/ \E k \in 1 .. Len(scopes') :
                    named'[e] \in DOMAIN scopes'[k] /\ scopes'[k][named'[e]] = e
      <4>1. CASE e \in Live
        BY <2>3, <2>4, <3>1, <4>1
      <4> QED
        BY <3>1, <3>3, <4>1
    <3> QED
      BY <3>2, <3>3 DEF Tracking
  <2>10. ASSUME Passing PROVE Tracking'
    <3>1. /\ Live' = Live /\ \A e \in DOMAIN named : named'[e] = named[e]
          /\ scopes' = scopes /\ reports' = reports
      BY <2>10 DEF Passing, Quietly
    <3> QED
      BY <2>5, <3>1
  <2>11. ASSUME NEW x \in Names, NEW how \in Uses, Using(x, how) PROVE Tracking'
    <3>1. /\ UNCHANGED <<reports, named>> /\ Live' = Live \ {Value(x)}
          /\ Value(x) \in Live \/ LiveAs(x) = {}
          /\ Home(x) \in 1 .. Len(blocks) /\ x \in DOMAIN blocks[Home(x)].holds
          /\ Value(x) = blocks[Home(x)].holds[x]
          /\ Dropped(scopes, scopes', x)
      BY <2>1, <2>11 DEF Using, Seen
    <3>2. Value(x) \in Live => named[Value(x)] = x
      BY <3>1, FreshFacts DEF Base, HeldInv
    <3>3. \A e \in Live' : named[e] # x
      BY <2>3, <2>4, <3>1, <3>2 DEF LiveAs
    <3>4. /\ Len(scopes') = Len(scopes)
          /\ \A k \in 1 .. Len(scopes) : \A y \in DOMAIN scopes[k] \ {x} :
                y \in DOMAIN scopes'[k] /\ scopes'[k][y] = scopes[k][y]
      BY <3>1 DEF Dropped
    <3> QED
      BY <2>5, <3>1, <3>3, <3>4
  <2>12. ASSUME Ending PROVE Live' \subseteq reports'
    <3>1. Live' = Live /\ Len(scopes) = 1 /\ reports' = reports \cup Range(scopes[1])
      BY <2>12 DEF Ending
    <3> QED
      BY <2>3, <3>1 DEF Range
  <2> QED
    BY <1>2, <2>6, <2>7, <2>8, <2>9, <2>10, <2>11, <2>12, Steps DEF Ending
<1> QED
  BY <1>1, <1>2

\* Every event that was neither sent nor handed on is reported, across
\* functions and blocks, if its name stood for one live event at a time.
THEOREM LostEventsAreNoticed == Spec => []RuleReportsLostEvents
<1>1. Base /\ RuleLost /\ [Next]_vars => RuleLost'
  BY RuleLostStep
<1>2. RuleLost => RuleReportsLostEvents
  BY DEF RuleLost, RuleReportsLostEvents, Lost
<1> QED
  BY <1>1, <1>2, RuleLostInit, Invariance, PTL DEF Spec

-----------------------------------------------------------------------------
(* The rule, as long as no function assigns to a name of an outer one and   *)
(* no call sends by itself: what it reported or holds is live, it holds one *)
(* event per name, and holds it in the function that declares the name.     *)

Earned ==
    /\ reports \subseteq Live
    /\ ~ended =>
        /\ \A i \in 1 .. Len(blocks) : \A x \in DOMAIN blocks[i].holds :
              blocks[i].holds[x] \notin reports
        /\ \A k \in 1 .. Len(scopes) : \A x \in DOMAIN scopes[k] :
              scopes[k][x] \in Live /\ named[scopes[k][x]] = x
        /\ \A k, m \in 1 .. Len(scopes) : \A x \in DOMAIN scopes[k] :
              x \in DOMAIN scopes[m] => k = m
        /\ \A k \in 1 .. Len(scopes), i \in 1 .. Len(blocks) : \A x \in DOMAIN scopes[k] :
              x \in DOMAIN blocks[i].holds /\ scopes[k][x] = blocks[i].holds[x] =>
                  FnDepth(blocks, i) = k

RuleReal == Lacks({"reuse", "captured", "emit"}) => Earned

LEMMA RuleRealInit == Init => RuleReal
BY MapFacts DEF Init, ProgramInit, RuleInit, RuleReal, Earned

LEMMA RuleRealStep == Base /\ RuleReal /\ [Next]_vars => RuleReal'
<1> SUFFICES ASSUME Base, RuleReal, [Next]_vars, Lacks({"reuse", "captured", "emit"})'
             PROVE  Earned'
  BY DEF RuleReal
<1>1. CASE UNCHANGED vars
  <2>1. UNCHANGED <<blocks, named, sent, handed, traits, ended, scopes, reports>>
    BY <1>1 DEF vars, programVars, ruleVars
  <2> QED
    BY <2>1 DEF RuleReal, Earned, Lacks, Live
<1>2. CASE Next
  <2>1. /\ Base' /\ ~ended /\ traits \subseteq traits'
        /\ "reuse" \notin traits' /\ "captured" \notin traits' /\ "emit" \notin traits'
    BY <1>2, Steps DEF Lacks
  <2>2. /\ Len(scopes) \in Nat /\ Len(blocks) \in Nat /\ Len(blocks) >= 1
        /\ blocks \in Blocks /\ blocks' \in Blocks /\ Within(scopes, line)
        /\ Len(scopes) = FnDepth(blocks, Len(blocks))
    BY <2>1 DEF Base, ProgInv, StackInv, Stacks, Blocks
  <2>3. /\ reports \subseteq Live
        /\ \A i \in 1 .. Len(blocks) : \A x \in DOMAIN blocks[i].holds :
              blocks[i].holds[x] \notin reports
        /\ \A k \in 1 .. Len(scopes) : \A x \in DOMAIN scopes[k] :
              scopes[k][x] \in Live /\ named[scopes[k][x]] = x
        /\ \A k, m \in 1 .. Len(scopes) : \A x \in DOMAIN scopes[k] :
              x \in DOMAIN scopes[m] => k = m
        /\ \A k \in 1 .. Len(scopes), i \in 1 .. Len(blocks) : \A x \in DOMAIN scopes[k] :
              x \in DOMAIN blocks[i].holds /\ scopes[k][x] = blocks[i].holds[x] =>
                  FnDepth(blocks, i) = k
    BY <2>1 DEF RuleReal, Lacks, Earned
  <2>4. /\ Live \subseteq DOMAIN named /\ Here \notin Live /\ Here \notin DOMAIN named
        /\ Here # 0 /\ 0 \notin Live /\ Here \notin 1 .. line
        /\ \A i \in 1 .. Len(blocks) : \A x \in DOMAIN blocks[i].holds :
              blocks[i].holds[x] # Here
    BY FreshFacts DEF Live, Fresh
  <2>5. ASSUME NEW fn \in BOOLEAN, Opened(fn), Quietly PROVE Earned'
    <3>1. /\ reports' = reports /\ Live' = Live
          /\ \A e \in DOMAIN named : named'[e] = named[e]
          /\ Len(blocks') = Len(blocks) + 1
      BY <2>5 DEF Opened, Quietly
    <3>2. ASSUME NEW i \in 1 .. Len(blocks'), NEW y \in DOMAIN blocks'[i].holds
          PROVE  i \in 1 .. Len(blocks) /\ blocks'[i] = blocks[i]
      BY <2>2, <2>5, <3>1 DEF Opened
    <3>3. ASSUME NEW k \in 1 .. Len(scopes'), NEW y \in DOMAIN scopes'[k]
          PROVE  k \in 1 .. Len(scopes) /\ scopes'[k] = scopes[k]
      BY <2>2, <2>5 DEF Opened, Pushed
    <3>4. \A i \in 1 .. Len(blocks) : FnDepth(blocks', i) = FnDepth(blocks, i)
      <4>1. \A i \in 1 .. Len(blocks) : blocks[i].fn = blocks'[i].fn
        BY <2>5 DEF Opened
      <4>2. \A i \in 0 .. Len(blocks) : FnDepth(blocks, i) = FnDepth(blocks', i)
        BY <2>2, <4>1, SameDepths
      <4> QED
        BY <2>2, <4>2
    <3> QED
      BY <2>3, <2>4, <3>1, <3>2, <3>3, <3>4 DEF Earned
  <2>6. ASSUME Left, Quietly PROVE Earned'
    <3>1. /\ Live' = Live /\ \A e \in DOMAIN named : named'[e] = named[e]
          /\ Len(blocks') = Len(blocks) - 1
          /\ \A i \in 1 .. Len(blocks') : i \in 1 .. Len(blocks) /\ blocks'[i] = blocks[i]
      BY <2>2, <2>6 DEF Left, Quietly
    <3>2. \A i \in 1 .. Len(blocks') : FnDepth(blocks', i) = FnDepth(blocks, i)
      <4>1. /\ \A i \in 1 .. Len(blocks') : blocks[i].fn = blocks'[i].fn
            /\ Len(blocks') \in Nat
        BY <2>2, <3>1 DEF Blocks
      <4>2. \A i \in 0 .. Len(blocks') : FnDepth(blocks, i) = FnDepth(blocks', i)
        BY <4>1, SameDepths
      <4> QED
        BY <4>1, <4>2
    <3>3. \A k \in 1 .. Len(scopes') : k \in 1 .. Len(scopes) /\ scopes'[k] = scopes[k]
      BY <2>2, <2>6 DEF Left, Popped
    <3>4. ASSUME NEW e \in reports' \ reports
          PROVE  /\ e \in Live
                 /\ \A i \in 1 .. Len(blocks') : \A y \in DOMAIN blocks[i].holds :
                       blocks[i].holds[y] # e
      <4>1. /\ blocks[Len(blocks)].fn /\ Len(scopes) \in 1 .. Len(scopes)
            /\ e \in Range(scopes[Len(scopes)])
        BY <2>2, <2>6 DEF Left
      <4>2. PICK x \in DOMAIN scopes[Len(scopes)] : scopes[Len(scopes)][x] = e
        BY <4>1 DEF Range
      <4>3. e \in Live /\ named[e] = x
        BY <2>3, <4>1, <4>2
      <4>4. ASSUME NEW i \in 1 .. Len(blocks'), NEW y \in DOMAIN blocks[i].holds,
                   blocks[i].holds[y] = e
            PROVE  FALSE
        <5>1. i \in 1 .. Len(blocks) /\ i \in 0 .. Len(blocks) /\ i <= Len(blocks) - 1
              /\ Len(blocks) - 1 \in 0 .. Len(blocks) /\ Len(blocks) \in 1 .. Len(blocks)
          BY <2>2, <3>1
        <5>2. y = x
          BY <2>4, <4>3, <4>4, <5>1 DEF Base, HeldInv
        <5>3. FnDepth(blocks, i) = FnDepth(blocks, Len(blocks))
          BY <2>2, <2>3, <4>1, <4>2, <4>4, <5>1, <5>2
        <5>4. /\ FnDepth(blocks, Len(blocks)) = FnDepth(blocks, Len(blocks) - 1) + 1
              /\ FnDepth(blocks, Len(blocks) - 1) \in Nat
              /\ FnDepth(blocks, i) \in Nat
              /\ FnDepth(blocks, i) <= FnDepth(blocks, Len(blocks) - 1)
          BY <2>2, <4>1, <5>1, Depths
        <5> QED
          BY <5>3, <5>4
      <4> QED
        BY <4>3, <4>4
    <3>5. reports' \subseteq Live'
      BY <2>3, <3>1, <3>4
    <3>6. \A i \in 1 .. Len(blocks') : \A x \in DOMAIN blocks'[i].holds :
             blocks'[i].holds[x] \notin reports'
      BY <2>3, <3>1, <3>4
    <3>7. \A k \in 1 .. Len(scopes') : \A x \in DOMAIN scopes'[k] :
             scopes'[k][x] \in Live' /\ named'[scopes'[k][x]] = x
      BY <2>3, <2>4, <3>1, <3>3
    <3> QED
      BY <2>3, <3>1, <3>2, <3>3, <3>5, <3>6, <3>7 DEF Earned
  <2>7. ASSUME NEW x \in Names, NEW c \in Chains, Setting(x, c) PROVE Earned'
    <3>1. PICK h \in 1 .. Len(blocks) : Assigned(h, x, c)
      BY <2>7 DEF Setting
    <3>2. /\ LiveAs(x) = {} /\ reports' = reports /\ Bound(blocks, blocks', h, x, Event(c))
          /\ \A i \in h + 1 .. Len(blocks) : ~blocks[i].fn
          /\ Event(c) \in {0, Here}
      BY <2>1, <2>7, <3>1, SetScans DEF Setting, Assigned, Event
    <3>3. (Marked(scopes, scopes', x, Here) /\ Builds(c)) \/ scopes' = scopes
      <4>1. "emit" \notin {c.calls[i] : i \in DOMAIN c.calls}
        BY <2>1, <2>7 DEF Setting, Born, ChainTraits
      <4> QED
        BY <2>1, <2>7, <4>1, SetScans, ChainFacts DEF Setting
    <3>4. /\ Live \subseteq Live' /\ (Builds(c) => Here \in Live' /\ named'[Here] = x)
          /\ \A e \in DOMAIN named : named'[e] = named[e]
      BY <2>7 DEF Setting, Born
    <3>5. \A k \in 1 .. Len(scopes) : x \notin DOMAIN scopes[k]
      BY <2>3, <3>2 DEF LiveAs
    <3>6. FnDepth(blocks, h) = Len(scopes)
      <4>1. h \in 0 .. Len(blocks) /\ Len(blocks) \in 0 .. Len(blocks) /\ h <= Len(blocks)
        BY <2>2
      <4> QED
        BY <2>2, <3>2, <4>1, Depths
    <3>7. Len(blocks') = Len(blocks) /\ \A i \in 1 .. Len(blocks) : FnDepth(blocks', i) = FnDepth(blocks, i)
      <4>1. Len(blocks') = Len(blocks) /\ \A i \in 1 .. Len(blocks) : blocks[i].fn = blocks'[i].fn
        BY <3>2 DEF Bound
      <4>2. \A i \in 0 .. Len(blocks) : FnDepth(blocks, i) = FnDepth(blocks', i)
        BY <2>2, <4>1, SameDepths
      <4> QED
        BY <2>2, <4>1, <4>2
    <3>8. ASSUME NEW i \in 1 .. Len(blocks), NEW y \in DOMAIN blocks'[i].holds
          PROVE  \/ i = h /\ y = x /\ blocks'[i].holds[y] \in {0, Here}
                 \/ y \in DOMAIN blocks[i].holds /\ blocks'[i].holds[y] = blocks[i].holds[y]
      BY <3>2 DEF Bound
    <3>9. Len(scopes') = Len(scopes)
      BY <3>3 DEF Marked
    <3>10. ASSUME NEW k \in 1 .. Len(scopes), NEW y \in DOMAIN scopes'[k]
           PROVE  \/ k = Len(scopes) /\ y = x /\ scopes'[k][y] = Here /\ Builds(c)
                  \/ y \in DOMAIN scopes[k] /\ y # x /\ scopes'[k][y] = scopes[k][y]
      BY <2>2, <3>3, <3>5 DEF Marked
    <3>11. \A i \in 1 .. Len(blocks) : \A y \in DOMAIN blocks'[i].holds :
              blocks'[i].holds[y] \notin reports
      BY <2>3, <2>4, <3>8
    <3>12. \A k \in 1 .. Len(scopes) : \A y \in DOMAIN scopes'[k] :
              scopes'[k][y] \in Live' /\ named'[scopes'[k][y]] = y
      BY <2>3, <2>4, <3>4, <3>10
    <3>13. ASSUME NEW k \in 1 .. Len(scopes), NEW m \in 1 .. Len(scopes),
                  NEW y \in DOMAIN scopes'[k], y \in DOMAIN scopes'[m]
           PROVE  k = m
      BY <2>3, <3>10, <3>13
    <3>14. ASSUME NEW k \in 1 .. Len(scopes), NEW i \in 1 .. Len(blocks),
                  NEW y \in DOMAIN scopes'[k],
                  y \in DOMAIN blocks'[i].holds, scopes'[k][y] = blocks'[i].holds[y]
           PROVE  FnDepth(blocks', i) = k
      <4>1. CASE y = x
        BY <2>4, <3>6, <3>7, <3>8, <3>10, <3>14, <4>1
      <4>2. CASE y # x
        BY <2>3, <3>7, <3>8, <3>10, <3>14, <4>2
      <4> QED
        BY <4>1, <4>2
    <3> QED
      BY <2>3, <3>2, <3>4, <3>7, <3>9, <3>11, <3>12, <3>13, <3>14 DEF Earned
  <2>8. ASSUME NEW c \in Chains, Standing(c) PROVE Earned'
    <3>1. "emit" \notin {c.calls[i] : i \in DOMAIN c.calls}
      BY <2>1, <2>8 DEF Standing, Born, ChainTraits
    <3>2. /\ blocks' = blocks /\ scopes' = scopes /\ Live \subseteq Live'
          /\ \A e \in DOMAIN named : named'[e] = named[e]
          /\ reports' = reports \/ (reports' = reports \cup {Here} /\ Here \in Live')
      BY <2>8, <3>1, ChainFacts DEF Standing, Born, RuleStatement
    <3> QED
      BY <2>3, <2>4, <3>2 DEF Earned
  <2>9. ASSUME Passing PROVE Earned'
    <3>1. /\ blocks' = blocks /\ scopes' = scopes /\ Live' = Live /\ reports' = reports
          /\ \A e \in DOMAIN named : named'[e] = named[e]
      BY <2>9 DEF Passing, Quietly
    <3> QED
      BY <2>3, <2>4, <3>1 DEF Earned
  <2>10. ASSUME NEW x \in Names, NEW how \in Uses, Using(x, how) PROVE Earned'
    <3>1. /\ UNCHANGED <<reports, named, blocks>> /\ Live' = Live \ {Value(x)}
          /\ Home(x) \in 1 .. Len(blocks) /\ x \in DOMAIN blocks[Home(x)].holds
          /\ Value(x) = blocks[Home(x)].holds[x]
          /\ Dropped(scopes, scopes', x)
      BY <2>10 DEF Using, Seen
    <3>2. reports' \subseteq Live'
      BY <2>3, <3>1
    <3>3. Len(scopes') = Len(scopes)
      BY <3>1 DEF Dropped
    <3>4. ASSUME NEW k \in 1 .. Len(scopes), NEW y \in DOMAIN scopes'[k]
          PROVE  y \in DOMAIN scopes[k] /\ scopes'[k][y] = scopes[k][y] /\ y # x
      <4>1. y \in DOMAIN scopes[k] /\ scopes'[k][y] = scopes[k][y]
        BY <3>1 DEF Dropped
      <4>2. ASSUME y = x PROVE FALSE
        <5>1. ASSUME NEW j \in k + 1 .. Len(scopes) PROVE x \notin DOMAIN scopes[j]
          <6>1. j \in 1 .. Len(scopes) /\ j # k
            BY <2>2
          <6> QED
            BY <2>3, <4>1, <4>2, <6>1
        <5> QED
          BY <3>1, <4>2, <5>1 DEF Dropped
      <4> QED
        BY <4>1, <4>2
    <3>5. ASSUME NEW k \in 1 .. Len(scopes), NEW y \in DOMAIN scopes'[k]
          PROVE  scopes'[k][y] \in Live' /\ named'[scopes'[k][y]] = y
      <4>1. scopes[k][y] \in Live /\ named[scopes[k][y]] = y /\ y # x
        BY <2>3, <3>4
      <4>2. Value(x) # 0 => named[Value(x)] = x
        BY <3>1 DEF Base, HeldInv
      <4> QED
        BY <2>4, <3>1, <3>4, <4>1, <4>2
    <3> QED
      BY <2>3, <3>1, <3>2, <3>3, <3>4, <3>5 DEF Earned
  <2>11. ASSUME Ending PROVE Earned'
    <3>1. Live' = Live /\ Len(scopes) = 1 /\ reports' = reports \cup Range(scopes[1]) /\ ended'
      BY <2>11 DEF Ending
    <3>2. Range(scopes[1]) \subseteq Live
      BY <2>3, <3>1 DEF Range
    <3> QED
      BY <2>3, <3>1, <3>2 DEF Earned
  <2> QED
    BY <1>2, <2>5, <2>6, <2>7, <2>8, <2>9, <2>10, <2>11, Steps
<1> QED
  BY <1>1, <1>2

\* What the rule reports was neither sent nor handed on by anyone.
THEOREM ReportsAreEarned == Spec => []RuleRaisesNoFalseAlarm
<1>1. Base /\ RuleReal /\ [Next]_vars => RuleReal'
  BY RuleRealStep
<1>2. RuleReal => RuleRaisesNoFalseAlarm
  BY DEF RuleReal, Earned, RuleRaisesNoFalseAlarm, Lost
<1> QED
  BY <1>1, <1>2, RuleRealInit, Invariance, PTL DEF Spec
=============================================================================
