-------------------------- MODULE Application_proofs ------------------------
(***************************************************************************)
(* Theorems about Application, for every tree of components without a      *)
(* cycle, any number of calls of createApplication, any routes, guards and *)
(* rights.  First what the plans of the calls are made of (FlattenSeq and  *)
(* the walk of the tree), then where the calls are, then what has been     *)
(* initialised and subscribed, and last the request.                       *)
(***************************************************************************)
EXTENDS Application, FiniteSetTheorems, WellFoundedInduction, SequenceTheorems, TLAPS

(* A set of natural numbers has a least one.                                *)
LEMMA LeastNat ==
    ASSUME NEW T, T \subseteq Nat, T # {}
    PROVE  \E n \in T : \A m \in T : n <= m
  <1>1. PICK n \in T : \A m \in T : ~ (<<m, n>> \in OpToRel(<, Nat))
    BY WFMin, NatLessThanWellFounded
  <1>2. ASSUME NEW m \in T PROVE n <= m
    <2>1. m \in Nat /\ n \in Nat /\ ~ (<<m, n>> \in OpToRel(<, Nat))
      BY <1>1
    <2>2. m < n => <<m, n>> \in OpToRel(<, Nat)
      BY <2>1 DEF OpToRel
    <2>3. ~ (m < n)
      BY <2>1, <2>2, Zenon
    <2>4. m \in Nat /\ n \in Nat
      BY <2>1
    <2> QED BY <2>3, <2>4
  <1> QED BY <1>2

(* What FlattenSeq has put together after each sequence.                    *)
IsStages(f, ss, n) ==
    f = [i \in 1..n |-> IF i = 1 THEN ss[i] ELSE f[i-1] \o ss[i]]

LEMMA StagesExist ==
    ASSUME NEW ss, NEW n \in Nat, n > 0 PROVE \E f : IsStages(f, ss, n)
  <1> DEFINE Bad == {k \in Nat : k > 0 /\ ~ \E f : IsStages(f, ss, k)}
  <1> SUFFICES ASSUME Bad # {} PROVE FALSE
    OBVIOUS
  <1>1. PICK k \in Bad : \A m \in Bad : k <= m
    BY LeastNat
  <1>2. CASE k = 1
    <2>1. IsStages([i \in 1..1 |-> ss[1]], ss, 1)
      BY DEF IsStages
    <2> QED BY <1>2, <2>1
  <1>3. CASE k # 1
    <2>1. k - 1 \in Nat /\ k - 1 > 0 /\ k - 1 \notin Bad
      BY <1>1, <1>3
    <2>2. PICK f : IsStages(f, ss, k - 1)
      BY <2>1
    <2> DEFINE g == [i \in 1..k |-> IF i = k THEN f[k-1] \o ss[k] ELSE f[i]]
    <2>3. ASSUME NEW i \in 1..k
          PROVE  g[i] = IF i = 1 THEN ss[i] ELSE g[i-1] \o ss[i]
      <3>1. CASE i = k
        <4>1. i - 1 \in 1..k /\ i - 1 # k /\ i # 1
          BY <1>3, <2>1, <3>1
        <4> QED BY <3>1, <4>1
      <3>2. CASE i # k
        <4>1. i \in 1..(k - 1)
          BY <3>2, <2>1
        <4>2. f[i] = IF i = 1 THEN ss[i] ELSE f[i-1] \o ss[i]
          BY <2>2, <4>1 DEF IsStages
        <4>3. i # 1 => i - 1 \in 1..k /\ i - 1 # k
          BY <4>1
        <4> QED BY <3>2, <4>2, <4>3
      <3> QED BY <3>1, <3>2
    <2>4. IsStages(g, ss, k)
      BY <2>3 DEF IsStages
    <2> QED BY <2>4
  <1> QED BY <1>2, <1>3

LEMMA FlattenStages ==
    ASSUME NEW ss, Len(ss) # 0, NEW n \in Nat, n > 0, n = Len(ss)
    PROVE  \E f : IsStages(f, ss, n) /\ FlattenSeq(ss) = f[n]
  <1> DEFINE h == CHOOSE f : f = [i \in 1..Len(ss) |-> IF i = 1 THEN ss[i] ELSE f[i-1] \o ss[i]]
  <1>1. \E f : f = [i \in 1..Len(ss) |-> IF i = 1 THEN ss[i] ELSE f[i-1] \o ss[i]]
    BY StagesExist DEF IsStages
  <1>2. IsStages(h, ss, n)
    BY <1>1 DEF IsStages
  <1>3. FlattenSeq(ss) = h[n]
    BY DEF FlattenSeq
  <1> QED BY <1>2, <1>3

(* What is in either of two sequences is in the one they make.              *)
Holds(s, x) == \E k \in 1..Len(s) : s[k] = x

LEMMA Joined ==
    ASSUME NEW S, NEW s \in Seq(S), NEW t \in Seq(S)
    PROVE  /\ s \o t \in Seq(S)
           /\ Len(s) \in Nat /\ Len(t) \in Nat /\ Len(s \o t) = Len(s) + Len(t)
           /\ \A k \in 1..Len(s) : (s \o t)[k] = s[k]
           /\ \A k \in 1..Len(t) : (s \o t)[Len(s) + k] = t[k]
           /\ \A x : Holds(s, x) \/ Holds(t, x) => Holds(s \o t, x)
  <1>1. Len(s) \in Nat /\ Len(t) \in Nat
    BY LenProperties
  <1>2. /\ s \o t \in Seq(S) /\ Len(s \o t) = Len(s) + Len(t)
        /\ \A i \in 1 .. Len(s) + Len(t) :
             (s \o t)[i] = IF i <= Len(s) THEN s[i] ELSE t[i - Len(s)]
    BY ConcatProperties
  <1>3. \A k \in 1..Len(s) : k \in 1..Len(s \o t) /\ (s \o t)[k] = s[k]
    BY <1>1, <1>2
  <1>4. ASSUME NEW k \in 1..Len(t)
        PROVE  Len(s) + k \in 1..Len(s \o t) /\ (s \o t)[Len(s) + k] = t[k]
    <2>1. /\ Len(s) + k \in 1 .. Len(s) + Len(t) /\ ~(Len(s) + k <= Len(s))
          /\ Len(s) + k - Len(s) = k
      BY <1>1
    <2> QED BY <1>2, <2>1
  <1>5. ASSUME NEW x, Holds(s, x) \/ Holds(t, x) PROVE Holds(s \o t, x)
    BY <1>3, <1>4, <1>5 DEF Holds
  <1> QED BY <1>1, <1>2, <1>3, <1>4, <1>5

(* FlattenSeq keeps the type and every element of what it puts together.    *)
LEMMA Flattened ==
    ASSUME NEW S, NEW ss \in Seq(Seq(S))
    PROVE  /\ FlattenSeq(ss) \in Seq(S)
           /\ \A i \in 1..Len(ss) : \A x : Holds(ss[i], x) => Holds(FlattenSeq(ss), x)
  <1> DEFINE n == Len(ss)
  <1>n. n \in Nat
    BY LenProperties
  <1>1. CASE n = 0
    <2>1. ss = << >>
      BY <1>1, EmptySeq
    <2>2. FlattenSeq(ss) = << >>
      BY <1>1, <2>1 DEF FlattenSeq
    <2>3. << >> \in Seq(S)
      BY EmptySeq
    <2> QED BY <1>1, <2>2, <2>3
  <1>2. CASE n # 0
    <2>1. PICK f : IsStages(f, ss, n) /\ FlattenSeq(ss) = f[n]
      BY <1>n, <1>2, FlattenStages
    <2> DEFINE Good(m) == /\ f[m] \in Seq(S)
                          /\ \A i \in 1..m : \A x : Holds(ss[i], x) => Holds(f[m], x)
               Bad == {m \in Nat : m > 0 /\ m <= n /\ ~Good(m)}
    <2>2. ASSUME NEW m \in Nat, m > 0, m <= n, m # 1 => Good(m - 1)
          PROVE  Good(m)
      <3>1. m \in 1..n /\ ss[m] \in Seq(S)
        BY <1>n, <2>2
      <3>2. f[m] = IF m = 1 THEN ss[m] ELSE f[m-1] \o ss[m]
        BY <2>1, <3>1 DEF IsStages
      <3>3. CASE m = 1
        BY <3>1, <3>2, <3>3
      <3>4. CASE m # 1
        <4>1. f[m] = f[m-1] \o ss[m] /\ f[m-1] \in Seq(S)
          BY <2>2, <3>2, <3>4
        <4>2. f[m] \in Seq(S) /\ \A x : Holds(f[m-1], x) \/ Holds(ss[m], x) => Holds(f[m], x)
          BY <3>1, <4>1, Joined
        <4>3. ASSUME NEW i \in 1..m, NEW x, Holds(ss[i], x) PROVE Holds(f[m], x)
          <5>1. i = m \/ i \in 1..(m - 1)
            BY <2>2
          <5>2. i \in 1..(m - 1) => Holds(f[m-1], x)
            BY <2>2, <3>4, <4>3
          <5> QED BY <4>2, <4>3, <5>1, <5>2
        <4> QED BY <4>2, <4>3
      <3> QED BY <3>3, <3>4
    <2> HIDE DEF Good, n
    <2>3. Bad = {}
      <3> SUFFICES ASSUME Bad # {} PROVE FALSE
        OBVIOUS
      <3>1. PICK m \in Bad : \A l \in Bad : m <= l
        BY LeastNat
      <3>2. m \in Nat /\ m > 0 /\ m <= n /\ ~Good(m)
        BY <3>1
      <3>3. ASSUME m # 1 PROVE Good(m - 1)
        <4>1. m - 1 \in Nat /\ m - 1 > 0 /\ m - 1 <= n /\ ~(m <= m - 1)
          BY <1>n, <3>2, <3>3
        <4> QED BY <3>1, <4>1
      <3> QED BY <2>2, <3>2, <3>3
    <2>4. Good(n)
      BY <1>n, <1>2, <2>3
    <2> QED BY <1>n, <1>2, <2>1, <2>4 DEF Good, n
  <1> QED BY <1>1, <1>2
-----------------------------------------------------------------------------
(* What a plan is made of.                                                  *)
Names == {"-"} \cup UNION {Range(Handlers[t]) : t \in Token \cup Component}
Steps == [op : {"store", "transport", "init", "listen", "boot"},
          who : Token \cup Component, of : Component, on : Names]

LEMMA FlattenedLists ==
    ASSUME NEW S, NEW n \in Nat, NEW g \in [1..n -> Seq(S)]
    PROVE  /\ FlattenSeq(g) \in Seq(S)
           /\ \A i \in 1..n : \A x : Holds(g[i], x) => Holds(FlattenSeq(g), x)
  <1>1. g \in Seq(Seq(S)) /\ Len(g) = n
    OBVIOUS
  <1> QED BY <1>1, Flattened

LEMMA DoStep ==
    ASSUME NEW op \in {"store", "transport", "init", "listen", "boot"},
           NEW who \in Token \cup Component, NEW c \in Component
    PROVE  /\ Do(op, who, c) \in Steps /\ Do(op, who, c).op = op
           /\ <<Do(op, who, c)>> \in Seq(Steps)
  BY DEF Do, Steps, Names

LEMMA ListenStepsType ==
    ASSUME NEW t \in Token \cup Component, NEW c \in Component
    PROVE  ListenSteps(t, c) \in Seq(Steps)
  <1>1. Handlers[t] \in Seq(Range(Handlers[t]))
    BY TreeAssumption
  <1>2. Len(Handlers[t]) \in Nat /\ DOMAIN Handlers[t] = 1..Len(Handlers[t])
    BY <1>1, LenProperties
  <1>3. ASSUME NEW i \in 1..Len(Handlers[t])
        PROVE  [Do("listen", t, c) EXCEPT !.on = Handlers[t][i]] \in Steps
    <2>1. Handlers[t][i] \in Names
      BY <1>2 DEF Names, Range
    <2> QED BY <2>1 DEF Do, Steps
  <1> QED BY <1>2, <1>3 DEF ListenSteps

LEMMA ImportStepsType ==
    ASSUME NEW c \in Component PROVE ImportSteps(c) \in Seq(Steps)
  <1> DEFINE s == Imports[c]
             g == [i \in DOMAIN s |-> ListenSteps(s[i], c) \o <<Do("init", s[i], c)>>]
  <1>1. s \in Seq(Token)
    BY TreeAssumption
  <1>2. Len(s) \in Nat /\ DOMAIN s = 1..Len(s)
    BY <1>1, LenProperties
  <1>3. ASSUME NEW i \in 1..Len(s)
        PROVE  ListenSteps(s[i], c) \o <<Do("init", s[i], c)>> \in Seq(Steps)
    <2>1. s[i] \in Token
      BY <1>1, ElementOfSeq
    <2> QED BY <2>1, ListenStepsType, DoStep, Joined
  <1>4. g \in [1..Len(s) -> Seq(Steps)]
    BY <1>2, <1>3
  <1>5. FlattenSeq(g) \in Seq(Steps)
    BY <1>2, <1>4, FlattenedLists
  <1> QED BY <1>5 DEF ImportSteps, Each

LEMMA BootstrapStepsType ==
    ASSUME NEW c \in Component PROVE BootstrapSteps(c) \in Seq(Steps)
  <1> DEFINE s == Bootstraps[c]
             g == [i \in DOMAIN s |-> ListenSteps(s[i], c) \o <<Do("boot", s[i], c)>>]
  <1>1. s \in Seq(Token)
    BY TreeAssumption
  <1>2. Len(s) \in Nat /\ DOMAIN s = 1..Len(s)
    BY <1>1, LenProperties
  <1>3. ASSUME NEW i \in 1..Len(s)
        PROVE  ListenSteps(s[i], c) \o <<Do("boot", s[i], c)>> \in Seq(Steps)
    <2>1. s[i] \in Token
      BY <1>1, ElementOfSeq
    <2> QED BY <2>1, ListenStepsType, DoStep, Joined
  <1>4. g \in [1..Len(s) -> Seq(Steps)]
    BY <1>2, <1>3
  <1>5. FlattenSeq(g) \in Seq(Steps)
    BY <1>2, <1>4, FlattenedLists
  <1> QED BY <1>5 DEF BootstrapSteps, Each
-----------------------------------------------------------------------------
(* What prepareModule does with c if f says what it does with those below.  *)
Visit(f, c) ==
    ImportSteps(c) \o ListenSteps(c, c)
        \o FlattenSeq([i \in DOMAIN Modules[c] |-> f[Modules[c][i]]])
        \o FlattenSeq([i \in DOMAIN Controllers[c] |-> f[Controllers[c][i]]])

(* The walk of a part of the tree that nothing leads out of.                *)
Walks(D, f) == /\ \A c \in D : Below(c) \subseteq D
               /\ f = [c \in D |-> Visit(f, c)]

LEMMA VisitSame ==
    ASSUME NEW c \in Component, NEW f, NEW g, \A d \in Below(c) : f[d] = g[d]
    PROVE  Visit(f, c) = Visit(g, c)
  <1>1. \A i \in DOMAIN Modules[c] : f[Modules[c][i]] = g[Modules[c][i]]
    BY DEF Below, Range
  <1>2. \A i \in DOMAIN Controllers[c] : f[Controllers[c][i]] = g[Controllers[c][i]]
    BY DEF Below, Range
  <1>3. [i \in DOMAIN Modules[c] |-> f[Modules[c][i]]] = [i \in DOMAIN Modules[c] |-> g[Modules[c][i]]]
    BY <1>1
  <1>4. [i \in DOMAIN Controllers[c] |-> f[Controllers[c][i]]]
          = [i \in DOMAIN Controllers[c] |-> g[Controllers[c][i]]]
    BY <1>2
  <1> QED BY <1>3, <1>4 DEF Visit

(* A walk goes on to a component whose children it has visited.             *)
LEMMA WalkOn ==
    ASSUME NEW D \in SUBSET Component, NEW f, Walks(D, f),
           NEW c \in Component \ D, Below(c) \subseteq D
    PROVE  \E g : Walks(D \cup {c}, g)
  <1> DEFINE g == [d \in D \cup {c} |-> IF d = c THEN Visit(f, c) ELSE f[d]]
  <1>1. \A d \in D : g[d] = f[d]
    OBVIOUS
  <1>2. ASSUME NEW d \in D \cup {c} PROVE g[d] = Visit(g, d)
    <2>1. Below(d) \subseteq D /\ d \in Component
      BY DEF Walks
    <2>2. Visit(f, d) = Visit(g, d)
      BY <1>1, <2>1, VisitSame
    <2>3. d # c => f[d] = Visit(f, d)
      BY DEF Walks
    <2> QED BY <2>2, <2>3
  <1>3. g = [d \in D \cup {c} |-> Visit(g, d)]
    BY <1>2
  <1> QED BY <1>3 DEF Walks

LEMMA WalkExists == \E f : Walks(Component, f)
  <1> DEFINE Left == {n \in Nat : \E D \in SUBSET Component :
                                    /\ Cardinality(Component \ D) = n
                                    /\ \E f : Walks(D, f)}
  <1>1. \A D \in SUBSET Component :
          IsFiniteSet(Component \ D) /\ Cardinality(Component \ D) \in Nat
    BY TreeAssumption, FS_Subset, FS_CardinalityType
  <1>2. Left # {}
    <2>1. Walks({}, [c \in {} |-> <<>>])
      BY DEF Walks
    <2> QED BY <1>1, <2>1
  <1>3. PICK n \in Left : \A m \in Left : n <= m
    BY <1>2, LeastNat
  <1>4. PICK D \in SUBSET Component : /\ Cardinality(Component \ D) = n
                                      /\ \E f : Walks(D, f)
    BY <1>3
  <1>5. CASE Component \ D # {}
    <2>1. PICK c \in Component \ D : Below(c) \cap (Component \ D) = {}
      BY <1>5, NoCycle
    <2>2. Below(c) \subseteq D
      <3>1. Modules[c] \in Seq(Component) /\ Controllers[c] \in Seq(Component)
        BY TreeAssumption
      <3>2. Below(c) \subseteq Component
        BY <3>1, LenProperties DEF Below, Range
      <3> QED BY <2>1, <3>2
    <2>3. D \cup {c} \in SUBSET Component /\ \E f : Walks(D \cup {c}, f)
      BY <1>4, <2>1, <2>2, WalkOn
    <2>4. Component \ (D \cup {c}) = (Component \ D) \ {c}
      OBVIOUS
    <2>5. Cardinality((Component \ D) \ {c}) = n - 1
      BY <1>1, <1>4, <2>1, FS_RemoveElement
    <2>6. Cardinality(Component \ (D \cup {c})) \in Left
      BY <1>1, <2>3
    <2>7. n - 1 \in Left /\ n \in Nat
      BY <2>4, <2>5, <2>6
    <2> HIDE DEF Left
    <2>8. n <= n - 1
      BY <1>3, <2>7
    <2> QED BY <2>7, <2>8
  <1>6. CASE Component \ D = {}
    <2>1. D = Component
      BY <1>6
    <2> QED BY <1>4, <2>1
  <1> QED BY <1>5, <1>6

LEMMA PrepareVisits == \A c \in Component : Prepare[c] = Visit(Prepare, c)
  <1> DEFINE P == CHOOSE f : f = [c \in Component |-> Visit(f, c)]
  <1>1. P = [c \in Component |-> Visit(P, c)]
    BY WalkExists DEF Walks
  <1>2. P = Prepare
    BY DEF Prepare, Visit, Each
  <1> HIDE DEF P
  <1> QED BY <1>1, <1>2

LEMMA PrepareType == \A c \in Component : Prepare[c] \in Seq(Steps)
  <1> DEFINE Bad == {c \in Component : Prepare[c] \notin Seq(Steps)}
  <1> SUFFICES ASSUME Bad # {} PROVE FALSE
    OBVIOUS
  <1>1. PICK c \in Bad : Below(c) \cap Bad = {}
    BY NoCycle
  <1>2. Modules[c] \in Seq(Component) /\ Controllers[c] \in Seq(Component)
    BY TreeAssumption
  <1>3. ASSUME NEW s \in Seq(Component), Range(s) \subseteq Below(c)
        PROVE  FlattenSeq([i \in DOMAIN s |-> Prepare[s[i]]]) \in Seq(Steps)
    <2>1. Len(s) \in Nat /\ DOMAIN s = 1..Len(s)
      BY LenProperties
    <2>2. ASSUME NEW i \in 1..Len(s) PROVE Prepare[s[i]] \in Seq(Steps)
      <3>1. s[i] \in Component /\ s[i] \in Below(c)
        BY <1>3, <2>1 DEF Range
      <3> QED BY <1>1, <3>1
    <2>3. [i \in DOMAIN s |-> Prepare[s[i]]] \in [1..Len(s) -> Seq(Steps)]
      BY <2>1, <2>2
    <2> QED BY <2>1, <2>3, FlattenedLists
  <1>4. /\ FlattenSeq([i \in DOMAIN Modules[c] |-> Prepare[Modules[c][i]]]) \in Seq(Steps)
        /\ FlattenSeq([i \in DOMAIN Controllers[c] |-> Prepare[Controllers[c][i]]]) \in Seq(Steps)
    BY <1>2, <1>3 DEF Below
  <1>5. ImportSteps(c) \in Seq(Steps) /\ ListenSteps(c, c) \in Seq(Steps)
    BY ImportStepsType, ListenStepsType
  <1>6. Visit(Prepare, c) \in Seq(Steps)
    BY <1>4, <1>5, Joined DEF Visit
  <1> QED BY <1>1, <1>6, PrepareVisits

(* The transports are registered before anything is listened to.            *)
Announced(s, c) ==
    \A t \in Range(Transports[c]) : \A i \in 1..Len(s) :
      s[i].op = "listen" => \E j \in 1..(i - 1) : s[j].op = "transport" /\ s[j].who = t

Announces(s, c) == \A t \in Range(Transports[c]) :
                     \E j \in 1..Len(s) : s[j].op = "transport" /\ s[j].who = t

(* Whatever follows the transports comes after them.                        *)
LEMMA AnnouncedFirst ==
    ASSUME NEW c \in Component, NEW s \in Seq(Steps), NEW r \in Seq(Steps),
           Announced(s, c), Announces(s, c)
    PROVE  s \o r \in Seq(Steps) /\ Announced(s \o r, c) /\ Announces(s \o r, c)
  <1> DEFINE q == s \o r
  <1>1. /\ q \in Seq(Steps) /\ Len(s) \in Nat /\ Len(r) \in Nat /\ Len(q) = Len(s) + Len(r)
        /\ \A k \in 1..Len(s) : q[k] = s[k]
    BY Joined
  <1> HIDE DEF q
  <1>2. ASSUME NEW t \in Range(Transports[c])
        PROVE  \E j \in 1..Len(s) : q[j].op = "transport" /\ q[j].who = t
    BY <1>1 DEF Announces
  <1>3. ASSUME NEW t \in Range(Transports[c]), NEW i \in 1..Len(q), q[i].op = "listen"
        PROVE  \E j \in 1..(i - 1) : q[j].op = "transport" /\ q[j].who = t
    <2>1. CASE i <= Len(s)
      <3>1. i \in 1..Len(s) /\ s[i].op = "listen"
        BY <1>1, <1>3, <2>1
      <3>2. PICK j \in 1..(i - 1) : s[j].op = "transport" /\ s[j].who = t
        BY <3>1 DEF Announced
      <3>3. j \in 1..Len(s)
        BY <1>1, <2>1
      <3> QED BY <1>1, <3>2, <3>3
    <2>2. CASE ~(i <= Len(s))
      <3>1. PICK j \in 1..Len(s) : q[j].op = "transport" /\ q[j].who = t
        BY <1>2
      <3>2. j \in 1..(i - 1)
        BY <1>1, <2>2
      <3> QED BY <3>1, <3>2
    <2> QED BY <2>1, <2>2
  <1>4. \A t \in Range(Transports[c]) : \E j \in 1..Len(q) : q[j].op = "transport" /\ q[j].who = t
    <2>1. \A j \in 1..Len(s) : j \in 1..Len(q)
      BY <1>1
    <2> QED BY <1>2, <2>1
  <1>5. Announced(q, c) /\ Announces(q, c)
    BY <1>3, <1>4 DEF Announced, Announces
  <1> QED BY <1>1, <1>5 DEF q

LEMMA StoresAndTransports ==
    ASSUME NEW c \in Component
    PROVE  \E s \in Seq(Steps) :
             /\ s = Each(Store[c], LAMBDA t : <<Do("store", t, c)>>)
                      \o Each(Transports[c], LAMBDA t : <<Do("transport", t, c)>>)
             /\ Announced(s, c) /\ Announces(s, c)
  <1> DEFINE Early == {x \in Steps : x.op # "listen"}
             g == [i \in DOMAIN Store[c] |-> <<Do("store", Store[c][i], c)>>]
             h == [i \in DOMAIN Transports[c] |-> <<Do("transport", Transports[c][i], c)>>]
             s == FlattenSeq(g) \o FlattenSeq(h)
  <1>1. Store[c] \in Seq(Token) /\ Transports[c] \in Seq(Token)
    BY TreeAssumption
  <1>2. /\ Len(Store[c]) \in Nat /\ DOMAIN Store[c] = 1..Len(Store[c])
        /\ Len(Transports[c]) \in Nat /\ DOMAIN Transports[c] = 1..Len(Transports[c])
    BY <1>1, LenProperties
  <1>3. \A t \in Token : Do("store", t, c) \in Early /\ Do("transport", t, c) \in Early
    BY DoStep
  <1>4. g \in [1..Len(Store[c]) -> Seq(Early)]
    <2>1. ASSUME NEW i \in 1..Len(Store[c]) PROVE <<Do("store", Store[c][i], c)>> \in Seq(Early)
      <3>1. Store[c][i] \in Token
        BY <1>1, ElementOfSeq
      <3>2. Do("store", Store[c][i], c) \in Early
        BY <1>3, <3>1
      <3> HIDE DEF Early
      <3> QED BY <3>2
    <2> QED BY <1>2, <2>1
  <1>5. h \in [1..Len(Transports[c]) -> Seq(Early)]
    <2>1. ASSUME NEW i \in 1..Len(Transports[c])
          PROVE  <<Do("transport", Transports[c][i], c)>> \in Seq(Early)
      <3>1. Transports[c][i] \in Token
        BY <1>1, ElementOfSeq
      <3>2. Do("transport", Transports[c][i], c) \in Early
        BY <1>3, <3>1
      <3> HIDE DEF Early
      <3> QED BY <3>2
    <2> QED BY <1>2, <2>1
  <1> HIDE DEF Early
  <1>6. /\ FlattenSeq(g) \in Seq(Early) /\ FlattenSeq(h) \in Seq(Early)
        /\ \A i \in 1..Len(Transports[c]) : \A x : Holds(h[i], x) => Holds(FlattenSeq(h), x)
    BY <1>2, <1>4, <1>5, FlattenedLists
  <1>7. s \in Seq(Early) /\ \A x : Holds(FlattenSeq(h), x) => Holds(s, x)
    BY <1>6, Joined
  <1>8. ASSUME NEW t \in Range(Transports[c])
        PROVE  \E j \in 1..Len(s) : s[j].op = "transport" /\ s[j].who = t
    <2>1. PICK i \in 1..Len(Transports[c]) : Transports[c][i] = t
      BY <1>2 DEF Range
    <2>2. Holds(h[i], Do("transport", t, c))
      <3>1. h[i] = <<Do("transport", t, c)>>
        BY <1>2, <2>1
      <3> QED BY <3>1 DEF Holds
    <2>3. Holds(s, Do("transport", t, c))
      BY <1>6, <1>7, <2>1, <2>2
    <2> HIDE DEF s
    <2>4. PICK j \in 1..Len(s) : s[j] = Do("transport", t, c)
      BY <2>3 DEF Holds
    <2>5. Do("transport", t, c).op = "transport" /\ Do("transport", t, c).who = t
      BY DEF Do
    <2> QED BY <2>4, <2>5
  <1> HIDE DEF g, h
  <1>9. s \in Seq(Steps) /\ \A i \in 1..Len(s) : s[i].op # "listen"
    <2>1. Early \subseteq Steps
      BY DEF Early
    <2>2. s \in Seq(Steps)
      BY <1>7, <2>1, SeqMonotonic
    <2>3. \A i \in 1..Len(s) : s[i] \in Early
      BY <1>7, ElementOfSeq
    <2> QED BY <2>2, <2>3 DEF Early
  <1>10. Announced(s, c) /\ Announces(s, c)
    BY <1>8, <1>9 DEF Announced, Announces
  <1>11. s = Each(Store[c], LAMBDA t : <<Do("store", t, c)>>)
               \o Each(Transports[c], LAMBDA t : <<Do("transport", t, c)>>)
    BY DEF Each, g, h
  <1> QED BY <1>9, <1>10, <1>11

LEMMA PlanFacts ==
    ASSUME NEW a \in App
    PROVE  /\ Class[a] \in Component
           /\ PlanOf[a] \in Seq(Steps) /\ Len(PlanOf[a]) \in Nat \ {0}
           /\ \A i \in 1..Len(PlanOf[a]) : PlanOf[a][i] \in Steps
           /\ Announced(PlanOf[a], Class[a])
  <1> DEFINE c == Class[a]
  <1>1. c \in Component
    BY BootstrapAssumption
  <1>2. PICK s \in Seq(Steps) :
             /\ s = Each(Store[c], LAMBDA t : <<Do("store", t, c)>>)
                      \o Each(Transports[c], LAMBDA t : <<Do("transport", t, c)>>)
             /\ Announced(s, c) /\ Announces(s, c)
    BY <1>1, StoresAndTransports
  <1>3. Prepare[c] \in Seq(Steps) /\ BootstrapSteps(c) \in Seq(Steps)
    BY <1>1, PrepareType, BootstrapStepsType
  <1>4. <<Do("init", c, c)>> \in Seq(Steps)
    BY <1>1, DoStep
  <1> DEFINE p == s \o Prepare[c]
             q == p \o <<Do("init", c, c)>>
             r == q \o BootstrapSteps(c)
  <1>5. p \in Seq(Steps) /\ Announced(p, c) /\ Announces(p, c)
    BY <1>1, <1>2, <1>3, AnnouncedFirst
  <1>6. q \in Seq(Steps) /\ Announced(q, c) /\ Announces(q, c)
    <2> HIDE DEF p
    <2> QED BY <1>1, <1>4, <1>5, AnnouncedFirst
  <1>7. r \in Seq(Steps) /\ Announced(r, c)
    <2> HIDE DEF q
    <2> QED BY <1>1, <1>3, <1>6, AnnouncedFirst
  <1>8. Len(r) \in Nat \ {0}
    <2>1. Len(q) = Len(p) + Len(<<Do("init", c, c)>>) /\ Len(p) \in Nat
      <3> HIDE DEF p
      <3> QED BY <1>4, <1>5, Joined
    <2>2. Len(<<Do("init", c, c)>>) = 1
      OBVIOUS
    <2>3. Len(r) = Len(q) + Len(BootstrapSteps(c)) /\ Len(BootstrapSteps(c)) \in Nat
      <3> HIDE DEF q
      <3> QED BY <1>3, <1>6, Joined
    <2> HIDE DEF p, q, r
    <2> QED BY <2>1, <2>2, <2>3
  <1>9. PlanOf[a] = r
    BY <1>2 DEF PlanOf, Plan
  <1> HIDE DEF r
  <1>10. \A i \in 1..Len(r) : r[i] \in Steps
    BY <1>7, ElementOfSeq
  <1> QED BY <1>1, <1>7, <1>8, <1>9, <1>10
-----------------------------------------------------------------------------
(* Where a call of createApplication is in its plan.                        *)
Modes == {"new", "ready", "initing", "joining", "listening", "running", "up", "failed"}
Active(a) == mode[a] \notin {"new", "up", "failed"}

Place(a) ==
    /\ at[a] \in 1..(Len(PlanOf[a]) + 1)
    /\ mode[a] = "new" => at[a] = 1
    /\ mode[a] \notin {"up", "failed"} => at[a] <= Len(PlanOf[a])
    /\ mode[a] = "up" => at[a] = Len(PlanOf[a]) + 1
    /\ mode[a] \in {"initing", "joining"} =>
         Now(a).op \in {"init", "transport"} /\ Now(a).who \in HasInit
    /\ mode[a] = "listening" => Now(a).op = "listen"
    /\ mode[a] = "running" => Now(a).op \in {"store", "boot"}
    /\ made[a] <= gen
    /\ Active(a) => made[a] = gen

PromiseType == [Token \cup Component -> {"none", "pending", "kept"}]

PlaceInv == /\ mode \in [App -> Modes] /\ at \in [App -> Nat]
            /\ made \in [App -> Nat] /\ gen \in Nat
            /\ promise \in PromiseType
            /\ \A a \in App : Place(a)

LEMMA NowType ==
    ASSUME PlaceInv, NEW a \in App, mode[a] \notin {"up", "failed"}
    PROVE  /\ at[a] \in 1..Len(PlanOf[a]) /\ Now(a) = PlanOf[a][at[a]]
           /\ Now(a) \in Steps /\ Now(a).who \in Token \cup Component
           /\ Len(PlanOf[a]) \in Nat
  <1>1. Len(PlanOf[a]) \in Nat /\ \A i \in 1..Len(PlanOf[a]) : PlanOf[a][i] \in Steps
    BY PlanFacts
  <1>2. at[a] \in 1..Len(PlanOf[a])
    BY <1>1 DEF PlaceInv, Place
  <1>3. Now(a) = PlanOf[a][at[a]] /\ Now(a) \in Steps
    BY <1>1, <1>2 DEF Now
  <1>4. \A s \in Steps : s.who \in Token \cup Component
    BY DEF Steps
  <1> QED BY <1>1, <1>2, <1>3, <1>4

(* A step of a call leaves the others where they are, but for those that    *)
(* awaited a promise it breaks.                                             *)
OthersStay(a) ==
    \A b \in App \ {a} : /\ at'[b] = at[b] /\ made'[b] = made[b]
                         /\ \/ mode'[b] = mode[b]
                            \/ mode[b] = "joining" /\ mode'[b] = "failed"

LEMMA PlaceOfOthers ==
    ASSUME NEW a \in App, \A b \in App : Place(b), OthersStay(a), gen' = gen
    PROVE  \A b \in App \ {a} : Place(b)'
  <1> SUFFICES ASSUME NEW b \in App \ {a} PROVE Place(b)'
    OBVIOUS
  <1>1. Place(b) /\ Now(b)' = Now(b) /\ at'[b] = at[b] /\ made'[b] = made[b]
    BY DEF OthersStay, Now
  <1>2. mode'[b] = mode[b] \/ (mode[b] = "joining" /\ mode'[b] = "failed")
    BY DEF OthersStay
  <1> QED BY <1>1, <1>2 DEF Place, Active

LEMMA Advances ==
    ASSUME PlaceInv, NEW a \in App, Active(a), Advance(a), UNCHANGED <<made, gen>>,
           promise' \in PromiseType
    PROVE  /\ PlaceInv' /\ OthersStay(a)
           /\ at'[a] = at[a] + 1 /\ made'[a] = made[a] /\ mode'[a] \in {"ready", "up"}
  <1>1. at[a] \in 1..Len(PlanOf[a]) /\ Len(PlanOf[a]) \in Nat
    BY NowType DEF Active
  <1>2. /\ at'[a] = at[a] + 1 /\ at' \in [App -> Nat]
        /\ \A b \in App \ {a} : at'[b] = at[b]
    BY <1>1 DEF PlaceInv, Advance
  <1>3. /\ mode'[a] = IF at[a] < Len(PlanOf[a]) THEN "ready" ELSE "up"
        /\ mode' \in [App -> Modes]
        /\ \A b \in App \ {a} : mode'[b] = mode[b]
    BY DEF PlaceInv, Advance, Modes
  <1>4. OthersStay(a)
    BY <1>2, <1>3 DEF OthersStay
  <1>5. made'[a] = gen' /\ gen \in Nat /\ made'[a] = made[a]
    BY DEF PlaceInv, Place, Active
  <1>6. Place(a)'
    <2>1. at'[a] \in 1..(Len(PlanOf[a]) + 1)
      BY <1>1, <1>2
    <2>2. mode'[a] = "ready" => at'[a] <= Len(PlanOf[a])
      BY <1>1, <1>2, <1>3
    <2>3. mode'[a] = "up" => at'[a] = Len(PlanOf[a]) + 1
      BY <1>1, <1>2, <1>3
    <2>4. mode'[a] \in {"ready", "up"}
      BY <1>3
    <2> QED BY <1>5, <2>1, <2>2, <2>3, <2>4 DEF Place, Active
  <1>7. \A b \in App \ {a} : Place(b)'
    BY <1>4, PlaceOfOthers DEF PlaceInv
  <1> QED BY <1>2, <1>3, <1>4, <1>5, <1>6, <1>7 DEF PlaceInv

LEMMA GoesOn ==
    ASSUME PlaceInv, NEW a \in App, Active(a), UNCHANGED <<at, made, gen>>,
           promise' \in PromiseType, OthersStay(a),
           mode' \in [App -> Modes], mode'[a] \notin {"new", "up"},
           mode'[a] \in {"initing", "joining"} =>
             Now(a).op \in {"init", "transport"} /\ Now(a).who \in HasInit,
           mode'[a] = "listening" => Now(a).op = "listen",
           mode'[a] = "running" => Now(a).op \in {"store", "boot"}
    PROVE  PlaceInv'
  <1>1. Place(a) /\ Now(a)' = Now(a)
    BY DEF PlaceInv, Now
  <1>2. Place(a)'
    BY <1>1 DEF Place, Active
  <1>3. \A b \in App \ {a} : Place(b)'
    BY PlaceOfOthers DEF PlaceInv
  <1> QED BY <1>2, <1>3 DEF PlaceInv

LEMMA PlaceInit == Init => PlaceInv
  <1> SUFFICES ASSUME Init PROVE PlaceInv
    OBVIOUS
  <1>1. ASSUME NEW a \in App PROVE Place(a)
    <2>1. Len(PlanOf[a]) \in Nat \ {0}
      BY PlanFacts
    <2>2. mode[a] = "new" /\ at[a] = 1 /\ made[a] = 0 /\ gen = 0
      BY DEF Init
    <2> QED BY <2>1, <2>2 DEF Place, Active
  <1>2. /\ mode \in [App -> Modes] /\ at \in [App -> Nat] /\ made \in [App -> Nat]
        /\ gen \in Nat /\ promise \in PromiseType
    BY DEF Init, Modes, PromiseType
  <1> QED BY <1>1, <1>2 DEF PlaceInv

(* The steps after which a call is at the next step of its plan ...         *)
Finishes(a) == \/ InitSkipped(a) \/ InitReturns(a) \/ InitJoined(a)
               \/ ListenSkipped(a) \/ ListenReturns(a) \/ DirectReturns(a)

LEMMA FinishesMove ==
    ASSUME PlaceInv, NEW a \in App, Finishes(a)
    PROVE  /\ PlaceInv' /\ OthersStay(a) /\ Active(a) /\ UNCHANGED <<made, gen>>
           /\ at'[a] = at[a] + 1 /\ made'[a] = made[a] /\ mode'[a] \in {"ready", "up"}
  <1>1. Active(a) /\ Advance(a) /\ UNCHANGED <<made, gen>>
    BY DEF Finishes, Active, InitSkipped, InitReturns, InitJoined, ListenSkipped,
           ListenReturns, DirectReturns, AtInit, inits
  <1>2. promise' \in PromiseType
    <2>1. promise \in PromiseType
      BY DEF PlaceInv
    <2>2. CASE InitSkipped(a)
      <3>1. \/ promise' = [promise EXCEPT ![Now(a).who] = "kept"]
            \/ promise' = [promise EXCEPT ![Now(a).who] = @]
        BY <2>2 DEF InitSkipped
      <3> QED BY <2>1, <3>1 DEF PromiseType
    <2>3. CASE InitReturns(a)
      <3>1. promise' = [promise EXCEPT ![Now(a).who] = "kept"]
        BY <2>3 DEF InitReturns
      <3> QED BY <2>1, <3>1 DEF PromiseType
    <2>4. CASE InitJoined(a) \/ ListenSkipped(a) \/ ListenReturns(a) \/ DirectReturns(a)
      <3>1. promise' = promise
        BY <2>4 DEF InitJoined, ListenSkipped, ListenReturns, DirectReturns, inits
      <3> QED BY <2>1, <3>1
    <2> QED BY <2>2, <2>3, <2>4 DEF Finishes
  <1> QED BY <1>1, <1>2, Advances

(* ... and those after which it is still at this one, or has failed at it.  *)
Turns(a) == \/ InitJoins(a) \/ InitBegins(a) \/ InitThrows(a)
            \/ ListenBegins(a) \/ ListenThrows(a) \/ DirectBegins(a) \/ DirectThrows(a)

LEMMA TurnsMove ==
    ASSUME PlaceInv, NEW a \in App, Turns(a)
    PROVE  /\ PlaceInv' /\ OthersStay(a) /\ Active(a) /\ UNCHANGED <<at, made, gen>>
           /\ InitJoins(a) => mode[a] = "ready" /\ mode'[a] = "joining"
           /\ InitBegins(a) => mode[a] = "ready" /\ mode'[a] = "initing"
           /\ InitThrows(a) => mode[a] = "initing" /\ mode'[a] = "failed"
           /\ ListenBegins(a) => mode[a] = "ready" /\ mode'[a] = "listening"
           /\ ListenThrows(a) => mode[a] = "listening" /\ mode'[a] = "failed"
           /\ DirectBegins(a) => mode[a] = "ready" /\ mode'[a] = "running"
           /\ DirectThrows(a) => mode[a] = "running" /\ mode'[a] = "failed"
  <1> DEFINE To(m) == /\ mode' = [mode EXCEPT ![a] = m]
                      /\ UNCHANGED <<at, made, gen>> /\ promise' \in PromiseType
  <1>0. mode \in [App -> Modes] /\ promise \in PromiseType
    BY DEF PlaceInv
  <1>1. ASSUME NEW m \in Modes, To(m)
        PROVE  /\ OthersStay(a) /\ UNCHANGED <<at, made, gen>> /\ promise' \in PromiseType
               /\ mode' \in [App -> Modes] /\ mode'[a] = m
    BY <1>0, <1>1 DEF OthersStay
  <1>2. CASE InitJoins(a)
    <2>1. /\ To("joining") /\ mode[a] = "ready"
          /\ Now(a).op \in {"init", "transport"} /\ Now(a).who \in HasInit
      BY <1>0, <1>2 DEF InitJoins, AtInit, inits
    <2> HIDE DEF To
    <2>2. /\ OthersStay(a) /\ UNCHANGED <<at, made, gen>> /\ promise' \in PromiseType
          /\ mode' \in [App -> Modes] /\ mode'[a] = "joining"
      BY <1>1, <2>1 DEF Modes
    <2>3. PlaceInv'
      BY <2>1, <2>2, GoesOn DEF Active
    <2> QED BY <2>1, <2>2, <2>3
             DEF Active, InitBegins, InitThrows, ListenBegins, ListenThrows, DirectBegins,
                 DirectThrows, AtInit
  <1>3. CASE InitBegins(a)
    <2>1. /\ To("initing") /\ mode[a] = "ready"
          /\ Now(a).op \in {"init", "transport"} /\ Now(a).who \in HasInit
      BY <1>0, <1>3 DEF InitBegins, AtInit, PromiseType
    <2> HIDE DEF To
    <2>2. /\ OthersStay(a) /\ UNCHANGED <<at, made, gen>> /\ promise' \in PromiseType
          /\ mode' \in [App -> Modes] /\ mode'[a] = "initing"
      BY <1>1, <2>1 DEF Modes
    <2>3. PlaceInv'
      BY <2>1, <2>2, GoesOn DEF Active
    <2> QED BY <1>3, <2>1, <2>2, <2>3
             DEF Active, InitBegins, InitJoins, InitThrows, ListenBegins, ListenThrows, DirectBegins,
                 DirectThrows, AtInit
  <1>4. CASE InitThrows(a)
    <2>1. /\ mode' = [b \in App |-> IF b = a \/ (mode[b] = "joining" /\ Now(b).who = Now(a).who)
                                      THEN "failed" ELSE mode[b]]
          /\ mode[a] = "initing" /\ UNCHANGED <<at, made, gen>>
          /\ promise' = [promise EXCEPT ![Now(a).who] = "none"]
      BY <1>4 DEF InitThrows
    <2>2. OthersStay(a) /\ mode' \in [App -> Modes] /\ mode'[a] = "failed"
      BY <1>0, <2>1 DEF OthersStay, Modes
    <2>3. promise' \in PromiseType
      BY <1>0, <2>1 DEF PromiseType
    <2>4. PlaceInv'
      BY <2>1, <2>2, <2>3, GoesOn DEF Active
    <2> QED BY <2>1, <2>2, <2>4
             DEF Active, InitBegins, InitJoins, ListenBegins, ListenThrows, DirectBegins,
                 DirectThrows, AtInit
  <1>5. CASE ListenBegins(a)
    <2>1. To("listening") /\ mode[a] = "ready" /\ Now(a).op = "listen"
      BY <1>0, <1>5 DEF ListenBegins, inits
    <2> HIDE DEF To
    <2>2. /\ OthersStay(a) /\ UNCHANGED <<at, made, gen>> /\ promise' \in PromiseType
          /\ mode' \in [App -> Modes] /\ mode'[a] = "listening"
      BY <1>1, <2>1 DEF Modes
    <2>3. PlaceInv'
      BY <2>1, <2>2, GoesOn DEF Active
    <2> QED BY <2>1, <2>2, <2>3
             DEF Active, InitBegins, InitJoins, InitThrows, ListenThrows, DirectBegins,
                 DirectThrows, AtInit
  <1>6. CASE ListenThrows(a)
    <2>1. To("failed") /\ mode[a] = "listening"
      BY <1>0, <1>6 DEF ListenThrows, inits
    <2> HIDE DEF To
    <2>2. /\ OthersStay(a) /\ UNCHANGED <<at, made, gen>> /\ promise' \in PromiseType
          /\ mode' \in [App -> Modes] /\ mode'[a] = "failed"
      BY <1>1, <2>1 DEF Modes
    <2>3. PlaceInv'
      BY <2>1, <2>2, GoesOn DEF Active
    <2> QED BY <2>1, <2>2, <2>3
             DEF Active, InitBegins, InitJoins, InitThrows, ListenBegins, DirectBegins,
                 DirectThrows, AtInit
  <1>7. CASE DirectBegins(a)
    <2>1. To("running") /\ mode[a] = "ready" /\ Now(a).op \in {"store", "boot"}
      BY <1>0, <1>7 DEF DirectBegins, inits
    <2> HIDE DEF To
    <2>2. /\ OthersStay(a) /\ UNCHANGED <<at, made, gen>> /\ promise' \in PromiseType
          /\ mode' \in [App -> Modes] /\ mode'[a] = "running"
      BY <1>1, <2>1 DEF Modes
    <2>3. PlaceInv'
      BY <2>1, <2>2, GoesOn DEF Active
    <2> QED BY <2>1, <2>2, <2>3
             DEF Active, InitBegins, InitJoins, InitThrows, ListenBegins, ListenThrows,
                 DirectThrows, AtInit
  <1>8. CASE DirectThrows(a)
    <2>1. To("failed") /\ mode[a] = "running"
      BY <1>0, <1>8 DEF DirectThrows, inits
    <2> HIDE DEF To
    <2>2. /\ OthersStay(a) /\ UNCHANGED <<at, made, gen>> /\ promise' \in PromiseType
          /\ mode' \in [App -> Modes] /\ mode'[a] = "failed"
      BY <1>1, <2>1 DEF Modes
    <2>3. PlaceInv'
      BY <2>1, <2>2, GoesOn DEF Active
    <2> QED BY <2>1, <2>2, <2>3
             DEF Active, InitBegins, InitJoins, InitThrows, ListenBegins, ListenThrows,
                 DirectBegins, AtInit
  <1> QED BY <1>2, <1>3, <1>4, <1>5, <1>6, <1>7, <1>8 DEF Turns

(* Create, and the reset of the container between preparations.             *)
LEMMA CreateMoves ==
    ASSUME PlaceInv, NEW a \in App, Create(a)
    PROVE  /\ PlaceInv' /\ OthersStay(a) /\ UNCHANGED <<at, gen>>
           /\ mode[a] = "new" /\ mode'[a] = "ready" /\ at[a] = 1
  <1>1. /\ mode[a] = "new" /\ mode' = [mode EXCEPT ![a] = "ready"]
        /\ made' = [made EXCEPT ![a] = gen] /\ UNCHANGED <<at, gen, promise>>
    BY DEF Create, inits
  <1>2. OthersStay(a)
    BY <1>1 DEF OthersStay, PlaceInv
  <1>3. /\ mode' \in [App -> Modes] /\ made' \in [App -> Nat]
        /\ mode'[a] = "ready" /\ made'[a] = gen
    BY <1>1 DEF PlaceInv, Modes
  <1>4. Place(a)'
    BY <1>1, <1>3 DEF PlaceInv, Place, Active
  <1>5. \A b \in App \ {a} : Place(b)'
    BY <1>1, <1>2, PlaceOfOthers DEF PlaceInv
  <1>6. at[a] = 1
    BY <1>1 DEF PlaceInv, Place
  <1> QED BY <1>1, <1>2, <1>3, <1>4, <1>5, <1>6 DEF PlaceInv

LEMMA ResetMoves ==
    ASSUME PlaceInv, Reset
    PROVE  /\ PlaceInv' /\ gen' = gen + 1 /\ UNCHANGED <<mode, at, made, inits, messaging>>
           /\ \A a \in App : ~Active(a)
  <1>1. /\ gen' = gen + 1 /\ UNCHANGED <<mode, at, made, inits, messaging>>
        /\ \A a \in App : ~Active(a)
    BY DEF Reset, Active
  <1>2. ASSUME NEW a \in App PROVE Place(a)'
    <2>1. Place(a) /\ made[a] \in Nat /\ gen \in Nat /\ Now(a)' = Now(a) /\ ~Active(a)
      BY <1>1 DEF PlaceInv, Now
    <2> QED BY <1>1, <2>1 DEF Place, Active
  <1> QED BY <1>1, <1>2 DEF PlaceInv, inits

LEMMA PlaceStep ==
    ASSUME PlaceInv, [Next]_vars PROVE PlaceInv'
  <1>1. ASSUME NEW a \in App, Create(a) PROVE PlaceInv'
    BY <1>1, CreateMoves
  <1>2. ASSUME NEW a \in App, Continue(a) PROVE PlaceInv'
    BY <1>2, FinishesMove, TurnsMove DEF Continue, Finishes, Turns
  <1>3. CASE Reset
    BY <1>3, ResetMoves
  <1>4. CASE UNCHANGED vars
    <2>1. UNCHANGED <<mode, at, made, gen, promise>>
      BY <1>4 DEF vars, control, inits
    <2> QED BY <2>1 DEF PlaceInv, Place, Active, Now
  <1> QED BY <1>1, <1>2, <1>3, <1>4 DEF Next, Rest
-----------------------------------------------------------------------------
(* A pending promise is that of the one call whose onInit is running, on an *)
(* instance that has no mark yet.                                           *)
PendingIsIniting ==
    \A t \in Token \cup Component : promise[t] = "pending" <=>
      \E a \in App : mode[a] = "initing" /\ Now(a).who = t

OneInits ==
    \A a, b \in App :
      mode[a] = "initing" /\ mode[b] = "initing" /\ Now(a).who = Now(b).who => a = b

NotMarkedYet == \A a \in App : mode[a] = "initing" => Instance(a, Now(a)) \notin initialized

InitInv == PendingIsIniting /\ OneInits /\ NotMarkedYet

(* What initOnce ran has its mark.                                          *)
Direct(r) == PlanOf[r[2]][r[3]].op \in {"store", "boot"}
RanIsMarked == \A r \in ran : Direct(r) \/ r[1] \in initialized
RanInv == RanIsMarked /\ InitAtMostOnce

(* Steps that neither begin nor end an onInit of initOnce.                  *)
LEMMA QuietInit ==
    ASSUME InitInv,
           \A b \in App : /\ mode'[b] = "initing" <=> mode[b] = "initing"
                          /\ mode[b] = "initing" => at'[b] = at[b] /\ made'[b] = made[b],
           \A t \in Token \cup Component : promise'[t] = "pending" <=> promise[t] = "pending",
           initialized' = initialized
    PROVE  InitInv'
  <1>1. \A b \in App : mode[b] = "initing" =>
          Now(b)' = Now(b) /\ Instance(b, Now(b))' = Instance(b, Now(b))
    BY DEF Now, Instance
  <1>2. PendingIsIniting'
    BY <1>1 DEF InitInv, PendingIsIniting
  <1>3. OneInits'
    BY <1>1 DEF InitInv, OneInits
  <1>4. NotMarkedYet'
    BY <1>1 DEF InitInv, NotMarkedYet
  <1> QED BY <1>2, <1>3, <1>4 DEF InitInv

LEMMA InitBeginsInv ==
    ASSUME PlaceInv, InitInv, NEW a \in App, InitBegins(a) PROVE InitInv'
  <1> DEFINE t == Now(a).who
  <1>1. /\ OthersStay(a) /\ UNCHANGED <<at, made, gen>>
        /\ mode[a] = "ready" /\ mode'[a] = "initing"
    BY TurnsMove DEF Turns
  <1>2. t \in Token \cup Component
    BY <1>1, NowType
  <1>3. /\ promise[t] = "none" /\ Instance(a, Now(a)) \notin initialized
        /\ promise' = [promise EXCEPT ![t] = "pending"] /\ initialized' = initialized
    BY DEF InitBegins
  <1>4. /\ promise'[t] = "pending"
        /\ \A u \in Token \cup Component : u # t => promise'[u] = promise[u]
    BY <1>2, <1>3 DEF PlaceInv, PromiseType
  <1>5. \A b \in App : Now(b)' = Now(b) /\ Instance(b, Now(b))' = Instance(b, Now(b))
    BY <1>1 DEF Now, Instance
  <1>6. \A b \in App : b # a => (mode'[b] = "initing" <=> mode[b] = "initing")
    BY <1>1 DEF OthersStay
  <1>7. \A b \in App : mode[b] = "initing" => Now(b).who # t
    BY <1>2, <1>3 DEF InitInv, PendingIsIniting
  <1>8. ASSUME NEW u \in Token \cup Component
        PROVE  promise'[u] = "pending" <=>
                 \E b \in App : mode'[b] = "initing" /\ Now(b).who = u
    <2>1. promise[u] = "pending" <=> \E b \in App : mode[b] = "initing" /\ Now(b).who = u
      BY DEF InitInv, PendingIsIniting
    <2> QED BY <1>1, <1>4, <1>6, <1>7, <2>1
  <1>9. PendingIsIniting'
    BY <1>5, <1>8 DEF PendingIsIniting
  <1>10. OneInits'
    BY <1>1, <1>5, <1>6, <1>7 DEF InitInv, OneInits
  <1>11. NotMarkedYet'
    BY <1>1, <1>3, <1>5, <1>6 DEF InitInv, NotMarkedYet
  <1> QED BY <1>9, <1>10, <1>11 DEF InitInv

(* Instances of one class are never those of another.                       *)
LEMMA InstanceOf ==
    ASSUME NEW a, NEW s, NEW b, NEW r, Instance(a, s) = Instance(b, r)
    PROVE  s.who = r.who
  <1>1. Instance(a, s)[1] = s.who /\ Instance(b, r)[1] = r.who
    BY DEF Instance
  <1> QED BY <1>1

(* The onInit of a call ends: it returns and marks the instance, or throws. *)
LEMMA InitEndsInv ==
    ASSUME PlaceInv, InitInv, NEW a \in App, InitReturns(a) \/ InitThrows(a)
    PROVE  InitInv'
  <1> DEFINE t == Now(a).who
  <1>1. /\ OthersStay(a) /\ UNCHANGED <<made, gen>>
        /\ mode[a] = "initing" /\ mode'[a] # "initing"
    BY FinishesMove, TurnsMove DEF Turns, Finishes, InitReturns, InitThrows
  <1>2. t \in Token \cup Component
    BY <1>1, NowType
  <1>3. /\ promise'[t] # "pending"
        /\ \A u \in Token \cup Component : u # t => promise'[u] = promise[u]
    <2>1. \/ promise' = [promise EXCEPT ![t] = "kept"]
          \/ promise' = [promise EXCEPT ![t] = "none"]
      BY DEF InitReturns, InitThrows
    <2> QED BY <1>2, <2>1 DEF PlaceInv, PromiseType
  <1>4. \A b \in App \ {a} : /\ Now(b)' = Now(b) /\ Instance(b, Now(b))' = Instance(b, Now(b))
                             /\ mode'[b] = "initing" <=> mode[b] = "initing"
    BY <1>1 DEF Now, Instance, OthersStay
  <1>5. \A b \in App \ {a} : mode[b] = "initing" => Now(b).who # t
    BY <1>1 DEF InitInv, OneInits
  <1>6. ASSUME NEW u \in Token \cup Component
        PROVE  promise'[u] = "pending" <=>
                 \E b \in App : mode'[b] = "initing" /\ Now(b)'.who = u
    <2>1. promise[u] = "pending" <=> \E b \in App : mode[b] = "initing" /\ Now(b).who = u
      BY DEF InitInv, PendingIsIniting
    <2> QED BY <1>1, <1>3, <1>4, <1>5, <2>1
  <1>7. PendingIsIniting'
    BY <1>6 DEF PendingIsIniting
  <1>8. OneInits'
    BY <1>1, <1>4 DEF InitInv, OneInits
  <1>9. ASSUME NEW b \in App, mode'[b] = "initing" PROVE Instance(b, Now(b))' \notin initialized'
    <2>1. b # a /\ mode[b] = "initing" /\ Instance(b, Now(b))' = Instance(b, Now(b))
      BY <1>1, <1>4, <1>9
    <2>2. Instance(b, Now(b)) \notin initialized /\ Now(b).who # t
      BY <1>5, <2>1 DEF InitInv, NotMarkedYet
    <2>3. Instance(b, Now(b)) # Instance(a, Now(a))
      BY <2>2, InstanceOf
    <2>4. initialized' \subseteq initialized \cup {Instance(a, Now(a))}
      BY DEF InitReturns, InitThrows
    <2> QED BY <2>1, <2>2, <2>3, <2>4
  <1>10. NotMarkedYet'
    BY <1>9 DEF NotMarkedYet
  <1> QED BY <1>7, <1>8, <1>10 DEF InitInv

LEMMA InitInvStep ==
    ASSUME PlaceInv, InitInv, [Next]_vars PROVE InitInv'
  <1>1. ASSUME NEW a \in App, Create(a) PROVE InitInv'
    <2>1. /\ OthersStay(a) /\ mode[a] = "new" /\ mode'[a] = "ready"
          /\ UNCHANGED <<promise, initialized>>
      BY <1>1, CreateMoves DEF Create, inits
    <2> QED BY <2>1, QuietInit DEF OthersStay
  <1>2. ASSUME NEW a \in App, InitBegins(a) PROVE InitInv'
    BY <1>2, InitBeginsInv
  <1>3. ASSUME NEW a \in App, InitReturns(a) \/ InitThrows(a) PROVE InitInv'
    BY <1>3, InitEndsInv
  <1>4. ASSUME NEW a \in App, InitSkipped(a) PROVE InitInv'
    <2>1. OthersStay(a) /\ mode[a] = "ready" /\ mode'[a] \in {"ready", "up"}
      BY <1>4, FinishesMove DEF Finishes, InitSkipped, AtInit
    <2>2. Now(a).who \in Token \cup Component /\ promise \in PromiseType
      BY <2>1, NowType DEF PlaceInv
    <2>3. CASE Now(a).who \in HasInit
      <3>1. /\ promise' = [promise EXCEPT ![Now(a).who] = "kept"]
            /\ promise[Now(a).who] # "pending" /\ initialized' = initialized
        BY <1>4, <2>3 DEF InitSkipped
      <3>2. \A t \in Token \cup Component : promise'[t] = "pending" <=> promise[t] = "pending"
        BY <2>2, <3>1 DEF PromiseType
      <3> QED BY <2>1, <3>1, <3>2, QuietInit DEF OthersStay
    <2>4. CASE Now(a).who \notin HasInit
      <3>1. promise' = [promise EXCEPT ![Now(a).who] = @] /\ initialized' = initialized
        BY <1>4, <2>4 DEF InitSkipped
      <3>2. promise' = promise
        BY <2>2, <3>1 DEF PromiseType
      <3> QED BY <2>1, <3>1, <3>2, QuietInit DEF OthersStay
    <2> QED BY <2>3, <2>4
  <1>5. ASSUME NEW a \in App,
               InitJoined(a) \/ ListenSkipped(a) \/ ListenReturns(a) \/ DirectReturns(a)
        PROVE  InitInv'
    <2>1. OthersStay(a) /\ mode'[a] \in {"ready", "up"}
      BY <1>5, FinishesMove DEF Finishes
    <2>2. mode[a] # "initing" /\ UNCHANGED <<promise, initialized>>
      BY <1>5 DEF InitJoined, ListenSkipped, ListenReturns, DirectReturns, inits
    <2> QED BY <2>1, <2>2, QuietInit DEF OthersStay
  <1>6. ASSUME NEW a \in App,
               InitJoins(a) \/ ListenBegins(a) \/ ListenThrows(a) \/ DirectBegins(a) \/ DirectThrows(a)
        PROVE  InitInv'
    <2>1. OthersStay(a) /\ mode[a] # "initing" /\ mode'[a] # "initing"
      BY <1>6, TurnsMove DEF Turns
    <2>2. UNCHANGED <<promise, initialized>>
      BY <1>6 DEF InitJoins, ListenBegins, ListenThrows, DirectBegins, DirectThrows, inits
    <2> QED BY <2>1, <2>2, QuietInit DEF OthersStay
  <1>7. CASE Reset
    BY <1>7, ResetMoves, QuietInit DEF inits
  <1>8. CASE UNCHANGED vars
    BY <1>8, QuietInit DEF vars, control, inits
  <1> QED BY <1>1, <1>2, <1>3, <1>4, <1>5, <1>6, <1>7, <1>8 DEF Next, Rest, Continue

LEMMA RanInvStep ==
    ASSUME PlaceInv, InitInv, RanInv, [Next]_vars PROVE RanInv'
  <1>1. ASSUME ran' = ran, initialized \subseteq initialized' PROVE RanInv'
    BY <1>1 DEF RanInv, RanIsMarked, InitAtMostOnce, Direct
  <1>2. ASSUME NEW a \in App, InitReturns(a) PROVE RanInv'
    <2> DEFINE i == Instance(a, Now(a))
               new == <<i, a, at[a]>>
    <2>1. /\ mode[a] = "initing" /\ initialized' = initialized \cup {i} /\ ran' = ran \cup {new}
      BY <1>2 DEF InitReturns
    <2>2. i \notin initialized
      BY <2>1 DEF InitInv, NotMarkedYet
    <2>3. new[1] = i
      OBVIOUS
    <2> HIDE DEF new, i
    <2>4. RanIsMarked'
      BY <2>1, <2>3 DEF RanInv, RanIsMarked, Direct
    <2>5. \A r \in ran : r[1] = new[1] => Direct(r)
      BY <2>2, <2>3 DEF RanInv, RanIsMarked
    <2>6. InitAtMostOnce'
      BY <2>1, <2>5 DEF RanInv, InitAtMostOnce, Direct
    <2> QED BY <2>4, <2>6 DEF RanInv
  <1>3. ASSUME NEW a \in App, DirectReturns(a) PROVE RanInv'
    <2> DEFINE new == <<Instance(a, Now(a)), a, at[a]>>
    <2>1. mode[a] = "running" /\ ran' = ran \cup {new} /\ initialized' = initialized
      BY <1>3 DEF DirectReturns
    <2>2. Direct(new)
      BY <2>1 DEF PlaceInv, Place, Direct, Now
    <2> HIDE DEF new
    <2>3. RanIsMarked'
      BY <2>1, <2>2 DEF RanInv, RanIsMarked, Direct
    <2>4. InitAtMostOnce'
      BY <2>1, <2>2 DEF RanInv, InitAtMostOnce, Direct
    <2> QED BY <2>3, <2>4 DEF RanInv
  <1>4. ASSUME NEW a \in App, Create(a) PROVE RanInv'
    BY <1>1, <1>4 DEF Create, inits
  <1>5. ASSUME NEW a \in App, InitSkipped(a) \/ InitJoins(a) \/ InitBegins(a) \/ InitThrows(a)
        PROVE RanInv'
    BY <1>1, <1>5 DEF InitSkipped, InitJoins, InitBegins, InitThrows, inits
  <1>6. ASSUME NEW a \in App,
               \/ InitJoined(a) \/ ListenSkipped(a) \/ ListenBegins(a) \/ ListenReturns(a)
               \/ ListenThrows(a) \/ DirectBegins(a) \/ DirectThrows(a)
        PROVE RanInv'
    BY <1>1, <1>6 DEF InitJoined, ListenSkipped, ListenBegins, ListenReturns, ListenThrows,
       DirectBegins, DirectThrows, inits
  <1>7. CASE Reset \/ UNCHANGED vars
    BY <1>1, <1>7 DEF Reset, vars, inits
  <1> QED BY <1>2, <1>3, <1>4, <1>5, <1>6, <1>7 DEF Next, Rest, Continue

LEMMA InitInvInit == Init => InitInv /\ RanInv
  BY DEF Init, InitInv, PendingIsIniting, OneInits, NotMarkedYet, RanInv, RanIsMarked,
         InitAtMostOnce

(* The steps of the application are those of Bootstrap, or leave its state. *)
LEMMA AppSteps == [Prepares \/ Serves]_<<vars, requests>> => [Next]_vars
  BY DEF Prepares, Serves

BootInv == PlaceInv /\ InitInv /\ RanInv

LEMMA BootInvariant == AppSpec => []BootInv
  <1>1. AppInit => BootInv
    BY PlaceInit, InitInvInit DEF AppInit, BootInv
  <1>2. BootInv /\ [Prepares \/ Serves]_<<vars, requests>> => BootInv'
    BY AppSteps, PlaceStep, InitInvStep, RanInvStep DEF BootInv
  <1> QED BY <1>1, <1>2, PTL DEF AppSpec

(* Every call is where prepareApplication and createApplication can be, and *)
(* a promise of globalInitPromises is pending exactly while some call runs  *)
(* the onInit it stands for.                                                *)
THEOREM ApplicationTyping == AppSpec => []TypeOK
  <1>1. BootInv => TypeOK
    BY DEF BootInv, PlaceInv, Place, InitInv, PendingIsIniting, TypeOK, PromiseType, Modes
  <1> QED BY <1>1, BootInvariant, PTL

(* Whatever calls of createApplication interleave, fail and are made again, *)
(* initOnce lets the onInit of an instance return once at most.             *)
THEOREM ApplicationInitOnce == AppSpec => []InitAtMostOnce
  <1>1. BootInv => InitAtMostOnce
    BY DEF BootInv, RanInv
  <1> QED BY <1>1, BootInvariant, PTL
-----------------------------------------------------------------------------
(* The transports of the steps a call has begun are on the bus, and a call  *)
(* listens on all of its transports: its plan registers them first.         *)
Begun(a, i) == i < at[a] \/ (i = at[a] /\ mode[a] \in {"initing", "joining"})

OnBus(a) == \A i \in 1..Len(PlanOf[a]) :
              Begun(a, i) /\ PlanOf[a][i].op = "transport" => PlanOf[a][i].who \in bus

Targeted(a) == mode[a] = "listening" => Range(Transports[Class[a]]) \subseteq targets[a]

BusInv == /\ bus \subseteq Token \cup Component
          /\ targets \in [App -> SUBSET (Token \cup Component)]
          /\ \A a \in App : OnBus(a) /\ Targeted(a)

LEMMA BusOfOthers ==
    ASSUME BusInv, NEW a \in App, OthersStay(a), bus \subseteq bus',
           \A b \in App \ {a} : targets'[b] = targets[b]
    PROVE  \A b \in App \ {a} : OnBus(b)' /\ Targeted(b)'
  <1> SUFFICES ASSUME NEW b \in App \ {a} PROVE OnBus(b)' /\ Targeted(b)'
    OBVIOUS
  <1>1. /\ at'[b] = at[b]
        /\ mode'[b] \in {"initing", "joining", "listening"} => mode'[b] = mode[b]
        /\ OnBus(b) /\ Targeted(b)
    BY DEF OthersStay, BusInv
  <1>2. OnBus(b)'
    BY <1>1 DEF OnBus, Begun
  <1>3. Targeted(b)'
    BY <1>1 DEF Targeted
  <1> QED BY <1>2, <1>3

LEMMA BusFinishes ==
    ASSUME PlaceInv, BusInv, NEW a \in App, Finishes(a) PROVE BusInv'
  <1>1. /\ OthersStay(a) /\ Active(a) /\ at'[a] = at[a] + 1 /\ mode'[a] \in {"ready", "up"}
    BY FinishesMove
  <1>2. Now(a) = PlanOf[a][at[a]] /\ Now(a).who \in Token \cup Component /\ at[a] \in Nat
    BY <1>1, NowType DEF Active
  <1>3. /\ bus \subseteq bus' /\ bus' \subseteq bus \cup {Now(a).who}
        /\ Now(a).op = "transport" => Now(a).who \in bus'
    <2>1. CASE InitSkipped(a)
      BY <2>1 DEF InitSkipped, Registered
    <2>2. CASE InitReturns(a) \/ InitJoined(a)
      <3>1. bus' = bus /\ mode[a] \in {"initing", "joining"}
        BY <2>2 DEF InitReturns, InitJoined, messaging
      <3>2. at[a] \in 1..Len(PlanOf[a])
        BY <1>1, NowType DEF Active
      <3>3. OnBus(a)
        BY DEF BusInv
      <3>4. Now(a).op = "transport" => Now(a).who \in bus
        BY <1>2, <3>1, <3>2, <3>3 DEF OnBus, Begun
      <3> QED BY <3>1, <3>4
    <2>3. CASE ListenSkipped(a) \/ ListenReturns(a) \/ DirectReturns(a)
      <3>1. bus' = bus
        BY <2>3 DEF ListenSkipped, ListenReturns, DirectReturns, messaging
      <3>2. Now(a).op \in {"listen", "store", "boot"}
        BY <2>3 DEF PlaceInv, Place, ListenSkipped, ListenReturns, DirectReturns
      <3> QED BY <3>1, <3>2
    <2> QED BY <2>1, <2>2, <2>3 DEF Finishes
  <1>4. targets' = targets \/ targets' = [targets EXCEPT ![a] = {}]
    BY DEF Finishes, InitSkipped, InitReturns, InitJoined, ListenSkipped, ListenReturns,
           DirectReturns, messaging
  <1>5. /\ targets' \in [App -> SUBSET (Token \cup Component)]
        /\ \A b \in App \ {a} : targets'[b] = targets[b]
    BY <1>4 DEF BusInv
  <1>6. OnBus(a)'
    <2>1. ASSUME NEW i \in 1..Len(PlanOf[a]), Begun(a, i)' PROVE i < at[a] \/ i = at[a]
      <3>1. i < at[a] + 1 /\ i \in Nat
        BY <1>1, <2>1 DEF Begun
      <3> QED BY <1>2, <3>1
    <2>2. OnBus(a)
      BY DEF BusInv
    <2> QED BY <1>2, <1>3, <2>1, <2>2 DEF OnBus, Begun
  <1>7. Targeted(a)'
    BY <1>1 DEF Targeted
  <1>8. \A b \in App \ {a} : OnBus(b)' /\ Targeted(b)'
    BY <1>1, <1>3, <1>5, BusOfOthers
  <1>9. bus' \subseteq Token \cup Component
    BY <1>2, <1>3 DEF BusInv
  <1> QED BY <1>5, <1>6, <1>7, <1>8, <1>9 DEF BusInv

LEMMA BusTurns ==
    ASSUME PlaceInv, BusInv, NEW a \in App, Turns(a) PROVE BusInv'
  <1>1. /\ OthersStay(a) /\ Active(a) /\ UNCHANGED <<at, made, gen>>
        /\ InitJoins(a) => mode'[a] = "joining"
        /\ InitBegins(a) => mode'[a] = "initing"
        /\ InitThrows(a) => mode'[a] = "failed"
        /\ ListenBegins(a) => mode'[a] = "listening"
        /\ ListenThrows(a) => mode'[a] = "failed"
        /\ DirectBegins(a) => mode'[a] = "running"
        /\ DirectThrows(a) => mode'[a] = "failed"
    BY TurnsMove
  <1>2. /\ Now(a) = PlanOf[a][at[a]] /\ Now(a).who \in Token \cup Component
        /\ at[a] \in 1..Len(PlanOf[a]) /\ Len(PlanOf[a]) \in Nat
    BY <1>1, NowType DEF Active
  <1>3. /\ bus \subseteq bus' /\ bus' \subseteq bus \cup {Now(a).who}
        /\ mode'[a] \in {"initing", "joining"} /\ Now(a).op = "transport" => Now(a).who \in bus'
    <2>1. CASE InitJoins(a) \/ InitBegins(a)
      BY <2>1 DEF InitJoins, InitBegins, Registered
    <2>2. CASE InitThrows(a) \/ ListenBegins(a) \/ ListenThrows(a) \/ DirectBegins(a) \/ DirectThrows(a)
      <3>1. bus' = bus
        BY <2>2 DEF InitThrows, ListenBegins, ListenThrows, DirectBegins, DirectThrows, messaging
      <3> QED BY <1>1, <2>2, <3>1
    <2> QED BY <2>1, <2>2 DEF Turns
  <1>4. /\ OnBus(a) /\ targets \in [App -> SUBSET (Token \cup Component)]
        /\ bus \subseteq Token \cup Component
    BY DEF BusInv
  <1>5. OnBus(a)'
    BY <1>1, <1>2, <1>3, <1>4 DEF OnBus, Begun
  <1>6. /\ targets' \in [App -> SUBSET (Token \cup Component)]
        /\ \A b \in App \ {a} : targets'[b] = targets[b]
        /\ ListenBegins(a) => targets'[a] = bus
    <2>1. \/ targets' = targets /\ ~ListenBegins(a)
          \/ targets' = [targets EXCEPT ![a] = {}] /\ ~ListenBegins(a)
          \/ targets' = [targets EXCEPT ![a] = bus]
      <3>1. ListenBegins(a) => targets' = [targets EXCEPT ![a] = bus]
        BY DEF ListenBegins
      <3>2. Turns(a) /\ ~ListenBegins(a) =>
              targets' = targets \/ targets' = [targets EXCEPT ![a] = {}]
        BY DEF Turns, InitJoins, InitBegins, InitThrows, ListenThrows, DirectBegins,
               DirectThrows, messaging
      <3> QED BY <3>1, <3>2
    <2> QED BY <1>4, <2>1
  <1>7. Targeted(a)'
    <2>1. CASE ListenBegins(a)
      <3>1. Now(a).op = "listen" /\ targets'[a] = bus
        BY <1>6, <2>1 DEF ListenBegins
      <3>2. ASSUME NEW t \in Range(Transports[Class[a]]) PROVE t \in bus
        <4>1. Announced(PlanOf[a], Class[a])
          BY PlanFacts
        <4>2. PICK j \in 1..(at[a] - 1) : /\ PlanOf[a][j].op = "transport"
                                          /\ PlanOf[a][j].who = t
          BY <1>2, <3>1, <4>1 DEF Announced
        <4>3. j \in 1..Len(PlanOf[a]) /\ j < at[a]
          BY <1>2
        <4> QED BY <1>4, <4>2, <4>3 DEF OnBus, Begun
      <3> QED BY <3>1, <3>2 DEF Targeted
    <2>2. CASE ~ListenBegins(a)
      <3>1. mode'[a] # "listening"
        BY <1>1, <2>2 DEF Turns
      <3> QED BY <3>1 DEF Targeted
    <2> QED BY <2>1, <2>2
  <1>8. \A b \in App \ {a} : OnBus(b)' /\ Targeted(b)'
    BY <1>1, <1>3, <1>6, BusOfOthers
  <1>9. bus' \subseteq Token \cup Component
    BY <1>2, <1>3, <1>4
  <1> QED BY <1>5, <1>6, <1>7, <1>8, <1>9 DEF BusInv

LEMMA BusStep == ASSUME PlaceInv, BusInv, [Next]_vars PROVE BusInv'
  <1>1. ASSUME NEW a \in App, Create(a) PROVE BusInv'
    <2>1. /\ OthersStay(a) /\ UNCHANGED <<bus, targets, at>> /\ mode'[a] = "ready" /\ at[a] = 1
      BY <1>1, CreateMoves DEF Create, messaging
    <2>2. \A b \in App \ {a} : OnBus(b)' /\ Targeted(b)'
      BY <2>1, BusOfOthers
    <2>3. OnBus(a)' /\ Targeted(a)'
      BY <2>1 DEF OnBus, Begun, Targeted
    <2> QED BY <2>1, <2>2, <2>3 DEF BusInv
  <1>2. ASSUME NEW a \in App, Continue(a) PROVE BusInv'
    BY <1>2, BusFinishes, BusTurns DEF Continue, Finishes, Turns
  <1>3. CASE Reset \/ UNCHANGED vars
    <2>1. UNCHANGED <<bus, targets, at, mode>>
      BY <1>3 DEF Reset, vars, control, messaging
    <2> QED BY <2>1 DEF BusInv, OnBus, Begun, Targeted
  <1> QED BY <1>1, <1>2, <1>3 DEF Next, Rest
-----------------------------------------------------------------------------
(* A handler with a subscription is remembered or excused, and one that is  *)
(* being listened for is neither, unless it is excused.                     *)
SubsNoted == \A x \in subs : x[2] \in registered \cup excused

NotNoted(a) == mode[a] = "listening" => Handler(a) \notin registered \/ Handler(a) \in excused

ListensAlone ==
    \A a, b \in App :
      mode[a] = "listening" /\ mode[b] = "listening" /\ a # b /\ Handler(a) = Handler(b)
        => Handler(a) \in excused

SubsInv == /\ SubsNoted /\ ListensAlone /\ TwiceOnlyIfExcused
           /\ \A a \in App : NotNoted(a)

LEMMA QuietListen ==
    ASSUME SubsInv, UNCHANGED <<registered, subs, excused>>,
           \A b \in App : mode'[b] = "listening" =>
             mode[b] = "listening" /\ at'[b] = at[b] /\ made'[b] = made[b]
    PROVE  SubsInv'
  <1>1. \A b \in App : mode'[b] = "listening" => Handler(b)' = Handler(b)
    BY DEF Handler, Instance, Now
  <1>2. SubsNoted' /\ TwiceOnlyIfExcused'
    BY DEF SubsInv, SubsNoted, TwiceOnlyIfExcused
  <1>3. ListensAlone'
    BY <1>1 DEF SubsInv, ListensAlone
  <1>4. \A a \in App : NotNoted(a)'
    BY <1>1 DEF SubsInv, NotNoted
  <1> QED BY <1>2, <1>3, <1>4 DEF SubsInv

LEMMA ListenBeginsSubs ==
    ASSUME PlaceInv, SubsInv, NEW a \in App, ListenBegins(a) PROVE SubsInv'
  <1>1. /\ OthersStay(a) /\ UNCHANGED <<at, made>> /\ mode[a] = "ready"
    BY TurnsMove DEF Turns
  <1>2. \A b \in App : Handler(b)' = Handler(b)
    BY <1>1 DEF Handler, Instance, Now
  <1>3. \A b \in App \ {a} : mode'[b] = "listening" => mode[b] = "listening"
    BY <1>1 DEF OthersStay
  <1>4. /\ Handler(a) \notin registered /\ UNCHANGED <<registered, subs>>
        /\ excused \subseteq excused'
        /\ (\E b \in App \ {a} : mode[b] = "listening" /\ Handler(b) = Handler(a))
             => Handler(a) \in excused'
    BY DEF ListenBegins
  <1>5. SubsNoted' /\ TwiceOnlyIfExcused'
    BY <1>4 DEF SubsInv, SubsNoted, TwiceOnlyIfExcused
  <1>6. \A b \in App : NotNoted(b)'
    BY <1>2, <1>3, <1>4 DEF SubsInv, NotNoted
  <1>7. ListensAlone'
    <2> SUFFICES ASSUME NEW b \in App, NEW c \in App, mode'[b] = "listening",
                        mode'[c] = "listening", b # c, Handler(b) = Handler(c)
                 PROVE  Handler(b) \in excused'
      BY <1>2 DEF ListensAlone
    <2>1. CASE b # a /\ c # a
      BY <1>3, <1>4, <2>1 DEF SubsInv, ListensAlone
    <2>2. CASE b = a
      BY <1>3, <1>4, <2>2
    <2>3. CASE c = a
      BY <1>3, <1>4, <2>3
    <2> QED BY <2>1, <2>2, <2>3
  <1> QED BY <1>5, <1>6, <1>7 DEF SubsInv

(* The listen of a call ends: it returns and is remembered, or throws and   *)
(* is excused if a transport has subscribed its handler.                    *)
LEMMA ListenEndsSubs ==
    ASSUME PlaceInv, SubsInv, NEW a \in App, NEW T, Subscribed(a, T), mode[a] = "listening",
           OthersStay(a), mode'[a] # "listening",
           \/ registered' = registered \cup {Handler(a)} /\ excused' = excused
           \/ registered' = registered /\ excused' = excused \cup {Handler(a)}
           \/ registered' = registered /\ excused' = excused /\ T = {}
    PROVE  SubsInv'
  <1> DEFINE h == Handler(a)
             new == {<<t, h, a, at[a]>> : t \in T}
  <1>1. subs' = subs \cup new
    BY DEF Subscribed
  <1>2. \A b \in App : mode'[b] = "listening" =>
          b # a /\ mode[b] = "listening" /\ Handler(b)' = Handler(b)
    BY DEF OthersStay, Handler, Instance, Now
  <1>3. NotNoted(a) /\ \A b \in App : mode'[b] = "listening" /\ Handler(b) = h => h \in excused
    BY <1>2 DEF SubsInv, ListensAlone
  <1>4. \A x \in new : x[2] = h /\ x = <<x[1], h, a, at[a]>>
    OBVIOUS
  <1>5. T = {} => new = {}
    OBVIOUS
  <1> HIDE DEF new
  <1>6. SubsNoted'
    BY <1>1, <1>4, <1>5 DEF SubsInv, SubsNoted
  <1>7. \A b \in App : NotNoted(b)'
    BY <1>2, <1>3 DEF SubsInv, NotNoted
  <1>8. ListensAlone'
    BY <1>2 DEF SubsInv, ListensAlone
  <1>9. TwiceOnlyIfExcused'
    <2> SUFFICES ASSUME NEW x \in subs', NEW y \in subs', x[1] = y[1], x[2] = y[2], x # y
                 PROVE  x[2] \in excused'
      BY DEF TwiceOnlyIfExcused
    <2>1. CASE x \in subs /\ y \in subs
      BY <2>1 DEF SubsInv, TwiceOnlyIfExcused
    <2>2. ~(x \in new /\ y \in new)
      BY <1>4
    <2>3. ASSUME NEW z \in subs, z[2] = h, new # {} PROVE h \in excused'
      <3>1. h \in registered \cup excused
        BY <2>3 DEF SubsInv, SubsNoted
      <3> QED BY <1>3, <1>5, <2>3, <3>1 DEF NotNoted
    <2> QED BY <1>1, <1>4, <2>1, <2>2, <2>3
  <1> QED BY <1>6, <1>7, <1>8, <1>9 DEF SubsInv

LEMMA SubsStep == ASSUME PlaceInv, SubsInv, [Next]_vars PROVE SubsInv'
  <1>1. ASSUME NEW a \in App, Create(a) PROVE SubsInv'
    <2>1. OthersStay(a) /\ mode'[a] = "ready" /\ UNCHANGED <<registered, subs, excused>>
      BY <1>1, CreateMoves DEF Create, messaging
    <2> QED BY <2>1, QuietListen DEF OthersStay
  <1>2. ASSUME NEW a \in App, ListenBegins(a) PROVE SubsInv'
    BY <1>2, ListenBeginsSubs
  <1>3. ASSUME NEW a \in App, ListenReturns(a) PROVE SubsInv'
    <2>1. OthersStay(a) /\ mode'[a] # "listening"
      BY <1>3, FinishesMove DEF Finishes
    <2> QED BY <1>3, <2>1, ListenEndsSubs DEF ListenReturns
  <1>4. ASSUME NEW a \in App, ListenThrows(a) PROVE SubsInv'
    <2>1. OthersStay(a) /\ mode'[a] # "listening"
      BY <1>4, TurnsMove DEF Turns
    <2>2. PICK T : /\ Subscribed(a, T)
                   /\ excused' = IF T = {} THEN excused ELSE excused \cup {Handler(a)}
      BY <1>4 DEF ListenThrows
    <2>3. mode[a] = "listening" /\ registered' = registered
      BY <1>4 DEF ListenThrows
    <2> QED BY <2>1, <2>2, <2>3, ListenEndsSubs
  <1>5. ASSUME NEW a \in App,
               InitSkipped(a) \/ InitReturns(a) \/ InitJoined(a) \/ ListenSkipped(a) \/ DirectReturns(a)
        PROVE  SubsInv'
    <2>1. OthersStay(a) /\ mode'[a] # "listening"
      BY <1>5, FinishesMove DEF Finishes
    <2>2. UNCHANGED <<registered, subs, excused>>
      BY <1>5 DEF InitSkipped, InitReturns, InitJoined, ListenSkipped, DirectReturns, messaging
    <2> QED BY <2>1, <2>2, QuietListen DEF OthersStay
  <1>6. ASSUME NEW a \in App,
               InitJoins(a) \/ InitBegins(a) \/ InitThrows(a) \/ DirectBegins(a) \/ DirectThrows(a)
        PROVE  SubsInv'
    <2>1. OthersStay(a) /\ mode'[a] # "listening"
      BY <1>6, TurnsMove DEF Turns
    <2>2. UNCHANGED <<registered, subs, excused>>
      BY <1>6 DEF InitJoins, InitBegins, InitThrows, DirectBegins, DirectThrows, messaging
    <2> QED BY <2>1, <2>2, QuietListen DEF OthersStay
  <1>7. CASE Reset \/ UNCHANGED vars
    BY <1>7, QuietListen DEF Reset, vars, control, messaging
  <1> QED BY <1>1, <1>2, <1>3, <1>4, <1>5, <1>6, <1>7 DEF Next, Rest, Continue

(* registerInstanceHandlers subscribes a handler on a transport a second    *)
(* time only if two calls were listening for it at once or a listen had     *)
(* failed on one transport after it had succeeded on another.               *)
THEOREM ApplicationSubscribesOnce == AppSpec => []TwiceOnlyIfExcused
  <1>1. AppInit => SubsInv
    BY DEF AppInit, Init, SubsInv, SubsNoted, NotNoted, ListensAlone, TwiceOnlyIfExcused
  <1>2. BootInv /\ SubsInv /\ [Prepares \/ Serves]_<<vars, requests>> => SubsInv'
    BY AppSteps, SubsStep DEF BootInv
  <1>3. SubsInv => TwiceOnlyIfExcused
    BY DEF SubsInv
  <1> QED BY <1>1, <1>2, <1>3, BootInvariant, PTL DEF AppSpec
-----------------------------------------------------------------------------
(* The handlers of a class are remembered for the process, whoever listened *)
(* for them: a call whose transports are not those of an earlier one does   *)
(* not subscribe what they share.                                           *)
SameTransports == \A a, b \in App : Range(Transports[Class[a]]) = Range(Transports[Class[b]])

(* A promise is kept only for what was initialised in this container or one *)
(* before.                                                                  *)
HasRun(t) == IF t \in Singleton THEN \E g \in 0..gen : <<t, g>> \in initialized
                                ELSE <<t>> \in initialized
KeptHasRun == \A t \in (Token \cup Component) \cap HasInit \cap (Singleton \cup Value) :
                promise[t] = "kept" => HasRun(t)

(* What a call has behind it is done.                                       *)
Behind == \A a \in App : \A i \in 1..(at[a] - 1) : IsReady(a, PlanOf[a][i])

(* A handler that is remembered is subscribed on every transport.           *)
OnAll(h) == \A a \in App : \A t \in Range(Transports[Class[a]]) :
              \E x \in subs : x[1] = t /\ x[2] = h
RegisteredOnAll == \A h \in registered : OnAll(h)

ReadyInv == KeptHasRun /\ Behind /\ RegisteredOnAll

LEMMA HasRunStays ==
    ASSUME NEW t, HasRun(t), initialized \subseteq initialized',
           gen \in Nat, gen' \in {gen, gen + 1}
    PROVE  HasRun(t)'
  <1>1. \A g \in 0..gen : g \in 0..gen'
    OBVIOUS
  <1> QED BY <1>1 DEF HasRun

LEMMA ReadyStays ==
    ASSUME NEW a, NEW s, IsReady(a, s), made'[a] = made[a],
           initialized \subseteq initialized', subs \subseteq subs'
    PROVE  IsReady(a, s)'
  BY DEF IsReady, Instance

(* Nothing that was initialised or subscribed is undone.                    *)
LEMMA NothingUndone == [Next]_vars => initialized \subseteq initialized' /\ subs \subseteq subs'
  <1> SUFFICES ASSUME [Next]_vars PROVE initialized \subseteq initialized' /\ subs \subseteq subs'
    OBVIOUS
  <1>1. ASSUME NEW a \in App, Continue(a) PROVE initialized \subseteq initialized'
    BY <1>1 DEF Continue, InitSkipped, InitJoins, InitBegins, InitReturns, InitJoined, InitThrows,
       ListenSkipped, ListenBegins, ListenReturns, ListenThrows, DirectBegins, DirectReturns,
       DirectThrows, inits
  <1>2. ASSUME NEW a \in App, Continue(a) PROVE subs \subseteq subs'
    BY <1>2 DEF Continue, InitSkipped, InitJoins, InitBegins, InitReturns, InitJoined, InitThrows,
       ListenSkipped, ListenBegins, ListenReturns, ListenThrows, DirectBegins, DirectReturns,
       DirectThrows, messaging, Subscribed
  <1>3. ASSUME NEW a \in App, Create(a) PROVE UNCHANGED <<initialized, subs>>
    BY <1>3 DEF Create, inits, messaging
  <1>4. CASE Reset \/ UNCHANGED vars
    BY <1>4 DEF Reset, vars, inits, messaging
  <1> QED BY <1>1, <1>2, <1>3, <1>4 DEF Next, Rest

(* Where the next generation of promises comes from.                        *)
LEMMA KeptStep ==
    ASSUME PlaceInv, KeptHasRun, [Next]_vars PROVE KeptHasRun'
  <1>0. initialized \subseteq initialized' /\ gen \in Nat
    BY NothingUndone DEF PlaceInv
  <1>1. ASSUME gen' \in {gen, gen + 1},
               \A t \in Token \cup Component : promise'[t] = "kept" => promise[t] = "kept"
        PROVE  KeptHasRun'
    BY <1>0, <1>1, HasRunStays DEF KeptHasRun
  <1>2. ASSUME NEW a \in App, NEW t, t = Now(a).who, InitSkipped(a) \/ InitReturns(a)
        PROVE  KeptHasRun'
    <2>1. Active(a) /\ UNCHANGED <<made, gen>>
      BY <1>2, FinishesMove DEF Finishes
    <2>2. t \in Token \cup Component /\ promise \in PromiseType /\ made[a] = gen
      BY <1>2, <2>1, NowType DEF Active, PlaceInv, Place
    <2>3. \A u \in Token \cup Component : u # t => promise'[u] = promise[u]
      <3>1. \/ promise' = [promise EXCEPT ![t] = "kept"]
            \/ promise' = [promise EXCEPT ![t] = @]
        BY <1>2 DEF InitSkipped, InitReturns
      <3> QED BY <2>2, <3>1 DEF PromiseType
    <2>4. ASSUME t \in HasInit \cap (Singleton \cup Value) PROVE HasRun(t)'
      <3>1. CASE promise[t] = "kept"
        BY <1>0, <2>1, <2>2, <2>4, <3>1, HasRunStays DEF KeptHasRun
      <3>2. CASE Instance(a, Now(a)) \in initialized'
        <4>1. Instance(a, Now(a)) = IF t \in Singleton THEN <<t, gen>> ELSE <<t>>
          BY <1>2, <2>2, <2>4 DEF Instance
        <4>2. gen \in 0..gen' /\ gen' = gen
          BY <1>0, <2>1
        <4> QED BY <3>2, <4>1, <4>2 DEF HasRun
      <3>3. promise[t] = "kept" \/ Instance(a, Now(a)) \in initialized'
        BY <1>0, <1>2, <2>4 DEF InitSkipped, InitReturns
      <3> QED BY <3>1, <3>2, <3>3
    <2>5. \A u \in (Token \cup Component) \cap HasInit \cap (Singleton \cup Value) :
            u # t /\ promise'[u] = "kept" => HasRun(u)'
      BY <1>0, <2>1, <2>3, HasRunStays DEF KeptHasRun
    <2> QED BY <2>4, <2>5 DEF KeptHasRun
  <1>3. ASSUME NEW a \in App, InitBegins(a) \/ InitThrows(a) PROVE KeptHasRun'
    <2>1. /\ UNCHANGED gen
          /\ \/ promise' = [promise EXCEPT ![Now(a).who] = "pending"]
             \/ promise' = [promise EXCEPT ![Now(a).who] = "none"]
      BY <1>3 DEF InitBegins, InitThrows
    <2>2. promise \in PromiseType
      BY DEF PlaceInv
    <2>3. \A t \in Token \cup Component : promise'[t] = "kept" => promise[t] = "kept"
      BY <2>1, <2>2 DEF PromiseType
    <2> QED BY <1>1, <2>1, <2>3
  <1>4. ASSUME NEW a \in App,
               \/ InitJoins(a) \/ InitJoined(a) \/ ListenSkipped(a) \/ ListenBegins(a)
               \/ ListenReturns(a) \/ ListenThrows(a) \/ DirectBegins(a) \/ DirectReturns(a)
               \/ DirectThrows(a)
        PROVE  KeptHasRun'
    <2>1. UNCHANGED <<gen, promise>>
      BY <1>4 DEF InitJoins, InitJoined, ListenSkipped, ListenBegins, ListenReturns, ListenThrows,
         DirectBegins, DirectReturns, DirectThrows, inits
    <2> QED BY <1>1, <2>1
  <1>5. ASSUME NEW a \in App, Create(a) PROVE KeptHasRun'
    BY <1>1, <1>5 DEF Create, inits
  <1>6. CASE Reset
    BY <1>1, <1>6 DEF Reset, inits
  <1>7. CASE UNCHANGED vars
    BY <1>1, <1>7 DEF vars, control, inits
  <1> QED BY <1>2, <1>3, <1>4, <1>5, <1>6, <1>7 DEF Next, Rest, Continue

LEMMA RegisteredStep ==
    ASSUME SameTransports, BusInv, RegisteredOnAll, [Next]_vars PROVE RegisteredOnAll'
  <1>1. ASSUME NEW h, OnAll(h) PROVE OnAll(h)'
    BY <1>1, NothingUndone DEF OnAll
  <1>2. ASSUME registered' = registered PROVE RegisteredOnAll'
    BY <1>1, <1>2 DEF RegisteredOnAll
  <1>3. ASSUME NEW a \in App, ListenReturns(a) PROVE RegisteredOnAll'
    <2>1. /\ mode[a] = "listening" /\ registered' = registered \cup {Handler(a)}
          /\ subs' = subs \cup {<<t, Handler(a), a, at[a]>> : t \in targets[a]}
      BY <1>3 DEF ListenReturns, Subscribed
    <2> DEFINE h == Handler(a)
    <2>2. ASSUME NEW b \in App, NEW t \in Range(Transports[Class[b]])
          PROVE  \E x \in subs' : x[1] = t /\ x[2] = h
      <3>1. t \in targets[a]
        BY <2>1, <2>2 DEF BusInv, Targeted, SameTransports
      <3>2. <<t, h, a, at[a]>> \in subs'
        BY <2>1, <3>1
      <3> QED BY <3>2
    <2> HIDE DEF h
    <2>3. \A g \in registered : OnAll(g)'
      BY <1>1 DEF RegisteredOnAll
    <2> QED BY <2>1, <2>2, <2>3 DEF RegisteredOnAll, OnAll, h
  <1>4. ASSUME NEW a \in App, Continue(a), ~ListenReturns(a) PROVE registered' = registered
    BY <1>4 DEF Continue, InitSkipped, InitJoins, InitBegins, InitReturns, InitJoined, InitThrows,
       ListenSkipped, ListenBegins, ListenThrows, DirectBegins, DirectReturns,
       DirectThrows, messaging
  <1>5. ASSUME NEW a \in App, Create(a) PROVE registered' = registered
    BY <1>5 DEF Create, messaging
  <1>6. CASE Reset \/ UNCHANGED vars
    BY <1>2, <1>6 DEF Reset, vars, messaging
  <1> QED BY <1>2, <1>3, <1>4, <1>5, <1>6 DEF Next, Rest

(* The step a call finishes is done.                                        *)
LEMMA FinishedIsReady ==
    ASSUME PlaceInv, KeptHasRun', RegisteredOnAll', NEW a \in App, Finishes(a),
           NEW s, s = Now(a)
    PROVE  IsReady(a, s)'
  <1>1. Active(a) /\ UNCHANGED <<made, gen>>
    BY FinishesMove
  <1>2. s.who \in Token \cup Component /\ made[a] = gen /\ gen \in Nat /\ promise \in PromiseType
    BY <1>1, NowType DEF Active, PlaceInv, Place
  <1>3. CASE InitSkipped(a) \/ InitReturns(a) \/ InitJoined(a)
    <2>1. s.op \in {"init", "transport"}
      BY <1>3 DEF InitSkipped, AtInit, InitReturns, InitJoined, PlaceInv, Place
    <2>2. s.who \in HasInit => promise'[s.who] = "kept"
      <3>1. CASE InitJoined(a)
        BY <3>1 DEF InitJoined, inits
      <3>2. CASE InitSkipped(a) \/ InitReturns(a)
        <4>1. s.who \in HasInit => promise' = [promise EXCEPT ![s.who] = "kept"]
          BY <3>2 DEF InitSkipped, InitReturns
        <4> QED BY <1>2, <4>1 DEF PromiseType
      <3> QED BY <1>3, <3>1, <3>2
    <2>3. ASSUME s.who \in HasInit \cap (Singleton \cup Value)
          PROVE  \/ Instance(a, s)' \in initialized'
                 \/ \E g \in 0..(made'[a] - 1) : <<s.who, g>> \in initialized'
      <3>1. HasRun(s.who)'
        BY <1>2, <2>2, <2>3 DEF KeptHasRun
      <3>2. CASE s.who \in Singleton
        <4>1. PICK g \in 0..gen : <<s.who, g>> \in initialized'
          BY <1>1, <3>1, <3>2 DEF HasRun
        <4>2. Instance(a, s)' = <<s.who, gen>>
          BY <1>1, <1>2, <3>2 DEF Instance
        <4>3. g = gen \/ g \in 0..(gen - 1)
          BY <1>2
        <4>4. made'[a] = gen
          BY <1>1, <1>2
        <4> QED BY <4>1, <4>2, <4>3, <4>4
      <3>3. CASE s.who \notin Singleton
        <4>1. Instance(a, s)' = <<s.who>> /\ <<s.who>> \in initialized'
          BY <2>3, <3>1, <3>3 DEF Instance, HasRun
        <4> QED BY <4>1
      <3> QED BY <3>2, <3>3
    <2> QED BY <2>1, <2>3 DEF IsReady
  <1>4. CASE ListenSkipped(a) \/ ListenReturns(a)
    <2>1. s.op = "listen"
      BY <1>4 DEF ListenSkipped, ListenReturns, PlaceInv, Place
    <2>2. PICK h : h = <<Instance(a, s), s.on>>
      OBVIOUS
    <2>3. h \in registered'
      BY <1>4, <2>2 DEF ListenSkipped, ListenReturns, Handler, messaging
    <2>4. Instance(a, s)' = Instance(a, s)
      BY <1>1 DEF Instance
    <2>5. OnAll(h)'
      BY <2>3 DEF RegisteredOnAll
    <2> QED BY <2>1, <2>2, <2>4, <2>5 DEF IsReady, OnAll
  <1>5. CASE DirectReturns(a)
    <2>1. s.op \in {"store", "boot"}
      BY <1>5 DEF DirectReturns, PlaceInv, Place
    <2> QED BY <2>1 DEF IsReady
  <1> QED BY <1>3, <1>4, <1>5 DEF Finishes

LEMMA BehindStep ==
    ASSUME PlaceInv, Behind, KeptHasRun', RegisteredOnAll', [Next]_vars PROVE Behind'
  <1>0. initialized \subseteq initialized' /\ subs \subseteq subs'
    BY NothingUndone
  <1>1. ASSUME NEW b \in App, at'[b] = at[b], made'[b] = made[b], NEW i \in 1..(at'[b] - 1)
        PROVE  IsReady(b, PlanOf[b][i])'
    BY <1>0, <1>1, ReadyStays DEF Behind
  <1>2. ASSUME NEW a \in App, Finishes(a) PROVE Behind'
    <2>1. OthersStay(a) /\ at'[a] = at[a] + 1 /\ made'[a] = made[a] /\ Active(a)
      BY <1>2, FinishesMove
    <2>2. Now(a) = PlanOf[a][at[a]] /\ at[a] \in Nat
      BY <2>1, NowType DEF Active
    <2>3. ASSUME NEW i \in 1..(at'[a] - 1) PROVE IsReady(a, PlanOf[a][i])'
      <3>1. i \in 1..(at[a] - 1) \/ i = at[a]
        BY <2>1, <2>2
      <3>2. CASE i \in 1..(at[a] - 1)
        BY <1>0, <2>1, <3>2, ReadyStays DEF Behind
      <3>3. CASE i = at[a]
        BY <1>2, <2>2, <3>3, FinishedIsReady
      <3> QED BY <3>1, <3>2, <3>3
    <2>4. ASSUME NEW b \in App, b # a, NEW i \in 1..(at'[b] - 1)
          PROVE  IsReady(b, PlanOf[b][i])'
      BY <1>1, <2>1, <2>4 DEF OthersStay
    <2> QED BY <2>3, <2>4 DEF Behind
  <1>3. ASSUME NEW a \in App, Turns(a) PROVE Behind'
    <2>1. UNCHANGED <<at, made>>
      BY <1>3, TurnsMove
    <2> QED BY <1>1, <2>1 DEF Behind
  <1>4. ASSUME NEW a \in App, Create(a) PROVE Behind'
    <2>1. OthersStay(a) /\ at'[a] = 1
      BY <1>4, CreateMoves
    <2>2. ASSUME NEW b \in App, b # a, NEW i \in 1..(at'[b] - 1)
          PROVE  IsReady(b, PlanOf[b][i])'
      BY <1>1, <2>1, <2>2 DEF OthersStay
    <2> QED BY <2>1, <2>2 DEF Behind
  <1>5. CASE Reset \/ UNCHANGED vars
    <2>1. UNCHANGED <<at, made>>
      BY <1>5 DEF Reset, vars, control
    <2> QED BY <1>1, <2>1 DEF Behind
  <1> QED BY <1>2, <1>3, <1>4, <1>5 DEF Next, Rest, Continue, Finishes, Turns

(* If all calls have the same transports, an application that is up has     *)
(* initialised its singletons and transports and subscribed each of its     *)
(* handlers on each of its transports, whatever went on in other calls and  *)
(* whatever failed before.                                                  *)
THEOREM ApplicationIsReady ==
    ASSUME SameTransports PROVE AppSpec => []UpIsReady
  <1>1. AppInit => BusInv /\ ReadyInv
    <2> SUFFICES ASSUME AppInit PROVE BusInv /\ ReadyInv
      OBVIOUS
    <2>1. BusInv
      BY DEF AppInit, Init, BusInv, OnBus, Begun, Targeted
    <2>2. ReadyInv
      BY DEF AppInit, Init, ReadyInv, KeptHasRun, Behind, RegisteredOnAll
    <2> QED BY <2>1, <2>2
  <1>2. BootInv /\ BusInv /\ ReadyInv /\ [Prepares \/ Serves]_<<vars, requests>>
          => BusInv' /\ ReadyInv'
    BY AppSteps, BusStep, KeptStep, RegisteredStep, BehindStep DEF BootInv, ReadyInv
  <1>3. BootInv /\ ReadyInv => UpIsReady
    <2> SUFFICES ASSUME BootInv, ReadyInv, NEW a \in App, mode[a] = "up",
                        NEW s \in Range(PlanOf[a])
                 PROVE  IsReady(a, s)
      BY DEF UpIsReady
    <2>1. /\ PlanOf[a] \in Seq(Steps) /\ Len(PlanOf[a]) \in Nat
          /\ at[a] = Len(PlanOf[a]) + 1
      BY PlanFacts DEF BootInv, PlaceInv, Place
    <2>2. PICK i \in 1..Len(PlanOf[a]) : s = PlanOf[a][i]
      BY <2>1, LenProperties DEF Range
    <2>3. i \in 1..(at[a] - 1)
      BY <2>1
    <2> QED BY <2>2, <2>3 DEF ReadyInv, Behind
  <1> QED BY <1>1, <1>2, <1>3, BootInvariant, PTL DEF AppSpec
-----------------------------------------------------------------------------
(* The request.                                                             *)
LEMMA RequestSteps ==
    [Prepares \/ Serves]_<<vars, requests>> => [Request!Step]_requests
  BY DEF Prepares, Serves

(* What there is of answers and results.                                    *)
Answering ==
    /\ answers \in 0..1
    /\ result \in {"none", "value", "undefined"}
    /\ pc = "done" /\ result # "undefined" => answers = 1

LEMMA AnsweringStep == Answering /\ [Request!Step]_requests => Answering'
  <1> SUFFICES ASSUME Answering, [Request!Step]_requests PROVE Answering'
    OBVIOUS
  <1> USE DEF Answering
  <1>1. CASE Request!Receive
    BY <1>1 DEF Request!Receive
  <1>2. CASE Request!GuardAllows
    BY <1>2 DEF Request!GuardAllows, Request!Passes
  <1>3. CASE Request!GuardRefuses
    BY <1>3 DEF Request!GuardRefuses, Request!AnswerError
  <1>4. CASE Request!MiddlewareNext
    BY <1>4 DEF Request!MiddlewareNext, Request!Passes
  <1>5. CASE Request!MiddlewareEnds
    BY <1>5 DEF Request!MiddlewareEnds, Request!AnswerError
  <1>6. CASE Request!TimerAnswers
    BY <1>6 DEF Request!TimerAnswers
  <1>7. CASE Request!ArgumentsResolved
    BY <1>7 DEF Request!ArgumentsResolved
  <1>8. CASE Request!Throws
    BY <1>8 DEF Request!Throws, Request!AnswerError
  <1>9. CASE Request!HandlerReturns
    BY <1>9 DEF Request!HandlerReturns
  <1>10. CASE Request!Send
    BY <1>10 DEF Request!Send
  <1>11. CASE UNCHANGED requests
    BY <1>11 DEF requests
  <1> QED BY <1>1, <1>2, <1>3, <1>4, <1>5, <1>6, <1>7, <1>8, <1>9, <1>10, <1>11 DEF Request!Step

(* A request is answered at most once, and once at the end unless its       *)
(* handler returned undefined, whoever answers while something is awaited.  *)
THEOREM ApplicationAnswersOnce == AppSpec => []AnsweredOnce
  <1>1. AppInit => Answering
    BY DEF AppInit, Request!Init, Answering
  <1>2. Answering /\ [Prepares \/ Serves]_<<vars, requests>> => Answering'
    BY RequestSteps, AnsweringStep
  <1>3. Answering => AnsweredOnce
    BY DEF Answering, AnsweredOnce, Request!AnsweredOnce
  <1> QED BY <1>1, <1>2, <1>3, PTL DEF AppSpec

(* What the guards of a route are made of.                                  *)
GuardNames == UNION {Range(Middlewares[c]) \cup Scopes[c] \cup Roles[c] : c \in Layer \cup Route}
GuardType == [kind : {"middleware", "scopes", "roles"}, names : SUBSET GuardNames]
Asks(s, kind, names) == names # {} => Holds(s, [kind |-> kind, names |-> names])

LEMMA OneGuard ==
    ASSUME NEW names \in SUBSET GuardNames
    PROVE  /\ Request!ScopeGuard(names) \in Seq(GuardType)
           /\ Request!RoleGuard(names) \in Seq(GuardType)
           /\ Asks(Request!ScopeGuard(names), "scopes", names)
           /\ Asks(Request!RoleGuard(names), "roles", names)
  <1>1. ASSUME NEW kind \in {"scopes", "roles"}
        PROVE  /\ Request!Guard(kind, names) \in Seq(GuardType)
               /\ Holds(Request!Guard(kind, names), [kind |-> kind, names |-> names])
    <2> DEFINE g == [kind |-> kind, names |-> names]
    <2>1. g \in GuardType
      BY DEF GuardType
    <2> HIDE DEF g
    <2>2. <<g>> \in Seq(GuardType) /\ Len(<<g>>) = 1 /\ <<g>>[1] = g
      BY <2>1
    <2>3. Holds(<<g>>, g)
      BY <2>2 DEF Holds
    <2> QED BY <2>2, <2>3 DEF Request!Guard, g
  <1>2. << >> \in Seq(GuardType)
    OBVIOUS
  <1> QED BY <1>1, <1>2 DEF Request!ScopeGuard, Request!RoleGuard, Asks

LEMMA MiddlewareGuards ==
    ASSUME NEW c \in Layer \cup Route PROVE Request!MiddlewaresOf(c) \in Seq(GuardType)
  <1>1. Middlewares[c] \in Seq(Range(Middlewares[c]))
    BY ApplicationAssumption
  <1>2. Len(Middlewares[c]) \in Nat /\ DOMAIN Middlewares[c] = 1..Len(Middlewares[c])
    BY <1>1, LenProperties
  <1>3. ASSUME NEW i \in 1..Len(Middlewares[c])
        PROVE  [kind |-> "middleware", names |-> {Middlewares[c][i]}] \in GuardType
    <2>1. Middlewares[c][i] \in GuardNames
      BY <1>2 DEF GuardNames, Range
    <2> QED BY <2>1 DEF GuardType
  <1> QED BY <1>2, <1>3 DEF Request!MiddlewaresOf

LEMMA AsksJoined ==
    ASSUME NEW s \in Seq(GuardType), NEW t \in Seq(GuardType)
    PROVE  /\ s \o t \in Seq(GuardType)
           /\ \A kind, names : Asks(s, kind, names) \/ Asks(t, kind, names)
                                 => Asks(s \o t, kind, names)
  <1>1. s \o t \in Seq(GuardType) /\ \A x : Holds(s, x) \/ Holds(t, x) => Holds(s \o t, x)
    BY Joined
  <1> QED BY <1>1 DEF Asks

LEMMA LayerGuards ==
    ASSUME NEW c \in Layer
    PROVE  /\ Request!applyCommonPipeline(c) \in Seq(GuardType)
           /\ Asks(Request!applyCommonPipeline(c), "scopes", Scopes[c])
           /\ Asks(Request!applyCommonPipeline(c), "roles", Roles[c])
  <1>1. Scopes[c] \in SUBSET GuardNames /\ Roles[c] \in SUBSET GuardNames
    BY DEF GuardNames
  <1> DEFINE m == Request!MiddlewaresOf(c)
             s == Request!ScopeGuard(Scopes[c])
             r == Request!RoleGuard(Roles[c])
  <1>2. m \in Seq(GuardType) /\ s \in Seq(GuardType) /\ r \in Seq(GuardType)
    BY <1>1, MiddlewareGuards, OneGuard
  <1>3. Asks(s, "scopes", Scopes[c]) /\ Asks(r, "roles", Roles[c])
    BY <1>1, OneGuard
  <1>4. Request!applyCommonPipeline(c) = (m \o s) \o r
    BY DEF Request!applyCommonPipeline
  <1> HIDE DEF m, s, r
  <1>5. m \o s \in Seq(GuardType) /\ Asks(m \o s, "scopes", Scopes[c])
    BY <1>2, <1>3, AsksJoined
  <1>6. /\ (m \o s) \o r \in Seq(GuardType)
        /\ Asks((m \o s) \o r, "scopes", Scopes[c]) /\ Asks((m \o s) \o r, "roles", Roles[c])
    BY <1>2, <1>3, <1>5, AsksJoined
  <1> QED BY <1>4, <1>6

LEMMA RouteGuards ==
    ASSUME NEW r \in Route, NEW c \in Layer, c = Last(Above[r])
    PROVE  /\ Request!prepareRoute(r) \in Seq(GuardType)
           /\ Asks(Request!prepareRoute(r), "scopes", Scopes[c] \cup Scopes[r])
           /\ Asks(Request!prepareRoute(r), "roles", Roles[c] \cup Roles[r])
  <1> DEFINE S == Scopes[c] \cup Scopes[r]
             R == Roles[c] \cup Roles[r]
             m == Request!MiddlewaresOf(r)
             p == Request!RoleGuard(R)
             q == Request!ScopeGuard(S)
  <1>1. S \in SUBSET GuardNames /\ R \in SUBSET GuardNames
    BY DEF GuardNames
  <1>2. Request!prepareRoute(r) = (m \o p) \o q
    BY DEF Request!prepareRoute, Request!Last, Last
  <1> HIDE DEF S, R
  <1>3. /\ m \in Seq(GuardType) /\ p \in Seq(GuardType) /\ q \in Seq(GuardType)
        /\ Asks(p, "roles", R) /\ Asks(q, "scopes", S)
    BY <1>1, MiddlewareGuards, OneGuard
  <1> HIDE DEF m, p, q
  <1>4. m \o p \in Seq(GuardType) /\ Asks(m \o p, "roles", R)
    BY <1>3, AsksJoined
  <1>5. /\ (m \o p) \o q \in Seq(GuardType)
        /\ Asks((m \o p) \o q, "roles", R) /\ Asks((m \o p) \o q, "scopes", S)
    BY <1>3, <1>4, AsksJoined
  <1> QED BY <1>2, <1>5 DEF S, R

(* A route is guarded by what each layer above it asks for and by what its  *)
(* controller and itself ask for together.                                  *)
LEMMA GuardsOfRoute ==
    ASSUME NEW r \in Route, NEW c, c = Last(Above[r])
    PROVE  /\ Request!Guards[r] \in Seq(GuardType)
           /\ \A l \in Range(Above[r]) : /\ Asks(Request!Guards[r], "scopes", Scopes[l])
                                         /\ Asks(Request!Guards[r], "roles", Roles[l])
           /\ Asks(Request!Guards[r], "scopes", Scopes[c] \cup Scopes[r])
           /\ Asks(Request!Guards[r], "roles", Roles[c] \cup Roles[r])
  <1> DEFINE s == Above[r]
             g == [i \in DOMAIN s |-> Request!applyCommonPipeline(s[i])]
             f == FlattenSeq(g)
             p == Request!prepareRoute(r)
  <1>1. s \in Seq(Layer) /\ s # <<>>
    BY ApplicationAssumption
  <1>2. Len(s) \in Nat /\ Len(s) > 0 /\ DOMAIN s = 1..Len(s) /\ \A i \in 1..Len(s) : s[i] \in Layer
    BY <1>1, LenProperties, EmptySeq, ElementOfSeq
  <1>3. c \in Layer
    BY <1>2 DEF Last
  <1>4. g \in [1..Len(s) -> Seq(GuardType)]
    BY <1>2, LayerGuards
  <1>5. /\ f \in Seq(GuardType)
        /\ \A i \in 1..Len(s) : \A x : Holds(g[i], x) => Holds(f, x)
    BY <1>2, <1>4, FlattenedLists
  <1>6. p \in Seq(GuardType)
    BY <1>3, RouteGuards
  <1>7. Request!Guards[r] = f \o p
    BY DEF Request!Guards, Request!GuardsOf, Request!FlattenSeq, FlattenSeq
  <1>8. f \o p \in Seq(GuardType) /\ \A x : Holds(f, x) \/ Holds(p, x) => Holds(f \o p, x)
    BY <1>5, <1>6, Joined
  <1>9. ASSUME NEW l \in Range(s)
        PROVE  Asks(f, "scopes", Scopes[l]) /\ Asks(f, "roles", Roles[l])
    <2>1. PICK i \in 1..Len(s) : l = s[i]
      BY <1>2 DEF Range
    <2>2. l \in Layer /\ g[i] = Request!applyCommonPipeline(l)
      BY <1>2, <2>1
    <2>3. Asks(g[i], "scopes", Scopes[l]) /\ Asks(g[i], "roles", Roles[l])
      BY <2>2, LayerGuards
    <2> QED BY <1>5, <2>3 DEF Asks
  <1>10. Asks(p, "scopes", Scopes[c] \cup Scopes[r]) /\ Asks(p, "roles", Roles[c] \cup Roles[r])
    BY <1>3, RouteGuards
  <1> HIDE DEF f, p
  <1> QED BY <1>7, <1>8, <1>9, <1>10 DEF Asks

(* The request has come past every guard before the one it is at.           *)
Grants(kind, names) == IF kind = "scopes"
                       THEN names \subseteq held["scopes"] \/ FULL_ACCESS \in held["scopes"]
                       ELSE names \cap held["roles"] # {} \/ FULL_ACCESS \in held["roles"]
Passed(g) == g.kind \in {"scopes", "roles"} => Grants(g.kind, g.names)

GuardInv ==
    /\ guard \in Nat
    /\ pc = "none" => guard = 1
    /\ pc # "none" => route \in Route
    /\ pc = "guards" => guard <= Len(Request!Guards[route])
    /\ pc \in {"arguments", "handler", "transform"} => guard = Len(Request!Guards[route]) + 1
    /\ pc # "none" => \A i \in 1..(guard - 1) : Passed(Request!Guards[route][i])

LEMMA AllowsGrants ==
    Request!Allows => Passed(Request!Now)
  <1> SUFFICES ASSUME Request!Allows PROVE Passed(Request!Now)
    OBVIOUS
  <1>1. CASE Request!Now.kind = "roles"
    <2>1. Request!RoleAllows
      BY <1>1, Zenon DEF Request!Allows
    <2> QED BY <1>1, <2>1 DEF Request!RoleAllows, Request!Has, Passed, Grants
  <1>2. CASE Request!Now.kind = "scopes"
    <2>1. Request!ScopeAllows
      BY <1>2, Zenon DEF Request!Allows
    <2> QED BY <1>2, <2>1 DEF Request!ScopeAllows, Request!Has, Passed, Grants
  <1> QED BY <1>1, <1>2 DEF Passed

LEMMA GuardStep == GuardInv /\ [Request!Step]_requests => GuardInv'
  <1> SUFFICES ASSUME GuardInv, [Request!Step]_requests PROVE GuardInv'
    OBVIOUS
  <1>1. CASE Request!Receive
    <2>1. /\ guard' = 1 /\ route' \in Route
          /\ pc' = IF Request!Guards[route'] = <<>> THEN "arguments" ELSE "guards"
      BY <1>1 DEF Request!Receive, GuardInv
    <2>2. PICK r \in Route : r = route'
      BY <2>1
    <2>3. /\ Len(Request!Guards[r]) \in Nat
          /\ Request!Guards[r] = <<>> <=> Len(Request!Guards[r]) = 0
      BY GuardsOfRoute, LenProperties, EmptySeq
    <2> QED BY <2>1, <2>2, <2>3 DEF GuardInv
  <1>2. ASSUME pc = "guards", Request!Passes, Passed(Request!Now), UNCHANGED <<route, held>>
        PROVE  GuardInv'
    <2>1. /\ route \in Route /\ guard \in Nat /\ guard <= Len(Request!Guards[route])
          /\ \A i \in 1..(guard - 1) : Passed(Request!Guards[route][i])
      BY <1>2 DEF GuardInv
    <2>2. Len(Request!Guards[route]) \in Nat
      BY <2>1, GuardsOfRoute, LenProperties
    <2>3. /\ guard' = guard + 1
          /\ pc' = IF guard < Len(Request!Guards[route]) THEN "guards" ELSE "arguments"
      BY <1>2 DEF Request!Passes
    <2>4. ASSUME NEW i \in 1..(guard' - 1) PROVE Passed(Request!Guards[route][i])
      <3>1. i \in 1..(guard - 1) \/ i = guard
        BY <2>1, <2>3
      <3> QED BY <1>2, <2>1, <3>1 DEF Request!Now
    <2>5. \A g : Passed(g)' <=> Passed(g)
      BY <1>2 DEF Passed, Grants
    <2> QED BY <1>2, <2>1, <2>2, <2>3, <2>4 DEF GuardInv, Passed, Grants
  <1>3. CASE Request!GuardAllows
    BY <1>2, <1>3, AllowsGrants DEF Request!GuardAllows
  <1>4. CASE Request!MiddlewareNext
    BY <1>2, <1>4 DEF Request!MiddlewareNext, Passed
  <1>5. ASSUME UNCHANGED <<route, held, guard>>, pc # "none",
               \/ pc' = pc \/ pc' = "done"
               \/ /\ pc \in {"arguments", "handler", "transform"}
                  /\ pc' \in {"arguments", "handler", "transform"}
        PROVE  GuardInv'
    BY <1>5 DEF GuardInv, Passed, Grants
  <1>6. CASE Request!GuardRefuses \/ Request!MiddlewareEnds
    BY <1>5, <1>6 DEF Request!GuardRefuses, Request!MiddlewareEnds
  <1>7. CASE Request!TimerAnswers
    BY <1>5, <1>7 DEF Request!TimerAnswers
  <1>8. CASE Request!ArgumentsResolved \/ Request!Throws
    BY <1>5, <1>8 DEF Request!ArgumentsResolved, Request!Throws
  <1>9. CASE Request!HandlerReturns
    BY <1>5, <1>9 DEF Request!HandlerReturns
  <1>10. CASE Request!Send
    BY <1>5, <1>10 DEF Request!Send
  <1>11. CASE UNCHANGED requests
    BY <1>11 DEF requests, GuardInv, Passed, Grants
  <1> QED BY <1>1, <1>3, <1>4, <1>6, <1>7, <1>8, <1>9, <1>10, <1>11 DEF Request!Step

LEMMA PastItsGuards ==
    ASSUME GuardInv, pc \in {"handler", "transform"},
           NEW kind \in {"scopes", "roles"}, NEW names, Asks(Request!Guards[route], kind, names)
    PROVE  names = {} \/ Grants(kind, names)
  <1> SUFFICES ASSUME names # {} PROVE Grants(kind, names)
    OBVIOUS
  <1>1. /\ route \in Route /\ guard = Len(Request!Guards[route]) + 1
        /\ \A i \in 1..(guard - 1) : Passed(Request!Guards[route][i])
    BY DEF GuardInv
  <1>2. Len(Request!Guards[route]) \in Nat
    BY <1>1, GuardsOfRoute, LenProperties
  <1>3. PICK k \in 1..Len(Request!Guards[route]) :
          Request!Guards[route][k] = [kind |-> kind, names |-> names]
    BY DEF Asks, Holds
  <1>4. Passed([kind |-> kind, names |-> names])
    BY <1>1, <1>2, <1>3
  <1> QED BY <1>4 DEF Passed

(* A handler runs only for a request that was given every scope asked for   *)
(* by a layer above it or by its route, for each layer that asks for roles  *)
(* one of them, and one of those of its controller and route: however many  *)
(* layers there are and whatever middlewares run in between.                *)
THEOREM ApplicationGuardsHandlers == AppSpec => []HandlerAllowed
  <1>1. AppInit => GuardInv
    BY DEF AppInit, Request!Init, GuardInv
  <1>2. GuardInv /\ [Prepares \/ Serves]_<<vars, requests>> => GuardInv'
    BY RequestSteps, GuardStep
  <1>3. GuardInv => HandlerAllowed
    <2> SUFFICES ASSUME GuardInv, pc \in {"handler", "transform"} PROVE HandlerAllowed
      BY DEF HandlerAllowed, Request!HandlerAllowed
    <2> DEFINE c == Last(Above[route])
    <2>1. route \in Route
      BY DEF GuardInv
    <2>2. ASSUME NEW S, Asks(Request!Guards[route], "scopes", S)
          PROVE  S \subseteq held["scopes"] \/ FULL_ACCESS \in held["scopes"]
      BY <2>2, PastItsGuards DEF Grants
    <2>3. ASSUME NEW R, Asks(Request!Guards[route], "roles", R)
          PROVE  R = {} \/ R \cap held["roles"] # {} \/ FULL_ACCESS \in held["roles"]
      BY <2>3, PastItsGuards DEF Grants
    <2>4. \A l \in Range(Above[route]) :
            /\ Asks(Request!Guards[route], "scopes", Scopes[l])
            /\ Asks(Request!Guards[route], "roles", Roles[l])
      BY <2>1, GuardsOfRoute
    <2>5. /\ Asks(Request!Guards[route], "scopes", Scopes[c] \cup Scopes[route])
          /\ Asks(Request!Guards[route], "roles", Roles[c] \cup Roles[route])
      BY <2>1, GuardsOfRoute
    <2>6. Request!Last(Above[route]) = c /\ Request!Range(Above[route]) = Range(Above[route])
      BY DEF Request!Last, Last, Request!Range, Range
    <2>7. Scopes[route] \subseteq held["scopes"] \/ FULL_ACCESS \in held["scopes"]
      BY <2>2, <2>5
    <2>8. \A l \in Range(Above[route]) :
            /\ Scopes[l] \subseteq held["scopes"] \/ FULL_ACCESS \in held["scopes"]
            /\ Roles[l] = {} \/ Roles[l] \cap held["roles"] # {} \/ FULL_ACCESS \in held["roles"]
      BY <2>2, <2>3, <2>4
    <2>9. LET R == Roles[c] \cup Roles[route]
          IN  R = {} \/ R \cap held["roles"] # {} \/ FULL_ACCESS \in held["roles"]
      BY <2>3, <2>5
    <2> QED BY <2>6, <2>7, <2>8, <2>9 DEF HandlerAllowed, Request!HandlerAllowed
  <1> QED BY <1>1, <1>2, <1>3, PTL DEF AppSpec
=============================================================================
