----------------------- MODULE IntegrationBatchProofs -----------------------
(***************************************************************************)
(* Proofs about IntegrationBatch for any sessions, any order of them, any  *)
(* worlds of conflicts and joint failures, any users and faults.           *)
(***************************************************************************)
EXTENDS IntegrationBatch, SequenceTheorems, WellFoundedInduction, TLAPS

-----------------------------------------------------------------------------
(* What assemble makes of a group: the commit, and who is in it.             *)
Group == {g \in Seq(Sessions) : IsInjective(g)}
NoneYet == [staging |-> staging, target |-> target, commit |-> target, included |-> <<>>]

Shape == [staging : {staging}, target : {target}, commit : SUBSET Change,
          included : Seq(Sessions)]

(* The sessions that assemble has looked at, and what it did with them.      *)
Members(g, i) == {g[j] : j \in 1 .. i}
Assembles(a, g, i) ==
  /\ a \in Shape
  /\ target \subseteq a.commit
  /\ a.commit \subseteq target \cup UNION {Ready(s) : s \in Members(g, i)}
  /\ a.included \in Group /\ Range(a.included) \subseteq Members(g, i)
  /\ \A s \in Range(a.included) : Ready(s) \subseteq a.commit
  /\ \A s \in Members(g, i) \ Range(a.included) : Disagrees(a.commit, s)

(* The steps of an assembly are there: a shortest group without would have   *)
(* those of all its sessions but the last.                                   *)
LEMMA StepsExist ==
  ASSUME NEW g, NEW n \in Nat
  PROVE  \E h : h = [i \in 0 .. n |-> IF i = 0 THEN NoneYet ELSE Joined(h[i - 1], g[i])]
<1> DEFINE Steps(h, m) ==
             h = [i \in 0 .. m |-> IF i = 0 THEN NoneYet ELSE Joined(h[i - 1], g[i])]
           Missing == {m \in Nat : ~\E h : Steps(h, m)}
<1>1. SUFFICES ASSUME Missing # {} PROVE FALSE
  OBVIOUS
<1>2. PICK m \in Missing : \A k \in Missing : ~(<<k, m>> \in OpToRel(<, Nat))
  BY <1>1, NatLessThanWellFounded, WFMin
<1>0. m \in Nat
  BY <1>2
<1>3. m # 0
  <2>1. Steps([i \in 0 .. 0 |-> NoneYet], 0)
    OBVIOUS
  <2>2. QED
    BY <1>2, <2>1
<1>4. m - 1 \in Nat /\ <<m - 1, m>> \in OpToRel(<, Nat)
  BY <1>2, <1>3 DEF OpToRel
<1>5. PICK h : Steps(h, m - 1)
  BY <1>2, <1>4
<1> DEFINE k == [i \in 0 .. m |-> IF i = m THEN Joined(h[m - 1], g[m]) ELSE h[i]]
<1>6. ASSUME NEW i \in 0 .. m
      PROVE  k[i] = IF i = 0 THEN NoneYet ELSE Joined(k[i - 1], g[i])
  <2>1. CASE i = m
    <3>1. i # 0 /\ i - 1 \in 0 .. m /\ i - 1 # m
      BY <1>0, <1>3, <2>1
    <3>2. k[i] = Joined(h[m - 1], g[m]) /\ k[i - 1] = h[m - 1]
      BY <2>1, <3>1
    <3>3. QED
      BY <2>1, <3>1, <3>2
  <2>2. CASE i # m
    <3>1. i \in 0 .. m - 1 /\ (i # 0 => i - 1 \in 0 .. m - 1 /\ i - 1 # m)
      BY <1>0, <2>2
    <3>2. h[i] = IF i = 0 THEN NoneYet ELSE Joined(h[i - 1], g[i])
      BY <1>5, <3>1
    <3> HIDE DEF Steps, Missing
    <3>3. k[i] = h[i] /\ (i # 0 => k[i - 1] = h[i - 1])
      BY <1>0, <2>2, <3>1
    <3>4. QED
      BY <3>2, <3>3
  <2>3. QED
    BY <2>1, <2>2
<1>7. Steps(k, m)
  <2>1. k = [i \in 0 .. m |-> k[i]]
    OBVIOUS
  <2> HIDE DEF k
  <2>2. QED
    BY <1>6, <2>1
<1>8. QED
  BY <1>2, <1>7

LEMMA ReadyType ==
  ASSUME BatchAssumption, world \in Worlds, NEW s \in Sessions
  PROVE  Ready(s) \subseteq Change /\ s \in Ready(s)
<1>1. world \in World
  BY DEF BatchAssumption
<1>2. world.brings \in [Sessions -> SUBSET Change]
  BY <1>1 DEF World
<1>3. QED
  BY <1>2 DEF Ready, BatchAssumption

LEMMA RangeOf ==
  ASSUME NEW q
  PROVE  Range(q) = {q[j] : j \in DOMAIN q}
BY DEF Range

LEMMA GroupOf ==
  ASSUME NEW g
  PROVE  g \in Group <=> g \in Seq(Sessions) /\ \A j, k \in 1 .. Len(g) : g[j] = g[k] => j = k
<1>1. g \in Seq(Sessions) => DOMAIN g = 1 .. Len(g)
  OBVIOUS
<1>2. QED
  BY <1>1 DEF Group, IsInjective

LEMMA AppendGroup ==
  ASSUME NEW q \in Group, NEW s \in Sessions, s \notin Range(q)
  PROVE  Append(q, s) \in Group /\ Range(Append(q, s)) = Range(q) \cup {s}
<1>1. q \in Seq(Sessions) /\ DOMAIN q = 1 .. Len(q) /\ Len(q) \in Nat
  BY DEF Group
<1>2. /\ Append(q, s) \in Seq(Sessions) /\ Len(Append(q, s)) = Len(q) + 1
      /\ DOMAIN Append(q, s) = 1 .. Len(q) + 1
      /\ \A j \in 1 .. Len(q) + 1 : Append(q, s)[j] = IF j = Len(q) + 1 THEN s ELSE q[j]
  BY <1>1
<1>3. \A j \in 1 .. Len(q) : q[j] # s
  BY <1>1, RangeOf
<1>4. \A j, k \in 1 .. Len(q) : q[j] = q[k] => j = k
  BY GroupOf
<1>5. \A j \in 1 .. Len(q) + 1 : j \in 1 .. Len(q) \/ j = Len(q) + 1
  BY <1>1
<1>6. Append(q, s) \in Group
  <2>1. ASSUME NEW j \in 1 .. Len(q) + 1, NEW k \in 1 .. Len(q) + 1,
               Append(q, s)[j] = Append(q, s)[k]
        PROVE  j = k
    BY <1>2, <1>3, <1>4, <1>5, <2>1
  <2>2. QED
    BY <1>2, <2>1, GroupOf
<1>7. Range(Append(q, s)) = Range(q) \cup {s}
  <2>1. ASSUME NEW x
        PROVE  x \in Range(Append(q, s)) <=> x \in Range(q) \cup {s}
    <3>1. x \in Range(Append(q, s)) <=> \E j \in 1 .. Len(q) + 1 : x = Append(q, s)[j]
      BY <1>2, RangeOf
    <3>2. x \in Range(q) <=> \E j \in 1 .. Len(q) : x = q[j]
      BY <1>1, RangeOf
    <3>3. Len(q) + 1 \in 1 .. Len(q) + 1 /\ \A j \in 1 .. Len(q) : j \in 1 .. Len(q) + 1 /\ j # Len(q) + 1
      BY <1>1
    <3>4. ASSUME NEW j \in 1 .. Len(q) + 1, x = Append(q, s)[j]
          PROVE  x \in Range(q) \cup {s}
      BY <1>2, <1>5, <3>2, <3>4
    <3>5. ASSUME x \in Range(q) \cup {s}
          PROVE  \E j \in 1 .. Len(q) + 1 : x = Append(q, s)[j]
      <4>1. CASE x = s
        BY <1>2, <3>3, <4>1
      <4>2. CASE x \in Range(q)
        <5>1. PICK j \in 1 .. Len(q) : x = q[j]
          BY <3>2, <4>2
        <5>2. j \in 1 .. Len(q) + 1 /\ x = Append(q, s)[j]
          BY <1>2, <3>3, <5>1
        <5>3. QED
          BY <5>2
      <4>3. QED
        BY <3>5, <4>1, <4>2
    <3>6. QED
      BY <3>1, <3>4, <3>5
  <2>2. QED
    BY <2>1
<1>8. QED
  BY <1>6, <1>7

(* One merge, or none.                                                       *)
LEMMA JoinedAssembles ==
  ASSUME BatchAssumption, world \in Worlds, NEW g \in Group, NEW i \in Nat, i + 1 \in 1 .. Len(g), NEW a, Assembles(a, g, i)
  PROVE  Assembles(Joined(a, g[i + 1]), g, i + 1)
<1> DEFINE s == g[i + 1]
<1>1. s \in Sessions /\ s \notin Members(g, i)
  <2>1. s \in Sessions
    BY DEF Group
  <2>2. \A j \in 1 .. i : j \in 1 .. Len(g) /\ j # i + 1
    BY DEF Group
  <2>3. QED
    BY <2>1, <2>2, GroupOf DEF Members
<1>2. Members(g, i + 1) = Members(g, i) \cup {s}
  <2>1. \A j : j \in 1 .. i + 1 <=> j \in 1 .. i \/ j = i + 1
    OBVIOUS
  <2>2. QED
    BY <2>1 DEF Members
<1> HIDE DEF s
<1>3. s \notin Range(a.included)
  BY <1>1 DEF Assembles
<1>4. /\ Append(a.included, s) \in Group
      /\ Range(Append(a.included, s)) = Range(a.included) \cup {s}
  BY <1>1, <1>3, AppendGroup DEF Assembles
<1>0. ASSUME NEW b,
             b \in Shape,
             a.commit \subseteq b.commit, b.commit \subseteq a.commit \cup Ready(s),
             \A o : Disagrees(a.commit, o) => Disagrees(b.commit, o),
             \/ b.included = a.included /\ Disagrees(b.commit, s)
             \/ b.included = Append(a.included, s) /\ Ready(s) \subseteq b.commit
      PROVE  Assembles(b, g, i + 1)
  <2>1. /\ target \subseteq a.commit
        /\ a.commit \subseteq target \cup UNION {Ready(o) : o \in Members(g, i)}
        /\ a.included \in Group /\ Range(a.included) \subseteq Members(g, i)
        /\ \A o \in Range(a.included) : Ready(o) \subseteq a.commit
        /\ \A o \in Members(g, i) \ Range(a.included) : Disagrees(a.commit, o)
    BY DEF Assembles
  <2>2. target \subseteq b.commit
    BY <1>0, <2>1
  <2>3. b.commit \subseteq target \cup UNION {Ready(o) : o \in Members(g, i + 1)}
    <3>1. a.commit \subseteq target \cup UNION {Ready(o) : o \in Members(g, i + 1)}
      BY <1>2, <2>1
    <3>2. Ready(s) \subseteq UNION {Ready(o) : o \in Members(g, i + 1)}
      BY <1>2
    <3>3. QED
      BY <1>0, <3>1, <3>2
  <2>4. b.included \in Group /\ Range(b.included) \subseteq Members(g, i + 1)
    BY <1>0, <1>2, <1>4, <2>1
  <2>5. \A o \in Range(b.included) : Ready(o) \subseteq b.commit
    BY <1>0, <1>4, <2>1
  <2>6. \A o \in Members(g, i + 1) \ Range(b.included) : Disagrees(b.commit, o)
    BY <1>0, <1>2, <1>4, <2>1
  <2>7. QED
    BY <1>0, <2>2, <2>3, <2>4, <2>5, <2>6 DEF Assembles
<1>5. CASE Clashing(a.commit, Ready(s))
  <2>1. Joined(a, s) = a
    BY <1>5 DEF Joined
  <2>2. a \in Shape
    BY DEF Assembles
  <2>3. Disagrees(a.commit, s)
    BY <1>5 DEF Clashing, Disagrees
  <2>4. QED
    BY <1>0, <2>1, <2>2, <2>3 DEF s
<1>6. CASE ~Clashing(a.commit, Ready(s))
  <2> DEFINE b == [a EXCEPT !.commit = @ \cup Ready(s), !.included = Append(@, s)]
  <2>1. Joined(a, s) = b
    BY <1>6 DEF Joined
  <2>2. a \in Shape
    BY DEF Assembles
  <2>3. Ready(s) \subseteq Change
    BY <1>1, ReadyType
  <2>4. /\ b \in Shape /\ b.commit = a.commit \cup Ready(s)
        /\ b.included = Append(a.included, s)
    <3> DEFINE c == a.commit \cup Ready(s)
               q == Append(a.included, s)
    <3>1. c \in SUBSET Change /\ q \in Seq(Sessions)
      BY <1>1, <2>2, <2>3 DEF Shape
    <3>2. b = [a EXCEPT !.commit = c, !.included = q]
      OBVIOUS
    <3> HIDE DEF c, q, b
    <3>3. b \in Shape
      BY <2>2, <3>1, <3>2 DEF Shape
    <3>4. b.commit = c /\ b.included = q
      BY <2>2, <3>2 DEF Shape
    <3>5. QED
      BY <3>3, <3>4 DEF c, q
  <2> HIDE DEF b
  <2>5. \A o : Disagrees(a.commit, o) => Disagrees(b.commit, o)
    BY <2>4 DEF Disagrees
  <2>6. QED
    BY <1>0, <2>1, <2>4, <2>5 DEF s
<1>7. QED
  BY <1>5, <1>6 DEF s

(* What is assembled of a group.                                             *)
LEMMA AssembledIs ==
  ASSUME BatchAssumption, world \in Worlds, target \subseteq Change, NEW g \in Group
  PROVE  Assembles(Assembled(g), g, Len(g))
<1> DEFINE h == Assembly(g)
           Bad == {i \in 0 .. Len(g) : ~Assembles(h[i], g, i)}
<1>1. Len(g) \in Nat
  BY DEF Group
<1>2. h = [i \in 0 .. Len(g) |-> IF i = 0 THEN NoneYet ELSE Joined(h[i - 1], g[i])]
  <2>1. h = CHOOSE k : k = [i \in 0 .. Len(g) |-> IF i = 0 THEN NoneYet ELSE Joined(k[i - 1], g[i])]
    BY DEF Assembly, NoneYet
  <2>2. \E k : k = [i \in 0 .. Len(g) |-> IF i = 0 THEN NoneYet ELSE Joined(k[i - 1], g[i])]
    BY <1>1, StepsExist
  <2> HIDE DEF h
  <2>3. QED
    BY <2>1, <2>2
<1> HIDE DEF h
<1>3. SUFFICES ASSUME Bad # {} PROVE FALSE
  <2>1. Len(g) \in 0 .. Len(g)
    BY <1>1
  <2>2. QED
    BY <2>1 DEF Assembled, h
<1>4. PICK i \in Bad : \A k \in Bad : ~(<<k, i>> \in OpToRel(<, Nat))
  <2>1. Bad \subseteq Nat
    BY <1>1
  <2> HIDE DEF Bad
  <2>2. QED
    BY <1>3, <2>1, NatLessThanWellFounded, WFMin
<1>5. i \in 0 .. Len(g) /\ ~Assembles(h[i], g, i)
  BY <1>4
<1>6. CASE i = 0
  <2>1. h[0] = NoneYet
    BY <1>1, <1>2
  <2>2. Members(g, 0) = {}
    BY DEF Members
  <2>3. <<>> \in Group /\ Range(<<>>) = {}
    BY DEF Group, IsInjective, Range
  <2>4. Assembles(NoneYet, g, 0)
    BY <2>2, <2>3 DEF Assembles, NoneYet, Shape, Group
  <2>5. QED
    BY <1>5, <1>6, <2>1, <2>4
<1>7. CASE i # 0
  <2>1. i - 1 \in Nat /\ i - 1 \in 0 .. Len(g) /\ i - 1 + 1 = i /\ i \in 1 .. Len(g)
    BY <1>1, <1>5, <1>7
  <2>2. <<i - 1, i>> \in OpToRel(<, Nat)
    BY <1>1, <1>5, <2>1 DEF OpToRel
  <2>3. Assembles(h[i - 1], g, i - 1)
    BY <1>4, <2>1, <2>2
  <2>4. Assembles(Joined(h[i - 1], g[i - 1 + 1]), g, i - 1 + 1)
    BY <2>1, <2>3, JoinedAssembles
  <2>5. h[i] = Joined(h[i - 1], g[i])
    BY <1>2, <1>5, <1>7
  <2>6. QED
    BY <1>5, <2>1, <2>4, <2>5
<1>8. QED
  BY <1>6, <1>7

-----------------------------------------------------------------------------
(* The groups that are left: no session is in two of them.                   *)
InGroups(t) == UNION {Range(t[i]) : i \in DOMAIN t}
Groups(t) ==
  /\ t \in Seq(Group)
  /\ \A i, j \in DOMAIN t : i # j => Range(t[i]) \cap Range(t[j]) = {}

LEMMA HeadGroup ==
  ASSUME NEW t, Groups(t), t # <<>>
  PROVE  /\ Head(t) \in Group /\ Groups(Tail(t))
         /\ InGroups(t) = Range(Head(t)) \cup InGroups(Tail(t))
         /\ Range(Head(t)) \cap InGroups(Tail(t)) = {}
<1>1. t \in Seq(Group) /\ DOMAIN t = 1 .. Len(t) /\ Len(t) \in Nat \ {0}
  BY DEF Groups
<1>2. /\ Head(t) = t[1] /\ Head(t) \in Group /\ Tail(t) \in Seq(Group)
      /\ DOMAIN Tail(t) = 1 .. Len(t) - 1 /\ 1 \in DOMAIN t
      /\ \A i \in 1 .. Len(t) - 1 : Tail(t)[i] = t[i + 1]
  BY <1>1
<1>3. \A i \in 1 .. Len(t) - 1 : i + 1 \in DOMAIN t /\ i + 1 # 1
  BY <1>1
<1>4. \A i, j \in DOMAIN t : i # j => Range(t[i]) \cap Range(t[j]) = {}
  BY DEF Groups
<1>5. Groups(Tail(t))
  <2>1. ASSUME NEW i \in DOMAIN Tail(t), NEW j \in DOMAIN Tail(t), i # j
        PROVE  Range(Tail(t)[i]) \cap Range(Tail(t)[j]) = {}
    <3>1. i + 1 \in DOMAIN t /\ j + 1 \in DOMAIN t /\ i + 1 # j + 1
      BY <1>1, <1>2, <1>3, <2>1
    <3>2. QED
      BY <1>2, <1>4, <3>1
  <2>2. QED
    BY <1>2, <2>1 DEF Groups
<1>6. InGroups(t) = Range(Head(t)) \cup InGroups(Tail(t))
  <2>1. \A i \in DOMAIN t : i = 1 \/ (i - 1 \in 1 .. Len(t) - 1 /\ i - 1 + 1 = i)
    BY <1>1
  <2>2. ASSUME NEW s \in InGroups(t)
        PROVE  s \in Range(Head(t)) \cup InGroups(Tail(t))
    <3>1. PICK i \in DOMAIN t : s \in Range(t[i])
      BY DEF InGroups
    <3>2. CASE i = 1
      BY <1>2, <3>1, <3>2
    <3>3. CASE i # 1
      <4>1. i - 1 \in DOMAIN Tail(t) /\ Tail(t)[i - 1] = t[i]
        BY <1>2, <2>1, <3>3
      <4>2. QED
        BY <3>1, <4>1 DEF InGroups
    <3>4. QED
      BY <3>2, <3>3
  <2>3. ASSUME NEW s, s \in Range(Head(t)) \/ s \in InGroups(Tail(t))
        PROVE  s \in InGroups(t)
    <3>1. CASE s \in Range(Head(t))
      BY <1>2, <3>1 DEF InGroups
    <3>2. CASE s \in InGroups(Tail(t))
      <4>1. PICK i \in DOMAIN Tail(t) : s \in Range(Tail(t)[i])
        BY <3>2 DEF InGroups
      <4>2. i + 1 \in DOMAIN t /\ Tail(t)[i] = t[i + 1]
        BY <1>2, <1>3
      <4>3. QED
        BY <4>1, <4>2 DEF InGroups
    <3>3. QED
      BY <2>3, <3>1, <3>2
  <2>4. QED
    BY <2>2, <2>3
<1>7. Range(Head(t)) \cap InGroups(Tail(t)) = {}
  <2>1. \A i \in DOMAIN Tail(t) : Range(Head(t)) \cap Range(Tail(t)[i]) = {}
    BY <1>2, <1>3, <1>4
  <2>2. QED
    BY <2>1 DEF InGroups
<1>8. QED
  BY <1>2, <1>5, <1>6, <1>7

LEMMA PutGroup ==
  ASSUME NEW t, Groups(t), NEW g \in Group, Range(g) \cap InGroups(t) = {}
  PROVE  Groups(<<g>> \o t) /\ InGroups(<<g>> \o t) = Range(g) \cup InGroups(t)
<1> DEFINE u == <<g>> \o t
<1>1. t \in Seq(Group) /\ DOMAIN t = 1 .. Len(t) /\ Len(t) \in Nat
  BY DEF Groups
<1>2. <<g>> \in Seq(Group) /\ Len(<<g>>) = 1 /\ <<g>>[1] = g
  OBVIOUS
<1>3. /\ u \in Seq(Group) /\ DOMAIN u = 1 .. Len(t) + 1 /\ u[1] = g
      /\ \A i \in 1 .. Len(t) + 1 : i # 1 => u[i] = t[i - 1]
  BY <1>1, <1>2
<1> HIDE DEF u
<1>4. \A i \in 1 .. Len(t) + 1 : i # 1 => i - 1 \in DOMAIN t
  BY <1>1
<1>5. \A i \in DOMAIN t : i + 1 \in DOMAIN u /\ i + 1 # 1 /\ i + 1 - 1 = i
  BY <1>1, <1>3
<1>6. \A i, j \in DOMAIN t : i # j => Range(t[i]) \cap Range(t[j]) = {}
  BY DEF Groups
<1>7. \A i \in DOMAIN t : Range(g) \cap Range(t[i]) = {}
  BY DEF InGroups
<1>8. ASSUME NEW i \in DOMAIN u, NEW j \in DOMAIN u, i # j
      PROVE  Range(u[i]) \cap Range(u[j]) = {}
  <2>1. CASE i = 1
    BY <1>3, <1>4, <1>7, <1>8, <2>1
  <2>2. CASE j = 1
    BY <1>3, <1>4, <1>7, <1>8, <2>2
  <2>3. CASE i # 1 /\ j # 1
    <3>1. i - 1 \in DOMAIN t /\ j - 1 \in DOMAIN t /\ i - 1 # j - 1
      BY <1>1, <1>3, <1>4, <1>8, <2>3
    <3>2. QED
      BY <1>3, <1>6, <2>3, <3>1
  <2>4. QED
    BY <2>1, <2>2, <2>3
<1>9. Groups(u)
  BY <1>3, <1>8 DEF Groups
<1>10. InGroups(u) = Range(g) \cup InGroups(t)
  <2>1. ASSUME NEW s \in InGroups(u) PROVE s \in Range(g) \cup InGroups(t)
    <3>1. PICK i \in DOMAIN u : s \in Range(u[i])
      BY DEF InGroups
    <3>2. CASE i = 1
      BY <1>3, <3>1, <3>2
    <3>3. CASE i # 1
      BY <1>3, <1>4, <3>1, <3>3 DEF InGroups
    <3>4. QED
      BY <3>2, <3>3
  <2>2. ASSUME NEW s, s \in Range(g) \/ s \in InGroups(t) PROVE s \in InGroups(u)
    <3>1. CASE s \in Range(g)
      <4>1. 1 \in DOMAIN u
        BY <1>1, <1>3
      <4>2. QED
        BY <1>3, <3>1, <4>1 DEF InGroups
    <3>2. CASE s \in InGroups(t)
      <4>1. PICK i \in DOMAIN t : s \in Range(t[i])
        BY <3>2 DEF InGroups
      <4>2. i + 1 \in DOMAIN u /\ u[i + 1] = t[i]
        BY <1>3, <1>5
      <4>3. QED
        BY <4>1, <4>2 DEF InGroups
    <3>3. QED
      BY <2>2, <3>1, <3>2
  <2>3. QED
    BY <2>1, <2>2
<1>11. QED
  BY <1>9, <1>10 DEF u

LEMMA HalfGroups ==
  ASSUME NEW g \in Group, Len(g) > 1
  PROVE  \E a, b \in Group :
           /\ Halves(g) = <<a, b>>
           /\ Range(a) \cup Range(b) = Range(g) /\ Range(a) \cap Range(b) = {}
<1> DEFINE n == Len(g)
           h == Half(n)
           a == SubSeq(g, 1, h)
           b == SubSeq(g, h + 1, n)
<1>1. g \in Seq(Sessions) /\ n \in Nat /\ n > 1 /\ DOMAIN g = 1 .. n
  BY DEF Group
<1>2. h \in Nat /\ 1 <= h /\ h < n
  BY <1>1 DEF Half
<1> HIDE DEF h, n
<1>3. /\ a \in Seq(Sessions) /\ DOMAIN a = 1 .. h /\ Len(a) = h
      /\ \A i \in 1 .. h : a[i] = g[i]
  BY <1>1, <1>2
<1>4. /\ b \in Seq(Sessions) /\ DOMAIN b = 1 .. n - h /\ Len(b) = n - h
      /\ \A i \in 1 .. n - h : b[i] = g[h + i]
  <2> HIDE DEF b
  <2>1. h + 1 \in Int /\ n \in Int /\ h + 1 <= n /\ n - (h + 1) + 1 = n - h
    BY <1>1, <1>2
  <2>2. \A i \in h + 1 .. n : g[i] \in Sessions
    BY <1>1, <1>2
  <2>3. /\ b \in Seq(Sessions) /\ Len(b) = n - h
        /\ \A i \in 1 .. n - (h + 1) + 1 : b[i] = g[h + 1 + i - 1]
    BY <2>1, <2>2, SubSeqProperties DEF b
  <2>4. \A i \in 1 .. n - h : h + 1 + i - 1 = h + i
    BY <1>1, <1>2
  <2>5. DOMAIN b = 1 .. n - h
    BY <2>3
  <2>6. QED
    BY <2>1, <2>3, <2>4, <2>5
<1> HIDE DEF a, b
<1>5. \A i, j \in 1 .. n : g[i] = g[j] => i = j
  BY GroupOf DEF n
<1>6. \A i \in 1 .. h : i \in 1 .. n
  BY <1>1, <1>2
<1>7. \A i \in 1 .. n - h : h + i \in 1 .. n /\ h + i \notin 1 .. h
  BY <1>1, <1>2
<1>8. a \in Group
  <2>1. \A i, j \in 1 .. Len(a) : a[i] = a[j] => i = j
    BY <1>3, <1>5, <1>6
  <2>2. QED
    BY <1>3, <2>1, GroupOf
<1>9. b \in Group
  <2>1. ASSUME NEW i \in 1 .. Len(b), NEW j \in 1 .. Len(b), b[i] = b[j]
        PROVE  i = j
    <3>1. h + i = h + j
      BY <1>4, <1>5, <1>7, <2>1
    <3>2. QED
      BY <1>1, <1>2, <1>4, <3>1
  <2>2. QED
    BY <1>4, <2>1, GroupOf
<1>10. ASSUME NEW s
       PROVE  /\ s \in Range(a) <=> \E i \in 1 .. h : s = g[i]
              /\ s \in Range(b) <=> \E i \in 1 .. n - h : s = g[h + i]
              /\ s \in Range(g) <=> \E i \in 1 .. n : s = g[i]
  <2>1. s \in Range(a) <=> \E i \in 1 .. h : s = g[i]
    BY <1>3, RangeOf
  <2>2. s \in Range(b) <=> \E i \in 1 .. n - h : s = g[h + i]
    BY <1>4, RangeOf
  <2>3. s \in Range(g) <=> \E i \in 1 .. n : s = g[i]
    BY <1>1, RangeOf
  <2>4. QED
    BY <2>1, <2>2, <2>3
<1>11. Range(a) \cap Range(b) = {}
  BY <1>5, <1>6, <1>7, <1>10
<1>12. Range(a) \cup Range(b) = Range(g)
  <2>1. \A i \in 1 .. n : i \in 1 .. h \/ (i - h \in 1 .. n - h /\ h + (i - h) = i)
    BY <1>1, <1>2
  <2>2. ASSUME NEW s \in Range(g) PROVE s \in Range(a) \cup Range(b)
    <3>1. PICK i \in 1 .. n : s = g[i]
      BY <1>10
    <3>2. QED
      BY <1>10, <2>1, <3>1
  <2>3. QED
    BY <1>6, <1>7, <1>10, <2>2
<1>13. Halves(g) = <<a, b>>
  BY DEF Halves, a, b, h, n
<1>14. QED
  BY <1>8, <1>9, <1>11, <1>12, <1>13

LEMMA PutHalves ==
  ASSUME NEW t, Groups(t), NEW g \in Group, Len(g) > 1, Range(g) \cap InGroups(t) = {}
  PROVE  Groups(Halves(g) \o t) /\ InGroups(Halves(g) \o t) = Range(g) \cup InGroups(t)
<1>1. PICK a, b \in Group :
        /\ Halves(g) = <<a, b>>
        /\ Range(a) \cup Range(b) = Range(g) /\ Range(a) \cap Range(b) = {}
  BY HalfGroups
<1>2. Groups(<<b>> \o t) /\ InGroups(<<b>> \o t) = Range(b) \cup InGroups(t)
  BY <1>1, PutGroup
<1>3. /\ Groups(<<a>> \o (<<b>> \o t))
      /\ InGroups(<<a>> \o (<<b>> \o t)) = Range(a) \cup InGroups(<<b>> \o t)
  BY <1>1, <1>2, PutGroup
<1>4. <<a, b>> \o t = <<a>> \o (<<b>> \o t)
  <2>1. t \in Seq(Group)
    BY DEF Groups
  <2>2. <<a>> \in Seq(Group) /\ <<b>> \in Seq(Group) /\ <<a>> \o <<b>> = <<a, b>>
    <3>1. a \in Group /\ b \in Group
      BY <1>1
    <3>2. /\ <<a>> \in Seq(Group) /\ Len(<<a>>) = 1 /\ <<a>>[1] = a
          /\ <<b>> \in Seq(Group) /\ Len(<<b>>) = 1 /\ <<b>>[1] = b
          /\ <<a, b>> \in Seq(Group) /\ Len(<<a, b>>) = 2 /\ <<a, b>>[1] = a /\ <<a, b>>[2] = b
      BY <3>1
    <3>3. /\ <<a>> \o <<b>> \in Seq(Group) /\ Len(<<a>> \o <<b>>) = Len(<<a>>) + Len(<<b>>)
          /\ \A i \in 1 .. Len(<<a>>) + Len(<<b>>) :
               (<<a>> \o <<b>>)[i] = IF i <= Len(<<a>>) THEN <<a>>[i] ELSE <<b>>[i - Len(<<a>>)]
      BY <3>2, ConcatProperties
    <3> DEFINE p == <<a>> \o <<b>>
               q == <<a, b>>
               x == <<a>>
               y == <<b>>
    <3> HIDE DEF p, q, x, y
    <3>4. Len(p) = 2 /\ \A i \in 1 .. 2 : p[i] = IF i <= 1 THEN x[1] ELSE y[i - 1]
      BY <3>2, <3>3 DEF p, x, y
    <3>5. \A i \in 1 .. 2 : i = 1 \/ i = 2
      OBVIOUS
    <3>6. \A i \in 1 .. 2 : p[i] = q[i]
      BY <3>2, <3>4, <3>5 DEF q, x, y
    <3>7. p \in Seq(Group) /\ q \in Seq(Group) /\ Len(q) = 2
      BY <3>2, <3>3 DEF p, q
    <3>8. p = q
      BY <3>4, <3>6, <3>7, SeqEqual
    <3>9. QED
      BY <3>2, <3>8 DEF p, q
  <2> DEFINE x == <<a>>
             y == <<b>>
  <2>3. x \in Seq(Group) /\ y \in Seq(Group) /\ x \o y = <<a, b>>
    BY <2>2
  <2> HIDE DEF x, y
  <2>4. (x \o y) \o t = x \o (y \o t)
    <3>1. ASSUME NEW S, NEW p \in Seq(S), NEW q \in Seq(S), NEW r \in Seq(S)
          PROVE  (p \o q) \o r = p \o (q \o r)
      BY ConcatAssociative
    <3>2. \A p, q, r \in Seq(Group) : (p \o q) \o r = p \o (q \o r)
      BY <3>1
    <3>3. x \in Seq(Group) /\ y \in Seq(Group) /\ t \in Seq(Group)
      BY <2>1, <2>3
    <3>4. QED
      BY <3>2, <3>3
  <2>5. QED
    BY <2>3, <2>4 DEF x, y
<1>5. QED
  BY <1>1, <1>2, <1>3, <1>4

-----------------------------------------------------------------------------
(* The invariant. What is open is what the groups and the candidate hold;    *)
(* what a candidate is at each of its steps; who has the commit of staging;  *)
(* and who is to blame for what did not land.                                *)
Records == [Sessions -> Record]
Candidates == [staging : (SUBSET Change) \cup {None}, target : SUBSET Change,
               commit : SUBSET Change, included : Group]
Deciding == {"validate", "stage", "record", "promote", "promoted", "complete"}
Working == {"group", "alone"} \cup Deciding

Types ==
  /\ world \in Worlds /\ target \subseteq Change
  /\ staging \in (SUBSET Change) \cup {None}
  /\ rec \in Records /\ mem \in Records
  /\ pc \in {"open", "wrap", "done"} \cup Working
  /\ Groups(todo) /\ asm \in Candidates /\ cursor \in Nat
  /\ aborted \in {"no", "unavailable", "error"} /\ faults \in Nat

(* The changes of the world, for a tree and a session.                       *)
Opposed(w, tree, s) == \E c \in tree \ w.brings[s], d \in w.brings[s] : {c, d} \in w.clash
Breaks(w, tree) == \E b \in w.breaks : b \subseteq tree

Left == InGroups(todo) \cup (IF pc \in Deciding THEN Range(asm.included) ELSE {})
Flow ==
  /\ rec = mem \/ (pc = "wrap" /\ aborted = "error")
  /\ pc = "open" => InGroups(todo) = Sessions /\ \A s \in Sessions : mem[s].outcome = "none"
  /\ pc \in Working => \A s \in Sessions : mem[s].outcome = "open" <=> s \in Left
  /\ pc \in Deciding => Range(asm.included) \cap InGroups(todo) = {} /\ Len(asm.included) > 1
  /\ pc = "alone" => todo # <<>> /\ Len(Head(todo)) = 1
  /\ pc = "record" => cursor \in 1 .. Len(asm.included)
  /\ pc \notin {"wrap", "done"} => aborted = "no"
  /\ pc # "done" => \A s \in Sessions : mem[s].outcome # "released"
  /\ pc \in Working \cup {"wrap"} => \A s \in Sessions : mem[s].outcome # "none"
  /\ pc = "done" /\ result # "none" => \A s \in Sessions : mem[s].outcome \notin {"none", "open"}

(* Who is not decided is as it came, but for a staged commit.                *)
Undecided ==
  \A s \in Sessions : mem[s].outcome \in {"none", "open", "excluded", "released"} =>
    /\ mem[s].status = "ready" /\ (s # Leader => mem[s].waiting)
    /\ mem[s].integrated # None =>
         /\ mem[s].outcome = "open"
         /\ \/ pc \in {"record", "promote", "promoted", "complete"} /\ s \in Range(asm.included)
            \/ pc = "wrap" /\ aborted = "error"

Candidate ==
  /\ pc \in Deciding => /\ asm.target \subseteq asm.commit
                        /\ \A s \in Range(asm.included) : world.brings[s] \subseteq asm.commit
  /\ pc \in {"stage", "record", "promote"} => asm.commit \in validated
  /\ pc \in {"promoted", "complete"} => asm.commit \subseteq target
  /\ \A s \in Sessions : mem[s].status = "succeeded" => world.brings[s] \subseteq target

Owner ==
  \/ staging = None \/ staging \cap Sessions \subseteq target
  \/ /\ pc \in {"record", "promote"} /\ staging = asm.commit
     /\ (pc = "record" /\ cursor = 1) \/ mem[asm.included[1]].integrated = asm.commit
  \/ /\ pc = "wrap" /\ aborted = "error"
     /\ \E s \in Sessions : mem[s].outcome = "open" /\ mem[s].integrated = staging
  \/ \E s \in Sessions :
       /\ mem[s].outcome \in {"batched", "isolated"} /\ mem[s].status \in {"review", "pending"}
       /\ mem[s].integrated = staging

Quiet == aborted = "no" /\ faults = 0 /\ \A s \in Sessions : mem[s].status # "pending"
Blamed(s) ==
  \/ Opposed(world, target, s) \/ Breaks(world, target \cup world.brings[s])
  \/ mem[s].outcome = "excluded" /\ \E t \in Sessions : Opposed(world, world.brings[t], s)
Guilt ==
  Quiet => /\ \/ (staging # None => staging \subseteq target)
              \/ pc \in {"record", "promote"} /\ staging = asm.commit
           /\ \A s \in Sessions :
                mem[s].outcome \in {"excluded", "isolated", "batched"} /\ mem[s].status # "succeeded"
                  => Blamed(s)
           /\ pc = "wrap" => \A s \in Sessions : mem[s].outcome # "open"
           /\ pc = "done" => \A s \in Sessions : mem[s].outcome # "released"

BatchInv == Types /\ Flow /\ Undecided /\ Candidate /\ Owner /\ Guilt

(* What the helpers on records change.                                       *)
LEMMA Failed ==
  ASSUME NEW m \in Records, NEW who
  PROVE  /\ Fail(m, who) \in Records
         /\ \A s \in Sessions :
              /\ Fail(m, who)[s].status =
                   IF s \in who /\ m[s].status # "pending" THEN "review" ELSE m[s].status
              /\ Fail(m, who)[s].integrated = m[s].integrated
              /\ Fail(m, who)[s].outcome = m[s].outcome
              /\ s \notin who => Fail(m, who)[s] = m[s]
<1> DEFINE f == Fail(m, who)
<1>1. f = [s \in Sessions |-> IF s \notin who THEN m[s]
             ELSE [m[s] EXCEPT !.status = IF @ = "pending" THEN @ ELSE "review", !.waiting = FALSE]]
  BY DEF Fail
<1> HIDE DEF f
<1>2. ASSUME NEW s \in Sessions
      PROVE  /\ f[s] \in Record
             /\ f[s].status = IF s \in who /\ m[s].status # "pending" THEN "review" ELSE m[s].status
             /\ f[s].integrated = m[s].integrated /\ f[s].outcome = m[s].outcome
             /\ s \notin who => f[s] = m[s]
  <2>1. m[s] \in Record
    BY DEF Records
  <2>2. CASE s \notin who
    BY <1>1, <2>1, <2>2
  <2>3. CASE s \in who
    <3> DEFINE st == IF m[s].status = "pending" THEN m[s].status ELSE "review"
               no == FALSE
               b == f[s]
    <3>1. b = [m[s] EXCEPT !.status = st, !.waiting = no]
      BY <1>1, <2>3
    <3>2. st \in {"ready", "review", "pending", "succeeded"} /\ no \in BOOLEAN
      BY <2>1 DEF Record
    <3> HIDE DEF st, no, b
    <3>3. b \in Record
      BY <2>1, <3>1, <3>2 DEF Record
    <3>4. b.status = st /\ b.integrated = m[s].integrated /\ b.outcome = m[s].outcome
      BY <2>1, <3>1 DEF Record
    <3>5. QED
      BY <2>3, <3>3, <3>4 DEF b, st
  <2>4. QED
    BY <2>2, <2>3
<1>3. f \in Records
  BY <1>1, <1>2 DEF Records
<1>4. QED
  BY <1>2, <1>3 DEF f

LEMMA Resolved ==
  ASSUME NEW m \in Records, NEW who,
         NEW how \in {"excluded", "isolated", "batched", "released"}
  PROVE  /\ Resolve(m, who, how) \in Records
         /\ \A s \in Sessions :
              /\ Resolve(m, who, how)[s].outcome = IF s \in who THEN how ELSE m[s].outcome
              /\ Resolve(m, who, how)[s].status = m[s].status
              /\ Resolve(m, who, how)[s].integrated = m[s].integrated
              /\ how \in {"excluded", "released"} =>
                   Resolve(m, who, how)[s].waiting = m[s].waiting
              /\ s \notin who => Resolve(m, who, how)[s] = m[s]
<1> DEFINE f == Resolve(m, who, how)
<1>1. f = [s \in Sessions |-> IF s \notin who THEN m[s]
             ELSE [m[s] EXCEPT !.outcome = how,
                               !.waiting = @ /\ how \notin {"batched", "isolated"}]]
  BY DEF Resolve
<1> HIDE DEF f
<1>2. ASSUME NEW s \in Sessions
      PROVE  /\ f[s] \in Record
             /\ f[s].outcome = IF s \in who THEN how ELSE m[s].outcome
             /\ f[s].status = m[s].status /\ f[s].integrated = m[s].integrated
             /\ how \in {"excluded", "released"} => f[s].waiting = m[s].waiting
             /\ s \notin who => f[s] = m[s]
  <2>1. m[s] \in Record
    BY DEF Records
  <2>2. CASE s \notin who
    BY <1>1, <2>1, <2>2
  <2>3. CASE s \in who
    <3> DEFINE w == m[s].waiting /\ how \notin {"batched", "isolated"}
               b == f[s]
    <3>1. b = [m[s] EXCEPT !.outcome = how, !.waiting = w]
      BY <1>1, <2>3
    <3>2. w \in BOOLEAN /\ (how \in {"excluded", "released"} => w = m[s].waiting)
      <4>1. m[s].waiting \in BOOLEAN
        BY <2>1 DEF Record
      <4>2. QED
        BY <4>1
    <3> HIDE DEF w, b
    <3>3. b \in Record
      BY <2>1, <3>1, <3>2 DEF Record
    <3>4. b.outcome = how /\ b.status = m[s].status /\ b.integrated = m[s].integrated /\ b.waiting = w
      BY <2>1, <3>1 DEF Record
    <3>5. QED
      BY <2>3, <3>2, <3>3, <3>4 DEF b
  <2>4. QED
    BY <2>2, <2>3
<1>3. f \in Records
  BY <1>1, <1>2 DEF Records
<1>4. QED
  BY <1>2, <1>3 DEF f

(* One field of some sessions.                                               *)
WithStatus(m, who, st) == [s \in Sessions |-> IF s \in who THEN [m[s] EXCEPT !.status = st] ELSE m[s]]
Opened(m) == [s \in Sessions |-> [m[s] EXCEPT !.outcome = "open"]]
WithCommit(m, o, c) == [m EXCEPT ![o].integrated = c]
Delivered(m, who) == [s \in Sessions |-> IF s \in who THEN [m[s] EXCEPT !.promoted = TRUE] ELSE m[s]]
Landed(m, o, c, st, p) == [m EXCEPT ![o].status = st, ![o].integrated = c, ![o].promoted = p]

LEMMA StatusSet ==
  ASSUME NEW m \in Records, NEW who, NEW st \in {"pending", "succeeded"}, NEW n, n = WithStatus(m, who, st)
  PROVE  /\ n \in Records
         /\ \A s \in Sessions :
              /\ n[s].status = IF s \in who THEN st ELSE m[s].status
              /\ n[s].integrated = m[s].integrated /\ n[s].outcome = m[s].outcome
              /\ s \notin who => n[s] = m[s]
<1>1. ASSUME NEW s \in Sessions
      PROVE  /\ n[s] \in Record
             /\ n[s].status = IF s \in who THEN st ELSE m[s].status
             /\ n[s].integrated = m[s].integrated /\ n[s].outcome = m[s].outcome
             /\ s \notin who => n[s] = m[s]
  <2>1. m[s] \in Record
    BY DEF Records
  <2>2. n[s] = IF s \in who THEN [m[s] EXCEPT !.status = st] ELSE m[s]
    BY DEF WithStatus
  <2> DEFINE b == n[s]
  <2> HIDE DEF b
  <2>3. CASE s \in who
    <3>1. b = [m[s] EXCEPT !.status = st]
      BY <2>2, <2>3 DEF b
    <3>2. b \in Record
      BY <2>1, <3>1 DEF Record
    <3>3. b.status = st /\ b.integrated = m[s].integrated /\ b.outcome = m[s].outcome
      BY <2>1, <3>1 DEF Record
    <3>4. QED
      BY <2>3, <3>2, <3>3 DEF b
  <2>4. CASE s \notin who
    BY <2>1, <2>2, <2>4
  <2>5. QED
    BY <2>3, <2>4
<1>2. n \in Records
  <2>1. n = [s \in Sessions |-> n[s]]
    BY DEF WithStatus
  <2>2. QED
    BY <1>1, <2>1 DEF Records
<1>3. QED
  BY <1>1, <1>2

LEMMA OutcomeOpened ==
  ASSUME NEW m \in Records, NEW n,
         n = Opened(m)
  PROVE  /\ n \in Records
         /\ \A s \in Sessions :
              /\ n[s].outcome = "open" /\ n[s].status = m[s].status
              /\ n[s].integrated = m[s].integrated /\ n[s].waiting = m[s].waiting
<1>1. ASSUME NEW s \in Sessions
      PROVE  /\ n[s] \in Record
             /\ n[s].outcome = "open" /\ n[s].status = m[s].status
             /\ n[s].integrated = m[s].integrated /\ n[s].waiting = m[s].waiting
  <2>1. m[s] \in Record
    BY DEF Records
  <2> DEFINE b == n[s]
  <2>2. b = [m[s] EXCEPT !.outcome = "open"]
    BY DEF Opened
  <2> HIDE DEF b
  <2>3. b \in Record
    BY <2>1, <2>2 DEF Record
  <2>4. b.outcome = "open" /\ b.status = m[s].status /\ b.integrated = m[s].integrated
        /\ b.waiting = m[s].waiting
    BY <2>1, <2>2 DEF Record
  <2>5. QED
    BY <2>3, <2>4 DEF b
<1>2. n \in Records
  <2>1. n = [s \in Sessions |-> n[s]]
    BY DEF Opened
  <2>2. QED
    BY <1>1, <2>1 DEF Records
<1>3. QED
  BY <1>1, <1>2

LEMMA StagedSet ==
  ASSUME NEW m \in Records, NEW n, NEW o \in Sessions, NEW c \in SUBSET Change,
         n = WithCommit(m, o, c)
  PROVE  /\ n \in Records
         /\ \A s \in Sessions :
              /\ n[s].outcome = m[s].outcome /\ n[s].status = m[s].status
              /\ n[s].waiting = m[s].waiting
              /\ n[s].integrated = IF s = o THEN c ELSE m[s].integrated
<1>1. m[o] \in Record
  BY DEF Records
<1> DEFINE b == [m[o] EXCEPT !.integrated = c]
<1>2. b \in Record /\ b.outcome = m[o].outcome /\ b.status = m[o].status
      /\ b.waiting = m[o].waiting /\ b.integrated = c
  BY <1>1 DEF Record
<1>3. n = [m EXCEPT ![o] = b]
  BY DEF WithCommit
<1> HIDE DEF b
<1>4. \A s \in Sessions : n[s] = IF s = o THEN b ELSE m[s]
  BY <1>3 DEF Records
<1>5. n \in Records
  BY <1>2, <1>3 DEF Records
<1>6. QED
  BY <1>2, <1>4, <1>5

LEMMA PromotedSet ==
  ASSUME NEW m \in Records, NEW who, NEW n,
         n = Delivered(m, who)
  PROVE  /\ n \in Records
         /\ \A s \in Sessions :
              /\ n[s].outcome = m[s].outcome /\ n[s].status = m[s].status
              /\ n[s].integrated = m[s].integrated /\ n[s].waiting = m[s].waiting
<1>1. ASSUME NEW s \in Sessions
      PROVE  /\ n[s] \in Record
             /\ n[s].outcome = m[s].outcome /\ n[s].status = m[s].status
             /\ n[s].integrated = m[s].integrated /\ n[s].waiting = m[s].waiting
  <2>1. m[s] \in Record
    BY DEF Records
  <2> DEFINE b == n[s]
  <2>2. b = IF s \in who THEN [m[s] EXCEPT !.promoted = TRUE] ELSE m[s]
    BY DEF Delivered
  <2> HIDE DEF b
  <2>3. b \in Record
    BY <2>1, <2>2 DEF Record
  <2>4. b.outcome = m[s].outcome /\ b.status = m[s].status /\ b.integrated = m[s].integrated
        /\ b.waiting = m[s].waiting
    BY <2>1, <2>2 DEF Record
  <2>5. QED
    BY <2>3, <2>4 DEF b
<1>2. n \in Records
  <2>1. n = [s \in Sessions |-> n[s]]
    BY DEF Delivered
  <2>2. QED
    BY <1>1, <2>1 DEF Records
<1>3. QED
  BY <1>1, <1>2

Statuses == {"pending", "review", "succeeded"}
IsLanded(n, m, o, c, st) ==
  /\ n \in Records
  /\ n[o].status = st /\ n[o].integrated = c
  /\ \A s \in Sessions : s # o => n[s] = m[s]

LEMMA LandedSet ==
  ASSUME NEW m \in Records, NEW n, NEW o \in Sessions, NEW c \in SUBSET Change, NEW st \in Statuses,
         n = Landed(m, o, c, st, TRUE) \/ n = Landed(m, o, c, st, FALSE)
  PROVE  IsLanded(n, m, o, c, st)
<1>0. ASSUME NEW p \in BOOLEAN, n = Landed(m, o, c, st, p)
      PROVE  IsLanded(n, m, o, c, st)
  <2>1. m[o] \in Record
    BY DEF Records
  <2> DEFINE b == [m[o] EXCEPT !.status = st, !.integrated = c, !.promoted = p]
  <2>2. b \in Record
    BY <2>1 DEF Record, Statuses
  <2>3. b.status = st /\ b.integrated = c
    BY <2>1 DEF Record
  <2>4. n = [m EXCEPT ![o] = b]
    BY <1>0, <2>1 DEF Landed, Records, Record
  <2> HIDE DEF b
  <2>5. \A s \in Sessions : n[s] = IF s = o THEN b ELSE m[s]
    BY <2>4 DEF Records
  <2>6. n \in Records
    BY <2>2, <2>4 DEF Records
  <2>7. QED
    BY <2>3, <2>5, <2>6 DEF IsLanded
<1>1. QED
  BY <1>0

LEMMA Grown ==
  ASSUME NEW w, NEW s, NEW t, NEW u, t \subseteq u
  PROVE  /\ Opposed(w, t, s) => Opposed(w, u, s)
         /\ Breaks(w, t) => Breaks(w, u)
BY DEF Opposed, Breaks

LEMMA NoGroups == InGroups(<<>>) = {} /\ Range(<<>>) = {}
BY DEF InGroups, Range

(* The steps that save no record.                                            *)
LEMMA GroupSteps ==
  ASSUME BatchAssumption, BatchInv, Small \/ Finish
  PROVE  BatchInv'
<1>1. Types /\ Flow /\ Undecided /\ Candidate /\ Owner /\ Guilt
  BY DEF BatchInv
<1>2. /\ world' = world /\ target' = target /\ staging' = staging /\ rec' = rec /\ mem' = mem
      /\ asm' = asm /\ cursor' = cursor /\ aborted' = aborted /\ result' = result
      /\ faults' = faults /\ validated' = validated
  BY DEF Small, Finish, branches, records, plan, ending
<1>3. /\ pc = "group" /\ pc' \in {"group", "alone", "wrap"}
      /\ Groups(todo') /\ InGroups(todo') = InGroups(todo)
      /\ pc' = "alone" => todo' # <<>> /\ Len(Head(todo')) = 1
      /\ pc' = "wrap" => InGroups(todo) = {}
  <2>1. CASE Small
    <3>1. Groups(todo) /\ todo # <<>>
      BY <1>1, <2>1 DEF Types, Small
    <3>2. Head(todo) \in Seq(Sessions)
      BY <3>1, HeadGroup DEF Group
    <3>3. CASE Head(todo) = <<>>
      <4>1. todo' = Tail(todo) /\ pc' = pc /\ pc = "group"
        BY <2>1, <3>3 DEF Small
      <4>2. Groups(Tail(todo)) /\ InGroups(todo) = {} \cup InGroups(Tail(todo))
        BY <3>1, <3>3, HeadGroup, NoGroups
      <4>3. QED
        BY <4>1, <4>2
    <3>4. CASE Head(todo) # <<>>
      <4>1. todo' = todo /\ pc' = "alone" /\ pc = "group" /\ Len(Head(todo)) <= 1
        BY <2>1, <3>4 DEF Small
      <4> DEFINE h == Head(todo)
      <4>2. h \in Seq(Sessions) /\ h # <<>> /\ Len(h) <= 1
        BY <3>2, <3>4, <4>1
      <4> HIDE DEF h
      <4>3. Len(h) = 1
        <5>1. \A q \in Seq(Sessions) : q # <<>> => Len(q) \in Nat \ {0}
          BY EmptySeq
        <5>2. Len(h) \in Nat \ {0}
          BY <4>2, <5>1
        <5> DEFINE n == Len(h)
        <5> HIDE DEF n
        <5>3. n \in Nat \ {0} /\ n <= 1
          BY <4>2, <5>2 DEF n
        <5>4. n = 1
          BY <5>3
        <5>5. QED
          BY <5>4 DEF n
      <4>4. QED
        BY <3>1, <4>1, <4>3 DEF h
    <3>5. QED
      BY <3>3, <3>4
  <2>2. CASE Finish
    BY <1>1, <2>2, NoGroups DEF Types, Finish, plan
  <2>3. QED
    BY <2>1, <2>2
<1>4. Types'
  BY <1>1, <1>2, <1>3 DEF Types, Working
<1>5. Flow'
  BY <1>1, <1>2, <1>3 DEF Flow, Left, Working, Deciding
<1>6. Undecided'
  BY <1>1, <1>2, <1>3 DEF Undecided
<1>7. Candidate'
  BY <1>1, <1>2, <1>3 DEF Candidate, Deciding
<1>8. Owner'
  BY <1>1, <1>2, <1>3 DEF Owner
<1>9. Guilt'
  BY <1>1, <1>2, <1>3 DEF Guilt, Quiet, Blamed, Flow, Left, Working, Deciding
<1>10. QED
  BY <1>4, <1>5, <1>6, <1>7, <1>8, <1>9 DEF BatchInv

LEMMA TargetGrown ==
  ASSUME BatchAssumption, NEW s, BatchInv, world' = world, target \subseteq target',
         \A o \in Sessions : mem'[o].outcome = mem[o].outcome, s \in Sessions, Blamed(s)
  PROVE  Blamed(s)'
<1>1. target \cup world.brings[s] \subseteq target' \cup world.brings[s]
  OBVIOUS
<1>2. /\ Opposed(world, target, s) => Opposed(world, target', s)
      /\ Breaks(world, target \cup world.brings[s]) => Breaks(world, target' \cup world.brings[s])
  BY <1>1, Grown
<1>3. QED
  BY <1>2 DEF Blamed

LEMMA CandidateSteps ==
  ASSUME BatchAssumption, BatchInv,
         \/ ValidationPasses \/ ValidationFails \/ ValidationThrows
         \/ AdvanceStaging \/ StagingRefused \/ Promote
  PROVE  BatchInv'
<1>1. Types /\ Flow /\ Undecided /\ Candidate /\ Owner /\ Guilt
  BY DEF BatchInv
<1>2. /\ world' = world /\ rec' = rec /\ mem' = mem /\ asm' = asm /\ result' = result
      /\ validated \subseteq validated' /\ pc \in Deciding
      /\ faults' = faults \/ faults' = faults + 1
      /\ aborted' = aborted \/ aborted' = "error"
  BY DEF ValidationPasses, ValidationFails, ValidationThrows, AdvanceStaging, StagingRefused,
         Promote, Fault, Abort, branches, records, plan, ending, Deciding
<1>3. /\ asm.included \in Group /\ asm.commit \subseteq Change /\ asm.target \subseteq asm.commit
      /\ asm.included[1] \in Sessions
  <2>1. asm.included \in Group /\ asm.commit \subseteq Change
    BY <1>1 DEF Types, Candidates
  <2>2. Len(asm.included) > 1
    BY <1>1, <1>2 DEF Flow
  <2>3. QED
    BY <1>1, <1>2, <2>1, <2>2 DEF Candidate, Group
<1>4. CASE ValidationPasses
  <2>1. /\ target' = target /\ staging' = staging /\ todo' = todo /\ cursor' = cursor
        /\ aborted' = aborted /\ faults' = faults /\ asm.commit \in validated'
        /\ pc = "validate" /\ pc' = "stage"
    BY <1>4 DEF ValidationPasses, branches, plan, ending
  <2>2. Types' /\ Flow'
    BY <1>1, <1>2, <2>1 DEF Types, Flow, Left, Working, Deciding
  <2>3. Undecided' /\ Candidate' /\ Owner'
    BY <1>1, <1>2, <2>1 DEF Undecided, Candidate, Owner, Deciding
  <2>4. Guilt'
    BY <1>1, <1>2, <2>1 DEF Guilt, Quiet, Blamed
  <2>5. QED
    BY <2>2, <2>3, <2>4 DEF BatchInv
<1>5. CASE ValidationFails
  <2>1. /\ target' = target /\ staging' = staging /\ todo' = Halves(asm.included) \o todo
        /\ cursor' = cursor /\ aborted' = aborted /\ pc = "validate" /\ pc' = "group"
    BY <1>5 DEF ValidationFails, branches, ending
  <2>2. /\ Groups(todo') /\ InGroups(todo') = Range(asm.included) \cup InGroups(todo)
    BY <1>1, <1>3, <2>1, PutHalves DEF Flow, Types, Deciding
  <2>3. Types' /\ Flow'
    BY <1>1, <1>2, <2>1, <2>2 DEF Types, Flow, Left, Working, Deciding
  <2>4. Undecided' /\ Candidate' /\ Owner'
    BY <1>1, <1>2, <2>1 DEF Undecided, Candidate, Owner, Deciding
  <2>5. Guilt'
    BY <1>1, <1>2, <2>1 DEF Types, Guilt, Quiet, Blamed
  <2>6. QED
    BY <2>3, <2>4, <2>5 DEF BatchInv
<1>6. CASE ValidationThrows \/ StagingRefused
  <2>1. /\ target' = target /\ staging' = staging /\ todo' = todo /\ cursor' = cursor
        /\ aborted' = "error" /\ pc \in {"validate", "stage"} /\ pc' = "wrap"
    BY <1>6 DEF ValidationThrows, StagingRefused, branches, plan, Abort
  <2>2. Types' /\ Flow'
    BY <1>1, <1>2, <2>1 DEF Types, Flow, Left, Working, Deciding
  <2>3. Undecided' /\ Candidate' /\ Owner' /\ Guilt'
    BY <1>1, <1>2, <2>1 DEF Undecided, Candidate, Owner, Deciding, Guilt, Quiet
  <2>4. QED
    BY <2>2, <2>3 DEF BatchInv
<1>7. CASE AdvanceStaging
  <2>1. /\ target' = target /\ staging' = asm.commit /\ todo' = todo /\ cursor' = 1
        /\ aborted' = aborted /\ faults' = faults /\ pc = "stage" /\ pc' = "record"
    BY <1>7 DEF AdvanceStaging, ending
  <2>2. Types' /\ Flow'
    BY <1>1, <1>2, <1>3, <2>1 DEF Types, Flow, Left, Working, Deciding
  <2>3. Undecided' /\ Candidate' /\ Owner'
    BY <1>1, <1>2, <2>1 DEF Undecided, Candidate, Owner, Deciding
  <2>4. Guilt'
    BY <1>1, <1>2, <2>1 DEF Guilt, Quiet, Blamed
  <2>5. QED
    BY <2>2, <2>3, <2>4 DEF BatchInv
<1>8. CASE Promote
  <2>1. /\ target' = asm.commit /\ staging' = staging /\ todo' = todo /\ cursor' = cursor
        /\ aborted' = aborted /\ faults' = faults /\ pc = "promote" /\ pc' = "promoted"
        /\ target \subseteq target'
    BY <1>3, <1>8 DEF Promote, Promotable, plan, ending
  <2>2. Types' /\ Flow'
    BY <1>1, <1>2, <1>3, <2>1 DEF Types, Flow, Left, Working, Deciding
  <2>3. Undecided' /\ Candidate' /\ Owner'
    BY <1>1, <1>2, <2>1 DEF Undecided, Candidate, Owner, Deciding
  <2>4. Guilt'
    <3>1. ASSUME NEW s \in Sessions, Blamed(s) PROVE Blamed(s)'
      BY <1>2, <2>1, <3>1, TargetGrown
    <3>2. QED
      BY <1>1, <1>2, <2>1, <3>1 DEF Guilt, Quiet
  <2>5. QED
    BY <2>2, <2>3, <2>4 DEF BatchInv
<1>9. QED
  BY <1>4, <1>5, <1>6, <1>7, <1>8

LEMMA UserSteps ==
  ASSUME BatchAssumption, BatchInv, Users_
  PROVE  BatchInv'
<1>1. Types /\ Flow /\ Undecided /\ Candidate /\ Owner /\ Guilt
  BY DEF BatchInv
<1>2. PICK u \in Users : UserCommits(u) \/ UserMovesStaging(u)
  BY DEF Users_
<1>3. u \in Change /\ u \notin Sessions
  BY DEF BatchAssumption, Change
<1>4. /\ world' = world /\ rec' = rec /\ mem' = mem /\ asm' = asm /\ todo' = todo /\ cursor' = cursor
      /\ result' = result /\ validated' = validated /\ aborted' = aborted /\ pc' = pc /\ pc # "done"
  BY <1>2 DEF UserCommits, UserMovesStaging, records, plan, ending
<1>5. /\ target \subseteq target' /\ target' \subseteq Change
      /\ \/ staging' = staging /\ faults' = faults
         \/ staging' = target' /\ faults' = faults
         \/ staging' = target' \cup {u} /\ faults' = faults + 1
  BY <1>1, <1>2, <1>3 DEF UserCommits, UserMovesStaging, Fault, Types
<1>6. Types' /\ Flow'
  BY <1>1, <1>3, <1>4, <1>5 DEF Types, Flow, Left, Working, Deciding
<1>7. Undecided' /\ Candidate' /\ Owner'
  BY <1>1, <1>3, <1>4, <1>5 DEF Undecided, Candidate, Owner, Deciding
<1>8. Guilt'
  <2>1. ASSUME NEW s \in Sessions, Blamed(s) PROVE Blamed(s)'
    BY <1>4, <1>5, <2>1, TargetGrown
  <2>2. QED
    BY <1>1, <1>4, <1>5, <2>1 DEF Types, Guilt, Quiet
<1>9. QED
  BY <1>6, <1>7, <1>8 DEF BatchInv

(* The steps that save records.                                              *)
LEMMA OpenStep ==
  ASSUME BatchAssumption, BatchInv, Open
  PROVE  BatchInv'
<1>1. Types /\ Flow /\ Undecided /\ Candidate /\ Owner /\ Guilt
  BY DEF BatchInv
<1>2. /\ world' = world /\ target' = target /\ staging' = staging /\ asm' = asm /\ todo' = todo
      /\ cursor' = cursor /\ aborted' = aborted /\ faults' = faults /\ validated' = validated
      /\ pc = "open" /\ rec = mem
  BY <1>1 DEF Open, branches, plan, Flow
<1>3. CASE StagingFits
  <2>1. /\ pc' = "group" /\ result' = result /\ rec' = mem'
        /\ mem' = Opened(mem)
    BY <1>2, <1>3 DEF Open, Save, Opened
  <2>2. /\ mem' \in Records
        /\ \A s \in Sessions :
             /\ mem'[s].outcome = "open" /\ mem'[s].status = mem[s].status
             /\ mem'[s].integrated = mem[s].integrated /\ mem'[s].waiting = mem[s].waiting
    <3>1. mem \in Records
      BY <1>1 DEF Types
    <3>2. QED
      BY <2>1, <3>1, OutcomeOpened
  <2>3. Types' /\ Flow'
    BY <1>1, <1>2, <2>1, <2>2 DEF Types, Flow, Left, Working, Deciding
  <2>4. Undecided' /\ Candidate'
    <3>1. \A s \in Sessions : /\ mem[s].status = "ready" /\ mem[s].integrated = None
                              /\ s # Leader => mem[s].waiting
      BY <1>1, <1>2 DEF Flow, Undecided
    <3>2. Undecided'
      BY <2>2, <3>1 DEF Undecided
    <3>3. Candidate'
      BY <1>1, <1>2, <2>1, <2>2 DEF Candidate, Deciding
    <3>4. QED
      BY <3>2, <3>3
  <2>5. Owner'
    BY <1>1, <1>2, <1>3, <2>1, <2>2 DEF StagingFits, Owner
  <2>6. Guilt'
    BY <1>1, <1>2, <1>3, <2>1, <2>2 DEF StagingFits, Guilt, Quiet
  <2>7. QED
    BY <2>3, <2>4, <2>5, <2>6 DEF BatchInv
<1>4. CASE ~StagingFits
  <2>1. pc' = "done" /\ result' = "none" /\ rec' = mem' /\ mem' = mem
    BY <1>2, <1>4 DEF Open, records
  <2>2. Types' /\ Flow'
    BY <1>1, <1>2, <2>1 DEF Types, Flow, Left, Working, Deciding
  <2>3. Undecided' /\ Candidate' /\ Owner'
    BY <1>1, <1>2, <2>1 DEF Flow, Undecided, Candidate, Owner, Deciding
  <2>4. Guilt'
    BY <1>1, <1>2, <2>1 DEF Guilt, Quiet, Blamed, Flow
  <2>5. QED
    BY <2>2, <2>3, <2>4 DEF BatchInv
<1>5. QED
  BY <1>3, <1>4

(* Saving who is excluded: nobody else's record changes, and who is excluded *)
(* disagrees with what landed or with a session of the batch.                *)
ExcludedSaved ==
  /\ rec' = mem' /\ mem' \in Records
  /\ \A s \in Sessions :
       /\ mem'[s].status = mem[s].status /\ mem'[s].integrated = mem[s].integrated
       /\ mem'[s].waiting = mem[s].waiting
       /\ mem'[s].outcome =
            IF s \in Range(Head(todo)) \ Range(Assembled(Head(todo)).included)
            THEN "excluded" ELSE mem[s].outcome
LEMMA Excludes ==
  ASSUME BatchAssumption, BatchInv, pc = "group", todo # <<>>,
         rec' = WithoutExcluded, mem' = WithoutExcluded
  PROVE  /\ ExcludedSaved
         /\ Assembles(Assembled(Head(todo)), Head(todo), Len(Head(todo)))
         /\ Members(Head(todo), Len(Head(todo))) = Range(Head(todo))
         /\ \A s \in Range(Head(todo)) \ Range(Assembled(Head(todo)).included) :
              \/ Opposed(world, target, s)
              \/ \E t \in Sessions : Opposed(world, world.brings[t], s)
<1>1. Types /\ Flow /\ Groups(todo) /\ mem \in Records
  BY DEF BatchInv, Types
<1>2. Head(todo) \in Group
  BY <1>1, HeadGroup
<1>3. Assembles(Assembled(Head(todo)), Head(todo), Len(Head(todo)))
  BY <1>1, <1>2, AssembledIs DEF Types
<1> DEFINE g == Head(todo)
           a == Assembled(g)
           out == Range(g) \ Range(a.included)
<1>4. Members(g, Len(g)) = Range(g)
  <2>1. g \in Seq(Sessions)
    BY <1>2 DEF Group
  <2> HIDE DEF g
  <2>2. DOMAIN g = 1 .. Len(g)
    BY <2>1
  <2>3. QED
    BY <2>2, RangeOf DEF Members
<1>5. mem' = Resolve(mem, out, "excluded") /\ rec' = mem'
  BY DEF WithoutExcluded
<1> HIDE DEF a
<1>6. ExcludedSaved
  BY <1>1, <1>5, Resolved DEF ExcludedSaved, a
<1>7. ASSUME NEW s \in out
      PROVE  \/ Opposed(world, target, s)
             \/ \E t \in Sessions : Opposed(world, world.brings[t], s)
  <2>1. /\ a.commit \subseteq target \cup UNION {world.brings[t] : t \in Members(g, Len(g))}
        /\ Members(g, Len(g)) \subseteq Sessions
        /\ Disagrees(a.commit, s)
    <3>1. Range(g) \subseteq Sessions
      <4>1. g \in Seq(Sessions)
        BY <1>2 DEF Group
      <4> HIDE DEF g
      <4>2. QED
        BY <4>1, RangeOf
    <3> HIDE DEF g
    <3>2. QED
      BY <1>3, <1>4, <1>7, <3>1 DEF a, g, Assembles, Ready
  <2>2. PICK c \in a.commit \ world.brings[s], d \in world.brings[s] : {c, d} \in world.clash
    BY <2>1 DEF Disagrees, Ready
  <2>3. c \in target \/ \E t \in Sessions : c \in world.brings[t]
    BY <2>1, <2>2
  <2>4. QED
    BY <2>2, <2>3 DEF Opposed
<1>8. QED
  BY <1>3, <1>4, <1>6, <1>7 DEF a

LEMMA AssembleStep ==
  ASSUME BatchAssumption, BatchInv, Assemble
  PROVE  BatchInv'
<1> DEFINE g == Head(todo)
           made == Assembled(g)
           group == made.included
           out == Range(g) \ Range(group)
<1>1. Types /\ Flow /\ Undecided /\ Candidate /\ Owner /\ Guilt
  BY DEF BatchInv
<1>2. /\ world' = world /\ target' = target /\ staging' = staging /\ asm' = made
      /\ cursor' = cursor /\ aborted' = aborted /\ faults' = faults /\ validated' = validated
      /\ result' = result /\ pc = "group" /\ StagingFits /\ todo # <<>>
      /\ rec' = WithoutExcluded /\ mem' = WithoutExcluded
  BY DEF Assemble, branches, ending, Save
<1>3. /\ ExcludedSaved /\ Assembles(made, g, Len(g)) /\ Members(g, Len(g)) = Range(g)
      /\ \A s \in out : \/ Opposed(world, target, s)
                        \/ \E t \in Sessions : Opposed(world, world.brings[t], s)
  BY <1>2, Excludes
<1>4. /\ g \in Group /\ Groups(Tail(todo)) /\ Range(g) \cap InGroups(Tail(todo)) = {}
      /\ InGroups(todo) = Range(g) \cup InGroups(Tail(todo))
  BY <1>1, <1>2, HeadGroup DEF Types
<1>5. /\ made \in Candidates /\ group \in Group /\ Range(group) \subseteq Range(g)
      /\ made.target \subseteq made.commit
      /\ \A s \in Range(group) : world.brings[s] \subseteq made.commit
  <2> HIDE DEF made, g
  <2>1. made.included \in Group /\ made \in Shape
    BY <1>3 DEF Assembles
  <2>2. made \in Candidates
    BY <1>1, <2>1 DEF Shape, Candidates, Types
  <2>3. made.target = target
    BY <2>1 DEF Shape
  <2>4. QED
    BY <1>3, <2>1, <2>2, <2>3 DEF Assembles, Ready
<1>6. \/ Len(group) <= 1 /\ todo' = <<group>> \o Tail(todo) /\ pc' = "group"
      \/ Len(group) > 1 /\ todo' = Halves(group) \o Tail(todo) /\ pc' = "group"
      \/ Len(group) > 1 /\ todo' = Tail(todo) /\ pc' = "validate"
  BY DEF Assemble
<1> HIDE DEF g, made
<1>7. mem' \in Records /\ rec' = mem'
      /\ \A s \in Sessions :
           /\ mem'[s].status = mem[s].status /\ mem'[s].integrated = mem[s].integrated
           /\ mem'[s].waiting = mem[s].waiting
           /\ mem'[s].outcome = IF s \in out THEN "excluded" ELSE mem[s].outcome
  BY <1>3 DEF ExcludedSaved, g, made
<1>8. /\ pc' \in {"group", "validate"} /\ Groups(todo')
      /\ InGroups(todo') = InGroups(Tail(todo)) \cup (IF pc' = "group" THEN Range(group) ELSE {})
      /\ pc' = "validate" => Len(asm'.included) > 1
  <2>1. Range(group) \cap InGroups(Tail(todo)) = {}
    BY <1>4, <1>5
  <2>2. CASE Len(group) <= 1 /\ todo' = <<group>> \o Tail(todo) /\ pc' = "group"
    BY <1>4, <1>5, <2>1, <2>2, PutGroup
  <2>3. CASE Len(group) > 1 /\ todo' = Halves(group) \o Tail(todo) /\ pc' = "group"
    BY <1>4, <1>5, <2>1, <2>3, PutHalves
  <2>4. CASE Len(group) > 1 /\ todo' = Tail(todo) /\ pc' = "validate"
    BY <1>2, <1>4, <2>4
  <2>5. QED
    BY <1>6, <2>2, <2>3, <2>4
<1> HIDE DEF group
<1>9. asm'.included = group
  BY <1>2 DEF group
<1>10. \A s \in Sessions : mem[s].outcome = "open" <=> s \in Range(g) \cup InGroups(Tail(todo))
  BY <1>1, <1>2, <1>4 DEF Flow, Left, Working, Deciding
<1>11. \A s \in Sessions : mem'[s].outcome = "open" <=> s \in Range(group) \cup InGroups(Tail(todo))
  BY <1>4, <1>5, <1>7, <1>10
<1>12. Types'
  BY <1>1, <1>2, <1>5, <1>7, <1>8 DEF Types, Working, Deciding
<1>13. Flow'
  <2>1. pc' \in Working => \A s \in Sessions : mem'[s].outcome = "open" <=> s \in Left'
    BY <1>8, <1>9, <1>11 DEF Left, Deciding
  <2>2. pc' \in Deciding => Range(asm'.included) \cap InGroups(todo') = {} /\ Len(asm'.included) > 1
    BY <1>4, <1>5, <1>8, <1>9 DEF Deciding
  <2>3. \A s \in Sessions : mem'[s].outcome \notin {"released", "none"}
    BY <1>1, <1>2, <1>7 DEF Flow, Working
  <2>4. QED
    BY <1>1, <1>2, <1>7, <1>8, <2>1, <2>2, <2>3 DEF Flow
<1>14. Undecided'
  <2>1. \A s \in out : s \in Sessions => mem[s].outcome = "open"
    BY <1>10
  <2>2. \A s \in Sessions : mem[s].integrated = None \/ mem[s].outcome \notin {"none", "open", "excluded", "released"}
    BY <1>1, <1>2 DEF Undecided
  <2>3. \A s \in Sessions : mem'[s].outcome \in {"none", "open", "excluded", "released"} =>
          /\ mem[s].outcome \in {"none", "open", "excluded", "released"}
    BY <1>7, <2>1
  <2>4. QED
    BY <1>1, <1>7, <2>2, <2>3 DEF Undecided
<1>15. Candidate'
  BY <1>1, <1>2, <1>5, <1>7, <1>8, <1>9 DEF Candidate, Deciding
<1>16. Owner'
  <2>1. \A s \in out : s \in Sessions => mem[s].outcome = "open"
    BY <1>10
  <2>2. \A s \in Sessions : mem[s].outcome \in {"batched", "isolated"} => mem'[s].outcome = mem[s].outcome
    BY <1>7, <2>1
  <2>3. QED
    BY <1>1, <1>2, <1>7, <2>2 DEF Owner
<1>17. Guilt'
  <2>1. ASSUME NEW s \in Sessions, Quiet',
               mem'[s].outcome \in {"excluded", "isolated", "batched"}, mem'[s].status # "succeeded"
        PROVE  Blamed(s)'
    <3>1. CASE s \in out
      BY <1>2, <1>3, <1>7, <3>1 DEF Blamed, group, made, g
    <3>2. CASE s \notin out
      <4>1. Quiet
        BY <1>2, <1>7, <2>1 DEF Quiet
      <4>2. Blamed(s)
        BY <1>1, <1>7, <2>1, <3>2, <4>1 DEF Guilt
      <4>3. QED
        BY <1>2, <1>7, <3>2, <4>2 DEF Blamed
    <3>3. QED
      BY <3>1, <3>2
  <2>2. staging # None => staging \subseteq target
    BY <1>2 DEF StagingFits
  <2>3. QED
    BY <1>2, <1>8, <2>1, <2>2 DEF Guilt
<1>18. QED
  BY <1>12, <1>13, <1>14, <1>15, <1>16, <1>17 DEF BatchInv

LEMMA AssembleFailsStep ==
  ASSUME BatchAssumption, BatchInv, AssembleFails
  PROVE  BatchInv'
<1>1. Types /\ Flow /\ Undecided /\ Candidate /\ Owner /\ Guilt
  BY DEF BatchInv
<1>2. /\ world' = world /\ target' = target /\ staging' = staging /\ asm' = asm /\ todo' = todo
      /\ cursor' = cursor /\ validated' = validated /\ pc = "group" /\ pc' = "wrap" /\ todo # <<>>
      /\ aborted' \in {"unavailable", "error"} /\ (faults' = faults \/ faults' = faults + 1)
      /\ \/ rec' = rec /\ mem' = mem
         \/ rec' = WithoutExcluded /\ mem' = WithoutExcluded
  BY DEF AssembleFails, branches, records, plan, Abort, Fault, Save
<1>3. /\ rec' = mem' /\ mem' \in Records
      /\ \A s \in Sessions :
           /\ mem'[s].status = mem[s].status /\ mem'[s].integrated = mem[s].integrated
           /\ mem'[s].waiting = mem[s].waiting
           /\ \/ mem'[s].outcome = mem[s].outcome
              \/ mem[s].outcome = "open" /\ mem'[s].outcome = "excluded"
  <2>1. CASE rec' = rec /\ mem' = mem
    BY <1>1, <1>2, <2>1 DEF Types, Flow
  <2>2. CASE rec' = WithoutExcluded /\ mem' = WithoutExcluded
    <3>1. ExcludedSaved
      BY <1>2, <2>2, Excludes
    <3>2. Range(Head(todo)) \subseteq InGroups(todo)
      BY <1>1, <1>2, HeadGroup DEF Types
    <3>3. \A s \in Sessions : s \in Range(Head(todo)) => mem[s].outcome = "open"
      BY <1>1, <1>2, <3>2 DEF Flow, Left, Working
    <3>4. QED
      BY <3>1, <3>3 DEF ExcludedSaved
  <2>3. QED
    BY <1>2, <2>1, <2>2
<1>4. Types'
  BY <1>1, <1>2, <1>3 DEF Types
<1>5. Flow'
  BY <1>1, <1>2, <1>3 DEF Flow, Working, Deciding
<1>6. Undecided'
  <2>1. \A s \in Sessions : mem[s].integrated = None \/ mem[s].outcome \notin {"none", "open", "excluded", "released"}
    BY <1>1, <1>2 DEF Undecided
  <2>2. \A s \in Sessions : mem'[s].outcome \in {"none", "open", "excluded", "released"} =>
          /\ mem[s].outcome \in {"none", "open", "excluded", "released"}
    BY <1>3
  <2>3. QED
    BY <1>1, <1>3, <2>1, <2>2 DEF Undecided
<1>7. Candidate' /\ Guilt'
  BY <1>1, <1>2, <1>3 DEF Candidate, Deciding, Guilt, Quiet
<1>8. Owner'
  <2>1. \A s \in Sessions : mem[s].outcome \in {"batched", "isolated"} => mem'[s].outcome = mem[s].outcome
    BY <1>3
  <2>2. QED
    BY <1>1, <1>2, <1>3, <2>1 DEF Owner
<1>9. QED
  BY <1>4, <1>5, <1>6, <1>7, <1>8 DEF BatchInv

(* Whoever is in a candidate has no outcome, and is as it came.              *)
LEMMA BatchIsOpen ==
  ASSUME BatchAssumption, BatchInv, pc \in Deciding
  PROVE  /\ Batch = Range(asm.included) /\ Batch \subseteq Sessions
         /\ asm.included \in Group /\ Len(asm.included) > 1 /\ asm.commit \in SUBSET Change
         /\ \A i \in 1 .. Len(asm.included) : asm.included[i] \in Batch
         /\ \A s \in Batch : mem[s].outcome = "open" /\ mem[s].status = "ready"
         /\ \A s \in Sessions \ Batch : mem[s].outcome = "open" <=> s \in InGroups(todo)
         /\ Batch \cap InGroups(todo) = {}
<1>1. Types /\ Flow /\ Undecided
  BY DEF BatchInv
<1>2. /\ Batch = Range(asm.included) /\ asm.included \in Group /\ asm.commit \in SUBSET Change
      /\ Len(asm.included) > 1 /\ Batch \cap InGroups(todo) = {}
  BY <1>1 DEF Batch, Types, Candidates, Flow
<1>3. asm.included \in Seq(Sessions) /\ DOMAIN asm.included = 1 .. Len(asm.included)
  BY <1>2 DEF Group
<1>4. Batch \subseteq Sessions /\ \A i \in 1 .. Len(asm.included) : asm.included[i] \in Batch
  BY <1>2, <1>3, RangeOf
<1>5. \A s \in Sessions : mem[s].outcome = "open" <=> s \in Batch \/ s \in InGroups(todo)
  BY <1>1, <1>2 DEF Flow, Left, Working
<1>6. \A s \in Batch : mem[s].outcome = "open" /\ mem[s].status = "ready"
  BY <1>1, <1>4, <1>5 DEF Undecided
<1>7. QED
  BY <1>2, <1>4, <1>5, <1>6

LEMMA RecordSteps ==
  ASSUME BatchAssumption, BatchInv, RecordStaged \/ RecordingFails
  PROVE  BatchInv'
<1> DEFINE o == asm.included[cursor]
           first == asm.included[1]
<1>1. Types /\ Flow /\ Undecided /\ Candidate /\ Owner /\ Guilt
  BY DEF BatchInv
<1>2. /\ world' = world /\ target' = target /\ staging' = staging /\ asm' = asm /\ todo' = todo
      /\ validated' = validated /\ pc = "record" /\ mem' = WithCommit(mem, o, asm.commit)
  BY DEF WithCommit, RecordStaged, RecordingFails, branches, plan, Save, Staged
<1>3. pc \in Deciding /\ cursor \in 1 .. Len(asm.included) /\ aborted = "no" /\ rec = mem
  BY <1>1, <1>2 DEF Deciding, Flow
<1>4. /\ Batch = Range(asm.included) /\ Batch \subseteq Sessions /\ asm.commit \in SUBSET Change
      /\ o \in Batch /\ first \in Batch /\ Len(asm.included) \in Nat
      /\ \A s \in Batch : mem[s].outcome = "open" /\ mem[s].status = "ready"
  <2>1. asm.included \in Seq(Sessions) /\ Len(asm.included) > 1
    BY <1>3, BatchIsOpen DEF Group
  <2>2. Len(asm.included) \in Nat /\ 1 \in 1 .. Len(asm.included)
    BY <2>1
  <2>3. QED
    BY <1>3, <2>2, BatchIsOpen
<1> HIDE DEF o
<1>5. /\ mem' \in Records
      /\ \A s \in Sessions :
           /\ mem'[s].outcome = mem[s].outcome /\ mem'[s].status = mem[s].status
           /\ mem'[s].waiting = mem[s].waiting
           /\ mem'[s].integrated = IF s = o THEN asm.commit ELSE mem[s].integrated
  <2>1. mem \in Records /\ o \in Sessions
    BY <1>1, <1>4 DEF Types
  <2>2. QED
    <3> DEFINE c == asm.commit
    <3>1. mem' = WithCommit(mem, o, c) /\ c \in SUBSET Change
      BY <1>2, <1>4
    <3> HIDE DEF c, first
    <3>2. /\ mem' \in Records
          /\ \A s \in Sessions :
               /\ mem'[s].outcome = mem[s].outcome /\ mem'[s].status = mem[s].status
               /\ mem'[s].waiting = mem[s].waiting
               /\ mem'[s].integrated = IF s = o THEN c ELSE mem[s].integrated
      BY <2>1, <3>1, StagedSet
    <3>3. QED
      BY <3>2 DEF c
<1> HIDE DEF first
<1>6. CASE RecordStaged
  <2>1. /\ rec' = mem' /\ aborted' = aborted /\ faults' = faults /\ result' = result
        /\ \/ cursor = Len(asm.included) /\ pc' = "promote" /\ cursor' = cursor
           \/ cursor # Len(asm.included) /\ pc' = "record" /\ cursor' = cursor + 1
    BY <1>2, <1>6 DEF RecordStaged, Save, ending
  <2>2. Types'
    BY <1>1, <1>2, <1>5, <2>1 DEF Types, Working, Deciding
  <2>3. pc' = "record" => cursor' \in 1 .. Len(asm.included)
    BY <1>3, <1>4, <2>1
  <2>4. Flow'
    BY <1>1, <1>2, <1>5, <2>1, <2>3 DEF Flow, Left, Working, Deciding
  <2>5. Undecided'
    BY <1>1, <1>2, <1>4, <1>5, <2>1 DEF Undecided
  <2>6. Candidate'
    BY <1>1, <1>2, <1>5, <2>1 DEF Candidate, Deciding
  <2>7. Owner'
    <3>1. CASE \/ staging = None \/ staging \cap Sessions \subseteq target
      BY <1>2, <3>1 DEF Owner
    <3>2. CASE \E s \in Sessions :
                 /\ mem[s].outcome \in {"batched", "isolated"} /\ mem[s].status \in {"review", "pending"}
                 /\ mem[s].integrated = staging
      BY <1>2, <1>4, <1>5, <3>2 DEF Owner
    <3>3. CASE staging = asm.commit /\ (cursor = 1 \/ mem[first].integrated = asm.commit)
      <4>1. mem'[first].integrated = asm.commit
        BY <1>4, <1>5, <3>3 DEF first, o
      <4>2. QED
        BY <1>2, <2>1, <3>3, <4>1 DEF Owner, first
    <3>4. QED
      BY <1>1, <1>2, <3>1, <3>2, <3>3 DEF Owner, first
  <2>8. Guilt'
    BY <1>1, <1>2, <1>5, <2>1 DEF Guilt, Quiet, Blamed
  <2>9. QED
    BY <2>2, <2>4, <2>5, <2>6, <2>7, <2>8 DEF BatchInv
<1>7. CASE RecordingFails
  <2>1. /\ rec' = rec /\ aborted' = "error" /\ faults' = faults + 1 /\ result' = result
        /\ pc' = "wrap" /\ cursor' = cursor
    BY <1>2, <1>7 DEF RecordingFails, Fault, Abort, plan
  <2>2. Types'
    BY <1>1, <1>2, <1>5, <2>1 DEF Types, Working, Deciding
  <2>3. Flow'
    BY <1>1, <1>2, <1>5, <2>1 DEF Flow, Left, Working, Deciding
  <2>4. Undecided'
    BY <1>1, <1>2, <1>4, <1>5, <2>1 DEF Undecided
  <2>5. Candidate' /\ Guilt'
    BY <1>1, <1>2, <1>5, <2>1 DEF Candidate, Deciding, Guilt, Quiet
  <2>6. Owner'
    <3>1. CASE \/ staging = None \/ staging \cap Sessions \subseteq target
      BY <1>2, <3>1 DEF Owner
    <3>2. CASE \E s \in Sessions :
                 /\ mem[s].outcome \in {"batched", "isolated"} /\ mem[s].status \in {"review", "pending"}
                 /\ mem[s].integrated = staging
      BY <1>2, <1>4, <1>5, <3>2 DEF Owner
    <3>3. CASE staging = asm.commit
      <4>1. o \in Sessions /\ mem'[o].outcome = "open" /\ mem'[o].integrated = staging'
        BY <1>2, <1>4, <1>5, <3>3
      <4>2. QED
        BY <2>1, <4>1 DEF Owner
    <3>4. QED
      BY <1>1, <1>2, <3>1, <3>2, <3>3 DEF Owner
  <2>7. QED
    BY <2>2, <2>3, <2>4, <2>5, <2>6 DEF BatchInv
<1>8. QED
  BY <1>6, <1>7

LEMMA RecordPromotedStep ==
  ASSUME BatchAssumption, BatchInv, RecordPromoted
  PROVE  BatchInv'
<1>1. Types /\ Flow /\ Undecided /\ Candidate /\ Owner /\ Guilt
  BY DEF BatchInv
<1>2. /\ world' = world /\ target' = target /\ staging' = staging /\ asm' = asm /\ todo' = todo
      /\ cursor' = cursor /\ validated' = validated /\ aborted' = aborted /\ faults' = faults
      /\ result' = result /\ pc = "promoted" /\ pc' = "complete" /\ rec' = mem' /\ mem' = Promoted
  BY DEF RecordPromoted, branches, plan, ending, Save
<1>3. /\ mem' \in Records
      /\ \A s \in Sessions :
           /\ mem'[s].outcome = mem[s].outcome /\ mem'[s].status = mem[s].status
           /\ mem'[s].integrated = mem[s].integrated /\ mem'[s].waiting = mem[s].waiting
  <2>1. mem \in Records
    BY <1>1 DEF Types
  <2>2. mem' = Delivered(mem, Batch)
    BY <1>2 DEF Promoted, Delivered
  <2>3. QED
    BY <2>1, <2>2, PromotedSet
<1>4. Types' /\ Flow'
  BY <1>1, <1>2, <1>3 DEF Types, Flow, Left, Working, Deciding
<1>5. Undecided' /\ Candidate' /\ Owner'
  BY <1>1, <1>2, <1>3 DEF Undecided, Candidate, Owner, Deciding
<1>6. Guilt'
  BY <1>1, <1>2, <1>3 DEF Guilt, Quiet, Blamed
<1>7. QED
  BY <1>4, <1>5, <1>6 DEF BatchInv

(* The members of a candidate get their outcome.                             *)
LEMMA BatchDecided ==
  ASSUME BatchAssumption, BatchInv, pc \in {"promote", "complete"},
         rec' = mem', mem' \in Records, world' = world, target' = target, staging' = staging,
         asm' = asm, todo' = todo, cursor' = cursor, validated' = validated, result' = result,
         \A s \in Sessions \ Batch : mem'[s] = mem[s],
         \A s \in Batch : /\ mem'[s].outcome = "batched" /\ mem'[s].integrated = mem[s].integrated
                          /\ mem'[s].status \in {"review", "pending", "succeeded"}
                          /\ mem'[s].status = "succeeded" => pc = "complete",
         faults' = faults \/ faults' = faults + 1,
         \/ pc = "complete" /\ pc' = "group" /\ aborted' = aborted
         \/ pc = "promote" /\ pc' = "wrap" /\ aborted' \in {aborted, "error"},
         \/ faults' # faults \/ aborted' = "error"
         \/ \A s \in Batch : mem'[s].status = "pending"
         \/ pc = "complete" /\ \A s \in Batch : mem'[s].status = "succeeded"
  PROVE  BatchInv'
<1>1. Types /\ Flow /\ Undecided /\ Candidate /\ Owner /\ Guilt
  BY DEF BatchInv
<1>2. pc \in Deciding /\ aborted = "no" /\ pc # "wrap" /\ pc # "done"
  BY <1>1 DEF Deciding, Flow
<1>3. /\ Batch = Range(asm.included) /\ Batch \subseteq Sessions /\ Batch \cap InGroups(todo) = {}
      /\ asm.included[1] \in Batch
      /\ \A s \in Batch : mem[s].outcome = "open" /\ mem[s].status = "ready"
      /\ \A s \in Sessions \ Batch : mem[s].outcome = "open" <=> s \in InGroups(todo)
  <2>1. asm.included \in Seq(Sessions) /\ Len(asm.included) > 1
    BY <1>2, BatchIsOpen DEF Group
  <2>2. 1 \in 1 .. Len(asm.included)
    BY <2>1
  <2>3. QED
    BY <1>2, <2>2, BatchIsOpen
<1>4. Types'
  BY <1>1 DEF Types, Working
<1>5. Flow'
  <2>1. pc' = "group" => \A s \in Sessions : mem'[s].outcome = "open" <=> s \in InGroups(todo')
    BY <1>3
  <2>2. \A s \in Sessions : mem'[s].outcome \notin {"released", "none"}
    BY <1>1, <1>2, <1>3 DEF Flow, Working
  <2>3. QED
    BY <1>2, <2>1, <2>2 DEF Flow, Left, Working, Deciding
<1>6. Undecided'
  <2>1. ASSUME NEW s \in Sessions, mem'[s].outcome \in {"none", "open", "excluded", "released"}
        PROVE  s \notin Batch /\ mem'[s] = mem[s] /\ mem[s].integrated = None
    <3>1. s \notin Batch /\ mem'[s] = mem[s]
      BY <2>1
    <3>2. QED
      BY <1>1, <1>2, <1>3, <2>1, <3>1 DEF Undecided
  <2>2. QED
    BY <1>1, <2>1 DEF Undecided
<1>7. Candidate'
  <2>1. ASSUME NEW s \in Sessions, mem'[s].status = "succeeded"
        PROVE  world.brings[s] \subseteq target
    <3>1. CASE s \in Batch
      BY <1>1, <1>2, <1>3, <2>1, <3>1 DEF Candidate
    <3>2. CASE s \notin Batch
      BY <1>1, <2>1, <3>2 DEF Candidate
    <3>3. QED
      BY <3>1, <3>2
  <2>2. QED
    BY <2>1 DEF Candidate, Deciding
<1>8. Owner'
  <2>1. CASE \/ staging = None \/ staging \cap Sessions \subseteq target
    BY <2>1 DEF Owner
  <2>2. CASE \E s \in Sessions :
               /\ mem[s].outcome \in {"batched", "isolated"} /\ mem[s].status \in {"review", "pending"}
               /\ mem[s].integrated = staging
    BY <1>3, <2>2 DEF Owner
  <2>3. CASE pc = "promote" /\ staging = asm.commit /\ mem[asm.included[1]].integrated = asm.commit
    BY <1>3, <2>3 DEF Owner
  <2>4. QED
    BY <1>1, <1>2, <2>1, <2>2, <2>3 DEF Owner
<1>9. Guilt'
  <2>1. SUFFICES ASSUME Quiet' PROVE Guilt'
    BY DEF Guilt
  <2>2. faults = 0 /\ faults' = faults /\ aborted' = "no"
    BY <1>1, <2>1 DEF Quiet, Types
  <2>3. pc = "complete" /\ \A s \in Batch : mem'[s].status = "succeeded"
    BY <1>3, <2>1, <2>2 DEF Quiet
  <2>4. Quiet
    BY <1>2, <1>3, <2>1, <2>2 DEF Quiet
  <2>5. staging # None => staging \subseteq target
    BY <1>1, <2>3, <2>4 DEF Guilt
  <2>6. ASSUME NEW s \in Sessions, mem'[s].status # "succeeded",
               mem'[s].outcome \in {"excluded", "isolated", "batched"}
        PROVE  Blamed(s)'
    <3>1. mem'[s] = mem[s]
      BY <2>3, <2>6
    <3>2. Blamed(s)
      BY <1>1, <2>4, <2>6, <3>1 DEF Guilt
    <3>3. QED
      BY <3>1, <3>2 DEF Blamed
  <2>7. QED
    BY <2>3, <2>5, <2>6 DEF Guilt
<1>10. QED
  BY <1>4, <1>5, <1>6, <1>7, <1>8, <1>9 DEF BatchInv

LEMMA BatchSteps ==
  ASSUME BatchAssumption, BatchInv, PromotionFails \/ ChecksFail \/ Complete
  PROVE  BatchInv'
<1>1. mem \in Records /\ faults \in Nat
  BY DEF BatchInv, Types
<1>2. pc \in {"promote", "complete"} /\ pc \in Deciding
  BY DEF PromotionFails, ChecksFail, Complete, Deciding
<1>3. /\ world' = world /\ target' = target /\ staging' = staging /\ asm' = asm /\ todo' = todo
      /\ cursor' = cursor /\ validated' = validated /\ result' = result
  BY DEF PromotionFails, ChecksFail, Complete, branches, plan
<1>4. \A s \in Batch : s \in Sessions /\ mem[s].status = "ready"
  BY <1>2, BatchIsOpen
<1>5. ASSUME NEW n \in Records, NEW bad,
             \A s \in Sessions : n[s].integrated = mem[s].integrated,
             \A s \in Sessions \ Batch : n[s] = mem[s],
             bad \subseteq Batch,
             mem' = Resolve(Fail(n, bad), Batch, "batched"), rec' = mem'
      PROVE  /\ mem' \in Records
             /\ \A s \in Sessions \ Batch : mem'[s] = mem[s]
             /\ \A s \in Batch : /\ mem'[s].outcome = "batched"
                                 /\ mem'[s].integrated = mem[s].integrated
                                 /\ mem'[s].status = IF s \in bad /\ n[s].status # "pending" THEN "review"
                                                     ELSE n[s].status
  <2> DEFINE f == Fail(n, bad)
  <2>1. /\ f \in Records
        /\ \A s \in Sessions :
             /\ f[s].status = IF s \in bad /\ n[s].status # "pending" THEN "review" ELSE n[s].status
             /\ f[s].integrated = n[s].integrated
             /\ s \notin bad => f[s] = n[s]
    BY <1>5, Failed
  <2> HIDE DEF f
  <2>2. /\ mem' \in Records
        /\ \A s \in Sessions :
             /\ mem'[s].outcome = IF s \in Batch THEN "batched" ELSE f[s].outcome
             /\ mem'[s].status = f[s].status
             /\ mem'[s].integrated = f[s].integrated
             /\ s \notin Batch => mem'[s] = f[s]
    <3>1. mem' = Resolve(f, Batch, "batched")
      BY <1>5 DEF f
    <3>2. QED
      BY <2>1, <3>1, Resolved
  <2>3. ASSUME NEW s \in Sessions \ Batch PROVE mem'[s] = mem[s]
    BY <1>5, <2>1, <2>2
  <2>4. QED
    BY <1>4, <1>5, <2>1, <2>2, <2>3
<1>6. CASE PromotionFails
  <2>1. pc = "promote" /\ pc' = "wrap"
    BY <1>6 DEF PromotionFails, Abort
  <2>2. CASE /\ aborted' = aborted /\ (faults' = faults \/ faults' = faults + 1)
             /\ rec' = mem'
             /\ mem' = Resolve(Fail(WithStatus(mem, Batch, "pending"), Batch), Batch, "batched")
    <3> DEFINE n == WithStatus(mem, Batch, "pending")
    <3>1. /\ n \in Records
          /\ \A s \in Sessions : /\ n[s].status = IF s \in Batch THEN "pending" ELSE mem[s].status
                                 /\ n[s].integrated = mem[s].integrated
                                 /\ s \notin Batch => n[s] = mem[s]
      BY <1>1, StatusSet
    <3>2. mem' = Resolve(Fail(n, Batch), Batch, "batched")
      BY <2>2
    <3> HIDE DEF n
    <3>3. \A s \in Sessions \ Batch : n[s] = mem[s]
      BY <3>1
    <3>4. /\ mem' \in Records
          /\ \A s \in Sessions \ Batch : mem'[s] = mem[s]
          /\ \A s \in Batch : mem'[s].outcome = "batched" /\ mem'[s].integrated = mem[s].integrated
                              /\ mem'[s].status = "pending"
      BY <1>4, <1>5, <2>2, <3>1, <3>2, <3>3
    <3>5. \A s \in Batch : mem'[s].status \in {"review", "pending", "succeeded"} /\ mem'[s].status # "succeeded"
      BY <3>4
    <3>6. QED
      BY <1>2, <1>3, <2>1, <2>2, <3>4, <3>5, BatchDecided
  <2>3. CASE /\ aborted' = "error" /\ faults' = faults + 1 /\ rec' = mem'
             /\ mem' = Resolve(Fail(mem, Batch), Batch, "batched")
    <3>1. /\ mem' \in Records
          /\ \A s \in Sessions \ Batch : mem'[s] = mem[s]
          /\ \A s \in Batch : mem'[s].outcome = "batched" /\ mem'[s].integrated = mem[s].integrated
                              /\ mem'[s].status = "review"
      BY <1>1, <1>4, <1>5, <2>3
    <3>2. \A s \in Batch : mem'[s].status \in {"review", "pending", "succeeded"} /\ mem'[s].status # "succeeded"
      BY <3>1
    <3>3. faults' # faults
      BY <1>1, <2>3
    <3>4. QED
      BY <1>2, <1>3, <2>1, <2>3, <3>1, <3>2, <3>3, BatchDecided
  <2>4. QED
    BY <1>6, <2>2, <2>3 DEF PromotionFails, Abort, Save, Fault, WithStatus
<1>7. CASE ChecksFail
  <2>1. /\ pc = "complete" /\ pc' = "group" /\ aborted' = aborted /\ faults' = faults + 1 /\ rec' = mem'
        /\ mem' = Resolve(Fail(mem, Batch), Batch, "batched")
    BY <1>7 DEF ChecksFail, Save, Fault
  <2>2. /\ mem' \in Records
        /\ \A s \in Sessions \ Batch : mem'[s] = mem[s]
        /\ \A s \in Batch : mem'[s].outcome = "batched" /\ mem'[s].integrated = mem[s].integrated
                            /\ mem'[s].status = "review"
    BY <1>1, <1>4, <1>5, <2>1
  <2>3. \A s \in Batch : mem'[s].status \in {"review", "pending", "succeeded"} /\ mem'[s].status # "succeeded"
    BY <2>2
  <2>4. faults' # faults
    BY <1>1, <2>1
  <2>5. QED
    BY <1>2, <1>3, <2>1, <2>2, <2>3, <2>4, BatchDecided
<1>8. CASE Complete
  <2>1. PICK bad \in {{}} \cup {{s} : s \in Batch} :
          /\ IF bad = {} THEN faults' = faults ELSE faults' = faults + 1
          /\ rec' = mem'
          /\ mem' = Resolve(Fail(WithStatus(mem, Batch \ bad, "succeeded"), bad), Batch, "batched")
    BY <1>8 DEF Complete, Save, Fault, WithStatus
  <2>2. pc = "complete" /\ pc' = "group" /\ aborted' = aborted /\ bad \subseteq Batch
    BY <1>8, <2>1 DEF Complete
  <2> DEFINE n == WithStatus(mem, Batch \ bad, "succeeded")
  <2>3. /\ n \in Records
        /\ \A s \in Sessions : /\ n[s].status = IF s \in Batch \ bad THEN "succeeded" ELSE mem[s].status
                               /\ n[s].integrated = mem[s].integrated
                               /\ s \notin Batch \ bad => n[s] = mem[s]
    BY <1>1, StatusSet
  <2>4. mem' = Resolve(Fail(n, bad), Batch, "batched")
    BY <2>1
  <2> HIDE DEF n
  <2>5. \A s \in Sessions \ Batch : n[s] = mem[s]
    BY <2>3
  <2>6. /\ mem' \in Records
        /\ \A s \in Sessions \ Batch : mem'[s] = mem[s]
        /\ \A s \in Batch : mem'[s].outcome = "batched" /\ mem'[s].integrated = mem[s].integrated
                            /\ mem'[s].status = IF s \in bad THEN "review" ELSE "succeeded"
    <3>1. \A s \in Sessions : n[s].integrated = mem[s].integrated
      <4>1. ASSUME NEW s \in Sessions PROVE n[s].integrated = mem[s].integrated
        BY <2>3
      <4>2. QED
        BY <4>1
    <3>2. rec' = mem' /\ n \in Records
      BY <2>1, <2>3
    <3>3. /\ mem' \in Records
          /\ \A s \in Sessions \ Batch : mem'[s] = mem[s]
          /\ \A s \in Batch : /\ mem'[s].outcome = "batched"
                              /\ mem'[s].integrated = mem[s].integrated
                              /\ mem'[s].status = IF s \in bad /\ n[s].status # "pending" THEN "review"
                                                  ELSE n[s].status
      BY <1>5, <2>2, <2>4, <2>5, <3>1, <3>2
    <3>4. ASSUME NEW s \in Batch PROVE mem'[s].status = IF s \in bad THEN "review" ELSE "succeeded"
      <4>1. s \in Sessions /\ mem[s].status = "ready"
        BY <1>4
      <4>2. n[s].status = IF s \in Batch \ bad THEN "succeeded" ELSE "ready"
        BY <2>3, <4>1
      <4>3. QED
        BY <3>3, <4>2
    <3>5. QED
      BY <3>3, <3>4
  <2>7. /\ \A s \in Batch : mem'[s].status \in {"review", "pending", "succeeded"}
        /\ bad = {} => \A s \in Batch : mem'[s].status = "succeeded"
    BY <2>6
  <2>8. bad # {} => faults' # faults
    BY <1>1, <2>1
  <2>9. faults' = faults \/ faults' = faults + 1
    BY <2>1
  <2>10. QED
    BY <1>2, <1>3, <2>1, <2>2, <2>6, <2>7, <2>8, <2>9, BatchDecided
<1>9. QED
  BY <1>6, <1>7, <1>8

(* A session that is integrated alone gets its outcome.                      *)
LEMMA AloneIs ==
  ASSUME BatchAssumption, BatchInv, pc = "alone"
  PROVE  /\ Alone \in Sessions /\ mem[Alone].outcome = "open" /\ mem[Alone].status = "ready"
         /\ world.brings[Alone] \subseteq Change
         /\ Groups(Tail(todo)) /\ Alone \notin InGroups(Tail(todo))
         /\ \A s \in Sessions \ {Alone} : mem[s].outcome = "open" <=> s \in InGroups(Tail(todo))
<1>1. Types /\ Flow /\ Undecided
  BY DEF BatchInv
<1>2. Groups(todo) /\ todo # <<>> /\ Len(Head(todo)) = 1
  BY <1>1 DEF Types, Flow
<1>3. /\ Head(todo) \in Group /\ Groups(Tail(todo))
      /\ InGroups(todo) = Range(Head(todo)) \cup InGroups(Tail(todo))
      /\ Range(Head(todo)) \cap InGroups(Tail(todo)) = {}
  BY <1>2, HeadGroup
<1> DEFINE g == Head(todo)
<1>4. g \in Seq(Sessions) /\ Len(g) = 1 /\ Alone = Head(g)
  BY <1>2, <1>3 DEF Group, Alone
<1> HIDE DEF g
<1>5. Alone = g[1] /\ Alone \in Sessions /\ DOMAIN g = 1 .. 1
  BY <1>4
<1>6. Range(g) = {Alone}
  <2>1. Range(g) = {g[j] : j \in 1 .. 1}
    BY <1>5, RangeOf
  <2>2. \A j : j \in 1 .. 1 <=> j = 1
    OBVIOUS
  <2>3. QED
    BY <1>5, <2>1, <2>2
<1>7. \A s \in Sessions : mem[s].outcome = "open" <=> s = Alone \/ s \in InGroups(Tail(todo))
  BY <1>1, <1>3, <1>6 DEF Flow, Left, Working, Deciding, g
<1>8. mem[Alone].outcome = "open" /\ mem[Alone].status = "ready"
  BY <1>1, <1>5, <1>7 DEF Undecided
<1>9. world.brings[Alone] \subseteq Change
  BY <1>1, <1>5, ReadyType DEF Ready, Types
<1>10. QED
  BY <1>3, <1>5, <1>6, <1>7, <1>8, <1>9 DEF g

LEMMA AloneDecided ==
  ASSUME BatchAssumption, BatchInv, pc = "alone",
         rec' = mem', mem' \in Records, world' = world, asm' = asm, cursor' = cursor, result' = result,
         target \subseteq target', target' \subseteq Change, staging' \in (SUBSET Change) \cup {None},
         \A s \in Sessions : s # Alone => mem'[s] = mem[s],
         mem'[Alone].outcome = "isolated",
         mem'[Alone].status \in {"review", "pending", "succeeded"},
         mem'[Alone].status = "succeeded" => world.brings[Alone] \subseteq target',
         faults' = faults \/ faults' = faults + 1,
         \/ pc' = "group" /\ todo' = Tail(todo) /\ aborted' = aborted
         \/ /\ pc' = "wrap" /\ todo' = todo
            /\ aborted' = "error" \/ (aborted' = aborted /\ mem'[Alone].status = "pending"),
         \/ staging' = staging \/ staging' = target'
         \/ /\ mem'[Alone].integrated = staging' /\ mem'[Alone].status \in {"review", "pending"}
            /\ faults' # faults,
         \/ aborted' = "error" \/ faults' # faults \/ mem'[Alone].status \in {"pending", "succeeded"}
         \/ ~(staging # None => staging \subseteq target)
         \/ Opposed(world, target, Alone) \/ Breaks(world, target \cup world.brings[Alone])
  PROVE  BatchInv'
<1>1. Types /\ Flow /\ Undecided /\ Candidate /\ Owner /\ Guilt
  BY DEF BatchInv
<1>2. /\ Alone \in Sessions /\ mem[Alone].outcome = "open" /\ mem[Alone].status = "ready"
      /\ Groups(Tail(todo)) /\ Alone \notin InGroups(Tail(todo))
      /\ \A s \in Sessions \ {Alone} : mem[s].outcome = "open" <=> s \in InGroups(Tail(todo))
  BY AloneIs
<1>3. aborted = "no"
  BY <1>1 DEF Flow
<1> DEFINE o == Alone
<1> HIDE DEF o
<1>4. Types'
  <2>1. Groups(todo)' /\ pc' \in {"group", "wrap"} /\ aborted' \in {"no", "unavailable", "error"}
    <3>1. CASE pc' = "group" /\ todo' = Tail(todo) /\ aborted' = aborted
      BY <1>1, <1>2, <3>1 DEF Types, Groups, InGroups
    <3>2. CASE pc' = "wrap" /\ todo' = todo /\ (aborted' = "error" \/ aborted' = aborted)
      BY <1>1, <3>2 DEF Types, Groups, InGroups
    <3>3. QED
      BY <3>1, <3>2
  <2>2. faults' \in Nat
    BY <1>1 DEF Types
  <2>3. target' \subseteq Change /\ mem' \in Records /\ rec' \in Records
    OBVIOUS
  <2>4. QED
    BY <1>1, <2>1, <2>2, <2>3 DEF Types, Working
<1>5. Flow'
  <2>1. pc' = "group" => \A s \in Sessions : mem'[s].outcome = "open" <=> s \in InGroups(todo')
    BY <1>2
  <2>2. \A s \in Sessions : mem'[s].outcome \notin {"released", "none"}
    BY <1>1, <1>2 DEF Flow, Working
  <2>3. QED
    BY <1>3, <2>1, <2>2 DEF Flow, Left, Working, Deciding
<1>6. Undecided'
  <2>1. ASSUME NEW s \in Sessions, mem'[s].outcome \in {"none", "open", "excluded", "released"}
        PROVE  mem'[s] = mem[s] /\ mem[s].integrated = None
    <3>1. s # Alone /\ mem'[s] = mem[s]
      BY <2>1
    <3>2. QED
      BY <1>1, <2>1, <3>1 DEF Undecided
  <2>2. QED
    BY <1>1, <2>1 DEF Undecided
<1>7. Candidate'
  <2>1. ASSUME NEW s \in Sessions, mem'[s].status = "succeeded"
        PROVE  world.brings[s] \subseteq target'
    <3>1. CASE s = Alone
      BY <2>1, <3>1
    <3>2. CASE s # Alone
      BY <1>1, <2>1, <3>2 DEF Candidate
    <3>3. QED
      BY <3>1, <3>2
  <2>2. QED
    BY <2>1 DEF Candidate, Deciding
<1>8. Owner'
  <2>1. CASE staging' = target'
    BY <2>1 DEF Owner
  <2>2. CASE mem'[Alone].integrated = staging' /\ mem'[Alone].status \in {"review", "pending"}
    BY <1>2, <2>2 DEF Owner
  <2>3. CASE staging' = staging
    <3>1. CASE \/ staging = None \/ staging \cap Sessions \subseteq target
      BY <2>3, <3>1 DEF Owner
    <3>2. CASE \E s \in Sessions :
                 /\ mem[s].outcome \in {"batched", "isolated"} /\ mem[s].status \in {"review", "pending"}
                 /\ mem[s].integrated = staging
      BY <1>2, <2>3, <3>2 DEF Owner
    <3>3. QED
      BY <1>1, <3>1, <3>2 DEF Owner
  <2>4. QED
    BY <2>1, <2>2, <2>3
<1>9. Guilt'
  <2>1. SUFFICES ASSUME Quiet' PROVE Guilt'
    BY DEF Guilt
  <2>2. faults = 0 /\ faults' = faults /\ aborted' = "no"
    BY <1>1, <2>1 DEF Quiet, Types
  <2>3. Quiet
    BY <1>2, <1>3, <2>1, <2>2 DEF Quiet
  <2>4. staging # None => staging \subseteq target
    BY <1>1, <2>3 DEF Guilt
  <2>5. staging' # None => staging' \subseteq target'
    BY <2>2, <2>4
  <2>6. pc' = "group"
    BY <1>2, <2>1, <2>2 DEF Quiet
  <2>7. ASSUME NEW s \in Sessions, mem'[s].status # "succeeded",
               mem'[s].outcome \in {"excluded", "isolated", "batched"}
        PROVE  Blamed(s)'
    <3>1. Opposed(world, target, s) => Opposed(world, target', s)
      BY Grown
    <3>2. Breaks(world, target \cup world.brings[s]) => Breaks(world, target' \cup world.brings[s])
      <4>1. target \cup world.brings[s] \subseteq target' \cup world.brings[s]
        OBVIOUS
      <4>2. QED
        BY <4>1, Grown
    <3>3. CASE s = Alone
      <4>1. mem'[Alone].status # "pending"
        BY <1>2, <2>1 DEF Quiet
      <4>2. Opposed(world, target, s) \/ Breaks(world, target \cup world.brings[s])
        BY <2>2, <2>4, <2>7, <3>3, <4>1
      <4>3. QED
        BY <3>1, <3>2, <4>2 DEF Blamed
    <3>4. CASE s # Alone
      <4>1. mem'[s] = mem[s]
        BY <3>4
      <4>2. Blamed(s)
        BY <1>1, <2>3, <2>7, <4>1 DEF Guilt
      <4>3. QED
        BY <3>1, <3>2, <4>1, <4>2 DEF Blamed
    <3>5. QED
      BY <3>3, <3>4
  <2>8. QED
    BY <2>5, <2>6, <2>7 DEF Guilt
<1>10. QED
  BY <1>4, <1>5, <1>6, <1>7, <1>8, <1>9 DEF BatchInv

(* What a session that is integrated alone fails on is the target's to see.  *)
LEMMA NotLanding ==
  ASSUME ~Lands, staging # None => staging \subseteq target
  PROVE  Opposed(world, target, Alone) \/ Breaks(world, target \cup world.brings[Alone])
<1>1. Clashing(target, Ready(Alone)) \/ Broken(target \cup world.brings[Alone])
  BY DEF Lands, StagingFits, Merged, Ready
<1>2. Clashing(target, Ready(Alone)) => Opposed(world, target, Alone)
  BY DEF Clashing, Opposed, Ready
<1>3. Broken(target \cup world.brings[Alone]) => Breaks(world, target \cup world.brings[Alone])
  BY DEF Broken, Breaks
<1>4. QED
  BY <1>1, <1>2, <1>3

LEMMA AloneSteps ==
  ASSUME BatchAssumption, BatchInv, AloneSucceeds \/ AloneIsStaged \/ AloneFails
  PROVE  BatchInv'
<1>1. mem \in Records /\ target \subseteq Change /\ faults \in Nat
      /\ staging \in (SUBSET Change) \cup {None}
  BY DEF BatchInv, Types
<1>2. /\ pc = "alone" /\ world' = world /\ asm' = asm /\ cursor' = cursor /\ result' = result
  BY DEF AloneSucceeds, AloneIsStaged, AloneFails, ending
<1>3. /\ Alone \in Sessions /\ mem[Alone].outcome = "open" /\ mem[Alone].status = "ready"
      /\ world.brings[Alone] \subseteq Change
  BY <1>2, AloneIs
<1>4. Merged \in SUBSET Change /\ Merged = target \cup world.brings[Alone]
  BY <1>1, <1>3 DEF Merged, Ready
<1> DEFINE o == Alone
           c == Merged
           only == {o}
<1> HIDE DEF o, c, only
<1>5. ASSUME NEW n \in Records
      PROVE  /\ Resolve(n, only, "isolated") \in Records
             /\ \A s \in Sessions : s # o => Resolve(n, only, "isolated")[s] = n[s]
             /\ Resolve(n, only, "isolated")[o].outcome = "isolated"
             /\ Resolve(n, only, "isolated")[o].status = n[o].status
             /\ Resolve(n, only, "isolated")[o].integrated = n[o].integrated
  <2>1. o \in Sessions /\ \A s : s \in only <=> s = o
    BY <1>3 DEF o, only
  <2>2. QED
    BY <1>5, <2>1, Resolved
<1>6. ASSUME NEW n \in Records
      PROVE  /\ Fail(n, only) \in Records
             /\ \A s \in Sessions : s # o => Fail(n, only)[s] = n[s]
             /\ Fail(n, only)[o].status = IF n[o].status # "pending" THEN "review" ELSE "pending"
             /\ Fail(n, only)[o].integrated = n[o].integrated
  <2>1. o \in Sessions /\ \A s : s \in only <=> s = o
    BY <1>3 DEF o, only
  <2>2. QED
    BY <1>6, <2>1, Failed
<1>7. ASSUME NEW st \in Statuses, NEW n,
             n = Landed(mem, o, c, st, TRUE) \/ n = Landed(mem, o, c, st, FALSE)
      PROVE  IsLanded(n, mem, o, c, st)
  <2>1. o \in Sessions /\ c \in SUBSET Change
    BY <1>3, <1>4 DEF o, c
  <2>2. QED
    BY <1>1, <1>7, <2>1, LandedSet
<1>8. CASE AloneSucceeds
  <2>1. /\ staging' = c /\ target' = c /\ rec' = mem' /\ pc' = "group" /\ todo' = Tail(todo)
        /\ aborted' = aborted /\ faults' = faults
        /\ mem' = Resolve(Landed(mem, o, c, "succeeded", TRUE), only, "isolated")
    BY <1>8 DEF AloneSucceeds, Save, Landed, ending, o, c, only
  <2> DEFINE n == Landed(mem, o, c, "succeeded", TRUE)
  <2>2. /\ n \in Records /\ n[o].status = "succeeded" /\ \A s \in Sessions : s # o => n[s] = mem[s]
    <3> DEFINE st == "succeeded"
    <3>1. st \in Statuses /\ n = Landed(mem, o, c, st, TRUE)
      BY DEF Statuses
    <3> HIDE DEF st, n
    <3>2. IsLanded(n, mem, o, c, st)
      BY <1>7, <3>1
    <3>3. QED
      BY <3>2 DEF IsLanded, st
  <2> HIDE DEF n
  <2>3. mem' = Resolve(n, only, "isolated")
    BY <2>1 DEF n
  <2>4. /\ mem' \in Records /\ mem'[o].outcome = "isolated" /\ mem'[o].status = "succeeded"
        /\ \A s \in Sessions : s # o => mem'[s] = mem[s]
    BY <1>5, <2>2, <2>3
  <2>5. /\ mem'[Alone].outcome = "isolated" /\ mem'[Alone].status = "succeeded"
        /\ \A s \in Sessions : s # Alone => mem'[s] = mem[s]
    BY <2>4 DEF o
  <2>6. /\ target \subseteq target' /\ target' \subseteq Change /\ staging' = target'
        /\ staging' \in (SUBSET Change) \cup {None} /\ world.brings[Alone] \subseteq target'
    BY <1>4, <2>1 DEF c
  <2>7. QED
    BY <1>2, <2>1, <2>4, <2>5, <2>6, AloneDecided
<1>9. CASE AloneIsStaged
  <2>1. PICK landed \in BOOLEAN, st \in {"pending", "review"} :
          /\ landed => st = "review"
          /\ target' = IF landed THEN c ELSE target
          /\ mem' = Resolve(Fail(Landed(mem, o, c, st, landed), only), only, "isolated")
          /\ IF st = "pending" THEN pc' = "wrap" /\ todo' = todo
             ELSE pc' = "group" /\ todo' = Tail(todo)
    BY <1>9 DEF AloneIsStaged, Save, Landed, o, c, only
  <2>2. /\ staging' = c /\ rec' = mem' /\ aborted' = aborted /\ faults' = faults + 1
    BY <1>9 DEF AloneIsStaged, Save, Fault, c
  <2> DEFINE n == Landed(mem, o, c, st, landed)
  <2>3. /\ n \in Records /\ n[o].status = st /\ n[o].integrated = c
        /\ \A s \in Sessions : s # o => n[s] = mem[s]
    <3>1. st \in Statuses /\ (n = Landed(mem, o, c, st, TRUE) \/ n = Landed(mem, o, c, st, FALSE))
      BY <2>1 DEF Statuses
    <3> HIDE DEF n
    <3>2. IsLanded(n, mem, o, c, st)
      BY <1>7, <3>1
    <3>3. QED
      BY <3>2 DEF IsLanded
  <2> HIDE DEF n
  <2> DEFINE f == Fail(n, only)
  <2>4. /\ f \in Records /\ f[o].status = st /\ f[o].integrated = c
        /\ \A s \in Sessions : s # o => f[s] = mem[s]
    BY <1>6, <2>1, <2>3
  <2> HIDE DEF f
  <2>5. mem' = Resolve(f, only, "isolated")
    BY <2>1 DEF n, f
  <2>6. /\ mem' \in Records /\ mem'[o].outcome = "isolated" /\ mem'[o].status = st
        /\ mem'[o].integrated = c /\ \A s \in Sessions : s # o => mem'[s] = mem[s]
    BY <1>5, <2>4, <2>5
  <2>7. /\ mem'[Alone].outcome = "isolated" /\ mem'[Alone].status = st
        /\ mem'[Alone].integrated = staging'
        /\ \A s \in Sessions : s # Alone => mem'[s] = mem[s]
    BY <2>2, <2>6 DEF o
  <2>8. /\ target \subseteq target' /\ target' \subseteq Change
        /\ staging' \in (SUBSET Change) \cup {None}
    BY <1>1, <1>4, <2>1, <2>2 DEF c
  <2>9. faults' # faults
    BY <1>1, <2>2
  <2>10. mem'[Alone].status \in {"review", "pending"}
    BY <2>1, <2>7
  <2>11. \/ pc' = "group" /\ todo' = Tail(todo) /\ aborted' = aborted
         \/ /\ pc' = "wrap" /\ todo' = todo
            /\ aborted' = "error" \/ (aborted' = aborted /\ mem'[Alone].status = "pending")
    BY <2>1, <2>2, <2>7
  <2>12. QED
    BY <1>2, <2>2, <2>6, <2>7, <2>8, <2>9, <2>10, <2>11, AloneDecided
<1>10. CASE AloneFails
  <2>1. /\ rec' = mem' /\ mem' = Resolve(Fail(mem, only), only, "isolated")
        /\ target' = target /\ staging' = staging /\ faults' \in {faults, faults + 1}
        /\ \/ pc' = "group" /\ todo' = Tail(todo) /\ aborted' = aborted
           \/ pc' = "wrap" /\ todo' = todo /\ aborted' = "error"
        /\ ~Lands \/ faults' = faults + 1
    BY <1>10 DEF AloneFails, Save, Fault, Abort, branches, o, only
  <2> DEFINE f == Fail(mem, only)
  <2>2. /\ f \in Records /\ f[o].status = "review" /\ \A s \in Sessions : s # o => f[s] = mem[s]
    BY <1>1, <1>3, <1>6 DEF o
  <2> HIDE DEF f
  <2>3. mem' = Resolve(f, only, "isolated")
    BY <2>1 DEF f
  <2>4. /\ mem' \in Records /\ mem'[o].outcome = "isolated" /\ mem'[o].status = "review"
        /\ \A s \in Sessions : s # o => mem'[s] = mem[s]
    BY <1>5, <2>2, <2>3
  <2>5. /\ mem'[Alone].outcome = "isolated" /\ mem'[Alone].status = "review"
        /\ \A s \in Sessions : s # Alone => mem'[s] = mem[s]
    BY <2>4 DEF o
  <2>6. \/ faults' # faults \/ ~(staging # None => staging \subseteq target)
        \/ Opposed(world, target, Alone) \/ Breaks(world, target \cup world.brings[Alone])
    BY <1>1, <2>1, NotLanding
  <2>7. /\ target \subseteq target' /\ target' \subseteq Change
        /\ staging' \in (SUBSET Change) \cup {None}
    BY <1>1, <2>1
  <2>8. QED
    BY <1>2, <2>1, <2>4, <2>5, <2>6, <2>7, AloneDecided
<1>11. QED
  BY <1>8, <1>9, <1>10

(* The batch ends: a session that is staged is resumed, another is released. *)
LEMMA WrapStep ==
  ASSUME BatchAssumption, BatchInv, Wrap
  PROVE  BatchInv'
<1>1. Types /\ Flow /\ Undecided /\ Candidate /\ Owner /\ Guilt
  BY DEF BatchInv
<1>2. /\ world' = world /\ target' = target /\ staging' = staging /\ asm' = asm /\ todo' = todo
      /\ cursor' = cursor /\ aborted' = aborted /\ faults' = faults /\ validated' = validated
      /\ pc = "wrap" /\ pc' = "done" /\ rec' = mem' /\ result' # "none"
      /\ mem' = Resolve(Resolve(Fail(mem, Owed), Owed, "batched"), Unresolved \ Owed, "released")
  BY DEF Wrap, Save, branches, plan
<1>3. mem \in Records
  BY <1>1 DEF Types
<1>4. \A s \in Unresolved : s \in Sessions /\ mem[s].outcome = "open" /\ mem[s].status = "ready"
                            /\ (s # Leader => mem[s].waiting)
  BY <1>1 DEF Unresolved, Undecided
<1>5. Owed \subseteq Unresolved
  BY DEF Owed
<1> DEFINE f == Fail(mem, Owed)
           b == Resolve(f, Owed, "batched")
<1>6. /\ f \in Records
      /\ \A s \in Sessions : /\ f[s].status = IF s \in Owed THEN "review" ELSE mem[s].status
                             /\ f[s].integrated = mem[s].integrated
                             /\ s \notin Owed => f[s] = mem[s]
  <2>1. \A s \in Owed : mem[s].status # "pending"
    BY <1>4, <1>5
  <2>2. QED
    BY <1>3, <2>1, Failed
<1>7. mem' = Resolve(b, Unresolved \ Owed, "released")
  BY <1>2
<1> HIDE DEF f
<1>8. /\ b \in Records
      /\ \A s \in Sessions : /\ b[s].outcome = IF s \in Owed THEN "batched" ELSE f[s].outcome
                             /\ b[s].status = f[s].status
                             /\ b[s].integrated = f[s].integrated
                             /\ s \notin Owed => b[s] = f[s]
  BY <1>6, Resolved
<1> HIDE DEF b
<1>9. /\ mem' \in Records
      /\ \A s \in Sessions :
           /\ mem'[s].outcome = IF s \in Unresolved \ Owed THEN "released" ELSE b[s].outcome
           /\ mem'[s].status = b[s].status
           /\ mem'[s].integrated = b[s].integrated
           /\ mem'[s].waiting = b[s].waiting
           /\ s \notin Unresolved \ Owed => mem'[s] = b[s]
  <2>1. \A who : /\ Resolve(b, who, "released") \in Records
                 /\ \A s \in Sessions :
                      /\ Resolve(b, who, "released")[s].outcome = IF s \in who THEN "released" ELSE b[s].outcome
                      /\ Resolve(b, who, "released")[s].status = b[s].status
                      /\ Resolve(b, who, "released")[s].integrated = b[s].integrated
                      /\ Resolve(b, who, "released")[s].waiting = b[s].waiting
                      /\ s \notin who => Resolve(b, who, "released")[s] = b[s]
    BY <1>8, Resolved
  <2> DEFINE who == Unresolved \ Owed
  <2>2. mem' = Resolve(b, who, "released")
    BY <1>7
  <2> HIDE DEF who
  <2>3. /\ mem' \in Records
        /\ \A s \in Sessions :
             /\ mem'[s].outcome = IF s \in who THEN "released" ELSE b[s].outcome
             /\ mem'[s].status = b[s].status
             /\ mem'[s].integrated = b[s].integrated
             /\ mem'[s].waiting = b[s].waiting
             /\ s \notin who => mem'[s] = b[s]
    BY <2>1, <2>2
  <2>4. QED
    BY <2>3 DEF who
<1>10. ASSUME NEW s \in Owed
       PROVE  /\ s \in Sessions /\ mem'[s].outcome = "batched" /\ mem'[s].status = "review"
              /\ mem'[s].integrated = mem[s].integrated
  BY <1>4, <1>5, <1>6, <1>8, <1>9
<1>11. ASSUME NEW s \in Unresolved \ Owed
       PROVE  /\ s \in Sessions /\ mem'[s].outcome = "released" /\ mem'[s].status = mem[s].status
              /\ mem'[s].integrated = mem[s].integrated /\ mem'[s].waiting = mem[s].waiting
  BY <1>4, <1>6, <1>8, <1>9
<1>12. ASSUME NEW s \in Sessions, s \notin Unresolved PROVE mem'[s] = mem[s] /\ mem[s].outcome # "open"
  <2>1. s \notin Owed
    BY <1>5, <1>12
  <2>2. QED
    BY <1>6, <1>8, <1>9, <1>12, <2>1 DEF Unresolved
<1>13. Types'
  BY <1>1, <1>2, <1>9 DEF Types
<1>14. Flow'
  <2>1. ASSUME NEW s \in Sessions PROVE mem'[s].outcome \notin {"none", "open"}
    <3>1. mem[s].outcome # "none"
      BY <1>1, <1>2 DEF Flow
    <3>2. QED
      BY <1>10, <1>11, <1>12, <3>1
  <2>2. QED
    BY <1>2, <2>1 DEF Flow, Working, Deciding
<1>15. Undecided'
  <2>1. ASSUME NEW s \in Sessions, mem'[s].outcome \in {"none", "open", "excluded", "released"}
        PROVE  /\ mem'[s].status = "ready" /\ (s # Leader => mem'[s].waiting)
               /\ mem'[s].integrated = None
    <3>1. CASE s \in Owed
      BY <1>10, <2>1, <3>1
    <3>2. CASE s \in Unresolved \ Owed
      <4>1. mem[s].integrated # None => aborted = "error"
        BY <1>1, <1>2, <1>4, <3>2 DEF Undecided
      <4>2. mem[s].integrated = None
        BY <3>2, <4>1 DEF Owed
      <4>3. QED
        BY <1>4, <1>11, <3>2, <4>2
    <3>3. CASE s \notin Unresolved
      BY <1>1, <1>12, <2>1, <3>3 DEF Undecided
    <3>4. QED
      BY <3>1, <3>2, <3>3
  <2>2. QED
    BY <2>1 DEF Undecided
<1>16. Candidate'
  <2>1. ASSUME NEW s \in Sessions, mem'[s].status = "succeeded" PROVE mem[s].status = "succeeded"
    BY <1>10, <1>11, <1>12, <2>1
  <2>2. QED
    BY <1>1, <1>2, <2>1 DEF Candidate, Deciding
<1>17. Owner'
  <2>1. CASE \/ staging = None \/ staging \cap Sessions \subseteq target
    BY <1>2, <2>1 DEF Owner
  <2>2. ASSUME staging # None, aborted = "error",
               NEW s \in Sessions, mem[s].outcome = "open", mem[s].integrated = staging
        PROVE  Owner'
    <3>1. s \in Owed
      BY <2>2 DEF Owed, Unresolved
    <3>2. QED
      BY <1>2, <1>10, <2>2, <3>1 DEF Owner
  <2>3. ASSUME NEW s \in Sessions, mem[s].outcome \in {"batched", "isolated"},
               mem[s].status \in {"review", "pending"}, mem[s].integrated = staging
        PROVE  Owner'
    <3>1. mem'[s] = mem[s]
      BY <1>12, <2>3 DEF Unresolved
    <3>2. QED
      BY <1>2, <2>3, <3>1 DEF Owner
  <2>4. QED
    BY <1>1, <1>2, <2>1, <2>2, <2>3 DEF Owner
<1>18. Guilt'
  <2>1. SUFFICES ASSUME Quiet' PROVE Guilt'
    BY DEF Guilt
  <2>2. ASSUME NEW s \in Sessions PROVE mem[s].status # "pending"
    <3>1. mem'[s].status # "pending"
      BY <2>1 DEF Quiet
    <3>2. QED
      BY <1>4, <1>12, <3>1
  <2>3. Quiet
    BY <1>2, <2>1, <2>2 DEF Quiet
  <2>4. \A s \in Sessions : s \notin Unresolved
    BY <1>1, <1>2, <2>3 DEF Guilt, Unresolved
  <2>5. \A s \in Sessions : mem'[s] = mem[s] /\ mem[s].outcome # "released"
    BY <1>1, <1>2, <1>12, <2>4 DEF Flow
  <2>6. ASSUME NEW s \in Sessions, mem'[s].status # "succeeded",
               mem'[s].outcome \in {"excluded", "isolated", "batched"}
        PROVE  Blamed(s)'
    <3>1. Blamed(s)
      BY <1>1, <2>3, <2>5, <2>6 DEF Guilt
    <3>2. QED
      BY <1>2, <2>5, <3>1 DEF Blamed
  <2>7. staging # None => staging \subseteq target
    BY <1>1, <1>2, <2>3 DEF Guilt
  <2>8. QED
    BY <1>2, <2>5, <2>6, <2>7 DEF Guilt
<1>19. QED
  BY <1>13, <1>14, <1>15, <1>16, <1>17, <1>18 DEF BatchInv

LEMMA InitInv == ASSUME BatchAssumption, Init PROVE BatchInv
<1>1. /\ Order \in Group /\ Range(Order) = Sessions /\ todo = <<Order>>
  BY DEF BatchAssumption, Init, Group, Sessions
<1>2. Groups(todo) /\ InGroups(todo) = Sessions
  <2>1. DOMAIN todo = {1} /\ todo[1] = Order /\ todo \in Seq(Group)
    BY <1>1
  <2>2. QED
    BY <1>1, <2>1 DEF Groups, InGroups
<1> DEFINE r(s) == [status |-> "ready", integrated |-> None, promoted |-> FALSE,
                    outcome |-> "none", waiting |-> s # Leader]
<1>3. mem = [s \in Sessions |-> r(s)] /\ rec = mem
  BY DEF Init
<1>4. \A s \in Sessions : /\ r(s) \in Record /\ r(s).status = "ready" /\ r(s).integrated = None
                          /\ r(s).outcome = "none" /\ r(s).waiting = (s # Leader)
  BY DEF Record
<1> HIDE DEF r
<1>5. mem \in Records
  BY <1>3, <1>4 DEF Records
<1>6. \A s \in Sessions : /\ mem[s].status = "ready" /\ mem[s].integrated = None
                          /\ mem[s].outcome = "none" /\ (s # Leader => mem[s].waiting)
  BY <1>3, <1>4
<1>7. asm \in Candidates
  <2>1. <<>> \in Group
    BY DEF Group, IsInjective
  <2>2. QED
    BY <2>1 DEF Init, Candidates
<1>8. /\ world \in Worlds /\ target = {} /\ staging \in {None, {}} /\ pc = "open" /\ cursor = 1
      /\ aborted = "no" /\ result = "running" /\ faults = 0
  BY DEF Init
<1>9. Types
  BY <1>2, <1>3, <1>5, <1>7, <1>8 DEF Types
<1>10. Flow /\ Undecided /\ Candidate /\ Owner
  BY <1>2, <1>3, <1>6, <1>8 DEF Flow, Working, Deciding, Undecided, Candidate, Owner
<1>11. Guilt
  BY <1>6, <1>8 DEF Guilt
<1>12. QED
  BY <1>9, <1>10, <1>11 DEF BatchInv

LEMMA Inductive == ASSUME BatchAssumption, BatchInv, [Next]_vars PROVE BatchInv'
<1>1. CASE Step
  BY <1>1, OpenStep, GroupSteps, AssembleStep, AssembleFailsStep, CandidateSteps, RecordSteps,
     BatchSteps, RecordPromotedStep, AloneSteps, WrapStep DEF Step
<1>2. CASE Users_
  BY <1>2, UserSteps
<1>3. CASE UNCHANGED vars
  <2>1. /\ world' = world /\ target' = target /\ staging' = staging /\ rec' = rec /\ mem' = mem
        /\ pc' = pc /\ todo' = todo /\ asm' = asm /\ cursor' = cursor /\ validated' = validated
        /\ aborted' = aborted /\ faults' = faults /\ result' = result
    BY <1>3 DEF vars
  <2>2. Types' /\ Flow'
    BY <2>1 DEF BatchInv, Types, Flow, Left
  <2>3. Undecided' /\ Candidate' /\ Owner'
    BY <2>1 DEF BatchInv, Undecided, Candidate, Owner
  <2>4. Guilt'
    BY <2>1 DEF BatchInv, Guilt, Quiet, Blamed
  <2>5. QED
    BY <2>2, <2>3, <2>4 DEF BatchInv
<1>4. QED
  BY <1>1, <1>2, <1>3 DEF Next

(* The invariant of a batch.                                                 *)
THEOREM Invariance == Spec => []BatchInv
<1>1. Init => BatchInv
  BY BatchAssumption, InitInv
<1>2. BatchInv /\ [Next]_vars => BatchInv'
  BY BatchAssumption, Inductive
<1>3. QED
  BY <1>1, <1>2, PTL DEF Spec

(* Work on staging that is not on the target has a record a resume promotes, *)
(* wherever a batch of any size stops: StagedIsOwned.                        *)
THEOREM StagedHasOwner == Spec => []StagedIsOwned
<1>1. BatchInv => StagedIsOwned
  <2> SUFFICES ASSUME BatchInv PROVE StagedIsOwned
    OBVIOUS
  <2>1. Flow /\ Owner
    BY DEF BatchInv
  <2>2. CASE (pc = "record" /\ cursor = 1) \/ (pc = "wrap" /\ aborted = "error")
    BY <2>2 DEF StagedIsOwned
  <2>3. CASE \/ staging = None \/ staging \cap Sessions \subseteq target
    BY <2>3 DEF StagedIsOwned
  <2>4. CASE /\ pc \in {"record", "promote"} /\ staging = asm.commit
             /\ mem[asm.included[1]].integrated = asm.commit
    <3>1. pc \in Deciding
      BY <2>4 DEF Deciding
    <3>2. asm.included[1] \in Sessions
      <4>1. asm.included \in Group /\ Len(asm.included) > 1
        BY <3>1, BatchAssumption, BatchIsOpen
      <4>2. QED
        BY <4>1 DEF Group
    <3>3. rec = mem
      BY <2>1, <2>4 DEF Flow
    <3>4. QED
      BY <2>4, <3>2, <3>3 DEF StagedIsOwned
  <2>5. CASE /\ ~(pc = "wrap" /\ aborted = "error")
             /\ \E s \in Sessions :
                  /\ mem[s].outcome \in {"batched", "isolated"} /\ mem[s].status \in {"review", "pending"}
                  /\ mem[s].integrated = staging
    BY <2>1, <2>5 DEF Flow, StagedIsOwned
  <2>6. QED
    BY <2>1, <2>2, <2>3, <2>4, <2>5 DEF Owner
<1>2. QED
  BY <1>1, Invariance, PTL

(* A batch that nothing but its changes disturbs lands every session it can, *)
(* for any sessions, conflicts and joint failures: InnocentLand.             *)
THEOREM InnocentsLand == Spec => []InnocentLand
<1>1. BatchInv => InnocentLand
  <2> SUFFICES ASSUME BatchInv, pc = "done", result # "none", NEW s \in Sessions
               PROVE  /\ rec[s].status = "succeeded" => Ready(s) \subseteq target
                      /\ rec[s].outcome \in {"excluded", "released"} =>
                           /\ rec[s].status = "ready" /\ rec[s].integrated = None
                           /\ s # Leader => rec[s].waiting
                      /\ Undisturbed /\ rec[s].status # "succeeded" => Guilty(s)
    BY DEF InnocentLand
  <2>1. Types /\ Flow /\ Undecided /\ Candidate /\ Guilt
    BY DEF BatchInv
  <2>2. rec = mem
    BY <2>1 DEF Flow
  <2>3. mem[s].status = "succeeded" => Ready(s) \subseteq target
    BY <2>1 DEF Candidate, Ready
  <2>4. mem[s].outcome \in {"excluded", "released"} =>
          /\ mem[s].status = "ready" /\ mem[s].integrated = None /\ (s # Leader => mem[s].waiting)
    BY <2>1 DEF Undecided
  <2>5. ASSUME Undisturbed, mem[s].status # "succeeded" PROVE Guilty(s)
    <3>1. Quiet
      BY <2>2, <2>5 DEF Undisturbed, Quiet
    <3>2. mem[s].outcome \in {"excluded", "isolated", "batched"}
      <4>1. mem[s] \in Record
        BY <2>1 DEF Types, Records
      <4>2. mem[s].outcome \notin {"none", "open"}
        BY <2>1 DEF Flow
      <4>3. mem[s].outcome # "released"
        BY <2>1, <3>1 DEF Guilt
      <4>4. QED
        BY <4>1, <4>2, <4>3 DEF Record
    <3>3. Blamed(s)
      BY <2>1, <2>5, <3>1, <3>2 DEF Guilt
    <3>4. \A tree : Opposed(world, tree, s) <=> Disagrees(tree, s)
      BY DEF Opposed, Disagrees, Ready
    <3>5. Breaks(world, target \cup world.brings[s]) <=> Broken(target \cup Ready(s))
      BY DEF Breaks, Broken, Ready
    <3>6. QED
      BY <2>2, <3>3, <3>4, <3>5 DEF Blamed, Guilty, Ready
  <2>6. QED
    BY <2>2, <2>3, <2>4, <2>5
<1>2. QED
  BY <1>1, Invariance, PTL

(* No commit of a batch reaches the target but with all the target had, and  *)
(* on a tree that passed the validation as a whole: PromotesValidated.       *)
THEOREM OnlyValidated == Spec => PromotesValidated
<1> DEFINE A == target' # target => /\ target \subseteq target'
                                    /\ target' \in validated' \/ target' \ target \subseteq Users
<1>1. ASSUME BatchInv, [Next]_vars PROVE [A]_vars
  <2> SUFFICES ASSUME Next, target' # target PROVE A
    BY <1>1
  <2>1. Types /\ Candidate
    BY <1>1 DEF BatchInv
  <2>2. CASE Promote
    <3>1. /\ target' = asm.commit /\ target \in {asm.target, asm.commit} /\ pc = "promote"
          /\ validated' = validated
      BY <2>2 DEF Promote, Promotable
    <3>2. asm.target \subseteq asm.commit /\ asm.commit \in validated
      BY <2>1, <3>1 DEF Candidate, Deciding
    <3>3. QED
      BY <3>1, <3>2
  <2>3. CASE AloneSucceeds
    BY <2>3 DEF AloneSucceeds, Merged
  <2>4. CASE AloneIsStaged
    <3>1. target' \in {Merged, target} /\ Merged \in validated'
      BY <2>4 DEF AloneIsStaged
    <3>2. QED
      BY <3>1 DEF Merged
  <2>5. CASE Users_
    <3>1. PICK u \in Users : target' = target \cup {u}
      BY <2>5 DEF Users_, UserCommits, UserMovesStaging
    <3>2. QED
      BY <3>1
  <2>6. CASE Step /\ ~Promote /\ ~AloneSucceeds /\ ~AloneIsStaged
    <3>1. target' = target
      BY <2>6 DEF Step, Open, Small, Assemble, AssembleFails, Finish, ValidationPasses,
                  ValidationFails, ValidationThrows, AdvanceStaging, StagingRefused, RecordStaged,
                  RecordingFails, PromotionFails, RecordPromoted, ChecksFail, Complete, AloneFails,
                  Wrap, branches
    <3>2. QED
      BY <3>1
  <2>7. QED
    BY <2>2, <2>3, <2>4, <2>5, <2>6 DEF Next
<1>2. BatchInv /\ [Next]_vars => [A]_vars
  BY <1>1
<1>3. QED
  BY <1>2, Invariance, PTL DEF Spec, PromotesValidated
=============================================================================
