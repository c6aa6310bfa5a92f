------------------------ MODULE CppSelection_proofs ------------------------
(***************************************************************************)
(* CppConditionals implements TextSelection, for all files, macro names,   *)
(* lines and bounds: the flags on the stack of cpp_process select the      *)
(* lines that the standard selects.                                        *)
(*                                                                         *)
(* The link between the two is StackMeans.  The groups that are open in    *)
(* the history are as many as there are flags on the stack, one at each    *)
(* depth (GroupsFound); the flags at depth i say whether the branches of   *)
(* the groups down to depth i are the selected ones (FlagsMean).           *)
(***************************************************************************)
EXTENDS CppConditionals_proofs, FiniteSetTheorems

\* The lines of h that open the groups open at its end.
OpenGroups(h) ==
  {j \in 1..Len(h) : /\ h[j].op \in Standard!Opening
                     /\ Standard!OpenThrough(h, j, Len(h))}

InBranch(h, j) == Standard!InSelectedBranch(h, j, Len(h))

\* The text is selected as far as the groups down to depth i decide it.
SelectedTo(h, i) ==
  \A j \in OpenGroups(h) : Standard!Depth(h, j) <= i => InBranch(h, j)

\* A branch of the group of line j was taken.
Taken(h, j) == \E b \in Standard!Branches(h, j, Len(h)) : h[b].truth

GroupsFound ==
  /\ Standard!Depth(hist, Len(hist)) = Len(cond_stack)
  /\ \A j \in OpenGroups(hist) : Standard!Depth(hist, j) \in 1..Len(cond_stack)
  /\ \A i \in 1..Len(cond_stack) :
       \E j \in OpenGroups(hist) : Standard!Depth(hist, j) = i
  /\ \A j, k \in OpenGroups(hist) :
       Standard!Depth(hist, j) = Standard!Depth(hist, k) => j = k

FlagsMean ==
  /\ \A i \in 1..Len(cond_stack) :
       /\ cond_stack[i].active <=> SelectedTo(hist, i)
       /\ cond_stack[i].parent_active <=> SelectedTo(hist, i - 1)
  /\ \A j \in OpenGroups(hist) :
       LET c == cond_stack[Standard!Depth(hist, j)]
       IN c.parent_active => (c.branch_taken <=> Taken(hist, j))

StackMeans == GroupsFound /\ FlagsMean

-----------------------------------------------------------------------------
(***************************************************************************)
(* One more line in the history.                                           *)
(***************************************************************************)
\* The two modules have each a Cardinality of their own; it is the same.
LEMMA SameCardinality == \A S : Standard!Cardinality(S) = Cardinality(S)
  BY DEF Standard!Cardinality, Cardinality, Standard!IsFiniteSet, IsFiniteSet

Count(h, i, ops) == Cardinality({k \in 1..i : h[k].op \in ops})

\* Lines are counted up to a place whatever follows it.
LEMMA CountNext ==
  ASSUME NEW h \in Seq(Entry), NEW e \in Entry, NEW ops
  PROVE  /\ \A i \in 0..Len(h) : /\ Count(h, i, ops) \in Nat
                                 /\ Count(Append(h, e), i, ops) = Count(h, i, ops)
         /\ Count(Append(h, e), Len(h) + 1, ops)
              = Count(h, Len(h), ops) + (IF e.op \in ops THEN 1 ELSE 0)
<1> DEFINE n       == Len(h)
           g       == Append(h, e)
           C(f, i) == {k \in 1..i : f[k].op \in ops}
<1>1. /\ n \in Nat
      /\ \A k \in 1..n : g[k] = h[k]
      /\ g[n + 1] = e
  BY AppendProperties
<1>2. ASSUME NEW i \in 0..n
      PROVE  IsFiniteSet(C(h, i)) /\ Cardinality(C(h, i)) \in Nat
  <2>1. IsFiniteSet(1..i)
    BY <1>1, FS_Interval
  <2>2. C(h, i) \in SUBSET (1..i)
    OBVIOUS
  <2> QED BY <2>1, <2>2, FS_Subset, FS_CardinalityType
<1>3. ASSUME NEW i \in 0..n PROVE C(g, i) = C(h, i)
  BY <1>1
<1>4. C(g, n + 1) = IF e.op \in ops THEN C(h, n) \cup {n + 1} ELSE C(h, n)
  BY <1>1
<1>5. n \in 0..n /\ n + 1 \notin C(h, n)
  BY <1>1
<1>6. Cardinality(C(g, n + 1))
        = Cardinality(C(h, n)) + (IF e.op \in ops THEN 1 ELSE 0)
  <2>1. CASE e.op \in ops
    <3>1. C(g, n + 1) = C(h, n) \cup {n + 1}
      BY <1>4, <2>1
    <3>2. IsFiniteSet(C(h, n))
      BY <1>2, <1>5
    <3> HIDE DEF C
    <3>3. Cardinality(C(h, n) \cup {n + 1}) = Cardinality(C(h, n)) + 1
      BY <1>5, <3>2, FS_AddElement
    <3> QED BY <2>1, <3>1, <3>3
  <2>2. CASE e.op \notin ops
    <3>1. C(g, n + 1) = C(h, n)
      BY <1>4, <2>2
    <3>2. Cardinality(C(h, n)) \in Nat
      BY <1>2, <1>5
    <3> HIDE DEF C, g
    <3> QED BY <2>2, <3>1, <3>2
  <2> QED BY <2>1, <2>2
<1> QED BY <1>2, <1>3, <1>6 DEF Count

\* The depth: #if and its like go one down, #endif goes one up.
LEMMA DepthNext ==
  ASSUME NEW h \in Seq(Entry), NEW e \in Entry
  PROVE  LET g == Append(h, e)
             n == Len(h)
             D(f, i) == Standard!Depth(f, i)
         IN /\ \A i \in 0..n : D(h, i) \in Int /\ D(g, i) = D(h, i)
            /\ D(g, n + 1) = IF e.op \in Standard!Opening THEN D(h, n) + 1
                             ELSE IF e.op \in Standard!Closing THEN D(h, n) - 1
                             ELSE D(h, n)
<1> DEFINE g == Append(h, e)
           n == Len(h)
           U == Standard!Opening
           V == Standard!Closing
<1>1. \A f, i : Standard!Depth(f, i) = Count(f, i, U) - Count(f, i, V)
  BY SameCardinality DEF Standard!Depth, Count
<1>2. /\ \A i \in 0..n : /\ Count(h, i, U) \in Nat
                         /\ Count(g, i, U) = Count(h, i, U)
      /\ Count(g, n + 1, U) = Count(h, n, U) + (IF e.op \in U THEN 1 ELSE 0)
  BY CountNext
<1>3. /\ \A i \in 0..n : /\ Count(h, i, V) \in Nat
                         /\ Count(g, i, V) = Count(h, i, V)
      /\ Count(g, n + 1, V) = Count(h, n, V) + (IF e.op \in V THEN 1 ELSE 0)
  BY CountNext
<1>4. n \in 0..n /\ (e.op \in U => e.op \notin V)
  BY DEF Standard!Opening, Standard!Closing
<1>5. /\ Count(h, n, U) \in Nat /\ Count(h, n, V) \in Nat
  BY <1>2, <1>3, <1>4
<1> HIDE DEF U, V
<1>6. \A i \in 0..n : /\ Standard!Depth(h, i) \in Int
                      /\ Standard!Depth(g, i) = Standard!Depth(h, i)
  BY <1>1, <1>2, <1>3
<1>7. Standard!Depth(g, n + 1)
        = IF e.op \in U THEN Standard!Depth(h, n) + 1
          ELSE IF e.op \in V THEN Standard!Depth(h, n) - 1
          ELSE Standard!Depth(h, n)
  BY <1>1, <1>2, <1>3, <1>4, <1>5
<1> QED BY <1>6, <1>7 DEF U, V

\* What is open, and which branches a group has, when a line follows.
LEMMA OpenNext ==
  ASSUME NEW h \in Seq(Entry), NEW e \in Entry
  PROVE  LET g == Append(h, e)
             n == Len(h)
             D(f, i) == Standard!Depth(f, i)
         IN \A j \in 1..n :
              /\ \A i \in j..n :
                   Standard!OpenThrough(g, j, i) <=> Standard!OpenThrough(h, j, i)
              /\ Standard!OpenThrough(g, j, n + 1)
                   <=> Standard!OpenThrough(h, j, n) /\ D(g, n + 1) >= D(h, j)
              /\ Standard!OpenThrough(h, j, n) => D(h, j) <= D(h, n)
<1> DEFINE g == Append(h, e)
           n == Len(h)
<1> SUFFICES ASSUME NEW j \in 1..n
    PROVE  /\ \A i \in j..n :
                Standard!OpenThrough(g, j, i) <=> Standard!OpenThrough(h, j, i)
           /\ Standard!OpenThrough(g, j, n + 1)
                <=> /\ Standard!OpenThrough(h, j, n)
                    /\ Standard!Depth(g, n + 1) >= Standard!Depth(h, j)
           /\ Standard!OpenThrough(h, j, n)
                => Standard!Depth(h, j) <= Standard!Depth(h, n)
  OBVIOUS
<1>1. n \in Nat
  OBVIOUS
<1>2. \A i \in 0..n : /\ Standard!Depth(h, i) \in Int
                      /\ Standard!Depth(g, i) = Standard!Depth(h, i)
  BY DepthNext
<1>3. j \in 0..n /\ n \in j..n /\ j..n + 1 = (j..n) \cup {n + 1}
      /\ \A i \in j..n : j..i \subseteq 0..n
  BY <1>1
<1> HIDE DEF g, n
<1>4. ASSUME NEW i \in j..n
      PROVE  Standard!OpenThrough(g, j, i) <=> Standard!OpenThrough(h, j, i)
  BY <1>2, <1>3 DEF Standard!OpenThrough
<1>5. Standard!OpenThrough(g, j, n + 1)
        <=> Standard!OpenThrough(g, j, n) /\ Standard!Depth(g, n + 1) >= Standard!Depth(g, j)
  BY <1>3 DEF Standard!OpenThrough
<1>6. Standard!OpenThrough(h, j, n)
        => Standard!Depth(h, j) <= Standard!Depth(h, n)
  <2>1. Standard!OpenThrough(h, j, n)
          => Standard!Depth(h, n) >= Standard!Depth(h, j)
    BY <1>3 DEF Standard!OpenThrough
  <2>2. Standard!Depth(h, n) \in Int /\ Standard!Depth(h, j) \in Int
    BY <1>1, <1>2, <1>3
  <2> QED BY <2>1, <2>2
<1> QED BY <1>2, <1>3, <1>4, <1>5, <1>6

\* The line belongs to the group of line j if it is an #elif or #else of it.
Joins(h, e, j) ==
  /\ e.op \in Standard!Alternative
  /\ Standard!OpenThrough(h, j, Len(h))
  /\ Standard!Depth(h, Len(h)) = Standard!Depth(h, j)

\* The branches a group has when a line follows.
LEMMA BranchesNext ==
  ASSUME NEW h \in Seq(Entry), NEW e \in Entry, NEW j \in 1..Len(h)
  PROVE  /\ Standard!Branches(h, j, Len(h)) \subseteq 1..Len(h)
         /\ Standard!Branches(Append(h, e), j, Len(h) + 1)
              = Standard!Branches(h, j, Len(h))
                  \cup (IF Joins(h, e, j) THEN {Len(h) + 1} ELSE {})
<1> DEFINE g == Append(h, e)
           n == Len(h)
           A == Standard!Alternative
           IsBranch(f, k) == /\ f[k].op \in A
                             /\ Standard!Depth(f, k) = Standard!Depth(f, j)
                             /\ Standard!OpenThrough(f, j, k)
<1>1. /\ n \in Nat
      /\ \A k \in 1..n : g[k] = h[k]
      /\ g[n + 1] = e
  BY AppendProperties
<1>2. \A f, i : Standard!Branches(f, j, i) = {j} \cup {k \in j + 1..i : IsBranch(f, k)}
  BY DEF Standard!Branches
<1>3. ASSUME NEW k \in j + 1..n PROVE IsBranch(g, k) <=> IsBranch(h, k)
  <2>1. k \in 0..n /\ k \in 1..n /\ k \in j..n /\ j \in 0..n
    BY <1>1
  <2>2. /\ Standard!Depth(g, k) = Standard!Depth(h, k)
        /\ Standard!Depth(g, j) = Standard!Depth(h, j)
    BY <2>1, DepthNext
  <2>3. Standard!OpenThrough(g, j, k) <=> Standard!OpenThrough(h, j, k)
    BY <2>1, OpenNext
  <2> QED BY <1>1, <2>1, <2>2, <2>3
<1>4. IsBranch(g, n + 1) <=> Joins(h, e, j)
  <2>1. j \in 0..n /\ n \in 0..n
    BY <1>1
  <2>2. /\ Standard!Depth(g, j) = Standard!Depth(h, j)
        /\ Standard!Depth(h, j) \in Int /\ Standard!Depth(h, n) \in Int
    BY <2>1, DepthNext
  <2>3. e.op \in A => Standard!Depth(g, n + 1) = Standard!Depth(h, n)
    BY DepthNext DEF Standard!Alternative, Standard!Opening, Standard!Closing
  <2>4. Standard!OpenThrough(g, j, n + 1)
          <=> /\ Standard!OpenThrough(h, j, n)
              /\ Standard!Depth(g, n + 1) >= Standard!Depth(h, j)
    BY OpenNext
  <2>5. g[n + 1].op = e.op
    BY <1>1
  <2> HIDE DEF g
  <2>6. CASE e.op \in A
    <3> DEFINE dj == Standard!Depth(h, j)
               dn == Standard!Depth(h, n)
               O  == Standard!OpenThrough(h, j, n)
    <3>1. IsBranch(g, n + 1) <=> dn = dj /\ O /\ dn >= dj
      <4>1. /\ Standard!Depth(g, n + 1) = dn
            /\ Standard!Depth(g, j) = dj
            /\ Standard!OpenThrough(g, j, n + 1) <=> O /\ dn >= dj
        BY <2>2, <2>3, <2>4, <2>6
      <4> QED BY <4>1, <2>5, <2>6, Zenon
    <3>2. dj \in Int /\ dn \in Int
      BY <2>2
    <3> HIDE DEF dj, dn
    <3>3. dn = dj => dn >= dj
      BY <3>2
    <3>4. Joins(h, e, j) <=> O /\ dn = dj
      BY <2>6 DEF Joins, dj, dn
    <3> QED BY <3>1, <3>3, <3>4
  <2>7. CASE e.op \notin A
    BY <2>5, <2>7 DEF Joins
  <2> QED BY <2>6, <2>7
<1>5. j + 1..n + 1 = (j + 1..n) \cup {n + 1} /\ n + 1 \notin j + 1..n
  BY <1>1
<1>6. {k \in j + 1..n + 1 : IsBranch(g, k)}
        = {k \in j + 1..n : IsBranch(h, k)}
            \cup (IF Joins(h, e, j) THEN {n + 1} ELSE {})
  <2> HIDE DEF IsBranch
  <2> QED BY <1>3, <1>4, <1>5
<1>7. Standard!Branches(h, j, n) \subseteq 1..n
  BY <1>1, <1>2
<1>8. Standard!Branches(g, j, n + 1)
        = Standard!Branches(h, j, n) \cup (IF Joins(h, e, j) THEN {n + 1} ELSE {})
  <2> DEFINE Old == {k \in j + 1..n : IsBranch(h, k)}
             New == {k \in j + 1..n + 1 : IsBranch(g, k)}
  <2>1. /\ Standard!Branches(h, j, n) = {j} \cup Old
        /\ Standard!Branches(g, j, n + 1) = {j} \cup New
    BY <1>2
  <2> HIDE DEF Old, New, g, IsBranch
  <2>2. New = Old \cup (IF Joins(h, e, j) THEN {n + 1} ELSE {})
    BY <1>6 DEF Old, New
  <2> QED BY <2>1, <2>2
<1> QED BY <1>7, <1>8
\* The groups open when a line follows: #if opens one, #endif closes the
\* deepest.
LEMMA OpenGroupsNext ==
  ASSUME NEW h \in Seq(Entry), NEW e \in Entry
  PROVE  LET g == Append(h, e)
             n == Len(h)
             d == Standard!Depth(g, n + 1)
         IN /\ OpenGroups(g) = {j \in OpenGroups(h) : Standard!Depth(h, j) <= d}
                                 \cup (IF e.op \in Standard!Opening THEN {n + 1} ELSE {})
            /\ \A j \in OpenGroups(h) :
                 /\ j \in 1..n
                 /\ Standard!Depth(h, j) \in Int
                 /\ Standard!Depth(h, j) <= Standard!Depth(h, n)
                 /\ Standard!Depth(g, j) = Standard!Depth(h, j)
                 /\ Standard!OpenThrough(h, j, n)
<1> DEFINE g == Append(h, e)
           n == Len(h)
           d == Standard!Depth(g, n + 1)
<1>1. /\ n \in Nat /\ Len(g) = n + 1
      /\ \A k \in 1..n : g[k] = h[k]
      /\ g[n + 1] = e
  BY AppendProperties
<1>2. /\ n \in 0..n /\ \A j \in 1..n : j \in 0..n
      /\ d \in Int
  BY <1>1, DepthNext
<1>3. \A j \in 1..n : /\ Standard!Depth(h, j) \in Int
                      /\ Standard!Depth(g, j) = Standard!Depth(h, j)
  BY <1>2, DepthNext
<1>4. \A j \in 1..n :
        /\ Standard!OpenThrough(g, j, n + 1)
             <=> Standard!OpenThrough(h, j, n) /\ d >= Standard!Depth(h, j)
        /\ Standard!OpenThrough(h, j, n)
             => Standard!Depth(h, j) <= Standard!Depth(h, n)
  BY OpenNext
<1>5. Standard!OpenThrough(g, n + 1, n + 1)
  <2>1. n + 1..n + 1 = {n + 1}
    BY <1>1
  <2>2. d >= d
    BY <1>2
  <2> HIDE DEF g
  <2> QED BY <2>1, <2>2 DEF Standard!OpenThrough
<1> HIDE DEF g, d
<1>6. ASSUME NEW j \in 1..n + 1
      PROVE  j \in OpenGroups(g)
               <=> \/ j \in OpenGroups(h) /\ Standard!Depth(h, j) <= d
                   \/ j = n + 1 /\ e.op \in Standard!Opening
  <2>1. CASE j \in 1..n
    <3>1. j # n + 1
      BY <1>1, <2>1
    <3>2. d >= Standard!Depth(h, j) <=> Standard!Depth(h, j) <= d
      BY <1>2, <1>3, <2>1
    <3>3. j \in OpenGroups(g) <=> /\ h[j].op \in Standard!Opening
                                  /\ Standard!OpenThrough(g, j, n + 1)
      BY <1>1, <2>1 DEF OpenGroups
    <3>4. j \in OpenGroups(h) <=> /\ h[j].op \in Standard!Opening
                                  /\ Standard!OpenThrough(h, j, n)
      BY <2>1 DEF OpenGroups
    <3> QED BY <1>4, <2>1, <3>1, <3>2, <3>3, <3>4
  <2>2. CASE j = n + 1
    <3>1. j \notin OpenGroups(h)
      BY <1>1, <2>2 DEF OpenGroups
    <3>2. j \in OpenGroups(g) <=> e.op \in Standard!Opening
      BY <1>1, <1>5, <2>2 DEF OpenGroups
    <3> QED BY <2>2, <3>1, <3>2
  <2> QED BY <1>1, <2>1, <2>2
<1>7. OpenGroups(g) = {j \in OpenGroups(h) : Standard!Depth(h, j) <= d}
                        \cup (IF e.op \in Standard!Opening THEN {n + 1} ELSE {})
  <2>1. OpenGroups(g) \subseteq 1..n + 1 /\ OpenGroups(h) \subseteq 1..n + 1
    BY <1>1 DEF OpenGroups
  <2>2. n + 1 \in 1..n + 1
    BY <1>1
  <2> QED BY <1>6, <2>1, <2>2
<1>8. \A j \in OpenGroups(h) : j \in 1..n /\ Standard!OpenThrough(h, j, n)
  BY DEF OpenGroups
<1> QED BY <1>3, <1>4, <1>7, <1>8 DEF g, d

\* Which branch of a group is the selected one when a line follows.
LEMMA SelectionNext ==
  ASSUME NEW h \in Seq(Entry), NEW e \in Entry, NEW j \in 1..Len(h)
  PROVE  LET g == Append(h, e)
         IN IF Joins(h, e, j)
            THEN /\ InBranch(g, j) <=> e.truth /\ ~Taken(h, j)
                 /\ Taken(g, j) <=> Taken(h, j) \/ e.truth
            ELSE /\ InBranch(g, j) <=> InBranch(h, j)
                 /\ Taken(g, j) <=> Taken(h, j)
<1> DEFINE g == Append(h, e)
           n == Len(h)
           B == Standard!Branches(h, j, n)
           E == Standard!Branches(g, j, n + 1)
<1>1. /\ n \in Nat /\ Len(g) = n + 1
      /\ \A k \in 1..n : g[k] = h[k]
      /\ g[n + 1] = e
  BY AppendProperties
<1>2. /\ B \subseteq 1..n
      /\ E = B \cup (IF Joins(h, e, j) THEN {n + 1} ELSE {})
  BY BranchesNext
<1>3. /\ InBranch(h, j) <=> \E b \in B : /\ h[b].truth
                                         /\ \A c \in B \ {b} : c < b /\ ~h[c].truth
      /\ InBranch(g, j) <=> \E b \in E : /\ g[b].truth
                                         /\ \A c \in E \ {b} : c < b /\ ~g[c].truth
      /\ Taken(h, j) <=> \E b \in B : h[b].truth
      /\ Taken(g, j) <=> \E b \in E : g[b].truth
  BY <1>1 DEF InBranch, Taken, Standard!InSelectedBranch
<1>4. /\ \A b \in B : g[b] = h[b] /\ b # n + 1 /\ b < n + 1 /\ ~(n + 1 < b)
  BY <1>1, <1>2
<1> HIDE DEF g, n, B, E
<1>5. CASE ~Joins(h, e, j)
  <2>1. E = B
    BY <1>2, <1>5
  <2> QED BY <1>3, <1>4, <1>5, <2>1 DEF g
<1>6. CASE Joins(h, e, j)
  <2>1. E = B \cup {n + 1}
    BY <1>2, <1>6
  <2>2. Taken(g, j) <=> Taken(h, j) \/ e.truth
    BY <1>1, <1>3, <1>4, <2>1
  <2>3. ASSUME InBranch(g, j) PROVE e.truth /\ ~Taken(h, j)
    <3> PICK b \in E : /\ g[b].truth
                       /\ \A c \in E \ {b} : c < b /\ ~g[c].truth
      BY <1>3, <2>3
    <3>1. b = n + 1
      BY <1>4, <2>1
    <3> QED BY <1>1, <1>3, <1>4, <2>1, <3>1
  <2>4. ASSUME e.truth, ~Taken(h, j) PROVE InBranch(g, j)
    <3>1. g[n + 1].truth /\ n + 1 \in E
      BY <1>1, <2>1, <2>4
    <3>2. \A c \in E \ {n + 1} : c < n + 1 /\ ~g[c].truth
      BY <1>3, <1>4, <2>1, <2>4
    <3> QED BY <1>3, <3>1, <3>2
  <2> QED BY <1>6, <2>2, <2>3, <2>4 DEF g
<1> QED BY <1>5, <1>6

\* A group that the line opens.
LEMMA SelectionOpened ==
  ASSUME NEW h \in Seq(Entry), NEW e \in Entry
  PROVE  LET g == Append(h, e)
         IN /\ InBranch(g, Len(h) + 1) <=> e.truth
            /\ Taken(g, Len(h) + 1) <=> e.truth
<1> DEFINE g == Append(h, e)
           n == Len(h)
<1>1. n \in Nat /\ Len(g) = n + 1 /\ g[n + 1] = e
  BY AppendProperties
<1>2. Standard!Branches(g, n + 1, n + 1) = {n + 1}
  <2>1. n + 1 + 1..n + 1 = {}
    BY <1>1
  <2> QED BY <2>1 DEF Standard!Branches
<1> HIDE DEF g
<1>3. InBranch(g, n + 1) <=> e.truth
  BY <1>1, <1>2 DEF InBranch, Standard!InSelectedBranch
<1>4. Taken(g, n + 1) <=> e.truth
  BY <1>1, <1>2 DEF Taken
<1> QED BY <1>3, <1>4 DEF g
-----------------------------------------------------------------------------
(***************************************************************************)
(* StackMeans is kept: the four kinds of line.                             *)
(***************************************************************************)

\* The facts about the line that follows, in the variables of the program.
LEMMA LineRead ==
  ASSUME TypeOK, StackMeans, NEW e \in Entry, hist' = Append(hist, e)
  PROVE  LET n == Len(hist)
             d == Len(cond_stack)
             D(j) == Standard!Depth(hist, j)
         IN /\ n \in Nat /\ d \in Nat /\ Len(hist') = n + 1
            /\ D(n) = d
            /\ \A j \in OpenGroups(hist) :
                 /\ j \in 1..n /\ j # n + 1 /\ D(j) \in 1..d
                 /\ Standard!Depth(hist', j) = D(j)
                 /\ Joins(hist, e, j) <=> /\ e.op \in Standard!Alternative
                                          /\ D(j) = d
                 /\ ~Joins(hist, e, j) => /\ InBranch(hist', j) <=> InBranch(hist, j)
                                          /\ Taken(hist', j) <=> Taken(hist, j)
                 /\ Joins(hist, e, j) =>
                      /\ InBranch(hist', j) <=> e.truth /\ ~Taken(hist, j)
                      /\ Taken(hist', j) <=> Taken(hist, j) \/ e.truth
            /\ Standard!Depth(hist', n + 1)
                 = IF e.op \in Standard!Opening THEN d + 1
                   ELSE IF e.op \in Standard!Closing THEN d - 1 ELSE d
            /\ OpenGroups(hist')
                 = {j \in OpenGroups(hist) : D(j) <= Standard!Depth(hist', n + 1)}
                     \cup (IF e.op \in Standard!Opening THEN {n + 1} ELSE {})
<1> DEFINE n == Len(hist)
           d == Len(cond_stack)
           D(j) == Standard!Depth(hist, j)
<1>1. /\ hist \in Seq(Entry) /\ n \in Nat /\ d \in Nat
      /\ Len(hist') = n + 1
  BY DEF TypeOK
<1>2. /\ D(n) = d
      /\ \A j \in OpenGroups(hist) : D(j) \in 1..d
  BY DEF StackMeans, GroupsFound
<1>3. Standard!Depth(hist', n + 1)
        = IF e.op \in Standard!Opening THEN d + 1
          ELSE IF e.op \in Standard!Closing THEN d - 1 ELSE d
  BY <1>1, <1>2, DepthNext
<1>4. /\ OpenGroups(hist')
           = {j \in OpenGroups(hist) : D(j) <= Standard!Depth(hist', n + 1)}
               \cup (IF e.op \in Standard!Opening THEN {n + 1} ELSE {})
      /\ \A j \in OpenGroups(hist) : /\ j \in 1..n
                                     /\ Standard!Depth(hist', j) = D(j)
                                     /\ Standard!OpenThrough(hist, j, n)
  BY <1>1, OpenGroupsNext
<1>5. ASSUME NEW j \in OpenGroups(hist)
      PROVE  /\ j \in 1..n /\ j # n + 1
             /\ Joins(hist, e, j) <=> /\ e.op \in Standard!Alternative
                                      /\ D(j) = d
             /\ ~Joins(hist, e, j) => /\ InBranch(hist', j) <=> InBranch(hist, j)
                                      /\ Taken(hist', j) <=> Taken(hist, j)
             /\ Joins(hist, e, j) =>
                  /\ InBranch(hist', j) <=> e.truth /\ ~Taken(hist, j)
                  /\ Taken(hist', j) <=> Taken(hist, j) \/ e.truth
  <2>1. j \in 1..n /\ j # n + 1
    BY <1>1, <1>4
  <2>2. Joins(hist, e, j) <=> e.op \in Standard!Alternative /\ D(j) = d
    BY <1>2, <1>4 DEF Joins
  <2> QED BY <1>1, <2>1, <2>2, SelectionNext
<1> QED BY <1>1, <1>2, <1>3, <1>4, <1>5

\* A line that is no directive of a group changes no group.
LEMMA OrdinaryKeeps ==
  ASSUME TypeOK, StackMeans, NEW e \in Entry, hist' = Append(hist, e),
         e.op \notin Standard!Conditional, UNCHANGED cond_stack
  PROVE  /\ StackMeans'
         /\ OpenGroups(hist') = OpenGroups(hist)
         /\ \A j \in OpenGroups(hist) : InBranch(hist', j) <=> InBranch(hist, j)
<1> DEFINE n == Len(hist)
           d == Len(cond_stack)
           D(j) == Standard!Depth(hist, j)
<1>1. /\ e.op \notin Standard!Opening
      /\ e.op \notin Standard!Alternative
      /\ e.op \notin Standard!Closing
  BY DEF Standard!Conditional
<1>2. /\ n \in Nat /\ d \in Nat /\ Len(hist') = n + 1
      /\ \A j \in OpenGroups(hist) :
           /\ D(j) \in 1..d /\ Standard!Depth(hist', j) = D(j)
           /\ InBranch(hist', j) <=> InBranch(hist, j)
           /\ Taken(hist', j) <=> Taken(hist, j)
      /\ Standard!Depth(hist', n + 1) = d
      /\ OpenGroups(hist') = {j \in OpenGroups(hist) : D(j) <= d}
  BY <1>1, LineRead
<1>3. OpenGroups(hist') = OpenGroups(hist)
  BY <1>2
<1>4. \A i \in Int : SelectedTo(hist', i) <=> SelectedTo(hist, i)
  BY <1>2, <1>3 DEF SelectedTo
<1>5. GroupsFound'
  BY <1>2, <1>3 DEF GroupsFound, StackMeans
<1>6. FlagsMean'
  <2>1. \A i \in 1..d : i \in Int /\ i - 1 \in Int
    BY <1>2
  <2>2. \A i \in 1..d : /\ cond_stack[i].active <=> SelectedTo(hist', i)
                        /\ cond_stack[i].parent_active <=> SelectedTo(hist', i - 1)
    BY <1>4, <2>1 DEF FlagsMean, StackMeans
  <2>3. \A j \in OpenGroups(hist') :
          LET c == cond_stack[Standard!Depth(hist', j)]
          IN c.parent_active => (c.branch_taken <=> Taken(hist', j))
    BY <1>2, <1>3 DEF FlagsMean, StackMeans
  <2> QED BY <2>2, <2>3 DEF FlagsMean
<1> QED BY <1>2, <1>3, <1>5, <1>6 DEF StackMeans

\* is_cond_active says that the text is selected in every group.
LEMMA ActiveMeans ==
  ASSUME TypeOK, CondInv, StackMeans
  PROVE  /\ IsCondActive <=> \A j \in OpenGroups(hist) : InBranch(hist, j)
         /\ IsCondActive <=> SelectedTo(hist, Len(cond_stack))
<1> DEFINE d == Len(cond_stack)
<1>1. d \in Nat /\ \A j \in OpenGroups(hist) : Standard!Depth(hist, j) \in 1..d
  BY DEF TypeOK, StackMeans, GroupsFound
<1>2. SelectedTo(hist, d) <=> \A j \in OpenGroups(hist) : InBranch(hist, j)
  BY <1>1 DEF SelectedTo
<1>3. CASE cond_stack = << >>
  BY <1>1, <1>2, <1>3 DEF IsCondActive
<1>4. CASE cond_stack # << >>
  <2>1. d \in 1..d
    BY <1>4 DEF TypeOK
  <2>2. IsCondActive <=> cond_stack[d].active
    BY <1>4, TopDecides DEF TopCond
  <2> QED BY <1>2, <2>1, <2>2 DEF StackMeans, FlagsMean
<1> QED BY <1>3, <1>4
\* A line that opens a group: its CondState says what the standard says.
LEMMA OpeningKeeps ==
  ASSUME TypeOK, CondInv, StackMeans, NEW e \in Entry, hist' = Append(hist, e),
         e.op \in Standard!Opening,
         NEW cs \in CondState, cond_stack' = Append(cond_stack, cs),
         cs.active <=> IsCondActive /\ e.truth,
         cs.parent_active <=> IsCondActive,
         cs.branch_taken <=> IsCondActive /\ e.truth
  PROVE  StackMeans'
<1> DEFINE n == Len(hist)
           d == Len(cond_stack)
           D(j) == Standard!Depth(hist, j)
<1>1. e.op \notin Standard!Alternative /\ e.op \notin Standard!Closing
  BY DEF Standard!Opening, Standard!Alternative, Standard!Closing
<1>2. /\ n \in Nat /\ d \in Nat /\ Len(hist') = n + 1
      /\ \A j \in OpenGroups(hist) :
           /\ j # n + 1
           /\ D(j) \in 1..d /\ Standard!Depth(hist', j) = D(j)
           /\ InBranch(hist', j) <=> InBranch(hist, j)
           /\ Taken(hist', j) <=> Taken(hist, j)
      /\ Standard!Depth(hist', n + 1) = d + 1
      /\ OpenGroups(hist') = {j \in OpenGroups(hist) : D(j) <= d + 1} \cup {n + 1}
  BY <1>1, LineRead
<1>3. OpenGroups(hist') = OpenGroups(hist) \cup {n + 1}
  BY <1>2
<1>4. /\ Len(cond_stack') = d + 1
      /\ \A i \in 1..d : cond_stack'[i] = cond_stack[i]
      /\ cond_stack'[d + 1] = cs
  BY AppendProperties DEF TypeOK
<1>5. /\ InBranch(hist', n + 1) <=> e.truth
      /\ Taken(hist', n + 1) <=> e.truth
  BY SelectionOpened DEF TypeOK
<1>6. /\ \A i \in 1..d : i \in 1..d + 1 /\ i # d + 1 /\ i - 1 \in 0..d /\ i \in 0..d
      /\ \A i \in 1..d + 1 : i \in 1..d \/ i = d + 1
      /\ d + 1 \in 1..d + 1 /\ d \in 0..d /\ d + 1 - 1 = d
  BY <1>2
<1>7. GroupsFound'
  <2>1. Standard!Depth(hist', Len(hist')) = Len(cond_stack')
    BY <1>2, <1>4
  <2>2. \A j \in OpenGroups(hist') : Standard!Depth(hist', j) \in 1..d + 1
    BY <1>2, <1>3, <1>6
  <2>3. \A i \in 1..d + 1 :
          \E j \in OpenGroups(hist') : Standard!Depth(hist', j) = i
    BY <1>2, <1>3, <1>6 DEF StackMeans, GroupsFound
  <2>4. \A j, k \in OpenGroups(hist') :
          Standard!Depth(hist', j) = Standard!Depth(hist', k) => j = k
    BY <1>2, <1>3, <1>6 DEF StackMeans, GroupsFound
  <2> QED BY <1>4, <2>1, <2>2, <2>3, <2>4 DEF GroupsFound
<1>8. \A i \in 0..d : SelectedTo(hist', i) <=> SelectedTo(hist, i)
  BY <1>2, <1>3 DEF SelectedTo
<1>9. SelectedTo(hist', d + 1) <=> SelectedTo(hist, d) /\ e.truth
  BY <1>2, <1>3, <1>5 DEF SelectedTo
<1>10. IsCondActive <=> SelectedTo(hist, d)
  BY ActiveMeans
<1>11. FlagsMean'
  <2>1. ASSUME NEW i \in 1..d + 1
        PROVE  /\ cond_stack'[i].active <=> SelectedTo(hist', i)
               /\ cond_stack'[i].parent_active <=> SelectedTo(hist', i - 1)
    <3>1. CASE i \in 1..d
      BY <1>4, <1>6, <1>8, <3>1 DEF StackMeans, FlagsMean
    <3>2. CASE i = d + 1
      BY <1>4, <1>6, <1>8, <1>9, <1>10, <3>2
    <3> QED BY <1>6, <3>1, <3>2
  <2>2. ASSUME NEW j \in OpenGroups(hist'),
               cond_stack'[Standard!Depth(hist', j)].parent_active
        PROVE  cond_stack'[Standard!Depth(hist', j)].branch_taken <=> Taken(hist', j)
    <3>1. CASE j \in OpenGroups(hist)
      BY <1>2, <1>4, <2>2, <3>1 DEF StackMeans, FlagsMean
    <3>2. CASE j = n + 1
      BY <1>2, <1>4, <1>5, <2>2, <3>2
    <3> QED BY <1>3, <3>1, <3>2
  <2> QED BY <1>4, <2>1, <2>2 DEF FlagsMean
<1> QED BY <1>7, <1>11 DEF StackMeans

\* #elif and #else decide the innermost group, and no other.
LEMMA AlternativeKeeps ==
  ASSUME TypeOK, StackMeans, NEW e \in Entry, hist' = Append(hist, e),
         e.op \in Standard!Alternative, cond_stack # << >>,
         cond_stack' = [cond_stack EXCEPT
                          ![Len(cond_stack)] = Branch(@, e.truth)]
  PROVE  StackMeans'
<1> DEFINE n == Len(hist)
           d == Len(cond_stack)
           D(j) == Standard!Depth(hist, j)
           top == cond_stack[d]
           cs  == Branch(top, e.truth)
<1>1. e.op \notin Standard!Opening /\ e.op \notin Standard!Closing
  BY DEF Standard!Opening, Standard!Alternative, Standard!Closing
<1>2. /\ n \in Nat /\ d \in Nat /\ Len(hist') = n + 1
      /\ \A j \in OpenGroups(hist) :
           /\ D(j) \in 1..d /\ Standard!Depth(hist', j) = D(j)
           /\ D(j) # d => /\ InBranch(hist', j) <=> InBranch(hist, j)
                          /\ Taken(hist', j) <=> Taken(hist, j)
           /\ D(j) = d => /\ InBranch(hist', j) <=> e.truth /\ ~Taken(hist, j)
                          /\ Taken(hist', j) <=> Taken(hist, j) \/ e.truth
      /\ Standard!Depth(hist', n + 1) = d
      /\ OpenGroups(hist') = {j \in OpenGroups(hist) : D(j) <= d}
  BY <1>1, LineRead
<1>3. OpenGroups(hist') = OpenGroups(hist)
  BY <1>2
<1>4. /\ d \in 1..d /\ d # 0 /\ cond_stack \in Seq(CondState)
      /\ top \in CondState /\ e.truth \in BOOLEAN
  BY DEF TypeOK, Entry
<1>5. /\ cs \in CondState
      /\ cs.parent_active <=> top.parent_active
      /\ cs.active <=> top.parent_active /\ ~top.branch_taken /\ e.truth
      /\ top.parent_active => (cs.branch_taken <=> top.branch_taken \/ e.truth)
  BY <1>4 DEF Branch, CondState
<1> HIDE DEF cs
<1>6. /\ Len(cond_stack') = d
      /\ \A i \in 1..d : i # d => cond_stack'[i] = cond_stack[i]
      /\ cond_stack'[d] = cs
  BY <1>4, <1>5, ExceptSeq DEF cs
<1>7. GroupsFound'
  <2>1. \A j \in OpenGroups(hist') : Standard!Depth(hist', j) = D(j)
    BY <1>2, <1>3
  <2>2. Standard!Depth(hist', Len(hist')) = Len(cond_stack')
    BY <1>2, <1>6
  <2> QED BY <1>3, <1>6, <2>1, <2>2 DEF GroupsFound, StackMeans
<1>8. PICK t \in OpenGroups(hist) : D(t) = d
  BY <1>4 DEF StackMeans, GroupsFound
<1>9. \A j \in OpenGroups(hist) : D(j) = d => j = t
  BY <1>8 DEF StackMeans, GroupsFound
<1>10. \A i \in 0..d - 1 : SelectedTo(hist', i) <=> SelectedTo(hist, i)
  <2>1. ASSUME NEW i \in 0..d - 1, NEW j \in OpenGroups(hist), D(j) <= i
        PROVE  D(j) # d
    BY <1>2, <2>1
  <2> QED BY <1>2, <1>3, <2>1 DEF SelectedTo
<1>11. SelectedTo(hist', d)
         <=> SelectedTo(hist, d - 1) /\ e.truth /\ ~Taken(hist, t)
  <2>1. \A j \in OpenGroups(hist) : D(j) <= d /\ (D(j) <= d - 1 <=> D(j) # d)
    BY <1>2
  <2> QED BY <1>2, <1>3, <1>8, <1>9, <2>1 DEF SelectedTo
<1>12. /\ top.parent_active <=> SelectedTo(hist, d - 1)
       /\ top.parent_active => (top.branch_taken <=> Taken(hist, t))
  BY <1>4, <1>8 DEF StackMeans, FlagsMean
<1>13. FlagsMean'
  <2>1. ASSUME NEW i \in 1..d
        PROVE  /\ cond_stack'[i].active <=> SelectedTo(hist', i)
               /\ cond_stack'[i].parent_active <=> SelectedTo(hist', i - 1)
    <3>1. CASE i # d
      <4>1. i \in 0..d - 1 /\ i - 1 \in 0..d - 1
        BY <1>2, <3>1
      <4> QED BY <1>6, <1>10, <3>1, <4>1 DEF StackMeans, FlagsMean
    <3>2. CASE i = d
      <4>1. d - 1 \in 0..d - 1
        BY <1>2, <1>4
      <4> QED BY <1>5, <1>6, <1>10, <1>11, <1>12, <3>2, <4>1
    <3> QED BY <3>1, <3>2
  <2>2. ASSUME NEW j \in OpenGroups(hist), cond_stack'[D(j)].parent_active
        PROVE  cond_stack'[D(j)].branch_taken <=> Taken(hist', j)
    <3>1. CASE D(j) # d
      BY <1>2, <1>6, <2>2, <3>1 DEF StackMeans, FlagsMean
    <3>2. CASE D(j) = d
      BY <1>2, <1>5, <1>6, <1>9, <1>12, <2>2, <3>2
    <3> QED BY <3>1, <3>2
  <2> QED BY <1>2, <1>3, <1>6, <2>1, <2>2 DEF FlagsMean
<1> QED BY <1>7, <1>13 DEF StackMeans

\* #endif: what remains open is what was open around the group.
LEMMA ClosingKeeps ==
  ASSUME TypeOK, StackMeans, NEW e \in Entry, hist' = Append(hist, e),
         e.op \in Standard!Closing, cond_stack # << >>, cond_stack' = Pop
  PROVE  StackMeans'
<1> DEFINE n == Len(hist)
           d == Len(cond_stack)
           D(j) == Standard!Depth(hist, j)
<1>1. e.op \notin Standard!Opening /\ e.op \notin Standard!Alternative
  BY DEF Standard!Opening, Standard!Alternative, Standard!Closing
<1>2. /\ n \in Nat /\ d \in Nat /\ Len(hist') = n + 1
      /\ \A j \in OpenGroups(hist) :
           /\ D(j) \in 1..d /\ Standard!Depth(hist', j) = D(j)
           /\ InBranch(hist', j) <=> InBranch(hist, j)
           /\ Taken(hist', j) <=> Taken(hist, j)
      /\ Standard!Depth(hist', n + 1) = d - 1
      /\ OpenGroups(hist') = {j \in OpenGroups(hist) : D(j) <= d - 1}
  BY <1>1, LineRead
<1>3. /\ d # 0
      /\ Len(cond_stack') = d - 1
      /\ \A i \in 1..d - 1 : cond_stack'[i] = cond_stack[i]
  BY ShorterByOne DEF Pop, TypeOK
<1>4. /\ \A i \in 1..d - 1 : i \in 1..d /\ i <= d - 1 /\ i - 1 \in 0..d - 1 /\ i \in 0..d - 1
      /\ \A i \in 1..d : i <= d - 1 => i \in 1..d - 1
  BY <1>2
<1>5. GroupsFound'
  <2>1. \A j \in OpenGroups(hist') : Standard!Depth(hist', j) \in 1..d - 1
    BY <1>2, <1>4
  <2>2. \A i \in 1..d - 1 :
          \E j \in OpenGroups(hist') : Standard!Depth(hist', j) = i
    BY <1>2, <1>4 DEF StackMeans, GroupsFound
  <2>3. \A j, k \in OpenGroups(hist') :
          Standard!Depth(hist', j) = Standard!Depth(hist', k) => j = k
    BY <1>2 DEF StackMeans, GroupsFound
  <2> QED BY <1>2, <1>3, <2>1, <2>2, <2>3 DEF GroupsFound
<1>6. \A i \in 0..d - 1 : SelectedTo(hist', i) <=> SelectedTo(hist, i)
  <2>1. \A i \in 0..d - 1 : \A j \in OpenGroups(hist) : D(j) <= i => D(j) <= d - 1
    BY <1>2
  <2> QED BY <1>2, <2>1 DEF SelectedTo
<1>7. FlagsMean'
  <2>1. ASSUME NEW i \in 1..d - 1
        PROVE  /\ cond_stack'[i].active <=> SelectedTo(hist', i)
               /\ cond_stack'[i].parent_active <=> SelectedTo(hist', i - 1)
    BY <1>3, <1>4, <1>6 DEF StackMeans, FlagsMean
  <2>2. ASSUME NEW j \in OpenGroups(hist'),
               cond_stack'[Standard!Depth(hist', j)].parent_active
        PROVE  cond_stack'[Standard!Depth(hist', j)].branch_taken <=> Taken(hist', j)
    <3>1. j \in OpenGroups(hist) /\ D(j) \in 1..d - 1
      BY <1>2, <1>4
    <3> QED BY <1>2, <1>3, <2>2, <3>1 DEF StackMeans, FlagsMean
  <2> QED BY <1>3, <2>1, <2>2 DEF FlagsMean
<1> QED BY <1>5, <1>7 DEF StackMeans
-----------------------------------------------------------------------------
(***************************************************************************)
(* The refinement.                                                         *)
(***************************************************************************)

\* A line that is recorded is a line that the standard reads, with the fate
\* that the standard gives it.
StandardStep == \/ Standard!Next
                \/ UNCHANGED <<hist, status>>

\* Before the first line no group is open.
LEMMA InitMeans == Init => StackMeans
<1> SUFFICES ASSUME Init PROVE StackMeans
  OBVIOUS
<1>1. hist = << >> /\ cond_stack = << >> /\ Len(hist) = 0
  BY DEF Init
<1>2. Standard!Depth(hist, 0) = 0
  <2>1. \A ops : {k \in 1..0 : hist[k].op \in ops} = {}
    OBVIOUS
  <2>2. Cardinality({}) = 0
    BY FS_EmptySet
  <2> QED BY <2>1, <2>2, SameCardinality DEF Standard!Depth
<1>3. OpenGroups(hist) = {}
  BY <1>1 DEF OpenGroups
<1> QED BY <1>1, <1>2, <1>3 DEF StackMeans, GroupsFound, FlagsMean

\* The entry that Record makes of a line of the files.
LEMMA RecordedEntry ==
  ASSUME TypeOK, status = "run", NEW ln \in Offered, ln.op # "eof",
         NEW truth \in BOOLEAN, NEW kept \in BOOLEAN, Record(ln, truth, kept)
  PROVE  \E e \in Entry : /\ e.op = ln.op /\ e.truth = truth /\ e.kept = kept
                          /\ hist' = Append(hist, e)
<1> DEFINE e == [op |-> ln.op, file |-> TopFrame.file,
                 truth |-> truth, kept |-> kept]
<1>1. e \in Entry
  BY OfferedLine DEF Line, Frame, Entry
<1>2. hist' = Append(hist, e)
  BY DEF Record
<1> QED BY <1>1, <1>2

\* The two modules speak of the same lines.
LEMMA SameEntries ==
  /\ Standard!Entry = Entry
  /\ Standard!Conditional = Conditional
  /\ Standard!Ordinary = Ordinary
  BY DEF Standard!Entry, Entry, Standard!Conditional, Conditional,
         Standard!Ordinary, Ordinary, Standard!Opening, Standard!Alternative,
         Standard!Closing

\* A directive of a group is read as the standard reads it, if a group is
\* open where one has to be.
LEMMA DirectiveStep ==
  ASSUME TypeOK, StackMeans, status = "run", UNCHANGED status,
         NEW e \in Entry, hist' = Append(hist, e), e.kept = TRUE,
         e.op \in Conditional,
         e.op \in Standard!Opening \/ cond_stack # << >>
  PROVE  Standard!Next
<1>1. Standard!Legal(e.op)
  <2>1. Standard!Depth(hist, Len(hist)) = Len(cond_stack)
    BY DEF StackMeans, GroupsFound
  <2>2. cond_stack # << >> => Len(cond_stack) > 0
    BY DEF TypeOK
  <2>3. e.op \in Standard!Opening
          => e.op \notin Standard!Alternative \cup Standard!Closing
    BY DEF Standard!Opening, Standard!Alternative, Standard!Closing
  <2> QED BY <2>1, <2>2, <2>3 DEF Standard!Legal
<1>2. e \in Standard!Entry /\ e.op \in Standard!Conditional
  BY SameEntries
<1>3. Standard!ReadLine
  BY <1>1, <1>2 DEF Standard!ReadLine
<1> QED BY <1>3 DEF Standard!Next

\* A line of any other kind is kept if is_cond_active says so, which is when
\* the standard selects it.
LEMMA OrdinaryStep ==
  ASSUME TypeOK, CondInv, StackMeans, status = "run", UNCHANGED status,
         UNCHANGED cond_stack,
         NEW e \in Entry, hist' = Append(hist, e), e.kept <=> IsCondActive,
         e.op \in Ordinary
  PROVE  Standard!Next
<1> DEFINE n == Len(hist)
<1>1. e.op \notin Standard!Conditional
  BY SameEntries DEF Ordinary, Conditional
<1>2. /\ OpenGroups(hist') = OpenGroups(hist)
      /\ \A j \in OpenGroups(hist) : InBranch(hist', j) <=> InBranch(hist, j)
  BY <1>1, OrdinaryKeeps
<1>3. n \in Nat /\ Len(hist') = n + 1 /\ hist'[n + 1] = e
  BY AppendProperties DEF TypeOK
<1>4. Standard!Enclosing(hist', n + 1) = OpenGroups(hist')
  <2>1. /\ n + 1 - 1 = n
        /\ \A j \in 1..n + 1 : j \in 1..n \/ j = n + 1
        /\ \A j \in 1..n : j \in 1..n + 1
    BY <1>3
  <2>2. e.op \notin Standard!Opening
    BY <1>1 DEF Standard!Conditional
  <2> QED BY <1>3, <2>1, <2>2 DEF Standard!Enclosing, OpenGroups
<1>5. Standard!Selected(hist', n + 1)
        <=> \A j \in OpenGroups(hist) : InBranch(hist, j)
  BY <1>2, <1>3, <1>4 DEF Standard!Selected, InBranch
<1>6. e.kept <=> Standard!Selected(hist', Len(hist'))
  BY <1>3, <1>5, ActiveMeans
<1>7. Standard!Legal(e.op)
  BY <1>1 DEF Standard!Legal, Standard!Conditional
<1>8. e \in Standard!Entry
  BY SameEntries
<1>9. Standard!ReadLine
  BY <1>1, <1>6, <1>7, <1>8 DEF Standard!ReadLine
<1> QED BY <1>9 DEF Standard!Next

\* Every case of the loop is a line read, the end of the reading, or nothing
\* the standard speaks of; and it keeps StackMeans.
LEMMA StepMeans ==
  ASSUME TypeOK, CondInv, StackMeans, status = "run", NEW ln \in Offered, Step(ln)
  PROVE  StackMeans' /\ StandardStep
<1>1. UNCHANGED <<hist, cond_stack>> => StackMeans'
  BY DEF StackMeans, GroupsFound, FlagsMean
<1>2. Truth(ln) \in BOOLEAN /\ IsCondActive \in BOOLEAN /\ TRUE \in BOOLEAN
  BY TruthType, IsCondActiveType
<1>3. CASE If(ln)
  <2>1. ln.op \in Standard!Opening /\ ln.op \in Conditional /\ ln.op # "eof"
    BY <1>3 DEF If, Standard!Opening, Conditional
  <2>2. PICK e \in Entry : /\ e.op = ln.op /\ e.truth = Truth(ln) /\ e.kept = TRUE
                           /\ hist' = Append(hist, e)
    BY <1>2, <1>3, <2>1, RecordedEntry DEF If
  <2> DEFINE cs == [active        |-> IsCondActive /\ Truth(ln),
                    parent_active |-> IsCondActive,
                    branch_taken  |-> IsCondActive /\ Truth(ln)]
  <2>3. cs \in CondState
    BY <1>2 DEF CondState
  <2>4. cond_stack' = Append(cond_stack, cs) /\ UNCHANGED status
    BY <1>3 DEF If
  <2>5. /\ cs.active <=> IsCondActive /\ e.truth
        /\ cs.parent_active <=> IsCondActive
        /\ cs.branch_taken <=> IsCondActive /\ e.truth
    BY <2>2
  <2> HIDE DEF cs
  <2>6. StackMeans'
    BY <2>1, <2>2, <2>3, <2>4, <2>5, OpeningKeeps
  <2>7. Standard!Next
    BY <2>1, <2>2, <2>4, DirectiveStep
  <2> QED BY <2>6, <2>7 DEF StandardStep
<1>4. CASE Else(ln)
  <2>1. ln.op \in Standard!Alternative /\ ln.op \in Conditional /\ ln.op # "eof"
    BY <1>4 DEF Else, Standard!Alternative, Conditional
  <2>2. PICK e \in Entry : /\ e.op = ln.op /\ e.truth = Truth(ln) /\ e.kept = TRUE
                           /\ hist' = Append(hist, e)
    BY <1>2, <1>4, <2>1, RecordedEntry DEF Else
  <2>3. /\ cond_stack # << >> /\ UNCHANGED status
        /\ cond_stack' = [cond_stack EXCEPT
                            ![Len(cond_stack)] = Branch(@, e.truth)]
    BY <1>4, <2>2 DEF Else
  <2>4. StackMeans'
    BY <2>1, <2>2, <2>3, AlternativeKeeps
  <2>5. Standard!Next
    BY <2>1, <2>2, <2>3, DirectiveStep
  <2> QED BY <2>4, <2>5 DEF StandardStep
<1>5. CASE Endif(ln)
  <2>1. ln.op \in Standard!Closing /\ ln.op \in Conditional /\ ln.op # "eof"
    BY <1>5 DEF Endif, Standard!Closing, Conditional
  <2>2. PICK e \in Entry : /\ e.op = ln.op /\ e.truth = TRUE /\ e.kept = TRUE
                           /\ hist' = Append(hist, e)
    BY <1>2, <1>5, <2>1, RecordedEntry DEF Endif
  <2>3. cond_stack # << >> /\ cond_stack' = Pop /\ UNCHANGED status
    BY <1>5 DEF Endif
  <2>4. StackMeans'
    BY <2>1, <2>2, <2>3, ClosingKeeps
  <2>5. Standard!Next
    BY <2>1, <2>2, <2>3, DirectiveStep
  <2> QED BY <2>4, <2>5 DEF StandardStep
<1>6. CASE Skip(ln) \/ Obey(ln) \/ Include(ln)
  <2>1. /\ ln.op \in Ordinary /\ ln.op # "eof"
        /\ UNCHANGED cond_stack /\ UNCHANGED status
        /\ Record(ln, TRUE, IsCondActive)
    <3>1. CASE Skip(ln)
      <4>1. IsCondActive = FALSE
        BY <3>1, <1>2 DEF Skip
      <4> QED BY <3>1, <4>1 DEF Skip, Ordinary
    <3>2. CASE Obey(ln) \/ Include(ln)
      <4>1. IsCondActive = TRUE
        BY <3>2, <1>2 DEF Obey, Include
      <4> QED BY <3>2, <4>1 DEF Obey, Include, Ordinary
    <3> QED BY <1>6, <3>1, <3>2
  <2>2. PICK e \in Entry : /\ e.op = ln.op /\ e.truth = TRUE
                           /\ e.kept = IsCondActive
                           /\ hist' = Append(hist, e)
    <3>1. CASE IsCondActive = TRUE
      BY <2>1, <3>1, RecordedEntry
    <3>2. CASE IsCondActive = FALSE
      BY <2>1, <3>2, RecordedEntry
    <3> QED BY <1>2, <3>1, <3>2
  <2>3. e.op \notin Standard!Conditional
    BY <2>1, <2>2, SameEntries DEF Ordinary, Conditional
  <2>4. StackMeans'
    BY <2>1, <2>2, <2>3, OrdinaryKeeps
  <2>5. Standard!Next
    BY <2>1, <2>2, OrdinaryStep
  <2> QED BY <2>4, <2>5 DEF StandardStep
<1>7. CASE Misplaced(ln) \/ IncludeMissing(ln) \/ IncludeOverflow(ln)
  <2>1. UNCHANGED <<hist, cond_stack>> /\ status' \in {"error", "overflow"}
    BY <1>7 DEF Misplaced, IncludeMissing, IncludeOverflow
  <2> QED BY <1>1, <2>1 DEF StandardStep, Standard!Next, Standard!Stop
<1>8. CASE Return(ln)
  <2>1. UNCHANGED <<hist, cond_stack>> /\ status' \in {"run", "done"}
    BY <1>8 DEF Return
  <2> QED BY <1>1, <2>1 DEF StandardStep, Standard!Next, Standard!Stop
<1> QED BY <1>3, <1>4, <1>5, <1>6, <1>7, <1>8 DEF Step

\* The lines that cpp_process obeys and emits, by the flags on its stack, are
\* the ones that the standard's rule selects: in every group that is open
\* the branch is the first one whose condition held.
THEOREM SelectsAsStandard == Spec => ImplementsStandard
<1>1. Init => Standard!Init
  BY DEF Init, Standard!Init
<1>2. ASSUME TypeOK, CondInv, StackMeans, [Next]_vars
      PROVE  StackMeans' /\ StandardStep
  <2>1. CASE UNCHANGED vars
    BY <2>1, <1>2 DEF vars, StackMeans, GroupsFound, FlagsMean, StandardStep
  <2>2. CASE Process
    BY <2>2, <1>2, StepMeans DEF Process
  <2> QED BY <2>1, <2>2, <1>2 DEF Next, Ended
<1>3. StandardStep <=> [Standard!Next]_<<hist, status>>
  BY DEF StandardStep
<1>4. Spec => [](TypeOK /\ CondInv)
  BY TypeCorrect, FlagsAgree, PTL
<1> QED BY <1>1, <1>2, <1>3, <1>4, InitMeans, PTL
        DEF Spec, ImplementsStandard, Standard!Spec
=============================================================================
