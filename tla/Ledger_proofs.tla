---------------------------- MODULE Ledger_proofs ----------------------------
(***************************************************************************)
(* The chains of any tree of blocks.  UtxoSync_proofs and UtxoIndex_proofs *)
(* use the lemmas for the trees of their modules.                          *)
(***************************************************************************)
EXTENDS Ledger, FiniteSetTheorems, SequenceTheorems, WellFoundedInduction, TLAPS

\* Hashes have no cycles: any set of blocks has one whose parent is not in it.
IsTree ==
  /\ Genesis \in Blocks /\ NoBlock \notin Blocks
  /\ Parent \in [Blocks \ {Genesis} -> Blocks]
  /\ \A S \in SUBSET Blocks : S # {} => \E b \in S : b = Genesis \/ Parent[b] \notin S

LEMMA GreatestNumber ==
  ASSUME NEW S \in SUBSET Nat, NEW n \in Nat, \A i \in S : i <= n, S # {}
  PROVE  \E i \in S : \A j \in S : j <= i
<1>1. PICK D : D = {m \in Nat : \E i \in S : m = n - i}
  OBVIOUS
<1>2. D \in SUBSET Nat /\ D # {}
  <2>1. PICK i \in S : TRUE
    OBVIOUS
  <2>2. n - i \in Nat
    OBVIOUS
  <2> QED
    BY <1>1, <2>2
<1>3. PICK R : R = {ss \in Nat \X Nat : ss[1] < ss[2]}
  OBVIOUS
<1>4. IsWellFoundedOn(R, Nat)
  BY <1>3, NatLessThanWellFounded DEF OpToRel
<1>5. PICK m \in D : \A k \in D : ~ (<<k, m>> \in R)
  BY <1>2, <1>4, WFMin
<1>6. PICK i \in S : m = n - i
  BY <1>1, <1>5
<1>7. ASSUME NEW j \in S PROVE j <= i
  <2>1. n - j \in D
    BY <1>1
  <2>2. <<n - j, m>> \in Nat \X Nat /\ <<n - j, m>>[1] = n - j /\ <<n - j, m>>[2] = m
    BY <1>2, <2>1
  <2>3. ~ (n - j < m)
    BY <1>3, <1>5, <2>1, <2>2
  <2> QED
    BY <1>6, <2>3
<1> QED
  BY <1>7

-----------------------------------------------------------------------------
(* The chains of a tree of blocks.                                         *)

\* A part of the tree that holds the parents of its blocks.
Closed(D) == D \subseteq Blocks /\ \A b \in D : b # Genesis => Parent[b] \in D

\* What ChainOf is to be, on a part of the tree.
ChainsOn(f, D) ==
  f = [b \in D |-> IF b = Genesis THEN <<b>> ELSE Append(f[Parent[b]], b)]

LEMMA Ancestry ==
  ASSUME IsTree, NEW S \in SUBSET Blocks, S # {}
  PROVE  \E b \in S : b = Genesis \/ (b \in Blocks \ {Genesis} /\ Parent[b] \notin S
                                        /\ Parent[b] \in Blocks)
<1>1. PICK b \in S : b = Genesis \/ Parent[b] \notin S
  BY DEF IsTree
<1> QED
  BY <1>1 DEF IsTree

LEMMA ChainsAgree ==
  ASSUME IsTree, NEW D, Closed(D), NEW f, ChainsOn(f, D),
         NEW E, Closed(E), NEW g, ChainsOn(g, E)
  PROVE  \A b \in D \cap E : f[b] = g[b]
<1>1. PICK S : S = {b \in D \cap E : f[b] # g[b]}
  OBVIOUS
<1>2. ASSUME S # {} PROVE FALSE
  <2>1. S \in SUBSET Blocks
    BY <1>1 DEF Closed
  <2>2. PICK b \in S : b = Genesis \/ (b \in Blocks \ {Genesis} /\ Parent[b] \notin S)
    BY <1>2, <2>1, Ancestry
  <2>3. b \in D /\ b \in E /\ f[b] # g[b]
    BY <1>1, <2>2
  <2>4. /\ f[b] = IF b = Genesis THEN <<b>> ELSE Append(f[Parent[b]], b)
        /\ g[b] = IF b = Genesis THEN <<b>> ELSE Append(g[Parent[b]], b)
    BY <2>3 DEF ChainsOn
  <2>5. b # Genesis /\ f[Parent[b]] = g[Parent[b]]
    <3>1. b # Genesis
      BY <2>3, <2>4
    <3>2. Parent[b] \in D \cap E /\ Parent[b] \notin S
      BY <2>2, <2>3, <3>1 DEF Closed
    <3> QED
      BY <1>1, <3>1, <3>2
  <2> QED
    BY <2>3, <2>4, <2>5
<1> QED
  BY <1>1, <1>2

\* Some part of the tree that holds the block, with its chains.
Reached(b) == \E D : \E f : b \in D /\ Closed(D) /\ ChainsOn(f, D)

LEMMA AllReached ==
  ASSUME IsTree, NEW b \in Blocks
  PROVE  Reached(b)
<1>1. PICK S : S = {x \in Blocks : ~ Reached(x)}
  OBVIOUS
<1>2. ASSUME S # {} PROVE FALSE
  <2>1. PICK x \in S : \/ x = Genesis
                       \/ /\ x \in Blocks \ {Genesis}
                          /\ Parent[x] \notin S /\ Parent[x] \in Blocks
    BY <1>1, <1>2, Ancestry
  <2>2. CASE x = Genesis
    <3>1. PICK f : f = [y \in {Genesis} |-> <<y>>]
      OBVIOUS
    <3>2. ChainsOn(f, {Genesis})
      BY <3>1 DEF ChainsOn
    <3>3. Closed({Genesis})
      BY DEF IsTree, Closed
    <3>4. Reached(x)
      BY <2>2, <3>2, <3>3 DEF Reached
    <3> QED
      BY <1>1, <3>4
  <2>3. CASE x # Genesis
    <3>1. x \in Blocks /\ Parent[x] \in Blocks /\ Reached(Parent[x])
      BY <1>1, <2>1, <2>3
    <3>2. PICK D, f : Parent[x] \in D /\ Closed(D) /\ ChainsOn(f, D)
      BY <3>1 DEF Reached
    <3>3. x \notin D
      BY <1>1, <3>2 DEF Reached
    <3>4. PICK E : E = D \cup {x}
      OBVIOUS
    <3>5. PICK g : g = [y \in E |-> IF y = x THEN Append(f[Parent[x]], x) ELSE f[y]]
      OBVIOUS
    <3>6. Closed(E)
      BY <3>1, <3>2, <3>4 DEF Closed
    <3>7. ASSUME NEW y \in E
          PROVE  g[y] = IF y = Genesis THEN <<y>> ELSE Append(g[Parent[y]], y)
      <4>1. CASE y = x
        <5>1. g[Parent[x]] = f[Parent[x]] /\ g[x] = Append(f[Parent[x]], x)
          BY <3>2, <3>3, <3>4, <3>5
        <5> QED
          BY <2>3, <4>1, <5>1
      <4>2. CASE y # x
        <5>1. y \in D /\ (y # Genesis => Parent[y] \in D)
          BY <3>2, <3>4, <4>2 DEF Closed
        <5>2. g[y] = f[y] /\ (y # Genesis => g[Parent[y]] = f[Parent[y]])
          BY <3>3, <3>4, <3>5, <4>2, <5>1
        <5>3. f[y] = IF y = Genesis THEN <<y>> ELSE Append(f[Parent[y]], y)
          BY <3>2, <5>1 DEF ChainsOn
        <5> QED
          BY <5>2, <5>3
      <4> QED
        BY <4>1, <4>2
    <3>8. ChainsOn(g, E)
      BY <3>5, <3>7 DEF ChainsOn
    <3>9. Reached(x)
      BY <3>4, <3>6, <3>8 DEF Reached
    <3> QED
      BY <1>1, <3>9
  <2> QED
    BY <2>2, <2>3
<1> QED
  BY <1>1, <1>2

LEMMA ChainsExist ==
  ASSUME IsTree
  PROVE  \E f : f = [b \in Blocks |-> IF b = Genesis THEN <<b>> ELSE Append(f[Parent[b]], b)]
<1>1. PICK F : F = [b \in Blocks |->
         CHOOSE s : \E D : \E f : b \in D /\ Closed(D) /\ ChainsOn(f, D) /\ s = f[b]]
  OBVIOUS
<1>2. ASSUME NEW b \in Blocks, NEW D, NEW f, b \in D, Closed(D), ChainsOn(f, D)
      PROVE  F[b] = f[b]
  <2>1. \E E : \E g : b \in E /\ Closed(E) /\ ChainsOn(g, E) /\ F[b] = g[b]
    <3>1. \E s : \E E : \E g : b \in E /\ Closed(E) /\ ChainsOn(g, E) /\ s = g[b]
      BY <1>2
    <3>2. F[b] = CHOOSE s : \E E : \E g : b \in E /\ Closed(E) /\ ChainsOn(g, E) /\ s = g[b]
      BY <1>1
    <3> QED
      BY <3>1, <3>2
  <2>2. PICK E, g : b \in E /\ Closed(E) /\ ChainsOn(g, E) /\ F[b] = g[b]
    BY <2>1
  <2> QED
    BY <1>2, <2>2, ChainsAgree
<1>3. ASSUME NEW b \in Blocks
      PROVE  F[b] = IF b = Genesis THEN <<b>> ELSE Append(F[Parent[b]], b)
  <2>1. PICK D, f : b \in D /\ Closed(D) /\ ChainsOn(f, D)
    BY AllReached DEF Reached
  <2>2. F[b] = f[b]
    BY <1>2, <2>1
  <2>3. f[b] = IF b = Genesis THEN <<b>> ELSE Append(f[Parent[b]], b)
    BY <2>1 DEF ChainsOn
  <2>4. b # Genesis => F[Parent[b]] = f[Parent[b]]
    <3>1. b # Genesis => Parent[b] \in D /\ Parent[b] \in Blocks
      BY <2>1 DEF Closed
    <3> QED
      BY <1>2, <2>1, <3>1
  <2> QED
    BY <2>2, <2>3, <2>4
<1>4. F = [b \in Blocks |-> IF b = Genesis THEN <<b>> ELSE Append(F[Parent[b]], b)]
  BY <1>1, <1>3
<1> QED
  BY <1>4

\* The chain of a block is that of its parent with the block at its end.
LEMMA ChainStep ==
  ASSUME IsTree, NEW b \in Blocks
  PROVE  ChainOf[b] = IF b = Genesis THEN <<b>> ELSE Append(ChainOf[Parent[b]], b)
<1>1. ChainOf = [x \in Blocks |->
        IF x = Genesis THEN <<x>> ELSE Append(ChainOf[Parent[x]], x)]
  BY ChainsExist DEF ChainOf
<1> QED
  BY <1>1

LEMMA ChainShape ==
  ASSUME IsTree, NEW b \in Blocks
  PROVE  /\ ChainOf[b] \in Seq(Blocks) /\ ChainOf[b] # <<>>
         /\ ChainOf[b][1] = Genesis /\ ChainOf[b][Len(ChainOf[b])] = b
<1> DEFINE Good(x) == /\ ChainOf[x] \in Seq(Blocks) /\ ChainOf[x] # <<>>
                      /\ ChainOf[x][1] = Genesis
                      /\ ChainOf[x][Len(ChainOf[x])] = x
<1>1. PICK S : S = {x \in Blocks : ~ Good(x)}
  OBVIOUS
<1>2. ASSUME S # {} PROVE FALSE
  <2>1. PICK x \in S : \/ x = Genesis
                       \/ /\ x \in Blocks \ {Genesis}
                          /\ Parent[x] \notin S /\ Parent[x] \in Blocks
    BY <1>1, <1>2, Ancestry
  <2>2. x \in Blocks /\ ~ Good(x)
    BY <1>1
  <2>3. CASE x = Genesis
    <3>1. ChainOf[x] = <<x>>
      BY <2>2, <2>3, ChainStep
    <3> QED
      BY <2>2, <2>3, <3>1
  <2>4. CASE x # Genesis
    <3>1. Parent[x] \in Blocks /\ Good(Parent[x])
      BY <1>1, <2>1, <2>4
    <3>2. ChainOf[x] = Append(ChainOf[Parent[x]], x)
      BY <2>2, <2>4, ChainStep
    <3>3. PICK c \in Seq(Blocks) : c = ChainOf[Parent[x]]
      BY <3>1
    <3>4. /\ Append(c, x) \in Seq(Blocks) /\ Len(Append(c, x)) = Len(c) + 1
          /\ Append(c, x)[Len(c) + 1] = x /\ Len(c) \in Nat /\ Len(c) # 0
          /\ Append(c, x)[1] = c[1]
      BY <2>2, <3>1, <3>3
    <3>5. Append(c, x) # <<>>
      BY <3>4
    <3> QED
      BY <2>2, <3>1, <3>2, <3>3, <3>4, <3>5
  <2> QED
    BY <2>3, <2>4
<1> QED
  BY <1>1, <1>2

\* The blocks of a chain are at their own heights, and each is the child of
\* the one before.
LEMMA ChainPrefix ==
  ASSUME IsTree, NEW b \in Blocks, NEW i \in 1 .. Len(ChainOf[b])
  PROVE  /\ ChainOf[b][i] \in Blocks
         /\ Len(ChainOf[ChainOf[b][i]]) = i
         /\ \A j \in 1 .. i : ChainOf[ChainOf[b][i]][j] = ChainOf[b][j]
<1> DEFINE Good(x) == \A k \in 1 .. Len(ChainOf[x]) :
                         /\ ChainOf[x][k] \in Blocks
                         /\ Len(ChainOf[ChainOf[x][k]]) = k
                         /\ \A j \in 1 .. k : ChainOf[ChainOf[x][k]][j] = ChainOf[x][j]
<1>1. PICK S : S = {x \in Blocks : ~ Good(x)}
  OBVIOUS
<1>2. ASSUME S # {} PROVE FALSE
  <2>1. PICK x \in S : \/ x = Genesis
                       \/ /\ x \in Blocks \ {Genesis}
                          /\ Parent[x] \notin S /\ Parent[x] \in Blocks
    BY <1>1, <1>2, Ancestry
  <2>2. x \in Blocks /\ ~ Good(x)
    BY <1>1
  <2>3. /\ ChainOf[x] \in Seq(Blocks) /\ ChainOf[x] # <<>>
        /\ ChainOf[x][Len(ChainOf[x])] = x
    BY <2>2, ChainShape
  <2>4. SUFFICES ASSUME NEW k \in 1 .. Len(ChainOf[x])
                 PROVE  /\ ChainOf[x][k] \in Blocks
                        /\ Len(ChainOf[ChainOf[x][k]]) = k
                        /\ \A j \in 1 .. k : ChainOf[ChainOf[x][k]][j] = ChainOf[x][j]
    BY <2>2
  <2>5. CASE k = Len(ChainOf[x])
    BY <2>2, <2>3, <2>5
  <2>6. CASE k # Len(ChainOf[x])
    <3>1. x # Genesis
      <4>1. SUFFICES ASSUME x = Genesis PROVE FALSE
        OBVIOUS
      <4>2. ChainOf[x] = <<x>>
        BY <2>2, <4>1, ChainStep
      <4> QED
        BY <2>6, <4>2
    <3>2. Parent[x] \in Blocks /\ Good(Parent[x])
      BY <1>1, <2>1, <3>1
    <3>3. ChainOf[x] = Append(ChainOf[Parent[x]], x)
      BY <2>2, <3>1, ChainStep
    <3>4. ChainOf[Parent[x]] \in Seq(Blocks)
      BY <3>2, ChainShape
    <3>5. PICK c \in Seq(Blocks) : c = ChainOf[Parent[x]]
      BY <3>4
    <3>6. Len(ChainOf[x]) = Len(c) + 1 /\ \A j \in 1 .. Len(c) : ChainOf[x][j] = c[j]
      BY <2>2, <3>3, <3>5
    <3>7. k \in 1 .. Len(c) /\ Len(c) \in Nat
      BY <2>6, <3>6
    <3>8. /\ c[k] \in Blocks /\ Len(ChainOf[c[k]]) = k
          /\ \A j \in 1 .. k : ChainOf[c[k]][j] = c[j]
      BY <3>2, <3>5, <3>7
    <3> QED
      BY <3>6, <3>7, <3>8
  <2> QED
    BY <2>5, <2>6
<1>3. Good(b)
  BY <1>1, <1>2
<1> QED
  BY <1>3

LEMMA ChainParent ==
  ASSUME IsTree, NEW b \in Blocks, NEW i \in 1 .. Len(ChainOf[b]), i # 1
  PROVE  ChainOf[b][i] # Genesis /\ Parent[ChainOf[b][i]] = ChainOf[b][i - 1]
<1>1. PICK x \in Blocks : x = ChainOf[b][i]
  BY ChainPrefix
<1>2. Len(ChainOf[x]) = i /\ \A j \in 1 .. i : ChainOf[x][j] = ChainOf[b][j]
  BY <1>1, ChainPrefix
<1>3. ChainOf[b] \in Seq(Blocks) /\ i \in Nat /\ i - 1 \in 1 .. i /\ i - 1 \in Nat
  BY ChainShape
<1>4. x # Genesis
  <2>1. SUFFICES ASSUME x = Genesis PROVE FALSE
    OBVIOUS
  <2>2. ChainOf[x] = <<x>>
    BY <2>1, ChainStep
  <2> QED
    BY <1>2, <2>2
<1>5. ChainOf[x] = Append(ChainOf[Parent[x]], x) /\ Parent[x] \in Blocks
  BY <1>4, ChainStep DEF IsTree
<1>6. PICK c \in Seq(Blocks) : c = ChainOf[Parent[x]] /\ c[Len(c)] = Parent[x] /\ c # <<>>
  BY <1>5, ChainShape
<1>7. Len(c) = i - 1 /\ ChainOf[x][i - 1] = c[i - 1]
  BY <1>2, <1>3, <1>5, <1>6
<1> QED
  BY <1>1, <1>2, <1>3, <1>4, <1>6, <1>7

LEMMA ChainMembers ==
  ASSUME IsTree, NEW b \in Blocks
  PROVE  /\ Chain(b) \subseteq Blocks /\ b \in Chain(b) /\ Genesis \in Chain(b)
         /\ Height(b) \in Nat /\ Height(b) + 1 = Len(ChainOf[b])
         /\ \A i \in 1 .. Len(ChainOf[b]) :
               ChainOf[b][i] \in Chain(b) /\ Height(ChainOf[b][i]) = i - 1
<1>1. b # NoBlock
  BY DEF IsTree
<1>2. /\ ChainOf[b] \in Seq(Blocks) /\ ChainOf[b] # <<>>
      /\ ChainOf[b][1] = Genesis /\ ChainOf[b][Len(ChainOf[b])] = b
  BY ChainShape
<1>3. Len(ChainOf[b]) \in Nat /\ Len(ChainOf[b]) >= 1
  BY <1>2
<1>4. Chain(b) = {ChainOf[b][i] : i \in 1 .. Len(ChainOf[b])}
  BY <1>1 DEF Chain
<1>5. Chain(b) \subseteq Blocks
  BY <1>2, <1>4
<1>6. b \in Chain(b) /\ Genesis \in Chain(b)
  BY <1>2, <1>3, <1>4
<1>7. Height(b) \in Nat /\ Height(b) + 1 = Len(ChainOf[b])
  BY <1>3 DEF Height
<1>8. ASSUME NEW i \in 1 .. Len(ChainOf[b])
      PROVE  ChainOf[b][i] \in Chain(b) /\ Height(ChainOf[b][i]) = i - 1
  BY <1>4, ChainPrefix DEF Height
<1> QED
  BY <1>5, <1>6, <1>7, <1>8

\* A block of a chain is found at its height.
LEMMA ChainAt ==
  ASSUME IsTree, NEW b \in Blocks, NEW x \in Chain(b)
  PROVE  /\ x \in Blocks /\ Height(x) + 1 \in 1 .. Len(ChainOf[b])
         /\ x = ChainOf[b][Height(x) + 1]
         /\ Chain(x) \subseteq Chain(b)
<1>1. b # NoBlock
  BY DEF IsTree
<1>2. PICK i \in 1 .. Len(ChainOf[b]) : x = ChainOf[b][i]
  BY <1>1 DEF Chain
<1>3. x \in Blocks /\ Len(ChainOf[x]) = i /\ \A j \in 1 .. i : ChainOf[x][j] = ChainOf[b][j]
  BY <1>2, ChainPrefix
<1>4. Height(x) = i - 1 /\ i \in Nat
  BY <1>2, <1>3 DEF Height
<1>5. ASSUME NEW y \in Chain(x) PROVE y \in Chain(b)
  <2>1. x # NoBlock
    BY <1>3 DEF IsTree
  <2>2. PICK j \in 1 .. i : y = ChainOf[x][j]
    BY <1>3, <2>1 DEF Chain
  <2>3. j \in 1 .. Len(ChainOf[b])
    BY <1>2, <2>2, ChainShape
  <2> QED
    BY <1>1, <1>3, <2>2, <2>3 DEF Chain
<1> QED
  BY <1>2, <1>3, <1>4, <1>5

LEMMA ChainOfGenesis ==
  ASSUME IsTree
  PROVE  Chain(Genesis) = {Genesis} /\ Height(Genesis) = 0 /\ Chain(NoBlock) = {}
<1>1. Genesis \in Blocks /\ Genesis # NoBlock
  BY DEF IsTree
<1>2. ChainOf[Genesis] = <<Genesis>>
  BY <1>1, ChainStep
<1> QED
  BY <1>1, <1>2 DEF Chain, Height

LEMMA ChainOfChild ==
  ASSUME IsTree, NEW b \in Blocks, b # Genesis
  PROVE  Chain(b) = Chain(Parent[b]) \cup {b} /\ Height(b) = Height(Parent[b]) + 1
<1>1. PICK p \in Blocks : p = Parent[b]
  BY DEF IsTree
<1>2. PICK c \in Seq(Blocks) : c = ChainOf[p]
  BY ChainShape
<1>3. ChainOf[b] = Append(c, b)
  BY <1>1, <1>2, ChainStep
<1>4. /\ Len(c) \in Nat /\ Len(ChainOf[b]) = Len(c) + 1 /\ ChainOf[b][Len(c) + 1] = b
      /\ \A i \in 1 .. Len(c) : ChainOf[b][i] = c[i]
  BY <1>2, <1>3
<1>5. p # NoBlock /\ b # NoBlock
  BY DEF IsTree
<1>6. Chain(b) = {ChainOf[b][i] : i \in 1 .. Len(c) + 1} /\ Chain(p) = {c[i] : i \in 1 .. Len(c)}
  BY <1>2, <1>4, <1>5 DEF Chain
<1>7. Chain(b) = Chain(p) \cup {b}
  BY <1>4, <1>6
<1>8. Height(b) = Len(c) + 1 - 1 /\ Height(p) = Len(c) - 1
  BY <1>2, <1>4 DEF Height
<1> QED
  BY <1>1, <1>4, <1>7, <1>8

\* The last block of a chain is the highest one.
LEMMA HighestOfChain ==
  ASSUME IsTree, NEW b \in Blocks, NEW x \in Chain(b)
  PROVE  Height(x) \in Nat /\ Height(x) <= Height(b) /\ (Height(x) = Height(b) => x = b)
<1>1. ChainOf[b] \in Seq(Blocks) /\ ChainOf[b][Len(ChainOf[b])] = b
  BY ChainShape
<1>2. Height(b) \in Nat /\ Height(b) + 1 = Len(ChainOf[b])
  BY ChainMembers
<1>3. /\ x \in Blocks /\ Height(x) + 1 \in 1 .. Len(ChainOf[b])
      /\ x = ChainOf[b][Height(x) + 1]
  BY ChainAt
<1>4. Height(x) \in Nat
  BY <1>3, ChainMembers
<1>5. Height(x) <= Height(b)
  BY <1>2, <1>3, <1>4
<1>6. Height(x) = Height(b) => x = b
  BY <1>1, <1>2, <1>3
<1> QED
  BY <1>4, <1>5, <1>6

LEMMA LowestOfChain ==
  ASSUME IsTree, NEW b \in Blocks, Height(b) = 0
  PROVE  b = Genesis
<1>1. ChainOf[b][1] = Genesis /\ ChainOf[b][Len(ChainOf[b])] = b
  BY ChainShape
<1>2. Height(b) + 1 = Len(ChainOf[b])
  BY ChainMembers
<1> QED
  BY <1>1, <1>2

\* What is left of a chain when its blocks from a height on are taken away.
LEMMA ChainBelow ==
  ASSUME IsTree, NEW b \in Blocks, NEW n \in Nat
  PROVE  \E q \in Chain(b) \cup {NoBlock} : {x \in Chain(b) : Height(x) < n} = Chain(q)
<1>1. PICK low : low = {x \in Chain(b) : Height(x) < n}
  OBVIOUS
<1>2. Height(b) \in Nat /\ Height(b) + 1 = Len(ChainOf[b]) /\ b \in Chain(b)
  BY ChainMembers
<1>3. CASE n = 0
  <2>1. \A x \in Chain(b) : ~ (Height(x) < n)
    <3>1. \A x \in Chain(b) : Height(x) \in Nat
      BY HighestOfChain
    <3> QED
      BY <1>3, <3>1
  <2>2. low = {}
    BY <1>1, <2>1
  <2> QED
    BY <1>1, <2>2, ChainOfGenesis
<1>4. CASE n > Height(b)
  <2>1. \A x \in Chain(b) : Height(x) < n
    <3>1. \A x \in Chain(b) : Height(x) \in Nat /\ Height(x) <= Height(b)
      BY HighestOfChain
    <3> QED
      BY <1>2, <1>4, <3>1
  <2>2. low = Chain(b)
    BY <1>1, <2>1
  <2> QED
    BY <1>1, <1>2, <2>2
<1>5. CASE n # 0 /\ n <= Height(b)
  <2>1. n \in 1 .. Len(ChainOf[b])
    BY <1>2, <1>5
  <2>2. PICK q : q = ChainOf[b][n]
    OBVIOUS
  <2>3. q \in Chain(b) /\ Height(q) = n - 1
    BY <2>1, <2>2, ChainMembers
  <2>4. q \in Blocks /\ Chain(q) \subseteq Chain(b)
    BY <2>3, ChainAt
  <2>5. ASSUME NEW x \in Chain(q) PROVE x \in low
    <3>1. Height(x) \in Nat /\ Height(x) <= Height(q)
      BY <2>4, HighestOfChain
    <3>2. Height(x) < n
      BY <2>3, <3>1
    <3> QED
      BY <1>1, <2>4, <3>2
  <2>6. ASSUME NEW x \in low PROVE x \in Chain(q)
    <3>1. x \in Chain(b) /\ Height(x) < n
      BY <1>1
    <3>2. x = ChainOf[b][Height(x) + 1] /\ Height(x) \in Nat
      BY <3>1, ChainAt, HighestOfChain
    <3>3. /\ Len(ChainOf[q]) = n
          /\ \A j \in 1 .. n : ChainOf[q][j] = ChainOf[b][j]
      BY <2>1, <2>2, ChainPrefix
    <3>4. Height(x) + 1 \in 1 .. n
      BY <3>1, <3>2
    <3>5. q # NoBlock
      BY <2>4 DEF IsTree
    <3> QED
      BY <3>2, <3>3, <3>4, <3>5 DEF Chain
  <2>7. low = Chain(q)
    BY <2>5, <2>6
  <2> QED
    BY <1>1, <2>3, <2>7
<1> QED
  BY <1>2, <1>3, <1>4, <1>5
=============================================================================
