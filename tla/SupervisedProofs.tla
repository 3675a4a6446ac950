-------------------------- MODULE SupervisedProofs --------------------------
(***************************************************************************)
(* Theorems about Supervised, for every set of records, identities, URLs,  *)
(* goals and paths, and for any limits.                                    *)
(***************************************************************************)
EXTENDS Supervised, FiniteSetTheorems, SequenceTheorems, WellFoundedInduction, TLAPS

-----------------------------------------------------------------------------
(***************************************************************************)
(* The primary record of a group: a finite set of records has one updated  *)
(* last, of those one published last, and of those one with the greatest   *)
(* id.                                                                     *)
(***************************************************************************)
\* Among finitely many numbers one is the greatest.
LEMMA Greatest ==
  ASSUME NEW n \in Nat, NEW f \in [1 .. n -> Nat], NEW S, S \subseteq 1 .. n, S # {}
  PROVE  \E i \in S : \A j \in S : f[j] <= f[i]
<1>0. \A j \in S : j \in Nat /\ 1 <= j /\ j <= n /\ f[j] \in Nat
  OBVIOUS
<1> DEFINE leads(i, k) == \A j \in S : j <= k => f[j] <= f[i]
           behind == {k \in 0 .. n : \A i \in S : ~ leads(i, k)}
<1>1. ASSUME behind # {} PROVE FALSE
  <2>1. PICK k \in behind : \A m \in behind : ~ (<<m, k>> \in OpToRel(<, Nat))
    <3>1. behind \subseteq Nat
      OBVIOUS
    <3> HIDE DEF behind
    <3> QED
      BY <1>1, <3>1, NatLessThanWellFounded, WFMin
  <2>2. \A m \in behind : ~ (m < k)
    <3>1. behind \subseteq Nat
      OBVIOUS
    <3> HIDE DEF behind
    <3> QED
      BY <2>1, <3>1 DEF OpToRel
  <2>3. k \in Nat /\ k <= n /\ \A i \in S : ~ leads(i, k)
    OBVIOUS
  <2>4. k # 0
    <3>1. \A i \in S : leads(i, 0)
      BY <1>0
    <3> QED
      BY <2>3, <3>1
  <2>5. k - 1 \in 0 .. n /\ k - 1 < k
    BY <2>3, <2>4
  <2>6. k - 1 \notin behind
    BY <2>2, <2>5
  <2>7. PICK i \in S : leads(i, k - 1)
    BY <2>5, <2>6
  <2>8. \A j \in S : j <= k => j <= k - 1 \/ j = k
    BY <1>0, <2>3
  <2>9. CASE k \notin S \/ f[k] <= f[i]
    <3>1. leads(i, k)
      BY <2>7, <2>8, <2>9
    <3> QED
      BY <2>3, <3>1
  <2>10. CASE k \in S /\ f[i] < f[k]
    <3>1. \A j \in S : j <= k => f[j] <= f[i] \/ j = k
      BY <2>7, <2>8
    <3>2. ASSUME NEW j \in S, j <= k PROVE f[j] <= f[k]
      <4>1. f[j] \in Nat /\ f[i] \in Nat /\ f[k] \in Nat
        BY <1>0, <2>10
      <4>2. f[j] <= f[i] \/ f[j] = f[k]
        BY <3>1, <3>2
      <4>3. \A a, b, c \in Nat : (a <= b \/ a = c) /\ b < c => a <= c
        OBVIOUS
      <4> QED
        BY <2>10, <4>1, <4>2, <4>3
    <3> QED
      BY <2>3, <2>10, <3>2
  <2> QED
    BY <1>0, <2>9, <2>10
<1>2. n \in 0 .. n /\ n \notin behind
  <2>1. n \in 0 .. n
    OBVIOUS
  <2> HIDE DEF behind
  <2> QED
    BY <1>1, <2>1
<1>3. PICK i \in S : leads(i, n)
  BY <1>2
<1> QED
  BY <1>0, <1>3

LEMMA PrimaryOfGroup ==
  ASSUME NEW list \in Seq(Records), NEW group, group \subseteq DOMAIN list, group # {}
  PROVE  \E i \in group :
            /\ Primary(group, list) = list[i] /\ list[i] \in Records
            /\ \A j \in group :
                  /\ UpdatedOf[list[j]] <= UpdatedOf[list[i]]
                  /\ UpdatedOf[list[j]] = UpdatedOf[list[i]] => PublishedOf[list[j]] <= PublishedOf[list[i]]
<1> DEFINE later(r, s) == \/ UpdatedOf[r] > UpdatedOf[s]
                          \/ /\ UpdatedOf[r] = UpdatedOf[s]
                             /\ \/ PublishedOf[r] > PublishedOf[s]
                                \/ PublishedOf[r] = PublishedOf[s] /\ IdOf[r] >= IdOf[s]
           updated == [i \in 1 .. Len(list) |-> UpdatedOf[list[i]]]
           published == [i \in 1 .. Len(list) |-> PublishedOf[list[i]]]
           id == [i \in 1 .. Len(list) |-> IdOf[list[i]]]
<1>1. Len(list) \in Nat /\ DOMAIN list = 1 .. Len(list) /\ \A i \in DOMAIN list : list[i] \in Records
  OBVIOUS
<1>2. /\ updated \in [1 .. Len(list) -> Nat] /\ published \in [1 .. Len(list) -> Nat]
      /\ id \in [1 .. Len(list) -> Nat]
  BY <1>1, PaperAssumption
<1>3. PICK i \in group : \A j \in group : updated[j] <= updated[i]
  BY <1>1, <1>2, Greatest
<1> DEFINE revised == {j \in group : updated[j] = updated[i]}
<1>4. PICK m \in revised : \A j \in revised : published[j] <= published[m]
  <2>1. revised \subseteq 1 .. Len(list) /\ revised # {}
    BY <1>1
  <2> QED
    BY <1>1, <1>2, <2>1, Greatest
<1> DEFINE newest == {j \in revised : published[j] = published[m]}
<1>5. PICK k \in newest : \A j \in newest : id[j] <= id[k]
  <2>1. newest \subseteq 1 .. Len(list) /\ newest # {}
    BY <1>1
  <2> QED
    BY <1>1, <1>2, <2>1, Greatest
<1>6. \A j \in group : later(list[k], list[j])
  <2> SUFFICES ASSUME NEW j \in group PROVE later(list[k], list[j])
    OBVIOUS
  <2>1. /\ updated[j] \in Nat /\ updated[k] \in Nat
        /\ published[j] \in Nat /\ published[k] \in Nat
        /\ id[j] \in Nat /\ id[k] \in Nat
        /\ updated[j] = UpdatedOf[list[j]] /\ updated[k] = UpdatedOf[list[k]]
        /\ published[j] = PublishedOf[list[j]] /\ published[k] = PublishedOf[list[k]]
        /\ id[j] = IdOf[list[j]] /\ id[k] = IdOf[list[k]]
    BY <1>1, <1>2
  <2>2. /\ updated[j] <= updated[k]
        /\ updated[j] = updated[k] => published[j] <= published[k]
        /\ updated[j] = updated[k] /\ published[j] = published[k] => id[j] <= id[k]
    BY <1>3, <1>4, <1>5
  <2> HIDE DEF updated, published, id
  <2> QED
    BY <2>1, <2>2
<1>7. \E c \in group : \A j \in group : later(list[c], list[j])
  BY <1>5, <1>6
<1> DEFINE c == CHOOSE c \in group : \A j \in group : later(list[c], list[j])
<1>8. c \in group /\ \A j \in group : later(list[c], list[j])
  BY <1>7
<1>9. Primary(group, list) = list[c]
  BY DEF Primary
<1> HIDE DEF c
<1>10. ASSUME NEW j \in group
       PROVE  /\ UpdatedOf[list[j]] <= UpdatedOf[list[c]]
              /\ UpdatedOf[list[j]] = UpdatedOf[list[c]] => PublishedOf[list[j]] <= PublishedOf[list[c]]
  <2>1. /\ UpdatedOf[list[j]] \in Nat /\ UpdatedOf[list[c]] \in Nat
        /\ PublishedOf[list[j]] \in Nat /\ PublishedOf[list[c]] \in Nat
    BY <1>1, <1>8, PaperAssumption
  <2>2. later(list[c], list[j])
    BY <1>8
  <2>3. \A a, b, d, e \in Nat : a > b \/ (a = b /\ (d > e \/ d = e)) => b <= a /\ (b = a => e <= d)
    OBVIOUS
  <2> QED
    BY <2>1, <2>2, <2>3
<1> QED
  BY <1>1, <1>8, <1>9, <1>10

\* The activity of a record is the later of its two instants.
LEMMA ActivityIs ==
  ASSUME NEW r \in Records
  PROVE  /\ Activity(r) \in Nat
         /\ Activity(r) = IF PublishedOf[r] > UpdatedOf[r] THEN PublishedOf[r] ELSE UpdatedOf[r]
<1>1. PublishedOf[r] \in Nat /\ UpdatedOf[r] \in Nat
  BY PaperAssumption
<1> DEFINE instants == {PublishedOf[r], UpdatedOf[r]}
<1>2. \E x \in instants : \A y \in instants : x >= y
  BY <1>1
<1>3. Activity(r) \in instants /\ \A y \in instants : Activity(r) >= y
  BY <1>2 DEF Activity, Max
<1> QED
  BY <1>1, <1>3

-----------------------------------------------------------------------------
(***************************************************************************)
(* The union-find of normalize_and_deduplicate: parents that are a forest  *)
(* stay one, and a union hangs the tree of the right below that of the left. *)
(***************************************************************************)
\* What holds at zero, and one further wherever it holds, holds up to any number.
LEMMA Upward ==
  ASSUME NEW n \in Nat, NEW S, 0 \in S, \A k \in 0 .. n - 1 : k \in S => k + 1 \in S
  PROVE  \A k \in 0 .. n : k \in S
<1> DEFINE missing == {k \in 0 .. n : k \notin S}
<1>1. ASSUME missing # {} PROVE FALSE
  <2>0. missing \subseteq Nat
    OBVIOUS
  <2>1. PICK k \in missing : \A m \in missing : ~ (<<m, k>> \in OpToRel(<, Nat))
    <3> HIDE DEF missing
    <3> QED
      BY <1>1, <2>0, NatLessThanWellFounded, WFMin
  <2>2. \A m \in missing : ~ (m < k)
    <3> HIDE DEF missing
    <3> QED
      BY <2>0, <2>1 DEF OpToRel
  <2>3. k \in 0 .. n /\ k \notin S /\ k # 0
    OBVIOUS
  <2>4. k - 1 \in 0 .. n - 1 /\ k - 1 \in 0 .. n /\ k - 1 < k /\ (k - 1) + 1 = k
    BY <2>3
  <2>5. k - 1 \in S
    BY <2>2, <2>4
  <2> QED
    BY <2>3, <2>4, <2>5
<1> QED
  BY <1>1

\* A forest: every chain of parents ends, at the root of its tree.
Forest(parents, root, nodes) ==
    /\ parents \in [nodes -> nodes]
    /\ root \in [nodes -> nodes]
    /\ \A i \in nodes : parents[root[i]] = root[i]
    /\ \E rank \in [nodes -> Nat] : \A i \in nodes :
          \/ parents[i] = i /\ root[i] = i
          \/ parents[i] # i /\ rank[parents[i]] < rank[i] /\ root[i] = root[parents[i]]

LEMMA RootOfTree ==
  ASSUME NEW nodes, NEW parents, NEW root, Forest(parents, root, nodes), NEW i \in nodes
  PROVE  Root(parents, i) = root[i]
<1> DEFINE leads(f) == f = [j \in DOMAIN parents |-> IF parents[j] = j THEN j ELSE f[parents[j]]]
           found == CHOOSE f : leads(f)
<1>0. DOMAIN parents = nodes /\ DOMAIN root = nodes /\ \A j \in nodes : parents[j] \in nodes /\ root[j] \in nodes
  BY DEF Forest
<1>1. leads(root)
  <2>1. \A j \in nodes : root[j] = IF parents[j] = j THEN j ELSE root[parents[j]]
    BY DEF Forest
  <2>2. root = [j \in nodes |-> root[j]]
    BY DEF Forest
  <2> QED
    BY <1>0, <2>1, <2>2
<1>2. leads(found)
  <2> HIDE DEF leads
  <2> QED
    BY <1>1
<1>3. \A j \in nodes : found[j] = IF parents[j] = j THEN j ELSE found[parents[j]]
  <2> HIDE DEF found
  <2> QED
    BY <1>0, <1>2
<1> HIDE DEF found, leads
<1>4. PICK rank \in [nodes -> Nat] : \A j \in nodes :
          \/ parents[j] = j /\ root[j] = j
          \/ parents[j] # j /\ rank[parents[j]] < rank[j] /\ root[j] = root[parents[j]]
  BY DEF Forest
<1> DEFINE S == {n \in Nat : \A j \in nodes : rank[j] <= n => found[j] = root[j]}
<1>5. 0 \in S
  <2> SUFFICES ASSUME NEW j \in nodes, rank[j] <= 0 PROVE found[j] = root[j]
    OBVIOUS
  <2>1. ~ (rank[parents[j]] < rank[j])
    BY <1>0
  <2> QED
    BY <1>3, <1>4, <2>1
<1>6. ASSUME NEW n \in Nat, n \in S PROVE n + 1 \in S
  <2> SUFFICES ASSUME NEW j \in nodes, rank[j] <= n + 1 PROVE found[j] = root[j]
    OBVIOUS
  <2>1. CASE parents[j] = j
    BY <1>3, <1>4, <2>1
  <2>2. CASE parents[j] # j
    <3>1. parents[j] \in nodes /\ rank[parents[j]] < rank[j] /\ root[j] = root[parents[j]]
      BY <1>0, <1>4, <2>2
    <3>2. rank[parents[j]] <= n
      BY <3>1
    <3>3. found[parents[j]] = root[parents[j]]
      BY <1>6, <3>1, <3>2
    <3> QED
      BY <1>3, <2>2, <3>1, <3>3
  <2> QED
    BY <2>1, <2>2
<1>7. rank[i] \in Nat
  OBVIOUS
<1>8. rank[i] \in S
  <2> HIDE DEF S
  <2>1. \A k \in 0 .. rank[i] - 1 : k \in S => k + 1 \in S
    BY <1>6, <1>7
  <2> QED
    BY <1>5, <1>7, <2>1, Upward
<1>9. found[i] = root[i]
  BY <1>7, <1>8
<1> QED
  BY <1>9 DEF Root, found, leads

\* The tree of the right hangs below the root of the left.
Hung(root, left, right) == [i \in DOMAIN root |-> IF root[i] = root[right] THEN root[left] ELSE root[i]]

LEMMA UnionIsForest ==
  ASSUME NEW nodes, NEW parents, NEW root, Forest(parents, root, nodes),
         NEW left \in nodes, NEW right \in nodes
  PROVE  Forest(Union(parents, left, right), Hung(root, left, right), nodes)
<1> DEFINE new == Hung(root, left, right)
           joined == Union(parents, left, right)
<1>0. /\ DOMAIN parents = nodes /\ DOMAIN root = nodes
      /\ \A i \in nodes : parents[i] \in nodes /\ root[i] \in nodes
  BY DEF Forest
<1>1. joined = [parents EXCEPT ![root[right]] = root[left]]
  BY RootOfTree DEF Union
<1>2. joined \in [nodes -> nodes] /\ \A i \in nodes : joined[i] = IF i = root[right] THEN root[left] ELSE parents[i]
  BY <1>0, <1>1 DEF Forest
<1>3. new \in [nodes -> nodes] /\ \A i \in nodes : new[i] = IF root[i] = root[right] THEN root[left] ELSE root[i]
  BY <1>0 DEF Hung
<1> HIDE DEF new, joined
<1>4. PICK rank \in [nodes -> Nat] : \A i \in nodes :
          \/ parents[i] = i /\ root[i] = i
          \/ parents[i] # i /\ rank[parents[i]] < rank[i] /\ root[i] = root[parents[i]]
  BY DEF Forest
<1>5. \A i \in nodes : parents[root[i]] = root[i] /\ root[root[i]] = root[i]
  <2>1. \A i \in nodes : parents[root[i]] = root[i]
    BY DEF Forest
  <2> QED
    BY <1>0, <1>4, <2>1
<1>6. \A i \in nodes : joined[new[i]] = new[i]
  <2> SUFFICES ASSUME NEW i \in nodes PROVE joined[new[i]] = new[i]
    OBVIOUS
  <2>1. CASE root[i] = root[right]
    BY <1>0, <1>2, <1>3, <1>5, <2>1
  <2>2. CASE root[i] # root[right]
    BY <1>0, <1>2, <1>3, <1>5, <2>2
  <2> QED
    BY <2>1, <2>2
<1> DEFINE above == rank[root[left]] + 1
           height == [i \in nodes |-> IF root[i] = root[right] /\ root[left] # root[right]
                                        THEN rank[i] + above ELSE rank[i]]
<1>7. above \in Nat /\ rank[root[left]] < above /\ rank \in [nodes -> Nat]
  BY <1>0
<1> HIDE DEF above
<1>8. height \in [nodes -> Nat]
  BY <1>7
<1>9. \A i \in nodes : height[i] = IF root[i] = root[right] /\ root[left] # root[right]
                                      THEN rank[i] + above ELSE rank[i]
  OBVIOUS
<1> HIDE DEF height
<1>10. ASSUME NEW i \in nodes
       PROVE  \/ joined[i] = i /\ new[i] = i
              \/ joined[i] # i /\ height[joined[i]] < height[i] /\ new[i] = new[joined[i]]
  <2>1. CASE i = root[right]
    <3>1. root[i] = root[right] /\ joined[i] = root[left] /\ new[i] = root[left] /\ root[left] \in nodes
      BY <1>0, <1>2, <1>3, <1>5, <2>1
    <3>2. CASE root[left] = root[right]
      BY <2>1, <3>1, <3>2
    <3>3. CASE root[left] # root[right]
      <4>1. root[root[left]] = root[left]
        BY <1>5
      <4>2. height[root[left]] = rank[root[left]] /\ height[i] = rank[i] + above
        BY <1>9, <3>1, <3>3, <4>1
      <4>3. rank[root[left]] < rank[i] + above
        BY <1>7, <1>0
      <4>4. new[root[left]] = root[left]
        BY <1>3, <3>1, <3>3, <4>1
      <4> QED
        BY <2>1, <3>1, <3>3, <4>2, <4>3, <4>4
    <3> QED
      BY <3>2, <3>3
  <2>2. CASE i # root[right]
    <3>1. joined[i] = parents[i] /\ parents[i] \in nodes
      BY <1>0, <1>2, <2>2
    <3>2. CASE parents[i] = i
      <4>1. root[i] = i
        BY <1>4, <3>2
      <4> QED
        BY <1>3, <2>2, <3>1, <3>2, <4>1
    <3>3. CASE parents[i] # i
      <4>1. rank[parents[i]] < rank[i] /\ root[i] = root[parents[i]]
        BY <1>4, <3>3
      <4>2. new[i] = new[parents[i]]
        BY <1>3, <3>1, <4>1
      <4>3. height[parents[i]] < height[i]
        BY <1>7, <1>9, <3>1, <4>1
      <4> QED
        BY <3>1, <3>3, <4>2, <4>3
    <3> QED
      BY <3>2, <3>3
  <2> QED
    BY <2>1, <2>2
<1>11. Forest(joined, new, nodes)
  BY <1>2, <1>3, <1>6, <1>8, <1>10 DEF Forest
<1> QED
  BY <1>11 DEF joined, new

-----------------------------------------------------------------------------
(***************************************************************************)
(* What the two loops over the records and their identities have linked:   *)
(* no more than shared identities do, and in the end no less.              *)
(***************************************************************************)
\* Records that share nothing with the rest are in trees of their own ...
Closed(part, list) ==
    \A i \in part, j \in DOMAIN list \ part : ~ Shares(list[i], list[j])

Apart(root, list) ==
    \A part \in SUBSET DOMAIN list :
        Closed(part, list) => \A i \in part, j \in DOMAIN list \ part : root[i] # root[j]

\* ... and the ones before i, and i by its first k identities, are in their owners' trees.
Together(root, list, i, k) ==
    \A j \in DOMAIN list : \A n \in DOMAIN IdentitiesOf[list[j]] :
        j < i \/ (j = i /\ n <= k) => root[j] = root[Owner(list, IdentitiesOf[list[j]][n])]

Linked(parents, list, i, k) ==
    \E root : Forest(parents, root, DOMAIN list) /\ Apart(root, list) /\ Together(root, list, i, k)

LEMMA ListsOfRecords ==
  ASSUME NEW list \in Seq(Records)
  PROVE  /\ Len(list) \in Nat /\ DOMAIN list = 1 .. Len(list)
         /\ \A i \in DOMAIN list :
               /\ list[i] \in Records /\ i \in Nat
               /\ Len(IdentitiesOf[list[i]]) \in Nat
               /\ DOMAIN IdentitiesOf[list[i]] = 1 .. Len(IdentitiesOf[list[i]])
<1>1. Len(list) \in Nat /\ DOMAIN list = 1 .. Len(list) /\ \A i \in DOMAIN list : list[i] \in Records /\ i \in Nat
  OBVIOUS
<1>2. \A r \in Records : IdentitiesOf[r] \in Seq(STRING)
  BY PaperAssumption
<1>3. \A keys \in Seq(STRING) : Len(keys) \in Nat /\ DOMAIN keys = 1 .. Len(keys)
  OBVIOUS
<1> QED
  BY <1>1, <1>2, <1>3

\* The owner of an identity has it.
LEMMA OwnerHasIt ==
  ASSUME NEW list \in Seq(Records), NEW i \in DOMAIN list, NEW identity \in ToSet(IdentitiesOf[list[i]])
  PROVE  Owner(list, identity) \in DOMAIN list /\ identity \in ToSet(IdentitiesOf[list[Owner(list, identity)]])
<1> DEFINE having == {j \in DOMAIN list : identity \in ToSet(IdentitiesOf[list[j]])}
<1>1. having \subseteq Nat /\ i \in having
  BY ListsOfRecords
<1>2. PICK j \in having : \A k \in having : ~ (<<k, j>> \in OpToRel(<, Nat))
  <2> HIDE DEF having
  <2> QED
    BY <1>1, NatLessThanWellFounded, WFMin
<1>3. \E least \in having : \A k \in having : least <= k
  <2> HIDE DEF having
  <2>1. \A k \in having : k \in Nat /\ j \in Nat /\ ~ (k < j)
    BY <1>1, <1>2 DEF OpToRel
  <2> QED
    BY <2>1
<1>4. Owner(list, identity) \in having
  <2> HIDE DEF having
  <2>1. Min(having) \in having
    BY <1>3 DEF Min
  <2> QED
    BY <2>1 DEF Owner, having
<1> QED
  BY <1>4

LEMMA UnionLinks ==
  ASSUME NEW list \in Seq(Records), NEW i \in DOMAIN list, NEW k \in DOMAIN IdentitiesOf[list[i]],
         NEW parents, Linked(parents, list, i, k - 1)
  PROVE  Linked(Union(parents, i, Owner(list, IdentitiesOf[list[i]][k])), list, i, k)
<1> DEFINE nodes == DOMAIN list
           identity == IdentitiesOf[list[i]][k]
           owner == Owner(list, identity)
<1>1. PICK root : Forest(parents, root, nodes) /\ Apart(root, list) /\ Together(root, list, i, k - 1)
  BY DEF Linked
<1> DEFINE new == Hung(root, i, owner)
<1>2. identity \in ToSet(IdentitiesOf[list[i]])
  BY DEF ToSet
<1>3. owner \in nodes /\ identity \in ToSet(IdentitiesOf[list[owner]])
  BY <1>2, OwnerHasIt
<1>4. Shares(list[i], list[owner]) /\ Shares(list[owner], list[i])
  BY <1>2, <1>3 DEF Shares
<1> HIDE DEF owner
<1>5. Forest(Union(parents, i, owner), new, nodes)
  BY <1>1, <1>3, UnionIsForest
<1>6. \A j \in nodes : new[j] = IF root[j] = root[owner] THEN root[i] ELSE root[j]
  BY <1>1 DEF Hung, Forest
<1> HIDE DEF new
<1>7. ASSUME NEW part \in SUBSET nodes, Closed(part, list), NEW a \in part, NEW b \in nodes \ part
      PROVE  new[a] # new[b]
  <2>1. i \in part <=> owner \in part
    BY <1>3, <1>4, <1>7 DEF Closed
  <2>2. \A c \in part, d \in nodes \ part : root[c] # root[d]
    BY <1>1, <1>7 DEF Apart
  <2> QED
    BY <1>3, <1>6, <2>1, <2>2
<1>8. Together(new, list, i, k)
  <2> SUFFICES ASSUME NEW j \in nodes, NEW n \in DOMAIN IdentitiesOf[list[j]],
                      j < i \/ (j = i /\ n <= k)
               PROVE  new[j] = new[Owner(list, IdentitiesOf[list[j]][n])]
    BY DEF Together
  <2> DEFINE other == Owner(list, IdentitiesOf[list[j]][n])
  <2>1. other \in nodes
    <3>1. IdentitiesOf[list[j]][n] \in ToSet(IdentitiesOf[list[j]])
      BY DEF ToSet
    <3> QED
      BY <3>1, OwnerHasIt
  <2>2. CASE j = i /\ n = k
    <3>1. other = owner
      BY <2>2 DEF owner
    <3>2. new[j] = new[owner]
      BY <1>3, <1>6, <2>2
    <3> QED
      BY <3>1, <3>2
  <2>3. CASE ~ (j = i /\ n = k)
    <3>1. j < i \/ (j = i /\ n <= k - 1)
      BY <2>3, ListsOfRecords
    <3>2. root[j] = root[other]
      BY <1>1, <3>1 DEF Together
    <3>3. new[j] = new[other]
      <4> HIDE DEF other
      <4> QED
        BY <1>6, <2>1, <3>2
    <3> QED
      BY <3>3
  <2> QED
    BY <2>2, <2>3
<1>9. Apart(new, list)
  BY <1>7 DEF Apart
<1>10. Linked(Union(parents, i, owner), list, i, k)
  BY <1>5, <1>8, <1>9 DEF Linked
<1> QED
  BY <1>10 DEF owner

LEMMA JoinedLinks ==
  ASSUME NEW list \in Seq(Records), NEW i \in DOMAIN list, NEW parents, Linked(parents, list, i, 0)
  PROVE  Linked(Joined(parents, i, list), list, i, Len(IdentitiesOf[list[i]]))
<1> DEFINE keys == IdentitiesOf[list[i]]
           last == Len(keys)
           next(one, k) == Union(one, i, Owner(list, keys[k]))
           Follows(f, n) == f = [k \in 0 .. n |-> IF k = 0 THEN parents ELSE next(f[k - 1], k)]
           found == CHOOSE f : Follows(f, last)
<1>1. last \in Nat /\ DOMAIN keys = 1 .. last
  BY ListsOfRecords
<1>2. \E f : Follows(f, last)
  <2> DEFINE S == {n \in Nat : \E f : Follows(f, n)}
  <2>1. 0 \in S
    <3> DEFINE one == [k \in 0 .. 0 |-> parents]
    <3>1. one = [k \in 0 .. 0 |-> IF k = 0 THEN parents ELSE next(one[k - 1], k)]
      <4> HIDE DEF next
      <4> QED
        OBVIOUS
    <3> QED
      BY <3>1
  <2>2. ASSUME NEW n \in Nat, n \in S PROVE n + 1 \in S
    <3> HIDE DEF next
    <3>1. PICK f : f = [k \in 0 .. n |-> IF k = 0 THEN parents ELSE next(f[k - 1], k)]
      BY <2>2
    <3> DEFINE g == [k \in 0 .. n + 1 |-> IF k = n + 1 THEN next(f[n], n + 1) ELSE f[k]]
               h == [k \in 0 .. n + 1 |-> IF k = 0 THEN parents ELSE next(g[k - 1], k)]
    <3>2. ASSUME NEW k \in 0 .. n + 1 PROVE g[k] = h[k]
      <4>1. CASE k = n + 1
        <5>1. g[k - 1] = f[n]
          BY <4>1
        <5> QED
          BY <4>1, <5>1
      <4>2. CASE k = 0
        BY <3>1, <4>2
      <4>3. CASE k \in 1 .. n
        <5>1. g[k - 1] = f[k - 1] /\ g[k] = f[k]
          BY <4>3
        <5>2. f[k] = next(f[k - 1], k)
          BY <3>1, <4>3
        <5> QED
          BY <4>3, <5>1, <5>2
      <4> QED
        BY <4>1, <4>2, <4>3
    <3>3. Follows(g, n + 1)
      BY <3>2
    <3> HIDE DEF g, Follows
    <3> QED
      BY <3>3
  <2> HIDE DEF S, last
  <2>3. last \in S
    <3>1. \A k \in 0 .. last - 1 : k \in S => k + 1 \in S
      BY <1>1, <2>2
    <3> HIDE DEF Follows, found
    <3> QED
      BY <1>1, <2>1, <3>1, Upward
  <2> QED
    BY <2>3 DEF S
<1>3. Follows(found, last)
  <2> HIDE DEF Follows
  <2> QED
    BY <1>2
<1>4. Joined(parents, i, list) = found[last]
  BY DEF Joined
<1> HIDE DEF found
<1>5. found[0] = parents /\ \A k \in 0 .. last - 1 : found[k + 1] = next(found[k], k + 1)
  <2> HIDE DEF next
  <2> QED
    BY <1>1, <1>3
<1> DEFINE S == {k \in 0 .. last : Linked(found[k], list, i, k)}
<1>6. 0 \in S
  BY <1>1, <1>5
<1>7. ASSUME NEW k \in 0 .. last - 1, k \in S PROVE k + 1 \in S
  <2>1. k + 1 \in DOMAIN keys /\ (k + 1) - 1 = k
    BY <1>1
  <2>2. Linked(found[k], list, i, (k + 1) - 1)
    BY <1>7, <2>1
  <2>3. Linked(next(found[k], k + 1), list, i, k + 1)
    BY <2>1, <2>2, UnionLinks
  <2> QED
    BY <1>1, <1>5, <2>3
<1>8. last \in S
  <2> HIDE DEF S, last
  <2> QED
    BY <1>1, <1>6, <1>7, Upward
<1> QED
  BY <1>4, <1>8

LEMMA ParentsLink ==
  ASSUME NEW list \in Seq(Records)
  PROVE  Linked(Parents(list), list, Len(list) + 1, 0)
<1> DEFINE nodes == DOMAIN list
           alone == [j \in nodes |-> j]
           last == Len(list)
           Follows(f, n) == f = [i \in 0 .. n |-> IF i = 0 THEN alone ELSE Joined(f[i - 1], i, list)]
           found == CHOOSE f : Follows(f, last)
<1>1. last \in Nat /\ nodes = 1 .. last
  BY ListsOfRecords
<1>2. \E f : Follows(f, last)
  <2> DEFINE S == {n \in Nat : \E f : Follows(f, n)}
  <2> HIDE DEF alone
  <2>1. 0 \in S
    <3> DEFINE one == [i \in 0 .. 0 |-> alone]
    <3>1. one = [i \in 0 .. 0 |-> IF i = 0 THEN alone ELSE Joined(one[i - 1], i, list)]
      OBVIOUS
    <3> QED
      BY <3>1
  <2>2. ASSUME NEW n \in Nat, n \in S PROVE n + 1 \in S
    <3>1. PICK f : f = [i \in 0 .. n |-> IF i = 0 THEN alone ELSE Joined(f[i - 1], i, list)]
      BY <2>2
    <3> DEFINE g == [i \in 0 .. n + 1 |-> IF i = n + 1 THEN Joined(f[n], n + 1, list) ELSE f[i]]
               h == [i \in 0 .. n + 1 |-> IF i = 0 THEN alone ELSE Joined(g[i - 1], i, list)]
    <3>2. ASSUME NEW i \in 0 .. n + 1 PROVE g[i] = h[i]
      <4>1. CASE i = n + 1
        <5>1. g[i - 1] = f[n]
          BY <4>1
        <5> QED
          BY <4>1, <5>1
      <4>2. CASE i = 0
        BY <3>1, <4>2
      <4>3. CASE i \in 1 .. n
        <5>1. g[i - 1] = f[i - 1] /\ g[i] = f[i]
          BY <4>3
        <5>2. f[i] = Joined(f[i - 1], i, list)
          BY <3>1, <4>3
        <5> QED
          BY <4>3, <5>1, <5>2
      <4> QED
        BY <4>1, <4>2, <4>3
    <3>3. Follows(g, n + 1)
      BY <3>2
    <3> HIDE DEF g, Follows
    <3> QED
      BY <3>3
  <2> HIDE DEF S, last
  <2>3. last \in S
    <3>1. \A k \in 0 .. last - 1 : k \in S => k + 1 \in S
      BY <1>1, <2>2
    <3> HIDE DEF Follows, found
    <3> QED
      BY <1>1, <2>1, <3>1, Upward
  <2> QED
    BY <2>3 DEF S
<1>3. Follows(found, last)
  <2> HIDE DEF Follows
  <2> QED
    BY <1>2
<1>4. Parents(list) = found[last]
  BY DEF Parents
<1> HIDE DEF found
<1>5. found[0] = alone /\ \A i \in 0 .. last - 1 : found[i + 1] = Joined(found[i], i + 1, list)
  <2> HIDE DEF alone
  <2> QED
    BY <1>1, <1>3
<1> DEFINE S == {i \in 0 .. last : Linked(found[i], list, i + 1, 0)}
<1>6. 0 \in S
  <2> DEFINE flat == [j \in nodes |-> 0]
  <2>1. Forest(alone, alone, nodes)
    <3>1. flat \in [nodes -> Nat] /\ alone \in [nodes -> nodes] /\ \A j \in nodes : alone[j] = j
      OBVIOUS
    <3> HIDE DEF flat, alone
    <3> QED
      BY <3>1 DEF Forest
  <2>2. Apart(alone, list)
    <3>1. \A j \in nodes : alone[j] = j
      OBVIOUS
    <3> HIDE DEF alone
    <3> QED
      BY <3>1 DEF Apart
  <2>3. Together(alone, list, 1, 0)
    <3>1. \A j \in nodes : ~ (j < 1) /\ \A n \in DOMAIN IdentitiesOf[list[j]] : ~ (n <= 0)
      BY <1>1, ListsOfRecords
    <3> HIDE DEF alone
    <3> QED
      BY <3>1 DEF Together
  <2> HIDE DEF alone
  <2>4. Linked(alone, list, 1, 0)
    BY <2>1, <2>2, <2>3 DEF Linked
  <2> QED
    BY <1>1, <1>5, <2>4
<1>7. ASSUME NEW i \in 0 .. last - 1, i \in S PROVE i + 1 \in S
  <2>1. i + 1 \in nodes /\ i + 1 \in 0 .. last
    BY <1>1
  <2>2. Linked(found[i], list, i + 1, 0)
    BY <1>7
  <2>3. Linked(found[i + 1], list, i + 1, Len(IdentitiesOf[list[i + 1]]))
    BY <1>5, <2>1, <2>2, JoinedLinks
  <2>4. PICK root : /\ Forest(found[i + 1], root, nodes) /\ Apart(root, list)
                    /\ Together(root, list, i + 1, Len(IdentitiesOf[list[i + 1]]))
    BY <2>3 DEF Linked
  <2>5. Together(root, list, (i + 1) + 1, 0)
    <3> SUFFICES ASSUME NEW j \in nodes, NEW n \in DOMAIN IdentitiesOf[list[j]],
                        j < (i + 1) + 1 \/ (j = (i + 1) + 1 /\ n <= 0)
                 PROVE  root[j] = root[Owner(list, IdentitiesOf[list[j]][n])]
      BY DEF Together
    <3>1. j \in Nat /\ n \in 1 .. Len(IdentitiesOf[list[j]]) /\ Len(IdentitiesOf[list[j]]) \in Nat
      BY ListsOfRecords
    <3>2. j < i + 1 \/ (j = i + 1 /\ n <= Len(IdentitiesOf[list[i + 1]]))
      BY <3>1
    <3> QED
      BY <2>4, <3>2 DEF Together
  <2>6. Linked(found[i + 1], list, (i + 1) + 1, 0)
    BY <2>4, <2>5 DEF Linked
  <2> QED
    BY <2>1, <2>6
<1>8. last \in S
  <2> HIDE DEF S, last
  <2> QED
    BY <1>1, <1>6, <1>7, Upward
<1> QED
  BY <1>4, <1>8

-----------------------------------------------------------------------------
(***************************************************************************)
(* The papers are the works of the records.                                *)
(***************************************************************************)
\* The works of a list of records.
WorksOf(list) ==
    {work \in (SUBSET ToSet(list)) \ {{}} :
        /\ \A part \in (SUBSET work) \ {{}, work} : \E r \in part, s \in work \ part : Shares(r, s)
        /\ \A r \in work, s \in ToSet(list) \ work : ~ Shares(r, s)}

Of(group, list) == {list[i] : i \in group}

LEMMA EachSharesWithItself ==
  ASSUME NEW r \in Records
  PROVE  Shares(r, r)
  BY PaperAssumption DEF Shares

\* Two indices have one root where their records share an identity, and the trees are no
\* larger than that makes them.
LEMMA Trees ==
  ASSUME NEW list \in Seq(Records)
  PROVE  \E root \in [DOMAIN list -> DOMAIN list] :
            /\ Groups(list) = {{j \in DOMAIN list : root[j] = root[i]} : i \in DOMAIN list}
            /\ Apart(root, list)
            /\ \A i, j \in DOMAIN list : Shares(list[i], list[j]) => root[i] = root[j]
<1> DEFINE nodes == DOMAIN list
           parents == Parents(list)
<1>1. PICK root : /\ Forest(parents, root, nodes) /\ Apart(root, list)
                  /\ Together(root, list, Len(list) + 1, 0)
  BY ParentsLink DEF Linked
<1>2. root \in [nodes -> nodes]
  BY <1>1 DEF Forest
<1>3. \A i \in nodes : Root(parents, i) = root[i]
  BY <1>1, RootOfTree
<1>4. Groups(list) = {{j \in nodes : root[j] = root[i]} : i \in nodes}
  <2> HIDE DEF parents
  <2>1. \A i \in nodes : {j \in nodes : Root(parents, j) = Root(parents, i)} = {j \in nodes : root[j] = root[i]}
    BY <1>3
  <2>2. Groups(list) = {{j \in nodes : Root(parents, j) = Root(parents, i)} : i \in nodes}
    BY DEF Groups, parents
  <2> QED
    BY <2>1, <2>2
<1>5. ASSUME NEW i \in nodes, NEW identity \in ToSet(IdentitiesOf[list[i]])
      PROVE  root[i] = root[Owner(list, identity)]
  <2>1. PICK n \in DOMAIN IdentitiesOf[list[i]] : identity = IdentitiesOf[list[i]][n]
    BY <1>5 DEF ToSet
  <2>2. i < Len(list) + 1
    BY ListsOfRecords
  <2> QED
    BY <1>1, <2>1, <2>2 DEF Together
<1>6. \A i, j \in nodes : Shares(list[i], list[j]) => root[i] = root[j]
  BY <1>5 DEF Shares
<1> QED
  BY <1>1, <1>2, <1>4, <1>6

\* The records of the groups are the works.
LEMMA GroupsAreWorks ==
  ASSUME NEW list \in Seq(Records)
  PROVE  /\ {Of(group, list) : group \in Groups(list)} = WorksOf(list)
         /\ \A group, other \in Groups(list) :
               \A i \in group, j \in other : Shares(list[i], list[j]) => group = other
<1> DEFINE nodes == DOMAIN list
<1>1. PICK root \in [nodes -> nodes] :
          /\ Groups(list) = {{j \in nodes : root[j] = root[i]} : i \in nodes}
          /\ Apart(root, list)
          /\ \A i, j \in nodes : Shares(list[i], list[j]) => root[i] = root[j]
  BY Trees
<1> DEFINE tree(i) == {j \in nodes : root[j] = root[i]}
<1>2. \A i, j \in nodes : list[i] = list[j] => root[i] = root[j]
  BY <1>1, ListsOfRecords, EachSharesWithItself
<1>3. \A i, j \in nodes : list[j] \in Of(tree(i), list) => root[j] = root[i]
  BY <1>2 DEF Of
<1>4. \A i \in nodes : Of(tree(i), list) \subseteq ToSet(list) /\ list[i] \in Of(tree(i), list)
  BY DEF Of, ToSet
<1>5. ASSUME NEW i \in nodes PROVE Of(tree(i), list) \in WorksOf(list)
  <2> DEFINE work == Of(tree(i), list)
  <2>1. ASSUME NEW part \in SUBSET work, part # {}, part # work,
               \A r \in part, s \in work \ part : ~ Shares(r, s)
        PROVE  FALSE
    <3> DEFINE at == {j \in nodes : list[j] \in part}
    <3>1. ASSUME NEW a \in at, NEW b \in nodes \ at PROVE ~ Shares(list[a], list[b])
      <4>1. list[a] \in part /\ list[a] \in work /\ list[b] \notin part
        OBVIOUS
      <4>2. CASE list[b] \in work
        BY <2>1, <4>1, <4>2
      <4>3. CASE list[b] \notin work
        <5>1. root[b] # root[i]
          BY <4>3 DEF Of
        <5>2. root[a] = root[i]
          BY <1>3, <4>1
        <5> QED
          BY <1>1, <5>1, <5>2
      <4> QED
        BY <4>2, <4>3
    <3>2. Closed(at, list)
      BY <3>1 DEF Closed
    <3>3. PICK r \in part, s \in work \ part : TRUE
      BY <2>1
    <3>4. PICK a \in tree(i), b \in tree(i) : list[a] = r /\ list[b] = s
      BY <3>3 DEF Of
    <3>5. a \in at /\ b \in nodes \ at /\ root[a] = root[b]
      BY <3>3, <3>4
    <3> QED
      BY <1>1, <3>2, <3>5 DEF Apart
  <2>2. ASSUME NEW r \in work, NEW s \in ToSet(list) \ work PROVE ~ Shares(r, s)
    <3>1. PICK a \in tree(i), b \in nodes : list[a] = r /\ list[b] = s
      BY DEF Of, ToSet
    <3>2. root[b] # root[i]
      BY <3>1 DEF Of
    <3> QED
      BY <1>1, <3>1, <3>2
  <2> HIDE DEF work
  <2>3. work \in (SUBSET ToSet(list)) \ {{}}
    BY <1>4 DEF work
  <2>4. work \in WorksOf(list)
    BY <2>1, <2>2, <2>3 DEF WorksOf
  <2> QED
    BY <2>4 DEF work
<1>6. ASSUME NEW work \in WorksOf(list) PROVE \E i \in nodes : work = Of(tree(i), list)
  <2>1. /\ work \subseteq ToSet(list) /\ work # {}
        /\ \A part \in (SUBSET work) \ {{}, work} : \E r \in part, s \in work \ part : Shares(r, s)
        /\ \A r \in work, s \in ToSet(list) \ work : ~ Shares(r, s)
    BY DEF WorksOf
  <2>2. PICK i \in nodes : list[i] \in work
    BY <2>1 DEF ToSet
  <2> DEFINE part == Of(tree(i), list)
             at == {j \in nodes : list[j] \in work}
  <2>3. Closed(at, list)
    <3>1. \A b \in nodes : list[b] \in ToSet(list)
      BY DEF ToSet
    <3> QED
      BY <2>1, <3>1 DEF Closed
  <2>4. \A j \in tree(i) : list[j] \in work
    BY <1>1, <2>2, <2>3 DEF Apart
  <2>5. part \subseteq work /\ part # {}
    BY <1>4, <2>4 DEF Of
  <2>6. ASSUME part # work PROVE FALSE
    <3>1. PICK r \in part, s \in work \ part : Shares(r, s)
      BY <2>1, <2>5, <2>6
    <3>2. PICK a \in tree(i), b \in nodes : list[a] = r /\ list[b] = s
      BY <2>1, <3>1 DEF Of, ToSet
    <3>3. root[b] = root[i]
      BY <1>1, <3>1, <3>2
    <3> QED
      BY <3>1, <3>2, <3>3 DEF Of
  <2> QED
    BY <2>6
<1>7. Groups(list) = {tree(i) : i \in nodes}
  BY <1>1
<1>8. {Of(group, list) : group \in Groups(list)} = WorksOf(list)
  <2> HIDE DEF tree
  <2> QED
    BY <1>5, <1>6, <1>7
<1>9. ASSUME NEW group \in Groups(list), NEW other \in Groups(list), NEW i \in group, NEW j \in other,
             Shares(list[i], list[j])
      PROVE  group = other
  <2>1. PICK a \in nodes, b \in nodes : group = tree(a) /\ other = tree(b)
    BY <1>7
  <2>2. i \in nodes /\ j \in nodes /\ root[i] = root[a] /\ root[j] = root[b]
    BY <1>9, <2>1
  <2>3. root[a] = root[b]
    BY <1>1, <1>9, <2>2
  <2> QED
    BY <2>1, <2>3
<1> QED
  BY <1>8, <1>9

\* A merged paper has the activity of the records updated last, and the id of one of its
\* records.
LEMMA MergedIsLatest ==
  ASSUME NEW list \in Seq(Records), NEW group, group \subseteq DOMAIN list, group # {}
  PROVE  /\ Merged(group, list) \in Paper
         /\ Merged(group, list).of = Of(group, list)
         /\ Merged(group, list).at = LatestActivity(Of(group, list))
         /\ \E i \in group : Merged(group, list).id = IdOf[list[i]]
<1> DEFINE work == Of(group, list)
           activities == {Activity(r) : r \in LastUpdated(work)}
<1>1. PICK i \in group :
         /\ Primary(group, list) = list[i] /\ list[i] \in Records
         /\ \A j \in group :
               /\ UpdatedOf[list[j]] <= UpdatedOf[list[i]]
               /\ UpdatedOf[list[j]] = UpdatedOf[list[i]] => PublishedOf[list[j]] <= PublishedOf[list[i]]
  BY PrimaryOfGroup
<1>2. \A r \in work : /\ r \in Records /\ UpdatedOf[r] <= UpdatedOf[list[i]]
                      /\ UpdatedOf[r] = UpdatedOf[list[i]] => PublishedOf[r] <= PublishedOf[list[i]]
  BY <1>1 DEF Of
<1>3. list[i] \in LastUpdated(work)
  BY <1>1, <1>2 DEF LastUpdated, Of
<1>4. Max(activities) = Activity(list[i])
  <2>1. ASSUME NEW r \in LastUpdated(work) PROVE Activity(r) \in Nat /\ Activity(r) <= Activity(list[i])
    <3>1. r \in work /\ UpdatedOf[list[i]] <= UpdatedOf[r]
      BY <1>3 DEF LastUpdated
    <3>2. /\ UpdatedOf[r] \in Nat /\ UpdatedOf[list[i]] \in Nat
          /\ PublishedOf[r] \in Nat /\ PublishedOf[list[i]] \in Nat
      BY <1>1, <1>2, <3>1, PaperAssumption
    <3>3. UpdatedOf[r] = UpdatedOf[list[i]] /\ PublishedOf[r] <= PublishedOf[list[i]]
      BY <1>2, <3>1, <3>2
    <3> QED
      BY <1>1, <1>2, <3>1, <3>2, <3>3, ActivityIs
  <2>2. /\ Activity(list[i]) \in activities /\ activities \subseteq Nat
        /\ \A activity \in activities : activity <= Activity(list[i])
    BY <1>3, <2>1
  <2> HIDE DEF activities
  <2>3. \E x \in activities : \A y \in activities : x >= y
    BY <2>2
  <2>4. Max(activities) \in activities /\ \A y \in activities : Max(activities) >= y
    BY <2>3 DEF Max
  <2>5. \A x, y \in Nat : x >= y /\ x <= y => x = y
    OBVIOUS
  <2> QED
    BY <2>2, <2>4, <2>5
<1>5. Of(group, list) \subseteq Records
  BY DEF Of
<1>6. Merged(group, list) = [id |-> IdOf[list[i]], at |-> Activity(list[i]), of |-> Of(group, list)]
  BY <1>1 DEF Merged, Of
<1> QED
  BY <1>1, <1>4, <1>5, <1>6 DEF Paper, LatestActivity

LEMMA GroupsHaveRecords ==
  ASSUME NEW list, NEW group \in Groups(list)
  PROVE  group \subseteq DOMAIN list /\ group # {}
<1>1. PICK i \in DOMAIN list :
         group = {j \in DOMAIN list : Root(Parents(list), j) = Root(Parents(list), i)}
  BY DEF Groups
<1> QED
  BY <1>1

\* PapersAreWorks, of any list and the papers collected from it.
AreWorks(collection, list) ==
    /\ {paper.of : paper \in collection} =
            {work \in WorksOf(list) : /\ Window.start <= LatestActivity(work)
                                      /\ LatestActivity(work) <= Window.end}
    /\ \A paper \in collection :
          /\ paper.at = LatestActivity(paper.of)
          /\ \A other \in collection : paper.id = other.id => paper = other

LEMMA CollectedAreWorks ==
  ASSUME NEW list \in Seq(Records)
  PROVE  AreWorks(Collected(list), list)
<1> DEFINE merged(group) == Merged(group, list)
           during(work) == Window.start <= LatestActivity(work) /\ LatestActivity(work) <= Window.end
<1>1. ASSUME NEW group \in Groups(list)
      PROVE  /\ merged(group).of = Of(group, list)
             /\ merged(group).at = LatestActivity(merged(group).of)
             /\ \E i \in group : i \in DOMAIN list /\ merged(group).id = IdOf[list[i]]
             /\ WithinWindow(merged(group)) <=> during(merged(group).of)
  BY GroupsHaveRecords, MergedIsLatest DEF WithinWindow
<1>2. Collected(list) = {paper \in {merged(group) : group \in Groups(list)} : WithinWindow(paper)}
  BY DEF Collected
<1> HIDE DEF merged, during
<1>3. \A paper \in Collected(list) : \E group \in Groups(list) :
          paper = merged(group) /\ WithinWindow(paper)
  BY <1>2
<1>4. {paper.of : paper \in Collected(list)} = {work \in WorksOf(list) : during(work)}
  <2>1. ASSUME NEW paper \in Collected(list) PROVE paper.of \in {work \in WorksOf(list) : during(work)}
    <3>1. PICK group \in Groups(list) : paper = merged(group) /\ WithinWindow(paper)
      BY <1>3
    <3>2. paper.of = Of(group, list) /\ during(paper.of)
      BY <1>1, <3>1
    <3>3. Of(group, list) \in WorksOf(list)
      BY GroupsAreWorks
    <3> QED
      BY <3>2, <3>3
  <2>2. ASSUME NEW work \in WorksOf(list), during(work)
        PROVE  \E paper \in Collected(list) : paper.of = work
    <3>1. PICK group \in Groups(list) : work = Of(group, list)
      BY GroupsAreWorks
    <3>2. merged(group).of = work /\ WithinWindow(merged(group))
      BY <1>1, <2>2, <3>1
    <3>3. merged(group) \in Collected(list)
      BY <1>2, <3>2
    <3> QED
      BY <3>2, <3>3
  <2> QED
    BY <2>1, <2>2
<1>5. \A paper \in Collected(list) : paper.at = LatestActivity(paper.of)
  BY <1>1, <1>3
<1>6. ASSUME NEW paper \in Collected(list), NEW other \in Collected(list), paper.id = other.id
      PROVE  paper = other
  <2>1. PICK group \in Groups(list), rest \in Groups(list) : paper = merged(group) /\ other = merged(rest)
    BY <1>3
  <2>2. PICK i \in group, j \in rest : /\ i \in DOMAIN list /\ j \in DOMAIN list
                                       /\ paper.id = IdOf[list[i]] /\ other.id = IdOf[list[j]]
    BY <1>1, <2>1
  <2>3. Shares(list[i], list[j])
    <3>1. list[i] \in Records /\ list[j] \in Records
      BY <2>2, ListsOfRecords
    <3> QED
      BY <1>6, <2>2, <3>1, PaperAssumption DEF Shares
  <2>4. group = rest
    BY <2>3, GroupsAreWorks
  <2> QED
    BY <2>1, <2>4
<1> QED
  BY <1>4, <1>5, <1>6 DEF AreWorks, during

LEMMA NothingCollected == Collected(<<>>) = {}
<1>1. DOMAIN <<>> = {}
  OBVIOUS
<1>2. Groups(<<>>) = {}
  BY <1>1 DEF Groups
<1> QED
  BY <1>2 DEF Collected

LEMMA CollectedTyped == ASSUME NEW list \in Seq(Records) PROVE Collected(list) \subseteq Paper
  BY GroupsHaveRecords, MergedIsLatest DEF Collected

-----------------------------------------------------------------------------
(***************************************************************************)
(* The research loop.                                                      *)
(***************************************************************************)
Loops == [phase : {"OFF", "MODEL", "FETCH", "DONE", "FAILED", "EXHAUSTED"},
          turns : Nat, searches : Nat, pages : Nat]

PaperTyped ==
    /\ loop \in Loops
    /\ fetch \in [pages : Nat, got : Seq(Records)]
    /\ raw \in Seq(Records)
    /\ papers \subseteq Paper /\ submitted \subseteq Paper
    /\ inspected \subseteq {IdOf[r] : r \in Records}

\* A search that runs has pages and records left; nothing is fetched between searches.
WithinBudget ==
    /\ Len(raw) + Len(fetch.got) <= MaxRecords
    /\ loop.pages + fetch.pages <= MaxPages
    /\ loop.phase = "FETCH" =>
          loop.pages + fetch.pages < MaxPages /\ Len(raw) + Len(fetch.got) < MaxRecords
    /\ loop.phase # "FETCH" => fetch = NoFetch

\* The papers are always those of all records so far.
Gathered == papers = Collected(raw)

PaperSound == PaperTyped /\ WithinBudget /\ Gathered /\ (loop.phase = "OFF" => loop.turns = 0)

Searches == {"MODEL", "FETCH"}

\* What a step of the loop may do with its phase, its turns and the calls.
PaperMoves ==
    /\ loop.phase \in Searches
    /\ submitted \subseteq submitted'
    /\ \/ loop'.phase \in Searches /\ loop.turns < MaxTurns /\ loop'.turns = loop.turns + 1 /\ Call
       \/ loop'.phase \in Searches /\ loop'.turns = loop.turns /\ UNCHANGED callVars
       \/ loop'.phase \notin Searches \cup {"OFF"} /\ (Call \/ UNCHANGED callVars)

LEMMA PaperEnds ==
  ASSUME PaperSound, loop.phase \in Searches, NEW phase \in {"DONE", "FAILED", "EXHAUSTED"}, Ends(phase)
  PROVE  PaperSound' /\ loop'.phase = phase /\ UNCHANGED submitted
<1>1. loop' \in Loops /\ loop'.phase = phase /\ loop'.pages = loop.pages /\ fetch' = NoFetch
  BY DEF PaperSound, PaperTyped, Loops, Ends
<1>2. UNCHANGED <<raw, papers, inspected, submitted>>
  BY DEF Ends
<1>3. NoFetch \in [pages : Nat, got : Seq(Records)] /\ Len(NoFetch.got) = 0 /\ NoFetch.pages = 0
  BY DEF NoFetch
<1>4. /\ Len(raw) \in Nat /\ Len(fetch.got) \in Nat /\ loop.pages \in Nat /\ fetch.pages \in Nat
      /\ MaxRecords \in Nat /\ MaxPages \in Nat
  BY PaperAssumption DEF PaperSound, PaperTyped, Loops
<1>5. WithinBudget'
  BY <1>1, <1>2, <1>3, <1>4 DEF PaperSound, WithinBudget
<1> QED
  BY <1>1, <1>2, <1>3, <1>5 DEF PaperSound, PaperTyped, Gathered

\* A turn that leaves the search alone.
LEMMA PaperTurn ==
  ASSUME PaperSound, loop.phase = "MODEL", UNCHANGED <<fetch, raw, papers>>,
         NEW phase \in {"MODEL", "DONE"}, loop' = [loop EXCEPT !.turns = @ + 1, !.phase = phase],
         inspected' \subseteq {IdOf[r] : r \in Records}, submitted' \subseteq Paper
  PROVE  PaperSound' /\ loop'.turns = loop.turns + 1 /\ loop'.phase = phase
<1>1. loop' \in Loops /\ loop'.pages = loop.pages /\ loop'.turns = loop.turns + 1 /\ loop'.phase = phase
  <2>1. loop.turns \in Nat /\ loop.searches \in Nat /\ loop.pages \in Nat /\ loop \in Loops
    BY DEF PaperSound, PaperTyped, Loops
  <2>2. loop' = [phase |-> phase, turns |-> loop.turns + 1, searches |-> loop.searches, pages |-> loop.pages]
    BY <2>1 DEF Loops
  <2> QED
    BY <2>1, <2>2 DEF Loops
<1> QED
  BY <1>1 DEF PaperSound, PaperTyped, Gathered, WithinBudget, NoFetch

LEMMA SearchStep ==
  ASSUME PaperSound, Search
  PROVE  PaperSound' /\ PaperMoves
<1> DEFINE phase == IF PagesLeft > 0 /\ RecordsLeft > 0 THEN "FETCH" ELSE "MODEL"
<1>0. phase \in {"FETCH", "MODEL"} /\ (phase = "FETCH" => PagesLeft > 0 /\ RecordsLeft > 0)
  OBVIOUS
<1>1. /\ loop.phase = "MODEL" /\ UNCHANGED <<fetch, raw, papers, inspected, submitted>>
      /\ loop.turns < MaxTurns /\ Call
      /\ loop' = [loop EXCEPT !.turns = @ + 1, !.searches = @ + 1, !.phase = phase]
  BY DEF Search, Turn
<1> HIDE DEF phase
<1>2. loop' \in Loops /\ loop'.pages = loop.pages /\ loop'.turns = loop.turns + 1 /\ loop'.phase = phase
  <2>1. loop.turns \in Nat /\ loop.searches \in Nat /\ loop.pages \in Nat /\ loop \in Loops
    BY DEF PaperSound, PaperTyped, Loops
  <2>2. loop' = [phase |-> phase, turns |-> loop.turns + 1, searches |-> loop.searches + 1,
                 pages |-> loop.pages]
    BY <1>1, <2>1 DEF Loops
  <2> QED
    BY <1>0, <2>1, <2>2 DEF Loops
<1>3. /\ fetch = NoFetch /\ fetch.pages = 0 /\ Len(fetch.got) = 0 /\ Len(raw) \in Nat /\ loop.pages \in Nat
      /\ MaxRecords \in Nat /\ MaxPages \in Nat
  BY <1>1, PaperAssumption DEF PaperSound, WithinBudget, NoFetch, PaperTyped, Loops
<1>4. WithinBudget'
  BY <1>0, <1>1, <1>2, <1>3 DEF PaperSound, WithinBudget, PagesLeft, RecordsLeft
<1> QED
  BY <1>0, <1>1, <1>2, <1>4 DEF PaperSound, PaperTyped, Gathered, PaperMoves, Searches

\* The page is cut to what is left, and the search goes on only while both are left.
LEMMA PageStep ==
  ASSUME PaperSound, NEW page \in Pages, NEW more \in BOOLEAN, FetchPage(page, more)
  PROVE  PaperSound' /\ PaperMoves
<1> DEFINE left == RecordsLeft - Len(fetch.got)
           cut == Min({Len(page), left})
           got == fetch.got \o SubSeq(page, 1, cut)
           pages == fetch.pages + 1
           last == Len(got) >= RecordsLeft \/ ~ more \/ pages = PagesLeft
<1>0. \/ ~ last /\ fetch' = [pages |-> pages, got |-> got] /\ UNCHANGED <<loop, raw, papers>>
      \/ /\ last /\ fetch' = NoFetch
         /\ loop' = [loop EXCEPT !.phase = "MODEL", !.pages = @ + pages]
         /\ raw' = raw \o got /\ papers' = Collected(raw')
  BY Zenon DEF FetchPage
<1>1. /\ Len(raw) \in Nat /\ Len(fetch.got) \in Nat /\ loop.pages \in Nat /\ fetch.pages \in Nat
      /\ MaxRecords \in Nat /\ MaxPages \in Nat /\ loop.phase = "FETCH"
      /\ raw \in Seq(Records) /\ fetch.got \in Seq(Records)
  BY PaperAssumption DEF PaperSound, PaperTyped, Loops, FetchPage
<1>2. left \in Nat /\ left # 0 /\ left = MaxRecords - Len(raw) - Len(fetch.got)
  BY <1>1 DEF PaperSound, WithinBudget, RecordsLeft
<1>3. page \in Seq(Records)
  <2>1. PageSize \in Nat
    BY PaperAssumption
  <2> QED
    BY <2>1 DEF Pages, BoundedSeq, SeqOf
<1>4. cut \in Nat /\ cut <= Len(page) /\ cut <= left
  BY <1>2, <1>3 DEF Min
<1> HIDE DEF cut, left
<1>5. SubSeq(page, 1, cut) \in Seq(Records) /\ Len(SubSeq(page, 1, cut)) = cut
  <2>1. 1 \in Int /\ cut \in Int /\ \A i \in 1 .. cut : page[i] \in Records
    BY <1>3, <1>4
  <2>2. Len(SubSeq(page, 1, cut)) = (IF 1 <= cut THEN cut - 1 + 1 ELSE 0) /\ SubSeq(page, 1, cut) \in Seq(Records)
    BY <2>1, SubSeqProperties
  <2> QED
    BY <1>4, <2>2
<1>6. got \in Seq(Records) /\ Len(got) = Len(fetch.got) + cut
  <2> DEFINE rest == SubSeq(page, 1, cut)
  <2>1. rest \in Seq(Records) /\ Len(rest) = cut /\ got = fetch.got \o rest
    BY <1>5
  <2>2. \A one, other \in Seq(Records) :
           one \o other \in Seq(Records) /\ Len(one \o other) = Len(one) + Len(other)
    OBVIOUS
  <2> HIDE DEF rest, got
  <2> QED
    BY <1>1, <2>1, <2>2
<1>7. Len(got) \in Nat /\ Len(raw) + Len(got) <= MaxRecords
  <2> HIDE DEF got
  <2> QED
    BY <1>1, <1>2, <1>4, <1>6
<1>8. pages \in Nat /\ loop.pages + pages <= MaxPages
  BY <1>1 DEF PaperSound, WithinBudget
<1>9. UNCHANGED <<inspected, submitted, callVars>>
  BY DEF FetchPage
<1>10. CASE ~ last /\ fetch' = [pages |-> pages, got |-> got] /\ UNCHANGED <<loop, raw, papers>>
  <2>1. fetch' \in [pages : Nat, got : Seq(Records)] /\ fetch'.pages = pages /\ fetch'.got = got
    BY <1>6, <1>8, <1>10
  <2> HIDE DEF got
  <2>2. Len(got) < RecordsLeft /\ pages # PagesLeft
    BY <1>1, <1>7, <1>10 DEF RecordsLeft
  <2>3. Len(raw) + Len(got) < MaxRecords /\ loop.pages + pages < MaxPages
    BY <1>1, <1>7, <1>8, <2>2 DEF RecordsLeft, PagesLeft
  <2>4. WithinBudget'
    BY <1>1, <1>10, <2>1, <2>3, <1>7, <1>8 DEF WithinBudget
  <2> QED
    BY <1>1, <1>9, <1>10, <2>1, <2>4 DEF PaperSound, PaperTyped, Gathered, PaperMoves, Searches
<1>11. CASE /\ last /\ fetch' = NoFetch
            /\ loop' = [loop EXCEPT !.phase = "MODEL", !.pages = @ + pages]
            /\ raw' = raw \o got /\ papers' = Collected(raw')
  <2>1. loop' \in Loops /\ loop'.phase = "MODEL" /\ loop'.turns = loop.turns /\ loop'.pages = loop.pages + pages
    <3>1. loop.turns \in Nat /\ loop.searches \in Nat /\ loop.pages \in Nat /\ loop \in Loops
      BY DEF PaperSound, PaperTyped, Loops
    <3> HIDE DEF pages
    <3>2. loop' = [phase |-> "MODEL", turns |-> loop.turns, searches |-> loop.searches,
                   pages |-> loop.pages + pages]
      BY <1>11, <3>1 DEF Loops
    <3> QED
      BY <1>8, <3>1, <3>2 DEF Loops
  <2>2. raw' \in Seq(Records) /\ Len(raw') = Len(raw) + Len(got)
    BY <1>1, <1>6, <1>11
  <2>3. papers' \subseteq Paper
    BY <1>11, <2>2, CollectedTyped
  <2>4. fetch' \in [pages : Nat, got : Seq(Records)] /\ fetch'.pages = 0 /\ Len(fetch'.got) = 0
    BY <1>11 DEF NoFetch
  <2>5. WithinBudget'
    BY <1>1, <1>7, <1>8, <1>11, <2>1, <2>2, <2>4 DEF WithinBudget
  <2> QED
    BY <1>1, <1>9, <1>11, <2>1, <2>2, <2>3, <2>4, <2>5 DEF PaperSound, PaperTyped, Gathered, PaperMoves, Searches
<1> QED
  BY <1>0, <1>10, <1>11

LEMMA PaperStepSound == ASSUME PaperSound, PaperStep PROVE PaperSound' /\ PaperMoves
<1>1. CASE Search
  BY <1>1, SearchStep
<1>2. CASE \E page \in Pages, more \in BOOLEAN : FetchPage(page, more)
  BY <1>2, PageStep
<1>3. CASE Finish
  <2>1. /\ loop.phase = "MODEL" /\ UNCHANGED <<fetch, raw, papers, inspected, submitted>> /\ Call
        /\ loop' = [loop EXCEPT !.turns = @ + 1, !.phase = "DONE"]
    BY <1>3 DEF Finish, Turn
  <2>2. inspected' \subseteq {IdOf[r] : r \in Records} /\ submitted' \subseteq Paper
    BY <2>1 DEF PaperSound, PaperTyped
  <2>3. PaperSound' /\ loop'.phase = "DONE"
    BY <2>1, <2>2, PaperTurn
  <2> QED
    BY <2>1, <2>3 DEF PaperMoves, Searches
<1>4. CASE TurnFails
  <2>1. /\ loop.phase = "MODEL" /\ (Call \/ UNCHANGED callVars) /\ (Ends("FAILED") \/ Ends("EXHAUSTED"))
    BY <1>4 DEF TurnFails, Turn
  <2> QED
    BY <2>1, PaperEnds DEF PaperMoves, Searches
<1>5. CASE FetchFails
  BY <1>5, PaperEnds DEF FetchFails, PaperMoves, Searches
<1>6. ASSUME NEW id \in Ids(papers), Inspect(id) PROVE PaperSound' /\ PaperMoves
  <2>1. /\ loop.phase = "MODEL" /\ loop.turns < MaxTurns /\ Call
        /\ UNCHANGED <<fetch, raw, papers, submitted>> /\ inspected' = inspected \cup {id}
        /\ loop' = [loop EXCEPT !.turns = @ + 1]
    BY <1>6 DEF Inspect, Turn, NextTurn
  <2>2. loop' = [loop EXCEPT !.turns = @ + 1, !.phase = "MODEL"]
    BY <2>1 DEF PaperSound, PaperTyped, Loops
  <2>3. id \in {IdOf[r] : r \in Records}
    BY DEF Ids, PaperSound, PaperTyped, Paper
  <2>4. PaperSound' /\ loop'.turns = loop.turns + 1 /\ loop'.phase = "MODEL"
    BY <2>1, <2>2, <2>3, PaperTurn DEF PaperSound, PaperTyped
  <2> QED
    BY <2>1, <2>2, <2>4 DEF PaperMoves, Searches
<1>7. ASSUME NEW id \in inspected, Submit(id) PROVE PaperSound' /\ PaperMoves
  <2>1. /\ loop.phase = "MODEL" /\ loop.turns < MaxTurns /\ Call
        /\ UNCHANGED <<fetch, raw, papers, inspected>>
        /\ loop' = [loop EXCEPT !.turns = @ + 1]
        /\ \E paper \in papers : submitted' = submitted \cup {paper}
    BY <1>7 DEF Submit, Turn, NextTurn
  <2>2. loop' = [loop EXCEPT !.turns = @ + 1, !.phase = "MODEL"]
    BY <2>1 DEF PaperSound, PaperTyped, Loops
  <2>3. submitted \subseteq submitted' /\ submitted' \subseteq Paper
    BY <2>1 DEF PaperSound, PaperTyped
  <2>4. PaperSound' /\ loop'.turns = loop.turns + 1 /\ loop'.phase = "MODEL"
    BY <2>1, <2>2, <2>3, PaperTurn DEF PaperSound, PaperTyped
  <2> QED
    BY <2>1, <2>2, <2>3, <2>4 DEF PaperMoves, Searches
<1> QED
  BY <1>1, <1>2, <1>3, <1>4, <1>5, <1>6, <1>7 DEF PaperStep

LEMMA PaperStartSound ==
  ASSUME PaperSound, PaperStart
  PROVE  /\ PaperSound' /\ loop.phase = "OFF" /\ loop'.phase = "MODEL" /\ loop'.turns = 0
         /\ UNCHANGED <<submitted, callVars>>
<1>1. loop' = [phase |-> "MODEL", turns |-> 0, searches |-> 0, pages |-> 0]
  BY DEF PaperStart, NoLoop
<1>2. loop' \in Loops
  BY <1>1 DEF Loops
<1>3. fetch = NoFetch /\ fetch.pages = 0 /\ loop.pages \in Nat /\ MaxPages \in Nat
  BY PaperAssumption DEF PaperStart, PaperSound, WithinBudget, NoFetch, PaperTyped, Loops
<1> QED
  BY <1>1, <1>2, <1>3 DEF PaperStart, PaperSound, PaperTyped, Gathered, WithinBudget

LEMMA PaperOff ==
  ASSUME loop' = NoLoop, fetch' = NoFetch, raw' = <<>>, papers' = {}, inspected' = {}, submitted' = {}
  PROVE  PaperSound'
<1>1. NoLoop \in Loops /\ NoFetch \in [pages : Nat, got : Seq(Records)]
  BY DEF NoLoop, NoFetch, Loops
<1>2. MaxPages \in Nat /\ MaxRecords \in Nat
  BY PaperAssumption
<1>3. Collected(<<>>) = {}
  BY NothingCollected
<1> QED
  BY <1>1, <1>2, <1>3 DEF PaperSound, PaperTyped, Gathered, WithinBudget, NoLoop, NoFetch

-----------------------------------------------------------------------------
(***************************************************************************)
(* The code loop.                                                          *)
(***************************************************************************)
InsightTyped ==
    /\ insight \in [phase : {"OFF", "GATE", "ANALYZE", "MODEL", "WRITE"} \cup Ended,
                   turns : Nat, corrected : BOOLEAN]
    /\ reads \subseteq Paths /\ executed \subseteq Tools /\ advice \subseteq Paths

\* The trace has an event for each turn; nothing is read before the loop.
Traced ==
    /\ IsFiniteSet(reads) /\ Cardinality(reads) <= MaxReads
    /\ Cardinality(executed) <= insight.turns /\ insight.turns <= MaxCodeTurns
    /\ insight.phase \in {"OFF", "GATE", "ANALYZE"} =>
          insight.turns = 0 /\ reads = {} /\ executed = {} /\ advice = {}
    /\ insight.phase \in {"WRITE", "COMPLETED"} =>
          Tools \subseteq executed /\ reads # {} /\ advice # {} /\ advice \subseteq reads

\* What a store that was interrupted between two writes has written.
Parts == {{}, {"advice.json"}, {"advice.json", "advice.md"}, {"advice.json", "advice.md", "tool-trace.json"}}
Whole == ToSet(Artifacts)

Placed ==
    /\ files \in Parts \cup {Whole}
    /\ insight.phase \in {"GATE", "ANALYZE", "MODEL"} => files = {}
    /\ insight.phase = "WRITE" => files \in Parts
    /\ insight.phase = "COMPLETED" => files = Whole

Approved ==
    /\ insight.phase = "GATE" => recorded = {}
    /\ insight.phase \in {"ANALYZE", "MODEL", "WRITE", "COMPLETED"} => recorded = {"APPROVE"}
    /\ reads # {} \/ files # {} => recorded = {"APPROVE"}

InsightSound == InsightTyped /\ Traced /\ Placed /\ Approved

\* What a step of the analysis may do with its phase, its turns and the calls.
InsightMoves ==
    /\ insight.phase # "OFF" /\ insight'.phase # "OFF"
    /\ \/ insight.phase # "MODEL" /\ insight'.phase # "MODEL" /\ UNCHANGED callVars
       \/ /\ insight.phase # "MODEL" /\ insight'.phase = "MODEL"
          /\ insight'.turns = 0 /\ UNCHANGED callVars
       \/ /\ insight.phase = "MODEL" /\ insight'.phase = "MODEL" /\ insight.turns < MaxCodeTurns
          /\ insight'.turns = insight.turns + 1 /\ Call
       \/ insight.phase = "MODEL" /\ insight'.phase # "MODEL" /\ (Call \/ UNCHANGED callVars)

\* The graph goes on and its loop stands still.
LEMMA InsightGoesSound ==
  ASSUME InsightSound, NEW phase, InsightGoes(phase), UNCHANGED <<reads, executed, advice, files, recorded>>,
         \/ phase \in {"FAILED", "RAISED", "EXHAUSTED"}
         \/ phase = "MODEL" /\ insight.phase = "ANALYZE"
  PROVE  InsightSound' /\ insight'.phase = phase /\ insight'.turns = insight.turns
<1>1. insight' = [phase |-> phase, turns |-> insight.turns, corrected |-> insight.corrected]
  BY DEF InsightSound, InsightTyped, InsightGoes
<1>2. InsightTyped'
  BY <1>1 DEF InsightSound, InsightTyped, Ended
<1>3. Traced' /\ Placed' /\ Approved'
  BY <1>1 DEF InsightSound, Traced, Placed, Approved
<1> QED
  BY <1>1, <1>2, <1>3 DEF InsightSound

LEMMA InsightStartSound ==
  ASSUME InsightSound, InsightStart
  PROVE  /\ InsightSound' /\ insight.phase = "OFF" /\ insight'.phase \in {"GATE", "FAILED"}
         /\ UNCHANGED callVars
<1>1. PICK phase \in {"GATE", "FAILED"} : insight' = [phase |-> phase, turns |-> 0, corrected |-> FALSE]
  BY DEF InsightStart, NoInsight
<1>2. InsightTyped'
  BY <1>1 DEF InsightSound, InsightTyped, Ended, InsightStart
<1>3. Traced'
  BY <1>1 DEF InsightStart, InsightSound, Traced
<1>4. Placed' /\ Approved'
  BY <1>1 DEF InsightStart, InsightSound, Traced, Placed, Approved, Parts
<1> QED
  BY <1>1, <1>2, <1>3, <1>4 DEF InsightSound, InsightStart

LEMMA InsightClearSound ==
  ASSUME InsightSound, InsightClear
  PROVE  InsightSound' /\ insight'.phase = "OFF" /\ UNCHANGED files
<1>1. insight' = [phase |-> "OFF", turns |-> 0, corrected |-> FALSE]
  BY DEF InsightClear, NoInsight
<1>2. MaxReads \in Nat /\ MaxCodeTurns \in Nat
  BY InsightAssumption
<1>3. Traced'
  BY <1>1, <1>2, FS_EmptySet DEF InsightClear, Traced
<1>4. InsightTyped' /\ Placed' /\ Approved'
  BY <1>1 DEF InsightClear, InsightSound, InsightTyped, Placed, Approved
<1> QED
  BY <1>1, <1>3, <1>4 DEF InsightSound, InsightClear

LEMMA SnapshotGateSound ==
  ASSUME InsightSound, NEW decision \in {"APPROVE", "EDIT", "REJECT"}, SnapshotGate(decision)
  PROVE  InsightSound' /\ InsightMoves
<1>1. /\ insight.phase = "GATE" /\ UNCHANGED <<reads, executed, advice, files, callVars>>
      /\ recorded = {} /\ reads = {} /\ files = {}
  BY DEF SnapshotGate, InsightSound, Approved, Traced, Placed
<1>2. PICK phase \in {"ANALYZE", "REJECTED", "RAISED"} :
         /\ InsightGoes(phase)
         /\ phase = "ANALYZE" => recorded' = {"APPROVE"}
  BY <1>1 DEF SnapshotGate, Decided
<1>3. insight' = [phase |-> phase, turns |-> insight.turns, corrected |-> insight.corrected]
  BY <1>2 DEF InsightSound, InsightTyped, InsightGoes
<1>4. InsightTyped'
  BY <1>1, <1>3 DEF InsightSound, InsightTyped, Ended
<1>5. Traced' /\ Placed' /\ Approved'
  BY <1>1, <1>2, <1>3 DEF InsightSound, Traced, Placed, Approved
<1> QED
  BY <1>1, <1>3, <1>4, <1>5 DEF InsightSound, InsightMoves

\* One turn of the loop: at most one more file and one more tool.
LEMMA CodeTurnSound ==
  ASSUME InsightSound, CodeTurn, NEW tool \in Tools, Executes(tool), UNCHANGED <<files, recorded>>,
         NEW phase \in {"MODEL", "WRITE"}, NEW corrected \in BOOLEAN,
         insight' = [phase |-> phase, turns |-> insight.turns + 1, corrected |-> corrected],
         \/ UNCHANGED reads
         \/ \E path \in Paths : path \notin reads /\ Cardinality(reads) < MaxReads /\ reads' = reads \cup {path},
         advice' \subseteq Paths,
         phase = "WRITE" => Tools \subseteq executed' /\ reads' # {} /\ advice' # {} /\ advice' \subseteq reads'
  PROVE  InsightSound' /\ InsightMoves
<1>1. insight.phase = "MODEL" /\ insight.turns < MaxCodeTurns /\ Call /\ insight.turns \in Nat
  BY DEF CodeTurn, InsightSound, InsightTyped
<1>2. InsightTyped'
  BY <1>1 DEF InsightSound, InsightTyped, Executes
<1>3. IsFiniteSet(reads') /\ Cardinality(reads') <= MaxReads
  <2>1. IsFiniteSet(reads) /\ Cardinality(reads) \in Nat /\ MaxReads \in Nat /\ Cardinality(reads) <= MaxReads
    BY InsightAssumption, FS_CardinalityType DEF InsightSound, Traced
  <2>2. CASE UNCHANGED reads
    BY <2>1, <2>2
  <2>3. ASSUME NEW path \in Paths, path \notin reads, Cardinality(reads) < MaxReads, reads' = reads \cup {path}
        PROVE  IsFiniteSet(reads') /\ Cardinality(reads') <= MaxReads
    <3>1. IsFiniteSet(reads') /\ Cardinality(reads') = Cardinality(reads) + 1
      BY <2>1, <2>3, FS_AddElement
    <3>2. \A n, m \in Nat : n < m => n + 1 <= m
      OBVIOUS
    <3> QED
      BY <2>1, <2>3, <3>1, <3>2
  <2> QED
    BY <2>2, <2>3
<1>4. Cardinality(executed') <= insight.turns + 1
  <2>1. IsFiniteSet(Tools)
    <3>1. IsFiniteSet({}) /\ \A S, e : IsFiniteSet(S) => IsFiniteSet(S \cup {e})
      BY FS_EmptySet, FS_AddElement
    <3>2. Tools = ((({} \cup {"inspect_repository_summary"}) \cup {"inspect_target_profile"})
                      \cup {"read_repository_file"}) \cup {"submit_adaptation_advice"}
      BY DEF Tools, Observations
    <3> QED
      BY <3>1, <3>2
  <2>2. IsFiniteSet(executed) /\ Cardinality(executed) \in Nat
    BY <2>1, FS_Subset, FS_CardinalityType DEF InsightSound, InsightTyped
  <2>3. Cardinality(executed') \in {Cardinality(executed), Cardinality(executed) + 1}
    BY <2>2, FS_AddElement DEF Executes
  <2> QED
    BY <1>1, <2>2, <2>3 DEF InsightSound, Traced
<1>5. Traced'
  <2>1. MaxCodeTurns \in Nat
    BY InsightAssumption
  <2> QED
    BY <1>1, <1>3, <1>4, <2>1 DEF Traced
<1>6. Placed' /\ Approved'
  BY <1>1 DEF InsightSound, Placed, Approved, Parts
<1> QED
  BY <1>1, <1>2, <1>5, <1>6 DEF InsightSound, InsightMoves

\* The next file after k of them is the one of that place.
LEMMA WriteFileSound == ASSUME InsightSound, WriteFile PROVE InsightSound' /\ InsightMoves
<1>1. /\ insight.phase = "WRITE" /\ files \in Parts /\ UNCHANGED <<reads, executed, advice, recorded, callVars>>
  BY DEF WriteFile, InsightSound, Placed
<1>2. /\ Cardinality({}) = 0 /\ Cardinality({"advice.json"}) = 1
      /\ Cardinality({"advice.json", "advice.md"}) = 2
      /\ Cardinality({"advice.json", "advice.md", "tool-trace.json"}) = 3
      /\ Cardinality({"advice.json", "advice.md", "tool-trace.json", "repository-insight.json"}) = 4
  <2>1. IsFiniteSet({}) /\ Cardinality({}) = 0
    BY FS_EmptySet
  <2>2. \A S, e : IsFiniteSet(S) /\ e \notin S =>
           IsFiniteSet(S \cup {e}) /\ Cardinality(S \cup {e}) = Cardinality(S) + 1
    BY FS_AddElement
  <2>3. IsFiniteSet({"advice.json"}) /\ Cardinality({"advice.json"}) = 1
    BY FS_Singleton
  <2>4. /\ IsFiniteSet({"advice.json", "advice.md"})
        /\ Cardinality({"advice.json", "advice.md"}) = 2
    <3>1. {"advice.json", "advice.md"} = {"advice.json"} \cup {"advice.md"} /\ "advice.md" \notin {"advice.json"}
      OBVIOUS
    <3> QED
      BY <2>2, <2>3, <3>1
  <2>5. /\ IsFiniteSet({"advice.json", "advice.md", "tool-trace.json"})
        /\ Cardinality({"advice.json", "advice.md", "tool-trace.json"}) = 3
    <3>1. /\ {"advice.json", "advice.md", "tool-trace.json"} = {"advice.json", "advice.md"} \cup {"tool-trace.json"}
          /\ "tool-trace.json" \notin {"advice.json", "advice.md"}
      OBVIOUS
    <3> QED
      BY <2>2, <2>4, <3>1
  <2>6. Cardinality({"advice.json", "advice.md", "tool-trace.json", "repository-insight.json"}) = 4
    <3>1. /\ {"advice.json", "advice.md", "tool-trace.json", "repository-insight.json"}
                = {"advice.json", "advice.md", "tool-trace.json"} \cup {"repository-insight.json"}
          /\ "repository-insight.json" \notin {"advice.json", "advice.md", "tool-trace.json"}
      OBVIOUS
    <3> QED
      BY <2>2, <2>5, <3>1
  <2> QED
    BY <2>1, <2>3, <2>4, <2>5, <2>6
<1>3. /\ Artifacts[1] = "advice.json" /\ Artifacts[2] = "advice.md" /\ Artifacts[3] = "tool-trace.json"
      /\ Artifacts[4] = "repository-insight.json" /\ Len(Artifacts) = 4 /\ DOMAIN Artifacts = {1, 2, 3, 4}
  BY DEF Artifacts
<1>4. Whole = {"advice.json", "advice.md", "tool-trace.json", "repository-insight.json"}
  BY <1>3 DEF Whole, ToSet
<1>5. \/ files' \in Parts /\ files' # {} /\ insight'.phase = "WRITE"
      \/ files' = Whole /\ insight'.phase = "COMPLETED"
  <2>0. files' = files \cup {NextFile} /\ NextFile = Artifacts[Cardinality(files) + 1]
    BY DEF WriteFile, NextFile
  <2>1. /\ Cardinality(files') = 4 => insight'.phase = "COMPLETED"
        /\ Cardinality(files') # 4 => insight'.phase = "WRITE"
    BY <1>3 DEF WriteFile, InsightSound, InsightTyped
  <2>2. CASE files = {}
    <3>1. files' = {"advice.json"}
      BY <1>2, <1>3, <2>0, <2>2
    <3> QED
      BY <1>2, <2>1, <3>1 DEF Parts
  <2>3. CASE files = {"advice.json"}
    <3>1. files' = {"advice.json", "advice.md"}
      BY <1>2, <1>3, <2>0, <2>3
    <3> QED
      BY <1>2, <2>1, <3>1 DEF Parts
  <2>4. CASE files = {"advice.json", "advice.md"}
    <3>1. files' = {"advice.json", "advice.md", "tool-trace.json"}
      BY <1>2, <1>3, <2>0, <2>4
    <3> QED
      BY <1>2, <2>1, <3>1 DEF Parts
  <2>5. CASE files = {"advice.json", "advice.md", "tool-trace.json"}
    <3>1. files' = {"advice.json", "advice.md", "tool-trace.json", "repository-insight.json"}
      BY <1>2, <1>3, <2>0, <2>5
    <3> QED
      BY <1>2, <1>4, <2>1, <3>1
  <2> QED
    BY <1>1, <2>2, <2>3, <2>4, <2>5 DEF Parts
<1>6. insight' = [phase |-> insight'.phase, turns |-> insight.turns, corrected |-> insight.corrected]
  <2>1. PICK phase : insight' = [insight EXCEPT !.phase = phase]
    BY DEF WriteFile
  <2>2. insight' = [phase |-> phase, turns |-> insight.turns, corrected |-> insight.corrected]
    BY <2>1 DEF InsightSound, InsightTyped
  <2> QED
    BY <2>2
<1>7. InsightTyped'
  <2>1. insight'.phase \in {"WRITE", "COMPLETED"}
    BY <1>5
  <2>2. insight.turns \in Nat /\ insight.corrected \in BOOLEAN
    BY DEF InsightSound, InsightTyped
  <2> QED
    BY <1>1, <1>6, <2>1, <2>2 DEF InsightSound, InsightTyped, Ended
<1>8. Traced' /\ Placed' /\ Approved'
  <2>1. insight'.turns = insight.turns
    BY <1>6
  <2> QED
    BY <1>1, <1>5, <2>1 DEF InsightSound, Traced, Placed, Approved
<1> QED
  BY <1>1, <1>5, <1>7, <1>8 DEF InsightSound, InsightMoves

LEMMA InsightStepSound == ASSUME InsightSound, InsightStep PROVE InsightSound' /\ InsightMoves
<1>0. insight.corrected \in BOOLEAN /\ insight.turns \in Nat
  BY DEF InsightSound, InsightTyped
<1>1. CASE FetchSnapshot
  <2>1. /\ insight.phase = "ANALYZE" /\ (InsightGoes("MODEL") \/ InsightGoes("FAILED"))
        /\ UNCHANGED <<reads, executed, advice, files, recorded, callVars>> /\ insight.turns = 0
    BY <1>1 DEF FetchSnapshot, InsightSound, Traced
  <2> QED
    BY <2>1, InsightGoesSound DEF InsightMoves
<1>2. CASE CodeTurnFails
  <2>1. /\ insight.phase = "MODEL" /\ (InsightGoes("FAILED") \/ InsightGoes("EXHAUSTED"))
        /\ UNCHANGED <<reads, executed, advice, files, recorded>> /\ (Call \/ UNCHANGED callVars)
    BY <1>2 DEF CodeTurnFails, CodeTurn
  <2> QED
    BY <2>1, InsightGoesSound DEF InsightMoves
<1>3. CASE WriteFails
  <2>1. /\ insight.phase = "WRITE" /\ InsightGoes("FAILED")
        /\ UNCHANGED <<reads, executed, advice, files, recorded, callVars>>
    BY <1>3 DEF WriteFails
  <2> QED
    BY <2>1, InsightGoesSound DEF InsightMoves
<1>4. CASE CorrectAdviceLength
  <2>1. insight' = [phase |-> "MODEL", turns |-> insight.turns + 1, corrected |-> TRUE]
    BY <1>4 DEF CorrectAdviceLength, CodeTurn, InsightSound, InsightTyped
  <2>2. "submit_adaptation_advice" \in Tools /\ advice \subseteq Paths
    BY DEF Tools, InsightSound, InsightTyped
  <2> QED
    BY <1>4, <2>1, <2>2, CodeTurnSound DEF CorrectAdviceLength
<1>5. ASSUME NEW tool \in Observations, Observe(tool) PROVE InsightSound' /\ InsightMoves
  <2>1. insight' = [phase |-> "MODEL", turns |-> insight.turns + 1, corrected |-> insight.corrected]
    BY <1>5 DEF Observe, CodeTurn, InsightSound, InsightTyped
  <2>2. tool \in Tools /\ advice \subseteq Paths
    BY DEF Tools, InsightSound, InsightTyped
  <2> QED
    BY <1>0, <1>5, <2>1, <2>2, CodeTurnSound DEF Observe
<1>6. ASSUME NEW path \in Paths, ReadRepositoryFile(path) PROVE InsightSound' /\ InsightMoves
  <2>1. insight' = [phase |-> "MODEL", turns |-> insight.turns + 1, corrected |-> insight.corrected]
    BY <1>6 DEF ReadRepositoryFile, CodeTurn, InsightSound, InsightTyped
  <2>2. "read_repository_file" \in Tools /\ advice \subseteq Paths
    BY DEF Tools, Observations, InsightSound, InsightTyped
  <2> QED
    BY <1>0, <1>6, <2>1, <2>2, CodeTurnSound DEF ReadRepositoryFile
<1>7. ASSUME NEW referenced \in (SUBSET Paths) \ {{}}, SubmitAdvice(referenced) PROVE InsightSound' /\ InsightMoves
  <2>1. insight' = [phase |-> "WRITE", turns |-> insight.turns + 1, corrected |-> insight.corrected]
    BY <1>7 DEF SubmitAdvice, CodeTurn, InsightSound, InsightTyped
  <2>2. "submit_adaptation_advice" \in Tools /\ Executes("submit_adaptation_advice") /\ CodeTurn
        /\ UNCHANGED <<reads, files, recorded>>
    BY <1>7 DEF Tools, SubmitAdvice
  <2>3. Tools \subseteq executed' /\ reads' # {} /\ advice' = referenced /\ advice' \subseteq reads'
    BY <1>7 DEF SubmitAdvice, CanSubmit, Executes, Tools
  <2>4. advice' # {} /\ advice' \subseteq Paths
    BY <2>3
  <2> QED
    BY <1>0, <2>1, <2>2, <2>3, <2>4, CodeTurnSound
<1>8. CASE WriteFile
  BY <1>8, WriteFileSound
<1> QED
  BY <1>1, <1>2, <1>3, <1>4, <1>5, <1>6, <1>7, <1>8 DEF InsightStep

-----------------------------------------------------------------------------
(***************************************************************************)
(* The request.                                                            *)
(***************************************************************************)
Requests == [phase : {"DECIDE", "DELEGATE", "END"}, goal : Goals, attempt : {1, 2}, task : Tasks \cup {None},
             observations : Seq(Observation), failure : {None, Policy, "BUDGET", "WORKER"}]

RequestSound ==
    /\ request \in Requests
    /\ Len(request.observations) <= MaxDelegations
    /\ request.phase = "DELEGATE" =>
          request.task \in Tasks /\ Len(request.observations) < MaxDelegations

CallSound == used \in Nat /\ called = used /\ used <= CallLimit

\* Only the worker that was delegated to has anything under way.
Aligned ==
    /\ loop.phase # "OFF" => Searching
    /\ insight.phase # "OFF" => Working("code")
    /\ slate \subseteq submitted

\* The last observation of code that succeeded is of what lies on disk.
SuccessIsWhole ==
    Observed /\ request.phase = "DECIDE" /\ Latest.worker = "code" /\ Latest.status = "success" =>
        files = Whole

Sound == RequestSound /\ CallSound /\ PaperSound /\ InsightSound /\ Aligned /\ SuccessIsWhole

LEMMA CallsCounted == ASSUME CallSound, Call \/ UNCHANGED callVars PROVE CallSound'
<1>1. CallLimit \in Nat
  BY CallAssumption
<1> QED
  BY <1>1 DEF CallSound, Call, Exhausted, callVars

LEMMA StopsSound ==
  ASSUME RequestSound, NEW failure \in {None, Policy, "BUDGET", "WORKER"}, Stops(failure)
  PROVE  RequestSound' /\ request'.phase = "END"
<1>1. request' = [phase |-> "END", goal |-> request.goal, attempt |-> request.attempt, task |-> None,
                  observations |-> request.observations, failure |-> failure]
  BY DEF RequestSound, Requests, Stops
<1> QED
  BY <1>1 DEF RequestSound, Requests

LEMMA ObservesSound ==
  ASSUME RequestSound, request.phase = "DELEGATE",
         NEW status \in {"success", "rejected", "failed", "no_results"}, NEW urls \in SUBSET Urls,
         Observes(status, urls)
  PROVE  /\ RequestSound' /\ request'.phase = "DECIDE"
         /\ Latest'.worker = request.task.worker /\ Latest'.status = status
<1> DEFINE seen == [worker |-> request.task.worker, target |-> request.task.target,
                    status |-> status, urls |-> urls]
<1>1. request' = [phase |-> "DECIDE", goal |-> request.goal, attempt |-> 1, task |-> None,
                  observations |-> Append(request.observations, seen), failure |-> request.failure]
  BY DEF RequestSound, Requests, Observes
<1>2. seen \in Observation
  <2>1. request.task.worker \in {"research", "code"} /\ request.task.target \in Records \cup Urls \cup {None}
    BY DEF RequestSound, Tasks
  <2> QED
    BY <2>1 DEF Observation
<1>3. request.observations \in Seq(Observation) /\ Len(request.observations) < MaxDelegations
      /\ MaxDelegations \in Nat
  BY SupervisedAssumption DEF RequestSound, Requests
<1> HIDE DEF seen
<1>4. /\ Append(request.observations, seen) \in Seq(Observation)
      /\ Len(Append(request.observations, seen)) = Len(request.observations) + 1
      /\ Append(request.observations, seen)[Len(request.observations) + 1] = seen
  BY <1>2, <1>3, AppendProperties
<1>5. Len(request'.observations) <= MaxDelegations
  BY <1>1, <1>3, <1>4
<1>6. RequestSound'
  BY <1>1, <1>4, <1>5 DEF RequestSound, Requests
<1>7. Latest' = seen
  BY <1>1, <1>4 DEF Latest, Last
<1> QED
  BY <1>1, <1>6, <1>7 DEF seen

-----------------------------------------------------------------------------
(***************************************************************************)
(* How a step looks to TurnLoop.                                           *)
(***************************************************************************)
TurnStep == [Abstract!Next]_<<Busy, IF Busy THEN loop.turns + insight.turns ELSE 0, called>>

LEMMA LimitsMeet ==
  /\ \A n \in Nat : n < MaxTurns => n < (IF MaxTurns > MaxCodeTurns THEN MaxTurns ELSE MaxCodeTurns)
  /\ \A n \in Nat : n < MaxCodeTurns => n < (IF MaxTurns > MaxCodeTurns THEN MaxTurns ELSE MaxCodeTurns)
  BY PaperAssumption, InsightAssumption

LEMMA CallIsMayCall == ASSUME CallSound, Call PROVE Abstract!MayCall
<1>1. CallLimit \in Nat
  BY CallAssumption
<1> QED
  BY <1>1 DEF CallSound, Call, Exhausted, Abstract!MayCall

LEMMA BusyOrNot == Busy \in BOOLEAN /\ Busy' \in BOOLEAN
  BY DEF Busy

\* Nobody is busy: a call is a call of the supervisor.
LEMMA IdleTurn ==
  ASSUME CallSound, ~ Busy, ~ Busy', Call \/ UNCHANGED callVars
  PROVE  TurnStep
<1>1. CASE Call
  BY <1>1, BusyOrNot, CallIsMayCall DEF TurnStep, Abstract!Next, Abstract!Decide
<1>2. CASE UNCHANGED callVars
  BY <1>2, BusyOrNot DEF TurnStep, callVars
<1> QED
  BY <1>1, <1>2

LEMMA PaperTurns ==
  ASSUME Sound, PaperMoves, loop'.phase # "OFF", UNCHANGED insight, insight.phase = "OFF"
  PROVE  TurnStep
<1>1. loop.turns \in Nat /\ insight.turns = 0 /\ Busy /\ (Busy' <=> loop'.phase \in Searches)
  BY DEF Sound, PaperSound, PaperTyped, Loops, InsightSound, Traced, Busy, Searches, PaperMoves
<1>2. CASE loop'.phase \in Searches /\ loop.turns < MaxTurns /\ loop'.turns = loop.turns + 1 /\ Call
  <2>1. Abstract!MayCall
    BY <1>2, CallIsMayCall DEF Sound
  <2>2. loop.turns + insight.turns = loop.turns /\ loop'.turns + insight'.turns = loop.turns + 1
    BY <1>1, <1>2
  <2> QED
    BY <1>1, <1>2, <2>1, <2>2, BusyOrNot, LimitsMeet DEF TurnStep, Abstract!Next, Abstract!Turn
<1>3. CASE loop'.phase \in Searches /\ loop'.turns = loop.turns /\ UNCHANGED callVars
  <2>1. Busy' /\ Busy' = Busy /\ loop'.turns + insight'.turns = loop.turns + insight.turns /\ called' = called
    BY <1>1, <1>3, BusyOrNot DEF callVars
  <2>2. (IF Busy THEN loop.turns + insight.turns ELSE 0)' = IF Busy THEN loop.turns + insight.turns ELSE 0
    BY <2>1
  <2> QED
    BY <2>1, <2>2 DEF TurnStep
<1>4. CASE loop'.phase \notin Searches \cup {"OFF"} /\ (Call \/ UNCHANGED callVars)
  <2>1. Abstract!MayCall \/ UNCHANGED called
    BY <1>4, CallIsMayCall DEF Sound, callVars
  <2> QED
    BY <1>1, <1>4, <2>1, BusyOrNot DEF TurnStep, Abstract!Next, Abstract!End
<1> QED
  BY <1>2, <1>3, <1>4 DEF PaperMoves

LEMMA InsightTurns ==
  ASSUME Sound, InsightMoves, UNCHANGED loop, loop.phase = "OFF"
  PROVE  TurnStep
<1>1. insight.turns \in Nat /\ loop.turns = 0 /\ (Busy <=> insight.phase = "MODEL")
      /\ (Busy' <=> insight'.phase = "MODEL")
  BY DEF Sound, PaperSound, InsightSound, InsightTyped, Busy
<1>2. CASE insight.phase # "MODEL" /\ insight'.phase # "MODEL" /\ UNCHANGED callVars
  BY <1>1, <1>2, IdleTurn DEF Sound
<1>3. CASE insight.phase # "MODEL" /\ insight'.phase = "MODEL" /\ insight'.turns = 0 /\ UNCHANGED callVars
  <2>1. ~ Busy /\ Busy' = TRUE /\ loop'.turns + insight'.turns = 0 /\ called' = called
    BY <1>1, <1>3, BusyOrNot DEF callVars
  <2>2. (IF Busy THEN loop.turns + insight.turns ELSE 0)' = IF Busy THEN loop.turns + insight.turns ELSE 0
    BY <2>1
  <2> QED
    BY <2>1, <2>2 DEF TurnStep, Abstract!Next, Abstract!Begin
<1>4. CASE /\ insight.phase = "MODEL" /\ insight'.phase = "MODEL" /\ insight.turns < MaxCodeTurns
           /\ insight'.turns = insight.turns + 1 /\ Call
  <2>1. Abstract!MayCall
    BY <1>4, CallIsMayCall DEF Sound
  <2>2. loop.turns + insight.turns = insight.turns /\ loop'.turns + insight'.turns = insight.turns + 1
    BY <1>1, <1>4
  <2> QED
    BY <1>1, <1>4, <2>1, <2>2, BusyOrNot, LimitsMeet DEF TurnStep, Abstract!Next, Abstract!Turn
<1>5. CASE insight.phase = "MODEL" /\ insight'.phase # "MODEL" /\ (Call \/ UNCHANGED callVars)
  <2>1. Abstract!MayCall \/ UNCHANGED called
    BY <1>5, CallIsMayCall DEF Sound, callVars
  <2> QED
    BY <1>1, <1>5, <2>1, BusyOrNot DEF TurnStep, Abstract!Next, Abstract!End
<1> QED
  BY <1>2, <1>3, <1>4, <1>5 DEF InsightMoves

-----------------------------------------------------------------------------
(***************************************************************************)
(* The steps of the request.                                               *)
(***************************************************************************)
LEMMA PaperStays == ASSUME PaperSound, UNCHANGED paperVars PROVE PaperSound'
  BY DEF PaperSound, PaperTyped, Gathered, WithinBudget, paperVars

LEMMA InsightStays == ASSUME InsightSound, UNCHANGED insightVars PROVE InsightSound'
  BY DEF InsightSound, InsightTyped, Traced, Placed, Approved, insightVars

\* The supervisor asks its model, or stops, while nobody else works.
LEMMA SupervisorStep ==
  ASSUME Sound, GiveUp \/ Conclude \/ Correct \/ OutOfCalls \/ \E task \in Tasks : Propose(task)
  PROVE  Sound' /\ TurnStep
<1>1. /\ request.phase = "DECIDE" /\ UNCHANGED <<slate, paperVars, insightVars>>
      /\ Call \/ UNCHANGED callVars
  BY DEF GiveUp, Conclude, Correct, OutOfCalls, Propose, Deciding
<1>2. loop.phase = "OFF" /\ insight.phase = "OFF"
  BY <1>1 DEF Sound, Aligned, Searching, Working
<1>3. UNCHANGED <<loop, insight, submitted, files>>
  BY <1>1 DEF paperVars, insightVars
<1>4. TurnStep
  BY <1>1, <1>2, <1>3, IdleTurn DEF Sound, Busy
<1>5. CallSound' /\ PaperSound' /\ InsightSound' /\ Aligned'
  BY <1>1, <1>2, <1>3, CallsCounted, PaperStays, InsightStays DEF Sound, Aligned
<1>6. CASE \E failure \in {None, Policy, "BUDGET", "WORKER"} : Stops(failure)
  <2>1. RequestSound' /\ request'.phase = "END"
    BY <1>6, StopsSound DEF Sound
  <2> QED
    BY <1>4, <1>5, <2>1 DEF Sound, SuccessIsWhole
<1>7. CASE request' = [request EXCEPT !.attempt = 2]
  <2>1. request' = [phase |-> "DECIDE", goal |-> request.goal, attempt |-> 2, task |-> request.task,
                    observations |-> request.observations, failure |-> request.failure]
    BY <1>1, <1>7 DEF Sound, RequestSound, Requests
  <2>2. RequestSound'
    BY <2>1 DEF Sound, RequestSound, Requests
  <2>3. SuccessIsWhole'
    BY <1>1, <1>3, <2>1 DEF Sound, SuccessIsWhole, Observed, Latest
  <2> QED
    BY <1>4, <1>5, <2>2, <2>3 DEF Sound
<1>8. ASSUME NEW task \in Tasks, Propose(task) PROVE Sound' /\ TurnStep
  <2>1. request' = [request EXCEPT !.phase = "DELEGATE", !.attempt = 1, !.task = task]
        /\ Len(request.observations) < MaxDelegations
    BY <1>8 DEF Propose, Justified
  <2>2. request' = [phase |-> "DELEGATE", goal |-> request.goal, attempt |-> 1, task |-> task,
                    observations |-> request.observations, failure |-> request.failure]
    BY <2>1 DEF Sound, RequestSound, Requests
  <2>3. RequestSound' /\ SuccessIsWhole'
    BY <2>1, <2>2 DEF Sound, RequestSound, Requests, SuccessIsWhole
  <2> QED
    BY <1>4, <1>5, <2>3 DEF Sound
<1> QED
  BY <1>6, <1>7, <1>8 DEF GiveUp, Conclude, Correct, OutOfCalls

LEMMA WorkerRaisesSound == ASSUME RequestSound, WorkerRaises PROVE RequestSound' /\ request'.phase = "END"
  BY StopsSound DEF WorkerRaises

\* A worker has answered: the request goes on or ends.
LEMMA Answered ==
  ASSUME Sound, request.phase = "DELEGATE",
         \/ \E status \in {"success", "rejected", "failed", "no_results"} : \E urls \in SUBSET Urls :
               /\ Observes(status, urls)
               /\ request.task.worker = "code" /\ status = "success" => files' = Whole
         \/ Stops("BUDGET")
         \/ WorkerRaises
  PROVE  RequestSound' /\ SuccessIsWhole' /\ request'.phase # "DELEGATE"
<1>1. ASSUME NEW status \in {"success", "rejected", "failed", "no_results"}, NEW urls \in SUBSET Urls,
             Observes(status, urls), request.task.worker = "code" /\ status = "success" => files' = Whole
      PROVE  RequestSound' /\ SuccessIsWhole' /\ request'.phase # "DELEGATE"
  BY <1>1, ObservesSound DEF Sound, SuccessIsWhole
<1>2. CASE Stops("BUDGET")
  BY <1>2, StopsSound DEF Sound, SuccessIsWhole
<1>3. CASE WorkerRaises
  BY <1>3, WorkerRaisesSound DEF Sound, SuccessIsWhole
<1> QED
  BY <1>1, <1>2, <1>3

\* The analysis of a paper that was named: one call and its correction.
LEMMA AnalyzeArxivStep ==
  ASSUME Sound, AnalyzeArxiv
  PROVE  Sound' /\ TurnStep
<1>1. /\ request.phase = "DELEGATE" /\ request.task.worker = "research" /\ request.task.target # None
      /\ UNCHANGED <<slate, paperVars, insightVars>> /\ (Call \/ UNCHANGED callVars)
  BY DEF AnalyzeArxiv, Targeted, Working
<1>2. loop.phase = "OFF" /\ insight.phase = "OFF"
  BY <1>1 DEF Sound, Aligned, Searching, Working
<1>3. UNCHANGED <<loop, insight, submitted, files>>
  BY <1>1 DEF paperVars, insightVars
<1>4. TurnStep
  BY <1>1, <1>2, <1>3, IdleTurn DEF Sound, Busy
<1>5. CallSound' /\ PaperSound' /\ InsightSound' /\ Aligned'
  BY <1>1, <1>2, <1>3, CallsCounted, PaperStays, InsightStays DEF Sound, Aligned
<1>6. CASE request' = [request EXCEPT !.attempt = 2]
  <2>1. request' = [phase |-> "DELEGATE", goal |-> request.goal, attempt |-> 2, task |-> request.task,
                    observations |-> request.observations, failure |-> request.failure]
    BY <1>1, <1>6 DEF Sound, RequestSound, Requests
  <2>2. RequestSound' /\ SuccessIsWhole'
    BY <1>1, <2>1 DEF Sound, RequestSound, Requests, SuccessIsWhole
  <2> QED
    BY <1>4, <1>5, <2>2 DEF Sound
<1>7. LinksOf[request.task.target] \in SUBSET Urls /\ {} \in SUBSET Urls
  <2>1. request.task.target \in Records
    BY <1>1 DEF Sound, RequestSound, Tasks
  <2> QED
    BY <2>1, SupervisedAssumption
<1>8. CASE \/ Observes("failed", {}) \/ Observes("success", LinksOf[request.task.target])
           \/ Stops("BUDGET")
  <2>1. RequestSound' /\ SuccessIsWhole' /\ request'.phase # "DELEGATE"
    BY <1>1, <1>7, <1>8, Answered
  <2> QED
    BY <1>4, <1>5, <2>1 DEF Sound
<1> QED
  BY <1>6, <1>8 DEF AnalyzeArxiv

\* The research worker has answered and its session is gone.
LEMMA ResearchAnswered ==
  ASSUME Sound, Searching, loop.phase \notin Searches, PaperClear, slate' \subseteq submitted',
         UNCHANGED <<insightVars, callVars>>, RequestSound', SuccessIsWhole'
  PROVE  Sound' /\ TurnStep
<1>1. loop'.phase = "OFF" /\ PaperSound'
  BY PaperOff DEF PaperClear, NoLoop
<1>2. insight.phase = "OFF" /\ UNCHANGED insight
  BY DEF Sound, Aligned, Searching, Working, insightVars
<1>3. TurnStep
  BY <1>1, <1>2, IdleTurn DEF Sound, Busy, Searches
<1>4. CallSound' /\ InsightSound' /\ Aligned'
  BY <1>1, <1>2, CallsCounted, InsightStays DEF Sound, Aligned
<1> QED
  BY <1>1, <1>3, <1>4 DEF Sound

LEMMA ResearchStep ==
  ASSUME Sound,
         \/ StartResearch \/ ResearchWorks \/ ResearchFails \/ Rank \/ Refuse
         \/ \E selected \in SUBSET slate : Select(selected)
  PROVE  Sound' /\ TurnStep
<1>1. /\ Searching /\ request.phase = "DELEGATE" /\ request.task.worker = "research"
      /\ UNCHANGED insightVars
  BY DEF StartResearch, ResearchWorks, ResearchFails, Rank, Refuse, Select, ResearchAnswers, Searching, Working
<1>2. insight.phase = "OFF" /\ UNCHANGED <<insight, files>> /\ InsightSound'
  BY <1>1, InsightStays DEF Sound, Aligned, Working, insightVars
<1>3. CASE StartResearch
  <2>1. PaperSound' /\ loop.phase = "OFF" /\ loop'.phase = "MODEL" /\ loop'.turns = 0
        /\ UNCHANGED <<submitted, callVars, request, slate>>
    BY <1>3, PaperStartSound DEF StartResearch, Sound
  <2>2. RequestSound' /\ CallSound' /\ SuccessIsWhole' /\ Aligned'
    BY <1>1, <1>2, <2>1, CallsCounted DEF Sound, RequestSound, SuccessIsWhole, Observed, Latest, Aligned,
                                         Searching, Working
  <2>3. TurnStep
    <3>1. ~ Busy /\ Busy' = TRUE /\ loop'.turns + insight'.turns = 0 /\ called' = called
      BY <1>2, <2>1 DEF Sound, InsightSound, Traced, Busy, callVars
    <3>2. (IF Busy THEN loop.turns + insight.turns ELSE 0)' = IF Busy THEN loop.turns + insight.turns ELSE 0
      BY <3>1
    <3> QED
      BY <3>1, <3>2 DEF TurnStep, Abstract!Next, Abstract!Begin
  <2> QED
    BY <1>2, <2>1, <2>2, <2>3 DEF Sound
<1>4. CASE ResearchWorks
  <2>1. PaperSound' /\ PaperMoves /\ UNCHANGED <<request, slate>>
    BY <1>4, PaperStepSound DEF ResearchWorks, Sound
  <2>2. (Call \/ UNCHANGED callVars) /\ submitted \subseteq submitted' /\ loop'.phase # "OFF"
    BY <2>1 DEF PaperMoves, Searches
  <2>3. RequestSound' /\ CallSound' /\ SuccessIsWhole' /\ Aligned'
    BY <1>1, <1>2, <2>1, <2>2, CallsCounted DEF Sound, RequestSound, SuccessIsWhole, Observed, Latest, Aligned,
                                               Searching, Working
  <2>4. TurnStep
    BY <1>2, <2>1, <2>2, PaperTurns
  <2> QED
    BY <1>2, <2>1, <2>3, <2>4 DEF Sound
<1>5. CASE ResearchFails
  <2>1. /\ loop.phase \notin Searches /\ PaperClear /\ slate' = {} /\ UNCHANGED callVars
        /\ Observes("failed", {}) \/ Stops("BUDGET")
    BY <1>5 DEF ResearchFails, ResearchAnswers, Searches
  <2>2. {} \in SUBSET Urls
    OBVIOUS
  <2>3. RequestSound' /\ SuccessIsWhole'
    BY <1>1, <2>1, <2>2, Answered
  <2> QED
    BY <1>1, <2>1, <2>3, ResearchAnswered
<1>6. CASE Rank
  <2>0. loop.phase = "DONE" /\ slate = {} /\ UNCHANGED callVars
    BY <1>6 DEF Rank
  <2>1. CASE \E recommended \in SUBSET submitted : slate' = recommended /\ UNCHANGED <<request, paperVars>>
    <3>1. slate' \subseteq submitted' /\ UNCHANGED <<loop, request>> /\ PaperSound'
      BY <2>1, PaperStays DEF paperVars, Sound
    <3>2. RequestSound' /\ CallSound' /\ SuccessIsWhole' /\ Aligned'
      BY <1>1, <1>2, <2>0, <3>1, CallsCounted DEF Sound, RequestSound, SuccessIsWhole, Observed, Latest, Aligned,
                                               Searching, Working
    <3>3. TurnStep
      BY <1>2, <2>0, <3>1, IdleTurn DEF Sound, Busy
    <3> QED
      BY <1>2, <3>1, <3>2, <3>3 DEF Sound
  <2>2. CASE (Observes("no_results", {}) \/ Observes("failed", {})) /\ PaperClear /\ UNCHANGED slate
    <3>1. {} \in SUBSET Urls /\ slate' \subseteq submitted' /\ loop.phase \notin Searches
      BY <2>0, <2>2 DEF Searches
    <3>2. RequestSound' /\ SuccessIsWhole'
      BY <1>1, <2>2, <3>1, Answered
    <3> QED
      BY <1>1, <2>0, <2>2, <3>1, <3>2, ResearchAnswered
  <2> QED
    BY <1>6, <2>1, <2>2 DEF Rank
<1>7. CASE Refuse
  <2>1. /\ loop.phase \notin Searches /\ PaperClear /\ slate' = {} /\ UNCHANGED callVars
        /\ Observes("rejected", {}) \/ WorkerRaises
    BY <1>7 DEF Refuse, ResearchAnswers, Searches
  <2>2. {} \in SUBSET Urls
    OBVIOUS
  <2>3. RequestSound' /\ SuccessIsWhole'
    BY <1>1, <2>1, <2>2, Answered
  <2> QED
    BY <1>1, <2>1, <2>3, ResearchAnswered
<1>8. ASSUME NEW selected \in SUBSET slate, Select(selected) PROVE Sound' /\ TurnStep
  <2> DEFINE urls == UNION {Links(paper) : paper \in {paper \in selected : Cardinality(selected) = 1}}
  <2>1. /\ loop.phase \notin Searches /\ PaperClear /\ slate' = {} /\ UNCHANGED callVars
        /\ Observes("success", urls) \/ Observes("failed", {})
    BY <1>8 DEF Select, ResearchAnswers, Searches
  <2>2. {} \in SUBSET Urls /\ urls \in SUBSET Urls
    <3>1. \A paper \in selected : paper.of \subseteq Records
      BY DEF Sound, Aligned, PaperSound, PaperTyped, Paper
    <3>2. \A paper \in selected : Links(paper) \subseteq Urls
      BY <3>1, SupervisedAssumption DEF Links
    <3> QED
      BY <3>2
  <2> HIDE DEF urls
  <2>3. RequestSound' /\ SuccessIsWhole'
    BY <1>1, <2>1, <2>2, Answered
  <2> QED
    BY <1>1, <2>1, <2>3, ResearchAnswered
<1> QED
  BY <1>3, <1>4, <1>5, <1>6, <1>7, <1>8

LEMMA CodeStep ==
  ASSUME Sound,
         \/ StartCode \/ CodeWorks \/ CodeAnswers
         \/ \E decision \in {"APPROVE", "EDIT", "REJECT"} : CodeGate(decision)
  PROVE  Sound' /\ TurnStep
<1>1. /\ Working("code") /\ request.phase = "DELEGATE" /\ request.task.worker = "code"
      /\ UNCHANGED <<slate, paperVars>>
  BY DEF StartCode, CodeWorks, CodeAnswers, CodeGate, Working
<1>2. loop.phase = "OFF" /\ UNCHANGED <<loop, submitted>> /\ PaperSound'
  BY <1>1, PaperStays DEF Sound, Aligned, Searching, Working, paperVars
<1>3. CASE StartCode
  <2>1. InsightSound' /\ insight.phase = "OFF" /\ insight'.phase \in {"GATE", "FAILED"}
        /\ UNCHANGED <<callVars, request>>
    BY <1>3, InsightStartSound DEF StartCode, Sound
  <2>2. RequestSound' /\ CallSound' /\ SuccessIsWhole' /\ Aligned'
    BY <1>1, <1>2, <2>1, CallsCounted DEF Sound, RequestSound, SuccessIsWhole, Aligned, Working
  <2>3. TurnStep
    BY <1>2, <2>1, IdleTurn DEF Sound, Busy
  <2> QED
    BY <1>2, <2>1, <2>2, <2>3 DEF Sound
<1>4. ASSUME InsightSound', InsightMoves, UNCHANGED request PROVE Sound' /\ TurnStep
  <2>1. Call \/ UNCHANGED callVars
    BY <1>4 DEF InsightMoves
  <2>2. RequestSound' /\ CallSound' /\ SuccessIsWhole' /\ Aligned'
    BY <1>1, <1>2, <1>4, <2>1, CallsCounted DEF Sound, RequestSound, SuccessIsWhole, Aligned, Working
  <2>3. TurnStep
    BY <1>2, <1>4, InsightTurns
  <2> QED
    BY <1>2, <1>4, <2>2, <2>3 DEF Sound
<1>5. CASE CodeWorks
  BY <1>4, <1>5, InsightStepSound DEF CodeWorks, Sound
<1>6. ASSUME NEW decision \in {"APPROVE", "EDIT", "REJECT"}, CodeGate(decision) PROVE Sound' /\ TurnStep
  BY <1>4, <1>6, SnapshotGateSound DEF CodeGate, Sound
<1>7. CASE CodeAnswers
  <2>1. InsightSound' /\ insight'.phase = "OFF" /\ UNCHANGED <<files, callVars>>
    BY <1>7, InsightClearSound DEF CodeAnswers, Sound
  <2>2. /\ insight.phase # "MODEL"
        /\ \/ \E status \in {"success", "rejected", "failed"} :
                 Observes(status, {}) /\ (status = "success" => insight.phase = "COMPLETED")
           \/ Stops("BUDGET")
           \/ WorkerRaises
    BY <1>7 DEF CodeAnswers, CodeStatus
  <2>3. insight.phase = "COMPLETED" => files' = Whole
    BY <2>1 DEF Sound, InsightSound, Placed
  <2>4. {} \in SUBSET Urls
    OBVIOUS
  <2>5. RequestSound' /\ SuccessIsWhole' /\ request'.phase # "DELEGATE"
    BY <1>1, <2>2, <2>3, <2>4, Answered
  <2>6. CallSound' /\ Aligned'
    BY <1>1, <1>2, <2>1, CallsCounted DEF Sound, Aligned
  <2>7. TurnStep
    BY <1>2, <2>1, <2>2, IdleTurn DEF Sound, Busy
  <2> QED
    BY <1>2, <2>1, <2>5, <2>6, <2>7 DEF Sound
<1> QED
  BY <1>3, <1>5, <1>6, <1>7

LEMMA SoundKept == ASSUME Sound, [Next]_vars PROVE Sound' /\ TurnStep
<1>1. CASE Next
  BY <1>1, SupervisorStep, AnalyzeArxivStep, ResearchStep, CodeStep DEF Next, Work, Human
<1>2. CASE UNCHANGED vars
  <2>1. UNCHANGED <<request, slate, paperVars, insightVars, callVars>>
    BY <1>2 DEF vars
  <2>2. UNCHANGED <<loop, insight, submitted, files>>
    BY <2>1 DEF paperVars, insightVars
  <2>3. PaperSound' /\ InsightSound' /\ CallSound'
    BY <2>1, PaperStays, InsightStays, CallsCounted DEF Sound
  <2>4. RequestSound' /\ Aligned' /\ SuccessIsWhole'
    BY <2>1, <2>2 DEF Sound, RequestSound, Aligned, Searching, Working, SuccessIsWhole, Observed, Latest
  <2>5. TurnStep
    BY <2>1, <2>2 DEF TurnStep, Busy, callVars
  <2> QED
    BY <2>3, <2>4, <2>5 DEF Sound
<1> QED
  BY <1>1, <1>2

LEMMA SoundFirst == Init => Sound /\ Abstract!Init
<1> SUFFICES ASSUME Init PROVE Sound /\ Abstract!Init
  OBVIOUS
<1>1. RequestSound /\ request.phase = "DECIDE" /\ request.observations = <<>>
  <2>1. <<>> \in Seq(Observation) /\ Len(<<>>) = 0 /\ MaxDelegations \in Nat
    BY SupervisedAssumption
  <2> QED
    BY <2>1 DEF Init, RequestSound, Requests
<1>2. PaperSound /\ loop.phase = "OFF"
  <2>1. MaxPages \in Nat /\ MaxRecords \in Nat
    BY PaperAssumption
  <2> QED
    BY <2>1, NothingCollected DEF Init, PaperInit, PaperSound, PaperTyped, Gathered, WithinBudget,
                                 NoLoop, NoFetch, Loops
<1>3. InsightSound /\ insight.phase = "OFF"
  <2>1. IsFiniteSet({}) /\ Cardinality({}) = 0 /\ MaxReads \in Nat /\ MaxCodeTurns \in Nat
    BY FS_EmptySet, InsightAssumption
  <2> QED
    BY <2>1 DEF Init, InsightInit, InsightSound, InsightTyped, Traced, Placed, Approved, Parts, NoInsight
<1>4. CallSound
  BY CallAssumption DEF Init, CallInit, CallSound
<1>5. Aligned /\ SuccessIsWhole
  BY <1>1, <1>2, <1>3 DEF Init, Aligned, SuccessIsWhole, Observed
<1>6. Abstract!Init
  BY <1>2, <1>3 DEF Abstract!Init, Busy, Init, CallInit
<1> QED
  BY <1>1, <1>2, <1>3, <1>4, <1>5, <1>6 DEF Sound

LEMMA AlwaysSound == Spec => []Sound
<1>1. Init => Sound
  BY SoundFirst
<1>2. Sound /\ [Next]_vars => Sound'
  BY SoundKept
<1> QED
  BY <1>1, <1>2, PTL DEF Spec

-----------------------------------------------------------------------------
\* Every variable keeps its type; a merged paper is of the records it was merged from.
THEOREM TypeCorrect == Spec => []TypeOK
<1>1. Sound => TypeOK
  <2> SUFFICES ASSUME Sound PROVE TypeOK
    OBVIOUS
  <2>1. request \in Requests /\ Len(request.observations) <= MaxDelegations
    BY DEF Sound, RequestSound
  <2>2. /\ request.phase \in {"DECIDE", "DELEGATE", "END"} /\ request.goal \in Goals
        /\ request.task \in Tasks \cup {None} /\ request.failure \in {None, Policy, "BUDGET", "WORKER"}
        /\ request.observations \in Seq(Observation)
    BY <2>1 DEF Requests
  <2>3. ToSet(request.observations) \subseteq Observation
    BY <2>2 DEF ToSet
  <2>4. slate \subseteq submitted
    BY DEF Sound, Aligned
  <2>5. PaperTyped
    BY DEF Sound, PaperSound
  <2>6. /\ \A paper \in papers \cup submitted : paper \in Paper
        /\ inspected \subseteq {IdOf[r] : r \in Records}
        /\ loop.phase \in {"OFF", "MODEL", "FETCH", "DONE", "FAILED", "EXHAUSTED"}
    BY <2>5 DEF PaperTyped, Loops
  <2>7. /\ insight.phase \in {"OFF", "GATE", "ANALYZE", "MODEL", "WRITE"} \cup Ended
        /\ reads \subseteq Paths /\ executed \subseteq Tools
    BY DEF Sound, InsightSound, InsightTyped
  <2>8. files \subseteq ToSet(Artifacts)
    <3>1. files \in Parts \cup {Whole}
      BY DEF Sound, InsightSound, Placed
    <3>2. /\ Len(Artifacts) = 4
          /\ Artifacts[1] = "advice.json" /\ Artifacts[2] = "advice.md" /\ Artifacts[3] = "tool-trace.json"
      BY DEF Artifacts
    <3>3. {"advice.json", "advice.md", "tool-trace.json"} \subseteq ToSet(Artifacts)
      BY <3>2 DEF ToSet
    <3> QED
      BY <3>1, <3>3 DEF Parts, Whole
  <2> QED
    BY <2>1, <2>2, <2>3, <2>4, <2>6, <2>7, <2>8 DEF TypeOK
<1> QED
  BY AlwaysSound, <1>1, PTL

\* Whatever pages two searches brought and in whatever order, what a model is shown are
\* the works of the records, each once, as normalize_and_deduplicate merges them.
THEOREM WorksAreMerged == Spec => []PapersAreWorks
<1>1. Sound => PapersAreWorks
  <2> SUFFICES ASSUME Sound PROVE PapersAreWorks
    OBVIOUS
  <2>1. raw \in Seq(Records) /\ papers = Collected(raw)
    BY DEF Sound, PaperSound, PaperTyped, Gathered
  <2>2. AreWorks(papers, raw)
    BY <2>1, CollectedAreWorks
  <2>3. Works = WorksOf(raw)
    BY DEF Works, WorksOf
  <2> QED
    BY <2>2, <2>3 DEF AreWorks, PapersAreWorks
<1> QED
  BY AlwaysSound, <1>1, PTL

\* Two searches, and the pages of the one that runs, stay within one budget.
THEOREM BudgetIsShared == Spec => []BudgetShared
<1>1. Sound => BudgetShared
  BY DEF Sound, PaperSound, WithinBudget, BudgetShared
<1> QED
  BY AlwaysSound, <1>1, PTL

\* What the code loop submits passes the validators of its trace and of its result,
\* in whatever order its turns came.
THEOREM AdviceIsValid == Spec => []AdviceValidates
<1>1. Sound => AdviceValidates
  <2> SUFFICES ASSUME Sound, insight.phase \in {"WRITE", "COMPLETED"}
               PROVE  /\ Tools \subseteq executed
                      /\ Cardinality(Tools) <= insight.turns /\ insight.turns <= MaxCodeTurns
                      /\ reads # {} /\ Cardinality(reads) <= MaxReads
                      /\ advice # {} /\ advice \subseteq reads
    BY DEF AdviceValidates
  <2>1. Tools = executed
    BY DEF Sound, InsightSound, InsightTyped, Traced
  <2> QED
    BY <2>1 DEF Sound, InsightSound, Traced
<1> QED
  BY AlwaysSound, <1>1, PTL

\* A result on disk has its three other files, wherever the writes stopped.
THEOREM ArtifactsAreWhole == Spec => []ArtifactsWhole
<1>1. Sound => ArtifactsWhole
  <2>1. \A part \in Parts : "repository-insight.json" \notin part
    BY DEF Parts
  <2> QED
    BY <2>1 DEF Sound, InsightSound, Placed, SuccessIsWhole, Whole, ArtifactsWhole
<1> QED
  BY AlwaysSound, <1>1, PTL

\* No source is read, and nothing is written, before the approval of this repository.
THEOREM ReadsAreApproved == Spec => []NothingReadUnapproved
<1>1. Sound => NothingReadUnapproved
  BY DEF Sound, InsightSound, Approved, NothingReadUnapproved
<1> QED
  BY AlwaysSound, <1>1, PTL

\* The request makes its calls as TurnLoop says: never more than the budget, and a tool
\* loop never more than its turns.
THEOREM ImplementsTurnLoop == Spec => IsTurnLoop
<1>1. Init => Abstract!Init
  BY SoundFirst
<1>2. Sound /\ [Next]_vars => [Abstract!Next]_<<Busy, IF Busy THEN loop.turns + insight.turns ELSE 0, called>>
  BY SoundKept DEF TurnStep
<1> QED
  BY AlwaysSound, <1>1, <1>2, PTL DEF Spec, IsTurnLoop, Abstract!Spec, Abstract!turnVars
=============================================================================
