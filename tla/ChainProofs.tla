----------------------------- MODULE ChainProofs -----------------------------
(***************************************************************************)
(* The chains of a task that has the volume to itself, keeps the rules for *)
(* open files and meets no fault: ChainsAreSound of FatChains for every    *)
(* volume.  L and E give each cluster in use its distance to the end of    *)
(* its chain and that end; what a call owes the entry it changes is said   *)
(* in them, stage by stage, and each write to the table changes them with  *)
(* it.                                                                     *)
(***************************************************************************)
EXTENDS FatProofs

-----------------------------------------------------------------------------
(* Chains match their entries.                                             *)

\* L[k] is how many clusters there are from k to the end of its chain, and E[k] the
\* last of them; a free cluster has none.
Ranked(f, L, E) ==
  /\ L \in [Clusters -> Nat] /\ E \in [Clusters -> Clusters]
  /\ \A k \in Clusters :
       /\ f[k] = None => L[k] = 0
       /\ f[k] = EOC => L[k] = 1 /\ E[k] = k
       /\ f[k] \in Clusters => L[f[k]] >= 1 /\ L[k] = L[f[k]] + 1 /\ E[k] = E[f[k]]

\* The chain that starts at k has n clusters.
HasLength(L, k, n) == IF k = None THEN n = 0 ELSE k \in Clusters /\ L[k] = n

\* Entry e has the chain it should have.
Fulfils(L, e) ==
  IF e.first_cluster = None
    THEN e.kind = "file" /\ e.size = 0
    ELSE L[e.first_cluster] = IF e.kind = "file" THEN e.size ELSE 1

\* All entries have, but for those the call is changing.
Changing(c) ==
  (IF c.op = "write" THEN {c.slot} ELSE {})
  \cup (IF c.op = "rename" /\ c.at = "attribute" THEN {c.to} ELSE {})
  \cup Emptying(c)

Fulfilled(L, D, c) ==
  \A s \in Slots \ Changing(c) : D[s].kind # "free" => Fulfils(L, D[s])

\* The descriptors have what the entries say, but for the one in a write.
Agree(D, W, c) ==
  \A d \in Descriptors : W[d].open /\ ~(c.op = "write" /\ c.fd = d) =>
    /\ D[W[d].slot].first_cluster = W[d].first_cluster /\ D[W[d].slot].size = W[d].size

\* The entry says what the call knows of the file, and it is so.
Settled(L, D, c) ==
  /\ D[c.slot].first_cluster = c.chain /\ D[c.slot].size = c.size
  /\ HasLength(L, c.chain, c.size)

\* The file is as it was before the call, or has the clusters it needs.
Enough(L, D, c) ==
  c.chain \in Clusters /\ L[c.chain] >= 1 /\ (Settled(L, D, c) \/ L[c.chain] >= c.count)

\* allocchain: the clusters it has and those it wants are those that are missing.
Got(L, c) == IF c.first = None THEN 0 ELSE L[c.first]
Missing(c) == IF c.op = "mkdir" THEN 1 ELSE c.count - c.size

Appends(L, E, D, c) ==
  /\ Settled(L, D, c)
  /\ c.tail = None => c.chain = None
  /\ c.tail # None => c.chain # None /\ L[c.tail] = 1 /\ E[c.chain] = c.tail

Grows(L, E, D, c) ==
  /\ Got(L, c) + c.left = Missing(c)
  /\ c.first # None => E[c.first] = c.previous /\ L[c.previous] = 1
  /\ c.op = "write" => Appends(L, E, D, c)

\* chain_length and get_nth_cluster: where the cluster is on the chain.
Stands(L, E, c) == c.cluster \in Clusters /\ E[c.cluster] = E[c.chain] /\ L[c.cluster] >= 1

Walking(L, E, D, c) ==
  /\ c.at = "length" =>
       Stands(L, E, c) /\ Enough(L, D, c) /\ L[c.cluster] + c.found = L[c.chain]
  /\ c.at = "nth" =>
       /\ Stands(L, E, c) /\ Enough(L, D, c) /\ c.found = L[c.chain]
       /\ L[c.cluster] = c.left + 1 + IF c.found > c.count THEN c.found - c.count ELSE 0
  /\ c.at \in {"next", "cut"} =>
       /\ Stands(L, E, c) /\ c.chain \in Clusters /\ c.found = L[c.chain] /\ c.found > c.count
       /\ L[c.cluster] = c.found - c.count + 1

Allocating(L, E, D, c) ==
  /\ c.at \in {"scan", "mark", "link", "append"} => Grows(L, E, D, c)
  /\ c.at = "link" => L[c.cluster] = 1 /\ E[c.cluster] = c.cluster
  /\ c.at = "append" => c.left = 0 /\ c.tail # None
  /\ c.op = "mkdir" /\ c.at \in {"place", "entry"} => L[c.first] = 1

\* What a call owes the entry it is to write, or what it has read of it.
Writing(L, D, c) ==
  /\ c.gap => c.count > c.size
  /\ c.undo => c.at \in {"free", "clear", "return"}
  /\ c.at \in {"free", "clear"} =>
       IF c.undo THEN Settled(L, D, c) ELSE c.chain \in Clusters /\ L[c.chain] = c.count
  /\ c.at = "entry" => HasLength(L, c.chain, c.size)
  /\ c.at = "return" => Settled(L, D, c)

Moving(L, D, c) ==
  /\ c.at \in {"place", "entry", "attribute"} =>
       Fulfils(L, [kind |-> c.kind, first_cluster |-> c.chain, size |-> c.size])
  /\ c.at = "attribute" => D[c.to].first_cluster = c.chain /\ D[c.to].size = c.size

Owes(L, E, D, c) ==
  /\ Walking(L, E, D, c) /\ Allocating(L, E, D, c)
  /\ c.op = "write" => Writing(L, D, c)
  /\ c.op = "rename" => Moving(L, D, c)
  /\ c.op = "open" /\ c.at = "entry" => c.chain = None /\ c.size = 0
  /\ c.op = "open" /\ c.at = "return" /\ c.ok =>
       D[c.slot].first_cluster = c.chain /\ D[c.slot].size = c.size
  /\ c.op = "close" => D[c.slot].first_cluster = c.chain /\ D[c.slot].size = c.size

Matched(f, L, E, D, W, c) ==
  Ranked(f, L, E) /\ Fulfilled(L, D, c) /\ Agree(D, W, c) /\ Owes(L, E, D, c)

-----------------------------------------------------------------------------
(* Lengths and ends of chains.                                             *)

\* Two clusters of one chain at the same distance from its end are one.
LEMMA RankIsPlace ==
  ASSUME NEW f \in Tables, NEW L, NEW E, NEW D, NEW R, Ranked(f, L, E), Apart(f, D, R),
         NEW x \in Clusters, NEW y \in Clusters, L[x] >= 1, L[x] = L[y], E[x] = E[y]
  PROVE  x = y
<1> DEFINE Bad == {n \in Nat : \E a, b \in Clusters :
                     n = L[a] /\ n = L[b] /\ n >= 1 /\ E[a] = E[b] /\ a # b}
<1> SUFFICES ASSUME Bad # {} PROVE FALSE
  BY DEF Ranked
<1>1. Bad \in SUBSET Nat
  OBVIOUS
<1>2. PICK m \in Bad : \A n \in Bad : m <= n
  BY <1>1, HasLeast
<1>3. PICK a \in Clusters, b \in Clusters :
        m = L[a] /\ m = L[b] /\ m >= 1 /\ E[a] = E[b] /\ a # b
  BY <1>2
<1>4. \A k \in Clusters : L[k] \in Nat /\ f[k] \in Clusters \cup {None, EOC}
  BY DEF Ranked, Tables, Links
<1>5. CASE m = 1
  <2>1. f[a] = EOC /\ f[b] = EOC
    BY <1>3, <1>4, <1>5 DEF Ranked
  <2> QED
    BY <1>3, <2>1 DEF Ranked
<1>6. CASE m # 1
  <2>0. ASSUME NEW k \in Clusters, L[k] = m
        PROVE  f[k] \in Clusters /\ L[f[k]] = m - 1 /\ m - 1 >= 1 /\ E[f[k]] = E[k]
    <3>1. f[k] \in Clusters
      BY <1>3, <1>4, <1>6, <2>0 DEF Ranked
    <3>2. L[f[k]] >= 1 /\ m = L[f[k]] + 1 /\ E[k] = E[f[k]] /\ L[f[k]] \in Nat
      BY <1>4, <2>0, <3>1 DEF Ranked
    <3> QED
      BY <3>1, <3>2
  <2>1. f[a] \in Clusters /\ f[b] \in Clusters
    BY <1>3, <2>0
  <2>2. /\ L[f[a]] = m - 1 /\ L[f[b]] = m - 1 /\ m - 1 >= 1 /\ m - 1 \in Nat
        /\ E[f[a]] = E[f[b]]
    BY <1>3, <1>4, <2>0
  <2>3. m - 1 \notin Bad
    BY <1>2, <2>2
  <2>4. f[a] = f[b]
    BY <2>1, <2>2, <2>3
  <2>5. a \in Preds(f, f[a]) /\ b \in Preds(f, f[a])
    BY <2>4 DEF Preds
  <2> QED
    BY <1>3, <2>1, <2>5 DEF Apart
<1> QED
  BY <1>5, <1>6

\* Nothing leads to the first cluster of a chain, so no other one is as far from its end.
LEMMA HeadIsFirst ==
  ASSUME NEW f \in Tables, NEW L, NEW E, NEW D, NEW R, Ranked(f, L, E), Apart(f, D, R),
         NEW x \in Clusters, NEW y \in Clusters, f[x] # None, f[y] # None, E[x] = E[y],
         Preds(f, x) = {}
  PROVE  L[y] <= L[x]
<1> DEFINE S == {n \in Nat : n > L[x] /\ \E a \in Clusters : n = L[a] /\ E[a] = E[x]}
<1>0. \A k \in Clusters : L[k] \in Nat /\ f[k] \in Clusters \cup {None, EOC}
  BY DEF Ranked, Tables, Links
<1> SUFFICES ASSUME S # {} PROVE FALSE
  BY <1>0
<1>1. PICK m \in S : \A n \in S : m <= n
  BY HasLeast
<1>2. PICK a \in Clusters : m = L[a] /\ E[a] = E[x] /\ m > L[x]
  BY <1>1
<1>3. L[x] >= 1
  BY <1>0 DEF Ranked
<1>4. f[a] \in Clusters
  BY <1>0, <1>2, <1>3 DEF Ranked
<1>5. L[f[a]] = m - 1 /\ E[f[a]] = E[x] /\ m - 1 \in Nat
  BY <1>0, <1>2, <1>3, <1>4 DEF Ranked
<1>6. m - 1 \notin S
  BY <1>1, <1>5
<1>7. L[f[a]] = L[x]
  BY <1>0, <1>2, <1>4, <1>5, <1>6
<1>8. f[a] = x
  BY <1>2, <1>3, <1>4, <1>5, <1>7, RankIsPlace
<1> QED
  BY <1>8 DEF Preds

\* Two first clusters of one chain are one.
LEMMA HeadsApart ==
  ASSUME NEW f \in Tables, NEW L, NEW E, NEW D, NEW R, Ranked(f, L, E), Apart(f, D, R),
         NEW x \in Clusters, NEW y \in Clusters, f[x] # None, f[y] # None, E[x] = E[y],
         Preds(f, x) = {}, Preds(f, y) = {}
  PROVE  x = y
<1>0. L[x] \in Nat /\ L[y] \in Nat /\ f[x] \in Clusters \cup {None, EOC}
  BY DEF Ranked, Tables, Links
<1>1. L[y] <= L[x] /\ L[x] <= L[y]
  BY HeadIsFirst
<1>2. L[x] >= 1
  BY <1>0 DEF Ranked
<1> QED
  BY <1>0, <1>1, <1>2, RankIsPlace

\* What the distance says of the entry of the table.
LEMMA UsedHasLength ==
  ASSUME NEW f \in Tables, NEW L, NEW E, Ranked(f, L, E), NEW k \in Clusters
  PROVE  /\ L[k] \in Nat /\ E[k] \in Clusters /\ f[k] \in Clusters \cup {None, EOC}
         /\ L[k] >= 1 <=> f[k] # None
         /\ L[k] = 1 <=> f[k] = EOC
         /\ L[k] >= 2 <=> f[k] \in Clusters
<1>1. L[k] \in Nat /\ E[k] \in Clusters /\ f[k] \in Clusters \cup {None, EOC}
  BY DEF Ranked, Tables, Links
<1>2. EOC \notin Clusters /\ EOC # None /\ None \notin Clusters
  BY NoCluster
<1>3. \A j \in Clusters : L[j] \in Nat
  BY DEF Ranked
<1> QED
  BY <1>1, <1>2, <1>3 DEF Ranked

-----------------------------------------------------------------------------
(* The writes to the table.                                                *)

\* A free cluster is marked: a chain of one.
LEMMA MarkRanks ==
  ASSUME NEW f \in Tables, NEW L, NEW E, Ranked(f, L, E), NEW k \in Clusters, f[k] = None,
         Preds(f, k) = {}
  PROVE  Ranked([f EXCEPT ![k] = EOC], [L EXCEPT ![k] = 1], [E EXCEPT ![k] = k])
<1> DEFINE g == [f EXCEPT ![k] = EOC]
           M == [L EXCEPT ![k] = 1]
           F == [E EXCEPT ![k] = k]
<1>0. EOC \notin Clusters /\ EOC # None /\ None \notin Clusters
  BY NoCluster
<1>1. /\ M \in [Clusters -> Nat] /\ F \in [Clusters -> Clusters]
      /\ \A x \in Clusters : /\ g[x] = (IF x = k THEN EOC ELSE f[x])
                             /\ M[x] = (IF x = k THEN 1 ELSE L[x])
                             /\ F[x] = (IF x = k THEN k ELSE E[x])
  BY DEF Ranked, Tables
<1>2. \A x \in Clusters : f[x] # k
  BY DEF Preds
<1> HIDE DEF g, M, F
<1> SUFFICES Ranked(g, M, F)
  BY DEF g, M, F
<1> QED
  BY <1>0, <1>1, <1>2 DEF Ranked

\* The first cluster of a chain is freed.
LEMMA ClearRanks ==
  ASSUME NEW f \in Tables, NEW L, NEW E, Ranked(f, L, E), NEW k \in Clusters,
         Preds(f, k) = {}
  PROVE  Ranked([f EXCEPT ![k] = None], [L EXCEPT ![k] = 0], E)
<1> DEFINE g == [f EXCEPT ![k] = None]
           M == [L EXCEPT ![k] = 0]
<1>0. EOC \notin Clusters /\ EOC # None /\ None \notin Clusters
  BY NoCluster
<1>1. /\ M \in [Clusters -> Nat] /\ E \in [Clusters -> Clusters]
      /\ \A x \in Clusters : /\ g[x] = (IF x = k THEN None ELSE f[x])
                             /\ M[x] = (IF x = k THEN 0 ELSE L[x])
  BY DEF Ranked, Tables
<1>2. \A x \in Clusters : f[x] # k
  BY DEF Preds
<1> HIDE DEF g, M
<1> SUFFICES Ranked(g, M, E)
  BY DEF g, M
<1> QED
  BY <1>0, <1>1, <1>2 DEF Ranked

\* A chain that ends in t goes on with the one from k.
Longer(L, E, t, k) ==
  [x \in Clusters |-> IF L[x] >= 1 /\ E[x] = t THEN L[x] + L[k] ELSE L[x]]
EndsAt(L, E, t, k) ==
  [x \in Clusters |-> IF L[x] >= 1 /\ E[x] = t THEN E[k] ELSE E[x]]

\* The last cluster of a chain gets a link to another chain.
LEMMA LinkRanks ==
  ASSUME NEW f \in Tables, NEW L, NEW E, Ranked(f, L, E), NEW t \in Clusters,
         NEW k \in Clusters, f[t] = EOC, f[k] # None, E[k] # t
  PROVE  Ranked([f EXCEPT ![t] = k], Longer(L, E, t, k), EndsAt(L, E, t, k))
<1> DEFINE g == [f EXCEPT ![t] = k]
           M == Longer(L, E, t, k)
           F == EndsAt(L, E, t, k)
<1>0. EOC \notin Clusters /\ EOC # None /\ None \notin Clusters
  BY NoCluster
<1>1. \A x \in Clusters : /\ g[x] = (IF x = t THEN k ELSE f[x])
                          /\ M[x] = (IF L[x] >= 1 /\ E[x] = t THEN L[x] + L[k] ELSE L[x])
                          /\ F[x] = (IF L[x] >= 1 /\ E[x] = t THEN E[k] ELSE E[x])
  BY DEF Tables, Longer, EndsAt
<1>2. \A x \in Clusters : L[x] \in Nat /\ E[x] \in Clusters
  BY UsedHasLength
<1>3. M \in [Clusters -> Nat] /\ F \in [Clusters -> Clusters]
  BY <1>2 DEF Longer, EndsAt
<1>4. L[k] >= 1 /\ L[t] = 1 /\ E[t] = t
  BY UsedHasLength DEF Ranked
<1> HIDE DEF g, M, F
<1> SUFFICES Ranked(g, M, F)
  BY DEF g, M, F
<1>5. ASSUME NEW x \in Clusters
      PROVE  /\ g[x] = None => M[x] = 0
             /\ g[x] = EOC => M[x] = 1 /\ F[x] = x
             /\ g[x] \in Clusters => M[g[x]] >= 1 /\ M[x] = M[g[x]] + 1 /\ F[x] = F[g[x]]
  <2>1. CASE x = t
    BY <1>0, <1>1, <1>2, <1>4, <2>1
  <2>2. CASE x # t /\ f[x] \in Clusters
    <3> DEFINE y == f[x]
    <3>1. y \in Clusters /\ g[x] = y /\ L[y] >= 1 /\ L[x] = L[y] + 1 /\ E[x] = E[y]
      BY <1>1, <2>2 DEF Ranked
    <3> HIDE DEF y
    <3> QED
      BY <1>0, <1>1, <1>2, <1>4, <3>1
  <2>3. CASE x # t /\ f[x] \notin Clusters
    BY <1>0, <1>1, <1>2, <1>4, <2>3 DEF Ranked
  <2> QED
    BY <2>1, <2>2, <2>3
<1> QED
  BY <1>3, <1>5 DEF Ranked

\* The chain through k ends there.
Before(L, E, k) == {x \in Clusters : L[x] >= L[k] /\ E[x] = E[k]}
Shorter(L, E, k) ==
  [x \in Clusters |-> IF x \in Before(L, E, k) THEN L[x] + 1 - L[k] ELSE L[x]]
StopsAt(L, E, k) == [x \in Clusters |-> IF x \in Before(L, E, k) THEN k ELSE E[x]]

\* The link of a cluster becomes the end mark.
LEMMA CutRanks ==
  ASSUME NEW f \in Tables, NEW L, NEW E, NEW D, NEW R, Ranked(f, L, E), Apart(f, D, R),
         NEW k \in Clusters, f[k] \in Clusters
  PROVE  Ranked([f EXCEPT ![k] = EOC], Shorter(L, E, k), StopsAt(L, E, k))
<1> DEFINE g == [f EXCEPT ![k] = EOC]
           U == Before(L, E, k)
           M == Shorter(L, E, k)
           F == StopsAt(L, E, k)
<1>0. EOC \notin Clusters /\ EOC # None /\ None \notin Clusters
  BY NoCluster
<1>1. \A x \in Clusters : /\ g[x] = (IF x = k THEN EOC ELSE f[x])
                          /\ M[x] = (IF x \in U THEN L[x] + 1 - L[k] ELSE L[x])
                          /\ F[x] = (IF x \in U THEN k ELSE E[x])
  BY DEF Tables, Shorter, StopsAt
<1>2. \A x \in Clusters : /\ L[x] \in Nat /\ E[x] \in Clusters
                          /\ x \in U <=> L[x] >= L[k] /\ E[x] = E[k]
  BY UsedHasLength DEF Before
<1>3. L[k] >= 2
  BY UsedHasLength
<1>4. ASSUME NEW x \in Clusters, x \in U, x # k
      PROVE  L[x] > L[k]
  BY <1>2, <1>3, <1>4, RankIsPlace
<1> HIDE DEF g, M, F, U
<1> SUFFICES Ranked(g, M, F)
  BY DEF g, M, F
<1>5. M \in [Clusters -> Nat] /\ F \in [Clusters -> Clusters]
  <2>1. \A x \in Clusters : M[x] \in Nat /\ F[x] \in Clusters
    BY <1>1, <1>2
  <2>2. M = [x \in Clusters |-> M[x]] /\ F = [x \in Clusters |-> F[x]]
    BY DEF M, F, Shorter, StopsAt
  <2> QED
    BY <2>1, <2>2
<1>6. ASSUME NEW x \in Clusters
      PROVE  /\ g[x] = None => M[x] = 0
             /\ g[x] = EOC => M[x] = 1 /\ F[x] = x
             /\ g[x] \in Clusters => M[g[x]] >= 1 /\ M[x] = M[g[x]] + 1 /\ F[x] = F[g[x]]
  <2>1. CASE x = k
    BY <1>0, <1>1, <1>2, <1>3, <2>1
  <2>2. CASE x # k /\ f[x] \in Clusters
    <3> DEFINE y == f[x]
    <3>1. y \in Clusters /\ g[x] = y /\ L[y] >= 1 /\ L[x] = L[y] + 1 /\ E[x] = E[y]
      BY <1>1, <2>2 DEF Ranked
    <3> HIDE DEF y
    <3>2. x \in U <=> y \in U
      BY <1>2, <1>4, <2>2, <3>1
    <3> QED
      BY <1>0, <1>1, <1>2, <3>1, <3>2
  <2>3. CASE x # k /\ f[x] \notin Clusters
    <3>1. (f[x] = EOC => L[x] = 1 /\ E[x] = x) /\ (f[x] = None => L[x] = 0) /\ L[x] <= 1
      BY <1>0, <1>2, <2>3, UsedHasLength DEF Ranked
    <3>2. x \notin U
      BY <1>2, <1>3, <3>1
    <3> QED
      BY <1>0, <1>1, <2>3, <3>1, <3>2
  <2> QED
    BY <2>1, <2>2, <2>3
<1> QED
  BY <1>5, <1>6 DEF Ranked
-----------------------------------------------------------------------------
(* How many clusters a chain has.                                          *)

\* The clusters of the chain that starts at k.
Onward(L, E, k) == {x \in Clusters : E[x] = E[k] /\ L[x] >= 1 /\ L[x] <= L[k]}

\* A chain has a cluster at each distance from its end.
LEMMA EachRankOnce ==
  ASSUME NEW f \in Tables, NEW L, NEW E, Ranked(f, L, E), NEW k \in Clusters,
         NEW i \in 1..L[k]
  PROVE  \E x \in Onward(L, E, k) : L[x] = i
<1> DEFINE Bad == {j \in Nat : j < L[k] /\ ~\E x \in Clusters : E[x] = E[k] /\ L[x] = L[k] - j}
<1>0. \A x \in Clusters : L[x] \in Nat
  BY DEF Ranked
<1>1. ASSUME Bad # {} PROVE FALSE
  <2>1. PICK m \in Bad : \A n \in Bad : m <= n
    BY <1>1, HasLeast
  <2>2. m # 0
    BY <1>0, <2>1
  <2>3. m - 1 \in Nat /\ m - 1 < L[k] /\ m < L[k] /\ m - 1 \notin Bad
    BY <1>0, <2>1, <2>2
  <2>4. PICK x \in Clusters : E[x] = E[k] /\ L[x] = L[k] - (m - 1)
    BY <2>3
  <2>5. L[x] >= 2
    BY <1>0, <2>3, <2>4
  <2>6. f[x] \in Clusters
    BY <2>5, UsedHasLength
  <2>7. L[x] = L[f[x]] + 1 /\ E[f[x]] = E[k] /\ L[f[x]] \in Nat
    BY <1>0, <2>4, <2>6 DEF Ranked
  <2>8. L[f[x]] = L[k] - m
    BY <1>0, <2>3, <2>4, <2>7
  <2> QED
    BY <2>1, <2>6, <2>7, <2>8
<1>2. L[k] - i \in Nat /\ L[k] - i < L[k] /\ L[k] - (L[k] - i) = i
  BY <1>0
<1>3. PICK x \in Clusters : E[x] = E[k] /\ L[x] = i
  BY <1>1, <1>2
<1> QED
  BY <1>0, <1>3 DEF Onward

\* A chain has as many clusters as its first one is from its end.
LEMMA ChainCounts ==
  ASSUME NEW f \in Tables, NEW L, NEW E, NEW D, NEW R, Ranked(f, L, E), Apart(f, D, R),
         NEW k \in Clusters
  PROVE  Cardinality(Onward(L, E, k)) = L[k] /\ L[k] <= MaxCluster - 1
<1> DEFINE S == Onward(L, E, k)
           h == [x \in S |-> L[x]]
<1>0. \A x \in Clusters : L[x] \in Nat
  BY DEF Ranked
<1>1. S \subseteq Clusters /\ \A x \in S : L[x] \in 1..L[k] /\ E[x] = E[k]
  BY <1>0 DEF Onward
<1>2. \A i \in 1..L[k] : \E x \in S : L[x] = i
  BY EachRankOnce
<1> HIDE DEF S
<1>3. h \in Injection(S, 1..L[k])
  <2>1. \A x, y \in S : L[x] = L[y] => x = y
    BY <1>0, <1>1, RankIsPlace
  <2> QED
    BY <1>1, <2>1 DEF Injection, IsInjective
<1>4. h \in Surjection(S, 1..L[k])
  BY <1>1, <1>2 DEF Surjection
<1>5. IsFiniteSet(1..L[k]) /\ Cardinality(1..L[k]) = L[k]
  <2> DEFINE n == L[k]
  <2>1. n \in Nat
    BY <1>0
  <2> HIDE DEF n
  <2>2. IsFiniteSet(1..n) /\ Cardinality(1..n) = IF 1 > n THEN 0 ELSE n - 1 + 1
    BY <2>1, FS_Interval
  <2>3. IsFiniteSet(1..n) /\ Cardinality(1..n) = n
    BY <2>1, <2>2
  <2> QED
    BY <2>3 DEF n
<1> HIDE DEF h
<1>6. Cardinality(S) = L[k]
  BY <1>3, <1>4, <1>5, FS_Injection
<1>7. IsFiniteSet(Clusters) /\ Cardinality(Clusters) = MaxCluster - 1
  BY FS_Interval, FatAssumption DEF Clusters
<1>8. Cardinality(S) <= MaxCluster - 1
  BY <1>1, <1>7, FS_Subset
<1> QED
  BY <1>6, <1>8 DEF S

\* A walk along the chain reaches the end mark, and passes each cluster of it.
LEMMA FollowRanks ==
  ASSUME fat \in Tables, NEW L, NEW E, NEW D, NEW R, Ranked(fat, L, E), Apart(fat, D, R),
         NEW k \in Clusters, fat[k] # None
  PROVE  Follow(k)[MaxCluster] = EOC /\ Cardinality(Chain(k)) = L[k]
<1> DEFINE w == Follow(k)
           m == L[k]
           S == Onward(L, E, k)
           Right(n) == IF n < m THEN w[n] \in Clusters /\ L[w[n]] = m - n /\ E[w[n]] = E[k]
                                ELSE w[n] = EOC
           Bad == {n \in Nat : n <= MaxCluster /\ ~Right(n)}
<1>0. MaxCluster \in Nat /\ MaxCluster >= 2 /\ EOC \notin Clusters
  BY FatAssumption, NoCluster
<1>1. Cardinality(S) = m /\ m <= MaxCluster - 1 /\ m \in Nat /\ m >= 1
  BY ChainCounts, UsedHasLength
<1>2. IsWalk(w, k, MaxCluster)
  BY FollowWalks
<1>3. Chain(k) = {w[n] : n \in 0..MaxCluster} \cap Clusters
  BY DEF Chain
<1> HIDE DEF w
<1>4. w[0] = k /\ \A n \in 1..MaxCluster :
                    w[n] = IF w[n - 1] \in Clusters THEN fat[w[n - 1]] ELSE w[n - 1]
  BY <1>0, <1>2 DEF IsWalk
<1>5. m = L[k] /\ \A x \in Clusters : L[x] \in Nat
  BY DEF Ranked
<1> HIDE DEF m
<1>6. ASSUME Bad # {} PROVE FALSE
  <2>1. PICK n \in Bad : \A i \in Bad : n <= i
    BY <1>6, HasLeast
  <2>2. n # 0
    BY <1>1, <1>4, <1>5, <2>1
  <2>3. n - 1 \in Nat /\ n \in 1..MaxCluster /\ Right(n - 1) /\ ~Right(n) /\ n - 1 < n
    <3>1. n \in Nat /\ n <= MaxCluster /\ ~Right(n)
      BY <2>1
    <3>2. n - 1 \in Nat /\ n - 1 <= MaxCluster /\ ~(n <= n - 1)
      BY <1>0, <2>2, <3>1
    <3>3. n - 1 \notin Bad
      BY <2>1, <3>2
    <3> HIDE DEF Right
    <3>4. Right(n - 1)
      BY <3>2, <3>3
    <3> QED
      BY <1>0, <3>1, <3>2, <3>4
  <2>4. w[n] = IF w[n - 1] \in Clusters THEN fat[w[n - 1]] ELSE w[n - 1]
    BY <1>4, <2>3
  <2>5. CASE n - 1 < m
    <3> DEFINE x == w[n - 1]
    <3>1. x \in Clusters /\ L[x] = m - (n - 1) /\ E[x] = E[k] /\ w[n] = fat[x]
      BY <2>3, <2>4, <2>5
    <3> HIDE DEF x
    <3>2. CASE n < m
      <4>1. L[x] >= 2
        BY <1>1, <2>3, <3>1, <3>2
      <4>2. fat[x] \in Clusters
        BY <3>1, <4>1, UsedHasLength
      <4>3. L[x] = L[fat[x]] + 1 /\ E[fat[x]] = E[x] /\ L[fat[x]] \in Nat
        BY <1>5, <3>1, <4>2 DEF Ranked
      <4> QED
        BY <1>1, <2>3, <3>1, <3>2, <4>2, <4>3
    <3>3. CASE ~(n < m)
      <4>1. L[x] = 1
        BY <1>1, <2>3, <2>5, <3>1, <3>3
      <4>2. fat[x] = EOC
        BY <3>1, <4>1, UsedHasLength
      <4> QED
        BY <2>3, <3>1, <3>3, <4>2
    <3> QED
      BY <3>2, <3>3
  <2>6. CASE ~(n - 1 < m)
    BY <1>0, <1>1, <2>3, <2>4, <2>6
  <2> QED
    BY <2>5, <2>6
<1>7. \A n \in 0..MaxCluster : Right(n)
  BY <1>0, <1>6
<1>8. w[MaxCluster] = EOC
  BY <1>0, <1>1, <1>7
<1>9. Chain(k) = S
  <2>1. ASSUME NEW x \in Chain(k) PROVE x \in S
    <3>1. PICK n \in 0..MaxCluster : x = w[n] /\ x \in Clusters
      BY <1>3, <2>1
    <3>2. n < m /\ L[x] = m - n /\ E[x] = E[k]
      BY <1>0, <1>7, <3>1
    <3> QED
      BY <1>1, <1>5, <3>1, <3>2 DEF Onward
  <2>2. ASSUME NEW x \in S PROVE x \in Chain(k)
    <3>1. x \in Clusters /\ E[x] = E[k] /\ L[x] >= 1 /\ L[x] <= m /\ L[x] \in Nat
      BY <1>5, <2>2 DEF Onward
    <3>2. m - L[x] \in 0..MaxCluster /\ m - L[x] < m /\ m - (m - L[x]) = L[x]
      BY <1>0, <1>1, <3>1
    <3>3. w[m - L[x]] \in Clusters /\ L[w[m - L[x]]] = L[x] /\ E[w[m - L[x]]] = E[k]
      BY <1>7, <3>2
    <3>4. w[m - L[x]] = x
      BY <3>1, <3>3, RankIsPlace
    <3> QED
      BY <1>3, <3>2, <3>3, <3>4
  <2> QED
    BY <2>1, <2>2
<1> QED
  BY <1>1, <1>5, <1>8, <1>9 DEF w
-----------------------------------------------------------------------------
(* What write and mkdir owe after each local step.                         *)

Lengths == [Clusters -> Nat]
PastEnd(c) == c.gap => c.count > c.size
Gapped(c) == PastEnd(c) /\ ~c.undo

\* The call c goes on as d and owes what it should.
Goes(L, E, D, c, d) == Owes(L, E, D, d) /\ d.op = c.op /\ d.fd = c.fd /\ d.slot = c.slot

\* Fields a local step sets before it goes on do not matter.
LEMMA GoesOn ==
  ASSUME NEW L, NEW E, NEW D, NEW c, NEW u, NEW d, Goes(L, E, D, u, d),
         u.op = c.op, u.fd = c.fd, u.slot = c.slot
  PROVE  Goes(L, E, D, c, d)
BY DEF Goes

\* The call gives up, or is done.
LEMMA ReturnOwes ==
  ASSUME NEW L, NEW E, NEW D, NEW c \in Locals, c.op \in {"write", "mkdir"},
         c.op = "write" => PastEnd(c) /\ Settled(L, D, c), NEW ok
  PROVE  Goes(L, E, D, c, Return(c, ok))
<1> DEFINE d == Return(c, ok)
<1>1. /\ d.at = "return" /\ d.op = c.op /\ d.fd = c.fd /\ d.slot = c.slot
      /\ d.gap = c.gap /\ d.undo = c.undo
      /\ d.count = c.count /\ d.size = c.size /\ d.chain = c.chain
  BY DEF Return, Goto, Locals
<1> HIDE DEF d
<1>2. Owes(L, E, D, d)
  BY <1>1 DEF Owes, Walking, Allocating, Writing, PastEnd, Settled
<1> QED
  BY <1>1, <1>2 DEF Goes, d

\* A chain is to be freed: what allocchain had, or what follows a cut.
LEMMA freechainOwes ==
  ASSUME NEW L, NEW E, NEW D, NEW c \in Locals, c.op \in {"write", "mkdir"}, NEW k,
         c.op = "write" => /\ PastEnd(c)
                           /\ IF c.undo THEN Settled(L, D, c)
                              ELSE c.chain \in Clusters /\ L[c.chain] = c.count
  PROVE  Goes(L, E, D, c, freechain(c, k))
<1> DEFINE d == freechain(c, k)
<1>1. /\ d.at = "free" /\ d.op = c.op /\ d.fd = c.fd /\ d.slot = c.slot /\ d.gap = c.gap
      /\ d.count = c.count /\ d.size = c.size /\ d.chain = c.chain /\ d.undo = c.undo
  BY DEF freechain, Goto, Locals
<1> HIDE DEF d
<1>2. Owes(L, E, D, d)
  BY <1>1 DEF Owes, Walking, Allocating, Writing, PastEnd, Settled
<1> QED
  BY <1>1, <1>2 DEF Goes, d

\* allocchain gives back what it has.
LEMMA AllocFailsOwes ==
  ASSUME NEW L, NEW E, NEW D, NEW c \in Locals, c.op \in {"write", "mkdir"},
         c.op = "write" => PastEnd(c) /\ Settled(L, D, c)
  PROVE  Goes(L, E, D, c, AllocFails(c))
<1> DEFINE u == [c EXCEPT !.undo = TRUE]
<1>1. CASE c.first = None
  BY <1>1, ReturnOwes DEF AllocFails
<1>2. CASE c.first # None
  <2>1. u \in Locals
    BY Updates
  <2>2. /\ u.undo /\ u.op = c.op /\ u.fd = c.fd /\ u.slot = c.slot /\ u.gap = c.gap
        /\ u.count = c.count /\ u.size = c.size /\ u.chain = c.chain
    BY DEF Locals
  <2>3. AllocFails(c) = freechain(u, c.first)
    BY <1>2 DEF AllocFails
  <2> HIDE DEF u
  <2>4. u.op = "write" => PastEnd(u) /\ Settled(L, D, u)
    BY <2>2 DEF PastEnd, Settled
  <2>5. Goes(L, E, D, u, freechain(u, c.first))
    BY <2>1, <2>2, <2>4, freechainOwes
  <2> QED
    BY <2>2, <2>3, <2>5, GoesOn
<1> QED
  BY <1>1, <1>2

\* allocchain begins, for what is missing.
LEMMA allocchainOwes ==
  ASSUME NEW L, NEW E, NEW D, NEW c \in Locals, c.op \in {"write", "mkdir"},
         NEW n, NEW tail, n = Missing(c), n \in Nat,
         c.op = "write" =>
           /\ Gapped(c) /\ Settled(L, D, c)
           /\ tail = None => c.chain = None
           /\ tail # None => c.chain # None /\ L[tail] = 1 /\ E[c.chain] = tail
  PROVE  Goes(L, E, D, c, allocchain(c, n, tail))
<1> DEFINE d == [Goto(c, "scan") EXCEPT !.cluster = 2, !.left = n, !.tail = tail,
                                        !.first = None, !.previous = None]
<1>1. /\ d.at = "scan" /\ d.op = c.op /\ d.fd = c.fd /\ d.slot = c.slot
      /\ d.gap = c.gap /\ d.undo = c.undo
      /\ d.count = c.count /\ d.size = c.size /\ d.chain = c.chain
      /\ d.left = n /\ d.tail = tail /\ d.first = None
  BY DEF Goto, Locals
<1>2. allocchain(c, n, tail) \in {Return(c, FALSE), d}
  BY DEF allocchain
<1> HIDE DEF d
<1>3. Grows(L, E, D, d)
  BY <1>1 DEF Grows, Appends, Got, Missing, Settled
<1>4. Owes(L, E, D, d)
  BY <1>1, <1>3 DEF Owes, Walking, Allocating, Writing, Gapped, PastEnd
<1>5. Goes(L, E, D, c, d)
  BY <1>1, <1>4 DEF Goes
<1> QED
  BY <1>2, <1>5, ReturnOwes DEF Gapped

\* resizechain begins: the chain is measured, or there is none.
LEMMA resizechainOwes ==
  ASSUME NEW L \in Lengths, NEW E, NEW D, NEW c \in Locals, c.op = "write", Gapped(c),
         c.chain = None => Settled(L, D, c),
         c.chain # None => Enough(L, D, c)
  PROVE  Goes(L, E, D, c, resizechain(c))
<1>1. CASE c.chain = None
  <2>1. c.size = 0 /\ c.count \in Nat
    BY <1>1 DEF Settled, HasLength, Locals, Sizes
  <2>2. c.count = Missing(c)
    BY <2>1 DEF Missing
  <2> QED
    BY <1>1, <2>1, <2>2, allocchainOwes DEF resizechain
<1>2. CASE c.chain # None
  <2> DEFINE d == [Goto(c, "length") EXCEPT !.cluster = c.chain, !.found = 0]
  <2>1. /\ d.at = "length" /\ d.op = c.op /\ d.fd = c.fd /\ d.slot = c.slot
        /\ d.gap = c.gap /\ d.undo = c.undo
        /\ d.count = c.count /\ d.size = c.size /\ d.chain = c.chain
        /\ d.cluster = c.chain /\ d.found = 0
    BY DEF Goto, Locals
  <2>2. resizechain(c) = d
    BY <1>2 DEF resizechain
  <2> HIDE DEF d
  <2>3. Stands(L, E, d) /\ Enough(L, D, d)
    BY <1>2, <2>1 DEF Stands, Enough, Settled
  <2>4. L[d.cluster] + d.found = L[d.chain]
    <3>1. L[c.chain] \in Nat
      BY <1>2 DEF Enough, Lengths
    <3> QED
      BY <2>1, <3>1
  <2>5. Owes(L, E, D, d)
    BY <2>1, <2>3, <2>4 DEF Owes, Walking, Allocating, Writing, Gapped, PastEnd
  <2> QED
    BY <2>1, <2>2, <2>5 DEF Goes
<1> QED
  BY <1>1, <1>2

\* The chain has the clusters it should.
LEMMA ResizedOwes ==
  ASSUME NEW L \in Lengths, NEW E, NEW D, NEW c \in Locals, c.op = "write", Asked(c), Gapped(c),
         c.chain \in Clusters, L[c.chain] = c.count
  PROVE  Goes(L, E, D, c, Resized(c))
<1>1. CASE c.gap
  <2> DEFINE u == [c EXCEPT !.gap = FALSE, !.count = c.size + 1]
  <2>1. c.size + 1 \in Sizes
    BY <1>1, FatAssumption DEF Asked, Locals, Sizes
  <2>2. u \in Locals
    BY <2>1, Updates
  <2>3. /\ u.op = "write" /\ u.fd = c.fd /\ u.slot = c.slot /\ u.chain = c.chain
        /\ u.size = c.size /\ ~u.gap /\ u.undo = c.undo /\ u.count = c.size + 1
    BY DEF Locals
  <2>4. Resized(c) = resizechain(u)
    BY <1>1 DEF Resized
  <2> HIDE DEF u
  <2>5. L[c.chain] >= c.size + 1 /\ L[c.chain] >= 1
    BY <1>1, FatAssumption DEF Gapped, PastEnd, Locals, Sizes
  <2>6. Enough(L, D, u) /\ Gapped(u) /\ u.chain # None
    BY <2>3, <2>5, NoCluster DEF Enough, Gapped, PastEnd
  <2>7. Goes(L, E, D, u, resizechain(u))
    BY <2>2, <2>3, <2>6, resizechainOwes
  <2> QED
    BY <2>3, <2>4, <2>7, GoesOn
<1>2. CASE ~c.gap
  <2> DEFINE d == [Goto(c, "entry") EXCEPT !.size = c.count]
  <2>1. /\ d.at = "entry" /\ d.op = "write" /\ d.fd = c.fd /\ d.slot = c.slot
        /\ d.gap = c.gap /\ d.undo = c.undo /\ d.chain = c.chain /\ d.size = c.count
    BY DEF Goto, Locals
  <2>2. Resized(c) = d
    BY <1>2 DEF Resized
  <2> HIDE DEF d
  <2>3. Owes(L, E, D, d)
    BY <1>2, <2>1, NoCluster DEF Owes, Walking, Allocating, Writing, HasLength, Gapped
  <2> QED
    BY <2>1, <2>2, <2>3 DEF Goes
<1> QED
  BY <1>1, <1>2
\* allocchain has its clusters.
LEMMA AllocatedOwes ==
  ASSUME NEW L \in Lengths, NEW E, NEW D, NEW c \in Locals, c.op \in {"write", "mkdir"},
         Asked(c), c.op = "write" => Gapped(c), Grows(L, E, D, c), c.left = 0,
         c.first \in Clusters
  PROVE  Goes(L, E, D, c, Allocated(c))
<1>0. L[c.first] \in Nat /\ c.first # None /\ c.size \in Nat /\ c.count \in Nat
  BY NoCluster DEF Lengths, Locals, Sizes
<1>1. L[c.first] = Missing(c)
  BY <1>0 DEF Grows, Got
<1>2. CASE c.op = "mkdir"
  <2> DEFINE d == Goto(c, "place")
  <2>1. d.at = "place" /\ d.op = "mkdir" /\ d.fd = c.fd /\ d.slot = c.slot /\ d.first = c.first
    BY <1>2 DEF Goto, Locals
  <2>2. Allocated(c) = d
    BY <1>2 DEF Allocated
  <2> HIDE DEF d
  <2>3. Owes(L, E, D, d)
    BY <1>1, <1>2, <2>1 DEF Owes, Walking, Allocating, Missing
  <2> QED
    BY <1>2, <2>1, <2>2, <2>3 DEF Goes
<1>3. CASE c.op # "mkdir" /\ c.tail # None
  <2> DEFINE d == Goto(c, "append")
  <2>1. /\ d.at = "append" /\ d.op = c.op /\ d.fd = c.fd /\ d.slot = c.slot
        /\ d.gap = c.gap /\ d.undo = c.undo
        /\ d.count = c.count /\ d.size = c.size /\ d.chain = c.chain /\ d.left = c.left
        /\ d.tail = c.tail /\ d.first = c.first /\ d.previous = c.previous
    BY DEF Goto, Locals
  <2>2. Allocated(c) = d
    BY <1>3 DEF Allocated
  <2> HIDE DEF d
  <2>3. Grows(L, E, D, d)
    BY <2>1 DEF Grows, Got, Missing, Appends, Settled
  <2>4. Owes(L, E, D, d)
    BY <1>3, <2>1, <2>3 DEF Owes, Walking, Allocating, Writing, Gapped, PastEnd
  <2> QED
    BY <2>1, <2>2, <2>4 DEF Goes
<1>4. CASE c.op # "mkdir" /\ ~(c.tail # None)
  <2> DEFINE u == [c EXCEPT !.chain = c.first]
  <2>1. u \in Locals
    BY Updates DEF OptionalClusters
  <2>2. /\ u.op = "write" /\ u.fd = c.fd /\ u.slot = c.slot /\ u.chain = c.first
        /\ u.size = c.size /\ u.gap = c.gap /\ u.undo = c.undo
        /\ u.count = c.count /\ u.position = c.position
    BY <1>4 DEF Locals
  <2>3. Allocated(c) = Resized(u)
    BY <1>4 DEF Allocated
  <2> HIDE DEF u
  <2>4. c.size = 0
    BY <1>4 DEF Grows, Appends, Settled, HasLength
  <2>5. L[u.chain] = u.count
    BY <1>0, <1>1, <1>4, <2>2, <2>4 DEF Missing
  <2>6. Asked(u) /\ Gapped(u)
    BY <1>4, <2>2 DEF Asked, Gapped, PastEnd
  <2>7. Goes(L, E, D, u, Resized(u))
    BY <2>1, <2>2, <2>5, <2>6, ResizedOwes
  <2> QED
    BY <1>4, <2>2, <2>3, <2>7, GoesOn
<1> QED
  BY <1>2, <1>3, <1>4

\* The loop of allocchain goes on or ends.
LEMMA NextScanOwes ==
  ASSUME NEW L \in Lengths, NEW E, NEW D, NEW c \in Locals, c.op \in {"write", "mkdir"},
         Asked(c), c.op = "write" => Gapped(c), Grows(L, E, D, c),
         c.left = 0 => c.first \in Clusters
  PROVE  Goes(L, E, D, c, NextScan(c))
<1>1. CASE c.left = 0
  BY <1>1, AllocatedOwes DEF NextScan
<1>2. CASE c.left # 0 /\ c.cluster = MaxCluster
  BY <1>2, AllocFailsOwes DEF NextScan, Grows, Appends, Gapped
<1>3. CASE c.left # 0 /\ c.cluster # MaxCluster
  <2> DEFINE d == [Goto(c, "scan") EXCEPT !.cluster = c.cluster + 1]
  <2>1. /\ d.at = "scan" /\ d.op = c.op /\ d.fd = c.fd /\ d.slot = c.slot
        /\ d.gap = c.gap /\ d.undo = c.undo
        /\ d.count = c.count /\ d.size = c.size /\ d.chain = c.chain /\ d.left = c.left
        /\ d.tail = c.tail /\ d.first = c.first /\ d.previous = c.previous
    BY DEF Goto, Locals
  <2>2. NextScan(c) = d
    BY <1>3 DEF NextScan
  <2> HIDE DEF d
  <2>3. Grows(L, E, D, d)
    BY <2>1 DEF Grows, Got, Missing, Appends, Settled
  <2>4. Owes(L, E, D, d)
    BY <2>1, <2>3 DEF Owes, Walking, Allocating, Writing, Gapped, PastEnd
  <2> QED
    BY <2>1, <2>2, <2>4 DEF Goes
<1> QED
  BY <1>1, <1>2, <1>3

\* The cluster has become the last of those it has.
LEMMA LinkedOwes ==
  ASSUME NEW L \in Lengths, NEW E, NEW D, NEW c \in Locals, c.op \in {"write", "mkdir"},
         Asked(c), c.op = "write" => Gapped(c) /\ Appends(L, E, D, c), c.left >= 1,
         c.first \in Clusters, c.cluster \in Clusters, L[c.first] + c.left = Missing(c) + 1,
         E[c.first] = c.cluster, L[c.cluster] = 1
  PROVE  Goes(L, E, D, c, Linked(c))
<1> DEFINE u == [c EXCEPT !.previous = c.cluster, !.left = c.left - 1]
<1>1. c.left - 1 \in 0..MaxCluster /\ c.cluster \in OptionalClusters
  BY FatAssumption DEF Locals
<1>2. u \in Locals
  BY <1>1, Updates
<1>3. /\ u.op = c.op /\ u.fd = c.fd /\ u.slot = c.slot /\ u.gap = c.gap /\ u.undo = c.undo
      /\ u.count = c.count /\ u.size = c.size /\ u.chain = c.chain /\ u.left = c.left - 1
      /\ u.tail = c.tail /\ u.first = c.first /\ u.previous = c.cluster
      /\ u.position = c.position
  BY DEF Locals
<1> HIDE DEF u
<1>4. L[c.first] \in Nat /\ c.left \in Nat /\ c.size \in Nat /\ c.count \in Nat
  BY FatAssumption DEF Lengths, Locals, Sizes
<1>5. Got(L, u) + u.left = Missing(u)
  BY <1>3, <1>4, NoCluster DEF Got, Missing
<1>6. Grows(L, E, D, u)
  BY <1>3, <1>5 DEF Grows, Appends, Settled
<1>7. Asked(u) /\ (u.op = "write" => Gapped(u))
  BY <1>3 DEF Asked, Gapped, PastEnd
<1>8. Goes(L, E, D, u, NextScan(u))
  BY <1>2, <1>3, <1>6, <1>7, NextScanOwes
<1> QED
  BY <1>3, <1>8, GoesOn DEF Linked, u

\* The cluster has just been marked.
LEMMA MarkedOwes ==
  ASSUME NEW L \in Lengths, NEW E, NEW D, NEW c \in Locals, c.op \in {"write", "mkdir"},
         Asked(c), c.op = "write" => Gapped(c), Grows(L, E, D, c), c.left >= 1,
         c.first = None <=> c.previous = None,
         c.cluster \in Clusters, L[c.cluster] = 1, E[c.cluster] = c.cluster
  PROVE  Goes(L, E, D, c, Marked(c))
<1> DEFINE k == IF c.first = None THEN c.cluster ELSE c.first
           m == [c EXCEPT !.first = k]
<1>1. k \in OptionalClusters
  BY DEF Locals
<1> HIDE DEF k
<1>2. m \in Locals
  BY <1>1, Updates
<1>3. /\ m.op = c.op /\ m.fd = c.fd /\ m.slot = c.slot /\ m.gap = c.gap /\ m.undo = c.undo
      /\ m.count = c.count /\ m.size = c.size /\ m.chain = c.chain /\ m.left = c.left
      /\ m.tail = c.tail /\ m.first = k /\ m.previous = c.previous
      /\ m.position = c.position /\ m.cluster = c.cluster
  BY DEF Locals
<1>4. Marked(c) = IF c.previous = None THEN Linked(m) ELSE Goto(m, "link")
  BY DEF Marked, k
<1> HIDE DEF m
<1>5. CASE c.previous = None
  <2>1. c.first = None /\ k = c.cluster
    BY <1>5 DEF k
  <2>2. L[m.first] + m.left = Missing(m) + 1
    <3>1. c.left \in Nat /\ c.size \in Nat /\ c.count \in Nat
      BY FatAssumption DEF Locals, Sizes
    <3> QED
      BY <1>3, <2>1, <3>1 DEF Grows, Got, Missing
  <2>3. m.op = "write" => Gapped(m) /\ Appends(L, E, D, m)
    BY <1>3 DEF Gapped, PastEnd, Grows, Appends, Settled
  <2>4. Asked(m)
    BY <1>3 DEF Asked
  <2>5. Goes(L, E, D, m, Linked(m))
    BY <1>2, <1>3, <2>1, <2>2, <2>3, <2>4, LinkedOwes
  <2> QED
    BY <1>3, <1>4, <1>5, <2>5, GoesOn
<1>6. CASE c.previous # None
  <2> DEFINE d == Goto(m, "link")
  <2>1. /\ d.at = "link" /\ d.op = c.op /\ d.fd = c.fd /\ d.slot = c.slot
        /\ d.gap = c.gap /\ d.undo = c.undo
        /\ d.count = c.count /\ d.size = c.size /\ d.chain = c.chain /\ d.left = c.left
        /\ d.tail = c.tail /\ d.first = k /\ d.previous = c.previous
        /\ d.cluster = c.cluster
    BY <1>2, <1>3 DEF Goto, Locals
  <2> HIDE DEF d
  <2>2. k = c.first
    BY <1>6 DEF k
  <2>3. Grows(L, E, D, d)
    BY <2>1, <2>2 DEF Grows, Got, Missing, Appends, Settled
  <2>4. Owes(L, E, D, d)
    BY <2>1, <2>3 DEF Owes, Walking, Allocating, Writing, Gapped, PastEnd
  <2> QED
    BY <1>4, <1>6, <2>1, <2>4 DEF Goes, d
<1> QED
  BY <1>5, <1>6
\* get_nth_cluster goes on or has found its cluster.
LEMMA AtNthOwes ==
  ASSUME NEW f \in Tables, NEW L \in Lengths, NEW E, Ranked(f, L, E), NEW D, NEW c \in Locals,
         c.op = "write", Gapped(c), Stands(L, E, c), Enough(L, D, c), c.found = L[c.chain],
         c.found # c.count,
         L[c.cluster] = c.left + 1 + IF c.found > c.count THEN c.found - c.count ELSE 0
  PROVE  Goes(L, E, D, c, AtNth(c))
<1>0. /\ c.left \in Nat /\ c.found \in Nat /\ c.size \in Nat /\ c.count \in Nat
      /\ L[c.chain] \in Nat /\ c.chain \in Clusters /\ c.cluster \in Clusters
  BY FatAssumption DEF Lengths, Locals, Sizes, Enough, Stands
<1>1. ASSUME NEW s \in {"nth", "next"}, s = "next" => c.left = 0 /\ c.found > c.count
      PROVE  Goes(L, E, D, c, Goto(c, s))
  <2> DEFINE d == Goto(c, s)
  <2>1. /\ d.at = s /\ d.op = c.op /\ d.fd = c.fd /\ d.slot = c.slot
        /\ d.gap = c.gap /\ d.undo = c.undo
        /\ d.count = c.count /\ d.size = c.size /\ d.chain = c.chain /\ d.left = c.left
        /\ d.cluster = c.cluster /\ d.found = c.found
    BY DEF Goto, Locals
  <2> HIDE DEF d
  <2>2. Stands(L, E, d) /\ Enough(L, D, d)
    BY <2>1 DEF Stands, Enough, Settled
  <2>3. s = "next" => L[d.cluster] = d.found - d.count + 1
    BY <1>0, <1>1, <2>1
  <2>4. Walking(L, E, D, d)
    BY <1>0, <1>1, <2>1, <2>2, <2>3 DEF Walking
  <2>5. Owes(L, E, D, d)
    BY <1>1, <2>1, <2>4 DEF Owes, Allocating, Writing, Gapped, PastEnd
  <2> QED
    BY <2>1, <2>5 DEF Goes, d
<1>2. CASE c.left > 0
  BY <1>1, <1>2 DEF AtNth
<1>3. CASE ~(c.left > 0) /\ c.found > c.count
  BY <1>0, <1>1, <1>3 DEF AtNth
<1>4. CASE ~(c.left > 0) /\ ~(c.found > c.count)
  <2>1. AtNth(c) = allocchain(c, c.count - c.found, c.cluster)
    BY <1>4 DEF AtNth
  <2>2. L[c.cluster] = 1
    BY <1>0, <1>4
  <2>3. E[c.chain] = c.cluster
    BY <1>0, <2>2, UsedHasLength DEF Stands, Ranked
  <2>4. Settled(L, D, c) /\ c.size = c.found
    BY <1>0, <1>4, NoCluster DEF Enough, Settled, HasLength
  <2>5. c.count - c.found = Missing(c) /\ c.count - c.found \in Nat
    BY <1>0, <1>4, <2>4 DEF Missing
  <2>6. c.cluster # None /\ c.chain # None
    BY <1>0, NoCluster
  <2> QED
    BY <2>1, <2>2, <2>3, <2>4, <2>5, <2>6, allocchainOwes
<1> QED
  BY <1>2, <1>3, <1>4

\* chain_length has the length.
LEMMA MeasuredOwes ==
  ASSUME NEW f \in Tables, NEW L \in Lengths, NEW E, Ranked(f, L, E), NEW D, NEW c \in Locals,
         c.op = "write", Asked(c), Gapped(c), Enough(L, D, c), NEW n, n = L[c.chain],
         n <= MaxCluster
  PROVE  Goes(L, E, D, c, Measured(c, n))
<1> DEFINE keep == IF n > c.count THEN c.count ELSE n
           u == [c EXCEPT !.found = n, !.cluster = c.chain, !.left = keep - 1]
<1>0. /\ n \in Nat /\ n >= 1 /\ c.count \in Nat /\ c.count >= 1 /\ c.chain \in Clusters
      /\ MaxCluster \in Nat
  BY FatAssumption DEF Lengths, Locals, Sizes, Enough, Asked
<1>1. CASE n = c.count
  BY <1>0, <1>1, ResizedOwes DEF Measured
<1>2. CASE n # c.count
  <2>1. n \in 0..MaxCluster + 1 /\ keep - 1 \in 0..MaxCluster /\ c.chain \in OptionalClusters
    BY <1>0 DEF OptionalClusters
  <2>2. L[c.chain] = (keep - 1) + 1 + IF n > c.count THEN n - c.count ELSE 0
    BY <1>0
  <2> HIDE DEF keep
  <2>3. u \in Locals
    <3>1. [c EXCEPT !.found = n, !.cluster = c.chain] \in Locals
      BY <2>1, Updates
    <3>2. ASSUME NEW e \in Locals PROVE [e EXCEPT !.left = keep - 1] \in Locals
      BY <2>1, Updates
    <3> QED
      BY <3>1, <3>2
  <2>4. /\ u.op = "write" /\ u.fd = c.fd /\ u.slot = c.slot /\ u.gap = c.gap /\ u.undo = c.undo
        /\ u.count = c.count /\ u.size = c.size /\ u.chain = c.chain /\ u.left = keep - 1
        /\ u.cluster = c.chain /\ u.found = n
    BY DEF Locals
  <2>5. Measured(c, n) = AtNth(u)
    BY <1>2 DEF Measured, keep
  <2> HIDE DEF u
  <2>6. Stands(L, E, u) /\ Enough(L, D, u) /\ Gapped(u)
    BY <1>0, <2>4 DEF Stands, Enough, Settled, Gapped, PastEnd
  <2>7. u.found # u.count /\ u.found = L[u.chain]
        /\ L[u.cluster] = u.left + 1 + IF u.found > u.count THEN u.found - u.count ELSE 0
    BY <1>2, <2>2, <2>4
  <2>8. Goes(L, E, D, u, AtNth(u))
    BY <2>3, <2>4, <2>6, <2>7, AtNthOwes
  <2> QED
    BY <2>4, <2>5, <2>8, GoesOn
<1> QED
  BY <1>1, <1>2

\* The entry has been written.
LEMMA EntryWrittenOwes ==
  ASSUME NEW L \in Lengths, NEW E, NEW D, NEW c \in Locals, c.op = "write", Asked(c), Gapped(c),
         Settled(L, D, c), c.chain # None => L[c.chain] >= 1
  PROVE  Goes(L, E, D, c, EntryWritten(c, TRUE))
<1>0. /\ c.size \in Nat /\ c.position \in Nat /\ c.goal \in Nat /\ c.size \in Sizes
      /\ c.position \in Sizes /\ c.goal \in Sizes /\ MaxSize \in Nat
  BY FatAssumption DEF Locals, Sizes
<1>1. ASSUME NEW n \in Sizes, n > c.size
      PROVE  Goes(L, E, D, c, resizechain([c EXCEPT !.count = n]))
  <2> DEFINE u == [c EXCEPT !.count = n]
  <2>1. u \in Locals
    BY Updates
  <2>2. /\ u.op = "write" /\ u.fd = c.fd /\ u.slot = c.slot /\ u.gap = c.gap /\ u.undo = c.undo
        /\ u.count = n /\ u.size = c.size /\ u.chain = c.chain
    BY DEF Locals
  <2> HIDE DEF u
  <2>3. Settled(L, D, u) /\ Gapped(u)
    BY <1>1, <2>2 DEF Settled, Gapped, PastEnd
  <2>4. u.chain # None => Enough(L, D, u)
    BY <2>2, <2>3 DEF Enough, Settled, HasLength
  <2>5. Goes(L, E, D, u, resizechain(u))
    BY <2>1, <2>2, <2>3, <2>4, resizechainOwes
  <2> QED
    BY <2>2, <2>5, GoesOn DEF u
<1>2. CASE c.size < c.position
  <2>1. c.size + 1 \in Sizes /\ c.size + 1 > c.size
    BY <1>0, <1>2 DEF Sizes
  <2>2. ~(c.size = c.position /\ c.position > 0) /\ ~(c.position = 0 /\ c.size < c.goal)
    BY <1>0, <1>2
  <2>3. EntryWritten(c, TRUE) = resizechain([c EXCEPT !.count = c.size + 1])
    BY <1>2, <2>2 DEF EntryWritten
  <2> QED
    BY <1>1, <2>1, <2>3
<1>3. CASE c.size = c.position /\ c.position > 0
  <2> DEFINE d == [Goto(c, "entry") EXCEPT !.position = 0]
  <2>1. /\ d.at = "entry" /\ d.op = "write" /\ d.fd = c.fd /\ d.slot = c.slot
        /\ d.gap = c.gap /\ d.undo = c.undo /\ d.chain = c.chain /\ d.size = c.size /\ d.count = c.count
    BY DEF Goto, Locals
  <2>0. ~(c.size < c.position) /\ ~(c.position = 0 /\ c.size < c.goal)
    BY <1>0, <1>3
  <2>2. EntryWritten(c, TRUE) = d
    BY <1>3, <2>0 DEF EntryWritten
  <2> HIDE DEF d
  <2>3. Owes(L, E, D, d)
    BY <2>1 DEF Owes, Walking, Allocating, Writing, Settled, Gapped, PastEnd
  <2> QED
    BY <2>1, <2>2, <2>3 DEF Goes
<1>4. CASE c.position = 0 /\ c.size < c.goal
  <2>1. c.goal > c.size
    BY <1>0, <1>4
  <2> QED
    BY <1>0, <1>1, <1>4, <2>1 DEF EntryWritten
<1>5. CASE ~(c.size < c.position) /\ ~(c.size = c.position /\ c.position > 0)
           /\ ~(c.position = 0 /\ c.size < c.goal)
  BY <1>5, ReturnOwes DEF EntryWritten, Gapped
<1> QED
  BY <1>2, <1>3, <1>4, <1>5

\* freechain has freed what follows the cut, or what allocchain had.
LEMMA ClearedOwes ==
  ASSUME NEW L \in Lengths, NEW E, NEW D, NEW c \in Locals, c.op \in {"write", "mkdir"},
         Asked(c),
         c.op = "write" => /\ PastEnd(c)
                           /\ IF c.undo THEN Settled(L, D, c)
                              ELSE c.chain \in Clusters /\ L[c.chain] = c.count,
         c.next \in Clusters => c.found < MaxCluster
  PROVE  Goes(L, E, D, c, Cleared(c))
<1>1. CASE c.next \in Clusters
  <2> DEFINE d == [Goto(c, "free") EXCEPT !.cluster = c.next]
  <2>1. /\ d.at = "free" /\ d.op = c.op /\ d.fd = c.fd /\ d.slot = c.slot /\ d.gap = c.gap
        /\ d.count = c.count /\ d.size = c.size /\ d.chain = c.chain /\ d.undo = c.undo
    BY DEF Goto, Locals
  <2>2. Cleared(c) = d
    BY <1>1, NoCluster DEF Cleared
  <2> HIDE DEF d
  <2>3. Owes(L, E, D, d)
    BY <2>1 DEF Owes, Walking, Allocating, Writing, PastEnd, Settled
  <2> QED
    BY <2>1, <2>2, <2>3 DEF Goes
<1>2. CASE c.next \notin Clusters
  <2>1. c.next \in {None, EOC}
    BY <1>2 DEF Locals, Links
  <2>2. Cleared(c) = Freed(c, TRUE)
    BY <1>2, <2>1 DEF Cleared
  <2>3. CASE c.op = "write" /\ ~c.undo
    BY <2>2, <2>3, ResizedOwes DEF Freed, Gapped
  <2>4. CASE ~(c.op = "write" /\ ~c.undo)
    BY <2>2, <2>4, ReturnOwes DEF Freed
  <2> QED
    BY <2>3, <2>4
<1> QED
  BY <1>1, <1>2

-----------------------------------------------------------------------------
(* The reads of the table.                                                 *)

\* The call goes on: nothing else has changed.
LEMMA MatchedGoes ==
  ASSUME NEW f, NEW L, NEW E, NEW D, NEW W, NEW c, NEW d, Matched(f, L, E, D, W, c),
         c.op \in {"write", "mkdir"}, Goes(L, E, D, c, d)
  PROVE  Matched(f, L, E, D, W, d)
<1>1. Changing(d) = Changing(c)
  BY DEF Changing, Emptying, Goes
<1> QED
  BY <1>1 DEF Matched, Fulfilled, Agree, Goes

\* allocchain has read whether a cluster is free.
LEMMA ScannedMatched ==
  ASSUME NEW f \in Tables, NEW L, NEW E, NEW D, NEW W, NEW c, Sound(c),
         Matched(f, L, E, D, W, c), c.at = "scan"
  PROVE  Matched(f, L, E, D, W, Scanned(c, f[c.cluster]))
<1>1. c \in Locals /\ Asked(c) /\ c.op \in {"write", "mkdir"} /\ c.left >= 1 /\ c.left # 0
  BY DEF Sound, Ready
<1>2. L \in Lengths /\ Grows(L, E, D, c) /\ (c.op = "write" => Gapped(c))
  BY DEF Matched, Ranked, Lengths, Owes, Allocating, Writing, Gapped, PastEnd
<1>3. Goes(L, E, D, c, Goto(c, "mark"))
  <2> DEFINE d == Goto(c, "mark")
  <2>1. /\ d.at = "mark" /\ d.op = c.op /\ d.fd = c.fd /\ d.slot = c.slot
        /\ d.gap = c.gap /\ d.undo = c.undo
        /\ d.count = c.count /\ d.size = c.size /\ d.chain = c.chain /\ d.left = c.left
        /\ d.tail = c.tail /\ d.first = c.first /\ d.previous = c.previous
    BY <1>1 DEF Goto, Locals
  <2> HIDE DEF d
  <2>2. Grows(L, E, D, d)
    BY <1>2, <2>1 DEF Grows, Got, Missing, Appends, Settled
  <2>3. Owes(L, E, D, d)
    BY <1>1, <1>2, <2>1, <2>2 DEF Owes, Walking, Allocating, Writing, Gapped, PastEnd
  <2> QED
    BY <2>1, <2>3 DEF Goes, d
<1>4. Goes(L, E, D, c, NextScan(c))
  BY <1>1, <1>2, NextScanOwes
<1> QED
  BY <1>1, <1>3, <1>4, MatchedGoes DEF Scanned

\* chain_length has read a link.
LEMMA CountedMatched ==
  ASSUME NEW f \in Tables, NEW L, NEW E, NEW D, NEW W, NEW c, Sound(c), Good(f, D, W, c),
         Matched(f, L, E, D, W, c), c.at = "length"
  PROVE  Matched(f, L, E, D, W, Counted(c, f[c.cluster]))
<1> DEFINE v == f[c.cluster]
<1>1. c \in Locals /\ Asked(c) /\ c.op = "write" /\ c.found \in Nat
  BY FatAssumption DEF Sound, Ready, Locals
<1>2. /\ L \in Lengths /\ Ranked(f, L, E) /\ Gapped(c) /\ Stands(L, E, c)
      /\ Enough(L, D, c) /\ L[c.cluster] + c.found = L[c.chain]
  BY <1>1 DEF Matched, Ranked, Lengths, Owes, Walking, Writing, Gapped, PastEnd
<1>3. /\ c.cluster \in Clusters /\ L[c.cluster] \in Nat /\ L[c.cluster] >= 1
      /\ E[c.cluster] = E[c.chain] /\ c.chain \in Clusters
  BY <1>2 DEF Stands, Enough, Lengths
<1>4. L[c.chain] <= MaxCluster - 1
  <2>1. Apart(f, D, Renaming(c))
    BY DEF Good, Tidy
  <2> QED
    BY <1>2, <1>3, <2>1, ChainCounts
<1>5. c.found + 1 <= MaxCluster - 1 /\ c.found < MaxCluster /\ c.found # MaxCluster
  BY <1>1, <1>2, <1>3, <1>4, FatAssumption
<1>6. v \in Clusters \cup {EOC} /\ v # None
  BY <1>2, <1>3, UsedHasLength
<1>7. CASE v = EOC
  <2>1. Counted(c, v) = Measured(c, c.found + 1)
    BY <1>5, <1>6, <1>7 DEF Counted
  <2>2. L[c.cluster] = 1
    BY <1>2, <1>3, <1>7, UsedHasLength
  <2>3. c.found + 1 = L[c.chain] /\ c.found + 1 <= MaxCluster
    BY <1>1, <1>2, <1>5, <2>2, FatAssumption
  <2>4. Goes(L, E, D, c, Measured(c, c.found + 1))
    BY <1>1, <1>2, <2>3, MeasuredOwes
  <2> QED
    BY <1>1, <2>1, <2>4, MatchedGoes
<1>8. CASE v # EOC
  <2> DEFINE d == [c EXCEPT !.found = c.found + 1, !.cluster = v]
  <2>1. Counted(c, v) = d
    BY <1>5, <1>6, <1>8 DEF Counted
  <2>2. /\ d.at = "length" /\ d.op = c.op /\ d.fd = c.fd /\ d.slot = c.slot
        /\ d.gap = c.gap /\ d.undo = c.undo
        /\ d.count = c.count /\ d.size = c.size /\ d.chain = c.chain
        /\ d.cluster = v /\ d.found = c.found + 1
    BY <1>1 DEF Locals
  <2> HIDE DEF d
  <2>3. v \in Clusters /\ L[v] \in Nat /\ L[v] >= 1 /\ L[c.cluster] = L[v] + 1 /\ E[v] = E[c.chain]
    <3>1. v \in Clusters
      BY <1>6, <1>8
    <3> QED
      BY <1>2, <1>3, <3>1 DEF Ranked, Lengths
  <2> HIDE DEF v
  <2>4. Stands(L, E, d) /\ Enough(L, D, d)
    BY <1>2, <2>2, <2>3 DEF Stands, Enough, Settled
  <2>5. L[d.cluster] + d.found = L[d.chain]
    BY <1>1, <1>2, <2>2, <2>3
  <2>6. Owes(L, E, D, d)
    BY <1>1, <1>2, <2>2, <2>4, <2>5 DEF Owes, Walking, Allocating, Writing, Gapped, PastEnd
  <2>7. Goes(L, E, D, c, d)
    BY <2>2, <2>6 DEF Goes
  <2> QED
    BY <1>1, <2>1, <2>7, MatchedGoes DEF v
<1> QED
  BY <1>7, <1>8

\* get_nth_cluster has read a link.
LEMMA WalkedMatched ==
  ASSUME NEW f \in Tables, NEW L, NEW E, NEW D, NEW W, NEW c, Sound(c),
         Matched(f, L, E, D, W, c), c.at = "nth"
  PROVE  Matched(f, L, E, D, W, Walked(c, f[c.cluster]))
<1> DEFINE v == f[c.cluster]
           over == IF c.found > c.count THEN c.found - c.count ELSE 0
           u == [c EXCEPT !.cluster = v, !.left = c.left - 1]
<1>1. /\ c \in Locals /\ c.op = "write" /\ c.left >= 1 /\ c.left \in Nat /\ c.found # c.count
      /\ c.found \in Nat /\ c.count \in Nat
  BY FatAssumption DEF Sound, Ready, Locals, Sizes
<1>2. /\ L \in Lengths /\ Ranked(f, L, E) /\ Gapped(c) /\ Stands(L, E, c)
      /\ Enough(L, D, c) /\ c.found = L[c.chain] /\ L[c.cluster] = c.left + 1 + over
  BY <1>1 DEF Matched, Ranked, Lengths, Owes, Walking, Writing, Gapped, PastEnd
<1>3. over \in Nat
  BY <1>1
<1> HIDE DEF over
<1>4. c.cluster \in Clusters /\ L[c.cluster] >= 2 /\ L[c.cluster] \in Nat
  BY <1>1, <1>2, <1>3 DEF Stands
<1>5. v \in Clusters
  BY <1>2, <1>4, UsedHasLength
<1>6. L[v] \in Nat /\ L[v] >= 1 /\ L[c.cluster] = L[v] + 1 /\ E[v] = E[c.cluster]
  BY <1>2, <1>4, <1>5 DEF Ranked, Lengths
<1> HIDE DEF v
<1>7. u \in Locals
  <2>1. c.left - 1 \in 0..MaxCluster /\ v \in OptionalClusters
    BY <1>1, <1>5, FatAssumption DEF Locals, OptionalClusters
  <2> QED
    BY <1>1, <2>1, Updates
<1>8. /\ u.op = "write" /\ u.fd = c.fd /\ u.slot = c.slot /\ u.gap = c.gap /\ u.undo = c.undo
      /\ u.count = c.count /\ u.size = c.size /\ u.chain = c.chain /\ u.left = c.left - 1
      /\ u.cluster = v /\ u.found = c.found
  BY <1>1 DEF Locals
<1>9. Walked(c, v) = AtNth(u)
  BY <1>5 DEF Walked
<1> HIDE DEF u
<1>10. Stands(L, E, u) /\ Enough(L, D, u) /\ Gapped(u)
  BY <1>2, <1>5, <1>6, <1>8 DEF Stands, Enough, Settled, Gapped, PastEnd
<1>11. L[u.cluster] = u.left + 1 + IF u.found > u.count THEN u.found - u.count ELSE 0
  <2>1. L[v] = (c.left - 1) + 1 + over
    BY <1>1, <1>2, <1>3, <1>6
  <2> QED
    BY <1>8, <2>1 DEF over
<1>12. Goes(L, E, D, u, AtNth(u))
  BY <1>1, <1>2, <1>7, <1>8, <1>10, <1>11, AtNthOwes
<1>13. Goes(L, E, D, c, AtNth(u))
  BY <1>1, <1>8, <1>12, GoesOn
<1> QED
  BY <1>1, <1>9, <1>13, MatchedGoes DEF v

\* resizechain has read the link it is to cut.
LEMMA ToCutMatched ==
  ASSUME NEW f \in Tables, NEW L, NEW E, NEW D, NEW W, NEW c, Sound(c),
         Matched(f, L, E, D, W, c), c.at = "next"
  PROVE  Matched(f, L, E, D, W, ToCut(c, f[c.cluster]))
<1> DEFINE v == f[c.cluster]
           d == [Goto(c, "cut") EXCEPT !.next = v]
<1>1. c \in Locals /\ c.op = "write" /\ c.found \in Nat /\ c.count \in Nat
  BY FatAssumption DEF Sound, Ready, Locals, Sizes
<1>2. /\ L \in Lengths /\ Ranked(f, L, E) /\ Gapped(c) /\ Stands(L, E, c)
      /\ c.chain \in Clusters /\ c.found = L[c.chain] /\ c.found > c.count
      /\ L[c.cluster] = c.found - c.count + 1
  BY <1>1 DEF Matched, Ranked, Lengths, Owes, Walking, Writing, Gapped, PastEnd
<1>3. v \in Clusters
  <2>1. c.cluster \in Clusters /\ L[c.cluster] >= 2
    BY <1>1, <1>2 DEF Stands
  <2> QED
    BY <1>2, <2>1, UsedHasLength
<1>4. ToCut(c, v) = d
  BY <1>3 DEF ToCut
<1>5. /\ d.at = "cut" /\ d.op = c.op /\ d.fd = c.fd /\ d.slot = c.slot
      /\ d.gap = c.gap /\ d.undo = c.undo
      /\ d.count = c.count /\ d.size = c.size /\ d.chain = c.chain
      /\ d.cluster = c.cluster /\ d.found = c.found
  BY <1>1 DEF Goto, Locals
<1> HIDE DEF d
<1>6. Owes(L, E, D, d)
  BY <1>1, <1>2, <1>5 DEF Owes, Walking, Allocating, Writing, Gapped, PastEnd, Stands
<1>7. Goes(L, E, D, c, d)
  BY <1>5, <1>6 DEF Goes
<1> QED
  BY <1>1, <1>4, <1>7, MatchedGoes

\* freechain has read the link of the cluster it is to clear.
LEMMA ToClearMatched ==
  ASSUME NEW f, NEW L, NEW E, NEW D, NEW W, NEW c, Sound(c), Good(f, D, W, c),
         Matched(f, L, E, D, W, c), c.at = "free", NEW v
  PROVE  Matched(f, L, E, D, W, ToClear(c, v))
<1> DEFINE d == ToClear(c, v)
<1>1. c \in Locals /\ c.op \in {"open", "unlink", "write", "mkdir"}
  BY DEF Sound, Good, Stage, Placed
<1>2. /\ d.at = "clear" /\ d.op = c.op /\ d.fd = c.fd /\ d.slot = c.slot /\ d.gap = c.gap
      /\ d.count = c.count /\ d.size = c.size /\ d.chain = c.chain /\ d.undo = c.undo
  BY <1>1 DEF ToClear, Goto, Locals
<1> HIDE DEF d
<1>3. Changing(d) = Changing(c)
  BY <1>1, <1>2 DEF Changing, Emptying
<1>4. Owes(L, E, D, c)
  BY DEF Matched
<1>5. Owes(L, E, D, d)
  BY <1>1, <1>2, <1>4 DEF Owes, Walking, Allocating, Writing, Settled
<1>6. Fulfilled(L, D, d) /\ Agree(D, W, d)
  BY <1>2, <1>3 DEF Matched, Fulfilled, Agree
<1> QED
  BY <1>5, <1>6 DEF Matched, d

-----------------------------------------------------------------------------
(* The first clusters of files and directories.                            *)

\* Nothing leads to the first cluster of an entry but the entry.
LEMMA EntryHeads ==
  ASSUME NEW f, NEW D \in Directories, NEW W, NEW c, Good(f, D, W, c), c.op # "rename",
         NEW s \in Slots \ Changing(c), D[s].kind # "free", D[s].first_cluster # None
  PROVE  LET x == D[s].first_cluster
         IN  x \in Clusters /\ s \in Leads(D, {}, x) /\ Preds(f, x) = {} /\ f[x] # None
<1> DEFINE x == D[s].first_cluster
<1>1. D[s] \in Entries
  BY DEF Directories
<1>2. x \in Clusters
  BY <1>1 DEF Entries
<1>3. s \in Leads(D, {}, x) /\ Renaming(c) = {} /\ s \notin Emptying(c)
  BY DEF Leads, Renaming, Changing
<1>4. Apart(f, D, {}) /\ FreeIsUnled(f, D, {}, Emptying(c))
  BY <1>3 DEF Good, Tidy
<1> HIDE DEF x
<1>5. Preds(f, x) = {} /\ f[x] # None
  BY <1>2, <1>3, <1>4 DEF Apart, FreeIsUnled
<1> QED
  BY <1>2, <1>3, <1>5 DEF x

\* The entry that is written is that of a file, and no other descriptor has it.
LEMMA WriteSlots ==
  ASSUME NEW f, NEW D, NEW W \in Heads, NEW c, Good(f, D, W, c), c.op = "write"
  PROVE  /\ c.slot \in Slots /\ D[c.slot].kind = "file"
         /\ \A e \in Descriptors : W[e].open /\ e # c.fd => W[e].slot # c.slot
<1> DEFINE V == View(W, c)
<1>1. c.fd \in Descriptors /\ Renaming(c) = {} /\ Emptying(c) = {}
  BY DEF Good, Fits, Renaming, Emptying
<1>2. /\ V[c.fd].open /\ V[c.fd].slot = c.slot
      /\ \A e \in Descriptors : e # c.fd => V[e] = W[e]
  BY <1>1 DEF View, Left, Heads
<1>3. Headed(f, D, V, {}) /\ Distinct(V)
  BY <1>1 DEF Good, Tidy
<1> HIDE DEF V
<1>4. \A e \in Descriptors : W[e].open /\ e # c.fd => W[e].slot # c.slot
  BY <1>1, <1>2, <1>3 DEF Distinct
<1> QED
  BY <1>1, <1>2, <1>3, <1>4 DEF Headed

\* Nothing leads to the first cluster of the file that is written but its entry.
LEMMA WriteHeads ==
  ASSUME NEW f, NEW D, NEW W \in Heads, NEW c \in Locals, Good(f, D, W, c), c.op = "write",
         c.chain # None
  PROVE  /\ c.chain \in Clusters /\ f[c.chain] # None /\ Preds(f, c.chain) = {}
         /\ Leads(D, {}, c.chain) \subseteq {c.slot}
<1> DEFINE V == View(W, c)
<1>1. c.fd \in Descriptors /\ Renaming(c) = {} /\ Emptying(c) = {}
  BY DEF Good, Fits, Renaming, Emptying
<1>2. /\ V[c.fd].open /\ V[c.fd].slot = c.slot /\ V[c.fd].first_cluster = c.chain
      /\ \A e \in Descriptors : e # c.fd => V[e] = W[e]
  BY <1>1 DEF View, Left, Heads
<1>3. Headed(f, D, V, {})
  BY <1>1 DEF Good, Tidy
<1> HIDE DEF V
<1>4. c.chain \in Clusters
  BY DEF Locals, OptionalClusters
<1> QED
  BY <1>1, <1>2, <1>3, <1>4 DEF Headed

\* A loose cluster is not the first of the file that is written.
LEMMA LooseIsNotHead ==
  ASSUME NEW f, NEW D, NEW W \in Heads, NEW c, Fits(W, c), c.op = "write", NEW G, NEW k,
         Loose(f, D, View(W, c), G, k)
  PROVE  c.chain # k
<1>1. c.fd \in Descriptors
  BY DEF Fits
<1>2. View(W, c)[c.fd].open /\ View(W, c)[c.fd].first_cluster = c.chain
  BY <1>1 DEF View, Left, Heads
<1> QED
  BY <1>1, <1>2 DEF Loose

\* The entries and the descriptors are as they should be, and so is the call.
LEMMA MatchedBy ==
  ASSUME NEW f, NEW L, NEW E, NEW D, NEW W, NEW c, NEW d, Ranked(f, L, E),
         Fulfilled(L, D, c), Agree(D, W, c), c.op \in {"write", "mkdir"}, Goes(L, E, D, c, d)
  PROVE  Matched(f, L, E, D, W, d)
<1>1. Changing(d) = Changing(c)
  BY DEF Changing, Emptying, Goes
<1> QED
  BY <1>1 DEF Matched, Fulfilled, Agree, Goes

\* The entries keep their chains when the first clusters keep their lengths.
LEMMA FulfilledStill ==
  ASSUME NEW L, NEW M, NEW D, NEW c, Fulfilled(L, D, c),
         \A s \in Slots \ Changing(c) :
           D[s].kind # "free" /\ D[s].first_cluster # None =>
             M[D[s].first_cluster] = L[D[s].first_cluster]
  PROVE  Fulfilled(M, D, c)
BY DEF Fulfilled, Fulfils

-----------------------------------------------------------------------------
(* The writes to the table.                                                *)

\* allocchain marks a cluster.
LEMMA MarkMatched ==
  ASSUME NEW f \in Tables, NEW L, NEW E, NEW D \in Directories, NEW W \in Heads, NEW c,
         Sound(c), Good(f, D, W, c), Matched(f, L, E, D, W, c), c.at = "mark"
  PROVE  \E M, F : Matched(Stored(f, c), M, F, D, W, Written(c))
<1> DEFINE k == c.cluster
           g == [f EXCEPT ![k] = EOC]
           M == [L EXCEPT ![k] = 1]
           F == [E EXCEPT ![k] = k]
<1>1. /\ c \in Locals /\ Asked(c) /\ c.op \in {"write", "mkdir"} /\ c.left >= 1
      /\ k \in Clusters /\ c.op # "rename"
  BY DEF Sound, Ready
<1>2. Stored(f, c) = g /\ Written(c) = Marked(c)
  BY DEF Stored, Target, Value, Written
<1>3. /\ Ranked(f, L, E) /\ Grows(L, E, D, c) /\ (c.op = "write" => Gapped(c))
      /\ Fulfilled(L, D, c) /\ Agree(D, W, c)
  BY DEF Matched, Owes, Allocating, Writing, Gapped, PastEnd
<1>4. Quiet(f, D, W, c) /\ Has(f, D, W, c) /\ f[k] = None
  BY <1>1, GoodIsQuiet DEF Stage, Allocates, Has
<1>5. Preds(f, k) = {} /\ Leads(D, {}, k) = {}
  BY <1>1, <1>4 DEF Quiet, Tidy, FreeIsUnled
<1>6. Ranked(g, M, F)
  BY <1>1, <1>3, <1>4, <1>5, MarkRanks
<1>7. /\ M \in Lengths /\ M[k] = 1 /\ F[k] = k /\ L[k] = 0
      /\ \A x \in Clusters : x # k => M[x] = L[x] /\ F[x] = E[x]
  BY <1>1, <1>3, <1>4 DEF Ranked, Lengths
<1> HIDE DEF g, M, F, k
<1>8. c.first \in Clusters \cup {None} /\ c.previous \in Clusters \cup {None}
      /\ c.chain \in Clusters \cup {None} /\ c.tail \in Clusters \cup {None}
  BY <1>1 DEF Locals, OptionalClusters
<1>9. c.first # None => c.first \in Clusters /\ c.first # k /\ c.previous \in Clusters
  BY <1>4, <1>8 DEF Has, Loose
<1>10. Got(M, c) = Got(L, c)
  BY <1>7, <1>9 DEF Got
<1>11. c.first # None => F[c.first] = c.previous /\ M[c.previous] = 1
  <2> SUFFICES ASSUME c.first # None PROVE F[c.first] = c.previous /\ M[c.previous] = 1
    OBVIOUS
  <2>1. E[c.first] = c.previous /\ L[c.previous] = 1
    BY <1>3 DEF Grows
  <2>2. c.previous # k
    BY <1>7, <2>1
  <2> QED
    BY <1>7, <1>9, <2>1, <2>2
<1>12. ASSUME c.op = "write"
       PROVE  Appends(M, F, D, c)
  <2>1. Appends(L, E, D, c)
    BY <1>3, <1>12 DEF Grows
  <2>2. ASSUME c.chain # None
        PROVE  c.chain \in Clusters /\ c.chain # k
    <3>1. c.chain \in Clusters /\ f[c.chain] # None
      BY <1>1, <1>12, <2>2, WriteHeads
    <3> QED
      BY <1>4, <3>1
  <2>3. Settled(M, D, c)
    BY <1>7, <2>1, <2>2 DEF Appends, Settled, HasLength
  <2>4. c.tail # None => c.chain # None /\ M[c.tail] = 1 /\ F[c.chain] = c.tail
    <3> SUFFICES ASSUME c.tail # None
                 PROVE  c.chain # None /\ M[c.tail] = 1 /\ F[c.chain] = c.tail
      OBVIOUS
    <3>1. c.tail \in Clusters /\ c.chain # None /\ L[c.tail] = 1 /\ E[c.chain] = c.tail
      BY <1>8, <2>1 DEF Appends
    <3> QED
      BY <1>7, <2>2, <3>1
  <2> QED
    BY <2>1, <2>3, <2>4 DEF Appends
<1>13. Grows(M, F, D, c)
  BY <1>3, <1>10, <1>11, <1>12 DEF Grows
<1>14. Goes(M, F, D, c, Marked(c))
  <2>1. c.first = None <=> c.previous = None
    BY <1>4 DEF Has
  <2>2. c.cluster \in Clusters /\ M[c.cluster] = 1 /\ F[c.cluster] = c.cluster
    BY <1>1, <1>7 DEF k
  <2> QED
    BY <1>1, <1>3, <1>7, <1>13, <2>1, <2>2, MarkedOwes
<1>15. Fulfilled(M, D, c)
  <2>1. ASSUME NEW s \in Slots \ Changing(c), D[s].kind # "free", D[s].first_cluster # None
        PROVE  M[D[s].first_cluster] = L[D[s].first_cluster]
    <3> DEFINE x == D[s].first_cluster
    <3>1. x \in Clusters /\ f[x] # None
      BY <1>1, <2>1, EntryHeads
    <3> HIDE DEF x
    <3>2. M[x] = L[x]
      BY <1>4, <1>7, <3>1
    <3> QED
      BY <3>2 DEF x
  <2> QED
    BY <1>3, <2>1, FulfilledStill
<1>16. Matched(g, M, F, D, W, Marked(c))
  BY <1>1, <1>3, <1>6, <1>14, <1>15, MatchedBy
<1> QED
  BY <1>2, <1>16

\* allocchain links the last cluster it has to the next.
LEMMA LinkMatched ==
  ASSUME NEW f \in Tables, NEW L, NEW E, NEW D \in Directories, NEW W \in Heads, NEW c,
         Sound(c), Good(f, D, W, c), Matched(f, L, E, D, W, c), c.at = "link"
  PROVE  \E M, F : Matched(Stored(f, c), M, F, D, W, Written(c))
<1> DEFINE k == c.cluster
           h == c.first
           t == c.previous
           g == [f EXCEPT ![t] = k]
           M == Longer(L, E, t, k)
           F == EndsAt(L, E, t, k)
<1>1. /\ c \in Locals /\ Asked(c) /\ c.op \in {"write", "mkdir"} /\ c.left >= 1
      /\ k \in Clusters /\ c.op # "rename"
  BY DEF Sound, Ready
<1>2. Stored(f, c) = g /\ Written(c) = Linked(c)
  BY DEF Stored, Target, Value, Written
<1>3. /\ Ranked(f, L, E) /\ Grows(L, E, D, c) /\ (c.op = "write" => Gapped(c))
      /\ Fulfilled(L, D, c) /\ Agree(D, W, c) /\ L[k] = 1 /\ E[k] = k
  BY DEF Matched, Owes, Allocating, Writing, Gapped, PastEnd
<1>4. /\ Fits(W, c) /\ Tidy(f, D, View(W, c), {}, {}) /\ Loose(f, D, View(W, c), {}, k)
      /\ Loose(f, D, View(W, c), {}, h) /\ k # h /\ h # None /\ t # None
  BY <1>1, GoodIsQuiet DEF Stage, Allocates, Quiet
<1>5. /\ h \in Clusters /\ f[h] # None /\ Preds(f, h) = {} /\ f[k] # None /\ Preds(f, k) = {}
      /\ Leads(D, {}, h) = {} /\ t \in Clusters /\ Apart(f, D, {})
  BY <1>1, <1>4 DEF Loose, Locals, OptionalClusters, Tidy
<1>6. E[h] = t /\ L[t] = 1 /\ L[h] + c.left = Missing(c)
  BY <1>3, <1>4 DEF Grows, Got
<1>7. \A x \in Clusters : f[x] # None /\ Preds(f, x) = {} /\ x # h => E[x] # t
  BY <1>3, <1>5, <1>6, HeadsApart
<1>8. k # t /\ f[t] = EOC /\ E[t] = t
  BY <1>1, <1>3, <1>4, <1>5, <1>6, <1>7, UsedHasLength DEF Ranked
<1>9. Ranked(g, M, F)
  <2>1. E[k] # t
    BY <1>3, <1>8
  <2> QED
    BY <1>1, <1>3, <1>5, <1>8, <2>1, LinkRanks
<1>10. \A x \in Clusters : /\ L[x] \in Nat /\ (f[x] # None <=> L[x] >= 1)
                           /\ M[x] = IF L[x] >= 1 /\ E[x] = t THEN L[x] + L[k] ELSE L[x]
                           /\ F[x] = IF L[x] >= 1 /\ E[x] = t THEN E[k] ELSE E[x]
  BY <1>3, UsedHasLength DEF Longer, EndsAt
<1> HIDE DEF g, M, F
<1>11. M \in Lengths
  BY <1>9 DEF Ranked, Lengths
<1>12. ASSUME NEW x \in Clusters, E[x] # t
       PROVE  M[x] = L[x] /\ F[x] = E[x]
  BY <1>10, <1>12
<1>13. M[h] = L[h] + 1 /\ F[h] = k /\ M[k] = 1
  BY <1>1, <1>3, <1>5, <1>6, <1>8, <1>10
<1> HIDE DEF k, h, t
<1>14. ASSUME c.op = "write"
       PROVE  Appends(M, F, D, c)
  <2>1. Appends(L, E, D, c)
    BY <1>3, <1>14 DEF Grows
  <2>2. ASSUME c.chain # None
        PROVE  c.chain \in Clusters /\ f[c.chain] # None /\ Preds(f, c.chain) = {}
    BY <1>1, <1>14, <2>2, WriteHeads
  <2>3. c.chain # h
    BY <1>4, <1>14, LooseIsNotHead
  <2>4. c.chain # None => E[c.chain] # t
    BY <1>7, <2>2, <2>3
  <2>5. Settled(M, D, c)
    BY <1>12, <2>1, <2>2, <2>4 DEF Appends, Settled, HasLength
  <2>6. c.tail # None => c.chain # None /\ M[c.tail] = 1 /\ F[c.chain] = c.tail
    <3> SUFFICES ASSUME c.tail # None
                 PROVE  c.chain # None /\ M[c.tail] = 1 /\ F[c.chain] = c.tail
      OBVIOUS
    <3>1. c.tail \in Clusters /\ c.chain # None /\ L[c.tail] = 1 /\ E[c.chain] = c.tail
      BY <1>1, <2>1 DEF Appends, Locals, OptionalClusters
    <3>2. E[c.tail] = c.tail
      BY <1>3, <3>1, UsedHasLength DEF Ranked
    <3> QED
      BY <1>12, <2>2, <2>4, <3>1, <3>2
  <2> QED
    BY <2>1, <2>5, <2>6 DEF Appends
<1>15. Goes(M, F, D, c, Linked(c))
  <2>1. c.first \in Clusters /\ c.cluster \in Clusters /\ F[c.first] = c.cluster /\ M[c.cluster] = 1
    BY <1>1, <1>5, <1>13 DEF k, h
  <2>2. M[c.first] + c.left = Missing(c) + 1
    <3>1. L[h] \in Nat /\ c.left \in Nat
      BY <1>1, <1>5, <1>10, FatAssumption DEF Locals
    <3> QED
      BY <1>6, <1>13, <3>1 DEF h
  <2>3. c.op = "write" => Gapped(c) /\ Appends(M, F, D, c)
    BY <1>3, <1>14
  <2> QED
    BY <1>1, <1>11, <2>1, <2>2, <2>3, LinkedOwes
<1>16. Fulfilled(M, D, c)
  <2>1. ASSUME NEW s \in Slots \ Changing(c), D[s].kind # "free", D[s].first_cluster # None
        PROVE  M[D[s].first_cluster] = L[D[s].first_cluster]
    <3> DEFINE x == D[s].first_cluster
    <3>1. x \in Clusters /\ s \in Leads(D, {}, x) /\ Preds(f, x) = {} /\ f[x] # None
      BY <1>1, <2>1, EntryHeads
    <3> HIDE DEF x
    <3>2. x # h
      BY <1>5, <3>1
    <3>3. M[x] = L[x]
      BY <1>7, <1>12, <3>1, <3>2
    <3> QED
      BY <3>3 DEF x
  <2> QED
    BY <1>3, <2>1, FulfilledStill
<1>17. Matched(g, M, F, D, W, Linked(c))
  BY <1>1, <1>3, <1>9, <1>15, <1>16, MatchedBy
<1> QED
  BY <1>2, <1>17

\* resizechain links the chain of the file to the clusters it has taken.
LEMMA AppendMatched ==
  ASSUME NEW f \in Tables, NEW L, NEW E, NEW D \in Directories, NEW W \in Heads, NEW c,
         Sound(c), Good(f, D, W, c), Matched(f, L, E, D, W, c), c.at = "append"
  PROVE  \E M, F : Matched(Stored(f, c), M, F, D, W, Written(c))
<1> DEFINE h == c.first
           t == c.tail
           g == [f EXCEPT ![t] = h]
           M == Longer(L, E, t, h)
           F == EndsAt(L, E, t, h)
<1>1. c \in Locals /\ Asked(c) /\ c.op = "write" /\ c.op # "rename"
  BY DEF Sound, Ready
<1>2. Stored(f, c) = g /\ Written(c) = Resized(c)
  BY DEF Stored, Target, Value, Written
<1>3. /\ Ranked(f, L, E) /\ Grows(L, E, D, c) /\ Gapped(c) /\ Fulfilled(L, D, c)
      /\ Agree(D, W, c) /\ c.left = 0 /\ t # None
  BY <1>1 DEF Matched, Owes, Allocating, Writing, Gapped, PastEnd
<1>4. Fits(W, c) /\ Tidy(f, D, View(W, c), {}, {}) /\ Loose(f, D, View(W, c), {}, h)
  BY <1>1, GoodIsQuiet DEF Stage, Allocates, Quiet
<1>5. /\ h \in Clusters /\ f[h] # None /\ Preds(f, h) = {} /\ h # None
      /\ t \in Clusters /\ Apart(f, D, {})
  BY <1>1, <1>3, <1>4, NoCluster DEF Loose, Locals, OptionalClusters, Tidy
<1>6. L[h] = Missing(c) /\ Settled(L, D, c) /\ c.chain # None /\ L[t] = 1 /\ E[c.chain] = t
  <2>1. L[h] \in Nat
    BY <1>3, <1>5 DEF Ranked
  <2> QED
    BY <1>1, <1>3, <1>5, <2>1 DEF Grows, Got, Appends
<1>7. /\ c.chain \in Clusters /\ f[c.chain] # None /\ Preds(f, c.chain) = {} /\ c.chain # h
      /\ Leads(D, {}, c.chain) \subseteq {c.slot}
  <2>1. /\ c.chain \in Clusters /\ f[c.chain] # None /\ Preds(f, c.chain) = {}
        /\ Leads(D, {}, c.chain) \subseteq {c.slot}
    BY <1>1, <1>6, WriteHeads
  <2>2. c.chain # h
    BY <1>1, <1>4, LooseIsNotHead
  <2> QED
    BY <2>1, <2>2
<1>8. \A x \in Clusters : f[x] # None /\ Preds(f, x) = {} /\ x # c.chain => E[x] # t
  BY <1>3, <1>5, <1>6, <1>7, HeadsApart
<1>9. f[t] = EOC /\ E[h] # t
  BY <1>3, <1>5, <1>6, <1>7, <1>8, UsedHasLength
<1>10. Ranked(g, M, F)
  BY <1>3, <1>5, <1>9, LinkRanks
<1>11. \A x \in Clusters : /\ L[x] \in Nat /\ (f[x] # None <=> L[x] >= 1)
                           /\ M[x] = IF L[x] >= 1 /\ E[x] = t THEN L[x] + L[h] ELSE L[x]
  BY <1>3, UsedHasLength DEF Longer
<1> HIDE DEF g, M, F
<1>12. M \in Lengths
  BY <1>10 DEF Ranked, Lengths
<1>13. ASSUME NEW x \in Clusters, E[x] # t
       PROVE  M[x] = L[x]
  BY <1>11, <1>13
<1>14. M[c.chain] = c.count
  <2>1. M[c.chain] = L[c.chain] + L[h] /\ L[c.chain] = c.size
    BY <1>6, <1>7, <1>11, NoCluster DEF Settled, HasLength
  <2>2. L[h] = c.count - c.size /\ c.count \in Nat /\ c.size \in Nat
    BY <1>1, <1>6 DEF Missing, Locals, Sizes
  <2> QED
    BY <2>1, <2>2
<1>15. Goes(M, F, D, c, Resized(c))
  BY <1>1, <1>3, <1>7, <1>12, <1>14, ResizedOwes
<1>16. Fulfilled(M, D, c)
  <2>1. ASSUME NEW s \in Slots \ Changing(c), D[s].kind # "free", D[s].first_cluster # None
        PROVE  M[D[s].first_cluster] = L[D[s].first_cluster]
    <3> DEFINE x == D[s].first_cluster
    <3>1. x \in Clusters /\ s \in Leads(D, {}, x) /\ Preds(f, x) = {} /\ f[x] # None
      BY <1>1, <2>1, EntryHeads
    <3>2. s # c.slot
      BY <1>1 DEF Changing
    <3> HIDE DEF x
    <3>3. x # c.chain
      BY <1>7, <3>1, <3>2
    <3>4. M[x] = L[x]
      BY <1>8, <1>13, <3>1, <3>3
    <3> QED
      BY <3>4 DEF x
  <2> QED
    BY <1>3, <2>1, FulfilledStill
<1>17. Matched(g, M, F, D, W, Resized(c))
  BY <1>1, <1>3, <1>10, <1>15, <1>16, MatchedBy
<1> QED
  BY <1>2, <1>17

\* resizechain ends the chain where it is to end.
LEMMA CutMatched ==
  ASSUME NEW f \in Tables, NEW L, NEW E, NEW D \in Directories, NEW W \in Heads, NEW c,
         Sound(c), Good(f, D, W, c), Matched(f, L, E, D, W, c), c.at = "cut"
  PROVE  \E M, F : Matched(Stored(f, c), M, F, D, W, Written(c))
<1> DEFINE k == c.cluster
           g == [f EXCEPT ![k] = EOC]
           M == Shorter(L, E, k)
           F == StopsAt(L, E, k)
<1>1. c \in Locals /\ Asked(c) /\ c.op = "write" /\ c.next \in Clusters /\ c.op # "rename"
  BY DEF Sound, Ready
<1>2. Stored(f, c) = g /\ Written(c) = freechain(c, c.next)
  BY DEF Stored, Target, Value, Written
<1>3. /\ Ranked(f, L, E) /\ Gapped(c) /\ Fulfilled(L, D, c) /\ Agree(D, W, c)
      /\ k \in Clusters /\ E[k] = E[c.chain] /\ c.chain \in Clusters
      /\ c.found = L[c.chain] /\ c.found > c.count /\ L[k] = c.found - c.count + 1
  BY <1>1 DEF Matched, Owes, Walking, Writing, Gapped, PastEnd, Stands
<1>4. Quiet(f, D, W, c) /\ c.next = f[k]
  BY <1>1, GoodIsQuiet DEF Stage, Walks
<1>5. Apart(f, D, {}) /\ f[k] \in Clusters
  BY <1>1, <1>4 DEF Quiet, Tidy
<1>6. Ranked(g, M, F)
  BY <1>3, <1>5, CutRanks
<1>7. \A x \in Clusters :
        M[x] = IF L[x] >= L[k] /\ E[x] = E[k] THEN L[x] + 1 - L[k] ELSE L[x]
  BY DEF Shorter, Before
<1> HIDE DEF g, M, F, k
<1>8. c.count >= 1 /\ c.count \in Nat /\ c.found \in Nat
  BY <1>1, FatAssumption DEF Asked, Locals, Sizes
<1>9. M[c.chain] = c.count
  <2>1. L[c.chain] >= L[k]
    BY <1>3, <1>8
  <2>2. M[c.chain] = L[c.chain] + 1 - L[k]
    BY <1>3, <1>7, <2>1
  <2> QED
    BY <1>3, <1>8, <2>2
<1>10. Goes(M, F, D, c, freechain(c, c.next))
  BY <1>1, <1>3, <1>9, freechainOwes DEF Gapped
<1>11. /\ f[c.chain] # None /\ Preds(f, c.chain) = {}
       /\ Leads(D, {}, c.chain) \subseteq {c.slot}
  <2>1. c.chain # None
    BY <1>3, NoCluster
  <2> QED
    BY <1>1, <2>1, WriteHeads
<1>12. Fulfilled(M, D, c)
  <2>1. ASSUME NEW s \in Slots \ Changing(c), D[s].kind # "free", D[s].first_cluster # None
        PROVE  M[D[s].first_cluster] = L[D[s].first_cluster]
    <3> DEFINE x == D[s].first_cluster
    <3>1. x \in Clusters /\ s \in Leads(D, {}, x) /\ Preds(f, x) = {} /\ f[x] # None
      BY <1>1, <2>1, EntryHeads
    <3>2. s # c.slot
      BY <1>1 DEF Changing
    <3> HIDE DEF x
    <3>3. x # c.chain
      BY <1>11, <3>1, <3>2
    <3>4. E[x] # E[c.chain]
      BY <1>3, <1>5, <1>11, <3>1, <3>3, HeadsApart
    <3>5. M[x] = L[x]
      BY <1>3, <1>7, <3>1, <3>4
    <3> QED
      BY <3>5 DEF x
  <2> QED
    BY <1>3, <2>1, FulfilledStill
<1>13. Matched(g, M, F, D, W, freechain(c, c.next))
  BY <1>1, <1>3, <1>6, <1>10, <1>12, MatchedBy
<1> QED
  BY <1>2, <1>13

\* freechain has freed the chain of a file that is opened to be written or of an entry
\* that is removed, or the next cluster of it is to be freed.
LEMMA EmptyingOwes ==
  ASSUME NEW f, NEW L, NEW E, NEW D, NEW W, NEW c \in Locals, c.op \in {"open", "unlink"},
         Ranked(f, L, E), Fulfilled(L, D, c), Agree(D, W, c), Emptying(c) = {c.slot}
  PROVE  /\ \A k : Matched(f, L, E, D, W, [Goto(c, "free") EXCEPT !.cluster = k])
         /\ \A k : Matched(f, L, E, D, W, freechain(c, k))
         /\ c.op = "open" =>
              Matched(f, L, E, D, W, [Goto(c, "entry") EXCEPT !.chain = None, !.size = 0])
         /\ c.op = "unlink" => Matched(f, L, E, D, W, Goto(c, "erase"))
<1>1. ASSUME NEW d, d.op = c.op, d.slot = c.slot, d.fd = c.fd,
             \/ d.at = "free"
             \/ c.op = "open" /\ d.at = "entry" /\ d.chain = None /\ d.size = 0
             \/ c.op = "unlink" /\ d.at = "erase"
      PROVE  Matched(f, L, E, D, W, d)
  <2>1. Changing(d) = Changing(c)
    BY <1>1 DEF Changing, Emptying
  <2>2. Owes(L, E, D, d)
    BY <1>1 DEF Owes, Walking, Allocating
  <2> QED
    BY <1>1, <2>1, <2>2 DEF Matched, Fulfilled, Agree
<1>2. ASSUME NEW k
      PROVE  Matched(f, L, E, D, W, [Goto(c, "free") EXCEPT !.cluster = k])
  <2> DEFINE d == [Goto(c, "free") EXCEPT !.cluster = k]
  <2>1. d.op = c.op /\ d.slot = c.slot /\ d.fd = c.fd /\ d.at = "free"
    BY DEF Goto, Locals
  <2> HIDE DEF d
  <2> QED
    BY <1>1, <2>1 DEF d
<1>3. ASSUME NEW k
      PROVE  Matched(f, L, E, D, W, freechain(c, k))
  <2> DEFINE d == freechain(c, k)
  <2>1. d.op = c.op /\ d.slot = c.slot /\ d.fd = c.fd /\ d.at = "free"
    BY DEF freechain, Goto, Locals
  <2> HIDE DEF d
  <2> QED
    BY <1>1, <2>1 DEF d
<1>4. ASSUME c.op = "open"
      PROVE  Matched(f, L, E, D, W, [Goto(c, "entry") EXCEPT !.chain = None, !.size = 0])
  <2> DEFINE d == [Goto(c, "entry") EXCEPT !.chain = None, !.size = 0]
  <2>1. /\ d.op = c.op /\ d.slot = c.slot /\ d.fd = c.fd /\ d.at = "entry"
        /\ d.chain = None /\ d.size = 0
    BY DEF Goto, Locals
  <2> HIDE DEF d
  <2> QED
    BY <1>1, <1>4, <2>1 DEF d
<1>5. ASSUME c.op = "unlink"
      PROVE  Matched(f, L, E, D, W, Goto(c, "erase"))
  <2> DEFINE d == Goto(c, "erase")
  <2>1. d.op = c.op /\ d.slot = c.slot /\ d.fd = c.fd /\ d.at = "erase"
    BY DEF Goto, Locals
  <2> HIDE DEF d
  <2> QED
    BY <1>1, <1>5, <2>1 DEF d
<1> QED
  BY <1>2, <1>3, <1>4, <1>5

\* freechain frees a cluster.
LEMMA ClearMatched ==
  ASSUME NEW f \in Tables, NEW L, NEW E, NEW D \in Directories, NEW W \in Heads, NEW c,
         Sound(c), Good(f, D, W, c), Matched(f, L, E, D, W, c), c.at = "clear"
  PROVE  \E M, F : Matched(Stored(f, c), M, F, D, W, Written(c))
<1> DEFINE k == c.cluster
           g == [f EXCEPT ![k] = None]
           M == [L EXCEPT ![k] = 0]
           G == Emptying(c)
<1>1. /\ c \in Locals /\ Asked(c) /\ c.op \in {"open", "unlink", "write", "mkdir"}
      /\ c.found \in Nat /\ c.next \in Links /\ c.op # "rename"
  BY FatAssumption DEF Sound, Good, Stage, Placed, Locals
<1>2. Stored(f, c) = g /\ Written(c) = Cleared(c)
  BY DEF Stored, Target, Value, Written, None
<1>3. /\ Loose(f, D, View(W, c), G, k) /\ Fits(W, c)
      /\ c.found <= Cardinality(Zeros(f)) + 1
  BY <1>1 DEF Good, Stage, Frees
<1>4. k \in Clusters /\ f[k] # None /\ Preds(f, k) = {} /\ Leads(D, {}, k) \subseteq G
  BY <1>3 DEF Loose
<1>5. Ranked(f, L, E) /\ Fulfilled(L, D, c) /\ Agree(D, W, c) /\ Owes(L, E, D, c)
  BY DEF Matched
<1>6. Ranked(g, M, E)
  BY <1>4, <1>5, ClearRanks
<1>7. M \in Lengths /\ \A x \in Clusters : x # k => M[x] = L[x]
  BY <1>5, <1>6 DEF Ranked, Lengths
<1>8. c.found < MaxCluster
  <2>1. Zeros(g) = Zeros(f) \cup {k} /\ k \notin Zeros(f)
    <3>1. \A x \in Clusters : g[x] = IF x = k THEN None ELSE f[x]
      BY DEF Tables
    <3> HIDE DEF g
    <3> QED
      BY <1>4, <3>1 DEF Zeros
  <2>2. Cardinality(Zeros(g)) = Cardinality(Zeros(f)) + 1
    BY <2>1, ZerosCount, FS_AddElement
  <2>3. Cardinality(Zeros(g)) \in Nat /\ Cardinality(Zeros(g)) <= MaxCluster - 1
    BY ZerosCount
  <2>4. Cardinality(Zeros(f)) \in Nat
    BY ZerosCount
  <2> QED
    BY <1>1, <1>3, <2>2, <2>3, <2>4, FatAssumption
<1> HIDE DEF g, M, k
<1>9. Fulfilled(M, D, c)
  <2>1. ASSUME NEW s \in Slots \ Changing(c), D[s].kind # "free", D[s].first_cluster # None
        PROVE  M[D[s].first_cluster] = L[D[s].first_cluster]
    <3> DEFINE x == D[s].first_cluster
    <3>1. x \in Clusters /\ s \in Leads(D, {}, x)
      BY <1>1, <2>1, EntryHeads
    <3>2. s \notin G
      BY DEF Changing
    <3> HIDE DEF x, G
    <3>3. M[x] = L[x]
      BY <1>4, <1>7, <3>1, <3>2
    <3> QED
      BY <3>3 DEF x
  <2> QED
    BY <1>5, <2>1, FulfilledStill
<1>10. CASE c.op \in {"write", "mkdir"}
  <2>1. ASSUME c.op = "write"
        PROVE  /\ PastEnd(c)
               /\ IF c.undo THEN Settled(M, D, c) ELSE c.chain \in Clusters /\ M[c.chain] = c.count
    <3>1. /\ PastEnd(c)
          /\ IF c.undo THEN Settled(L, D, c) ELSE c.chain \in Clusters /\ L[c.chain] = c.count
      BY <1>5, <2>1 DEF Owes, Writing, PastEnd
    <3>2. c.chain # k
      BY <1>3, <2>1, LooseIsNotHead
    <3>3. CASE c.undo
      BY <1>7, <3>1, <3>2, <3>3 DEF Settled, HasLength
    <3>4. CASE ~c.undo
      BY <1>7, <3>1, <3>2, <3>4
    <3> QED
      BY <3>1, <3>3, <3>4
  <2>2. Goes(M, E, D, c, Cleared(c))
    BY <1>1, <1>7, <1>8, <1>10, <2>1, ClearedOwes
  <2>3. Matched(g, M, E, D, W, Cleared(c))
    BY <1>5, <1>6, <1>9, <1>10, <2>2, MatchedBy
  <2> QED
    BY <1>2, <2>3
<1>11. CASE c.op \in {"open", "unlink"}
  <2>1. Emptying(c) = {c.slot}
    BY <1>11 DEF Emptying
  <2> DEFINE one == [Goto(c, "free") EXCEPT !.cluster = c.next]
             two == [Goto(c, "entry") EXCEPT !.chain = None, !.size = 0]
             three == Goto(c, "erase")
  <2>2. /\ Matched(g, M, E, D, W, one)
        /\ c.op = "open" => Matched(g, M, E, D, W, two)
        /\ c.op = "unlink" => Matched(g, M, E, D, W, three)
    BY <1>1, <1>5, <1>6, <1>9, <1>11, <2>1, EmptyingOwes
  <2>3. Cleared(c) = IF c.next \in Clusters THEN one ELSE Freed(c, TRUE)
    <3>1. CASE c.next \in Clusters
      BY <1>8, <3>1, NoCluster DEF Cleared
    <3>2. CASE c.next \notin Clusters
      BY <1>1, <3>2 DEF Cleared, Links
    <3> QED
      BY <3>1, <3>2
  <2>4. Freed(c, TRUE) = IF c.op = "unlink" THEN three ELSE two
    BY <1>11 DEF Freed
  <2> HIDE DEF one, two, three
  <2>5. Matched(g, M, E, D, W, Cleared(c))
    BY <1>11, <2>2, <2>3, <2>4
  <2> QED
    BY <1>2, <2>5
<1> QED
  BY <1>1, <1>10, <1>11

\* Every write to the table.
LEMMA StoredMatched ==
  ASSUME NEW f \in Tables, NEW L, NEW E, NEW D \in Directories, NEW W \in Heads, NEW c,
         Sound(c), Good(f, D, W, c), Matched(f, L, E, D, W, c), c.at \in FatWrites
  PROVE  \E M, F : Matched(Stored(f, c), M, F, D, W, Written(c))
BY MarkMatched, LinkMatched, AppendMatched, CutMatched, ClearMatched DEF FatWrites

-----------------------------------------------------------------------------
(* The writes to the directory.                                            *)

\* The descriptors that are not in a write have entries of files.
LEMMA OpenSlots ==
  ASSUME NEW f, NEW D, NEW W \in Heads, NEW c, Good(f, D, W, c), NEW e \in Descriptors,
         W[e].open, ~(c.op = "write" /\ c.fd = e)
  PROVE  W[e].slot \in Slots /\ D[W[e].slot].kind = "file"
<1> DEFINE V == View(W, c)
<1>1. V[e] = W[e]
  BY DEF View, Heads
<1>2. Headed(f, D, V, Renaming(c))
  BY DEF Good, Tidy
<1> HIDE DEF V
<1> QED
  BY <1>1, <1>2 DEF Headed

\* The entry at t is written: every other one is as it was.
LEMMA EntryMatched ==
  ASSUME NEW f, NEW L, NEW E, NEW D \in Directories, NEW W \in Heads, NEW c, Good(f, D, W, c),
         Matched(f, L, E, D, W, c), NEW t \in Slots, Place(c) = t,
         NEW d, d.op = c.op, d.fd = c.fd, Changing(c) \subseteq {t},
         t \in Changing(d) \/ Named(D, c)[t].kind = "free" \/ Fulfils(L, Named(D, c)[t]),
         \A e \in Descriptors : W[e].open /\ ~(c.op = "write" /\ c.fd = e) => W[e].slot # t,
         Owes(L, E, Named(D, c), d)
  PROVE  Matched(f, L, E, Named(D, c), W, d)
<1> DEFINE D2 == Named(D, c)
<1>1. \A s \in Slots : s # t => D2[s] = D[s]
  BY NamedAt
<1> HIDE DEF D2
<1>2. Ranked(f, L, E) /\ Fulfilled(L, D, c) /\ Agree(D, W, c)
  BY DEF Matched
<1>3. Fulfilled(L, D2, d)
  <2> SUFFICES ASSUME NEW s \in Slots \ Changing(d), D2[s].kind # "free"
               PROVE  Fulfils(L, D2[s])
    BY DEF Fulfilled
  <2>1. CASE s = t
    BY <2>1 DEF D2
  <2>2. CASE s # t
    BY <1>1, <1>2, <2>2 DEF Fulfilled
  <2> QED
    BY <2>1, <2>2
<1>4. Agree(D2, W, d)
  <2> SUFFICES ASSUME NEW e \in Descriptors, W[e].open, ~(c.op = "write" /\ c.fd = e)
               PROVE  /\ D2[W[e].slot].first_cluster = W[e].first_cluster
                      /\ D2[W[e].slot].size = W[e].size
    BY DEF Agree
  <2>1. W[e].slot \in Slots
    BY OpenSlots
  <2>2. D2[W[e].slot] = D[W[e].slot]
    BY <1>1, <2>1
  <2> QED
    BY <1>2, <2>2 DEF Agree
<1> QED
  BY <1>2, <1>3, <1>4 DEF Matched, D2

\* The call returns after it has written an entry.
LEMMA ReturnFields ==
  ASSUME NEW c \in Locals, NEW ok
  PROVE  LET d == Return(c, ok)
         IN  /\ d.at = "return" /\ d.op = c.op /\ d.fd = c.fd /\ d.slot = c.slot
             /\ d.chain = c.chain /\ d.size = c.size /\ d.ok = ok
BY DEF Return, Goto, Locals

\* write: the entry gets the first cluster and the size.
LEMMA WriteEntryMatched ==
  ASSUME NEW f \in Tables, NEW L, NEW E, NEW D \in Directories, NEW W \in Heads, NEW c,
         Sound(c), Good(f, D, W, c), Matched(f, L, E, D, W, c), c.op = "write", c.at = "entry"
  PROVE  Matched(f, L, E, Named(D, c), W, AfterEntry(c, TRUE))
<1> DEFINE D2 == Named(D, c)
           s == c.slot
           d == EntryWritten(c, TRUE)
<1>1. c \in Locals /\ Asked(c) /\ c.to = 0
  BY DEF Sound, Good, Fits
<1>2. /\ s \in Slots /\ D[s].kind = "file"
      /\ \A e \in Descriptors : W[e].open /\ e # c.fd => W[e].slot # s
  BY WriteSlots
<1>3. Place(c) = s
  BY <1>1, PlaceIs
<1>4. D2[s] = NewEntry(c, D[s])
  BY <1>2, <1>3, NamedAt
<1>5. D2[s].first_cluster = c.chain /\ D2[s].size = c.size
  <2>1. D[s] \in Entries
    BY <1>2 DEF Directories
  <2>2. D2[s] = [D[s] EXCEPT !.first_cluster = c.chain, !.size = c.size]
    BY <1>2, <1>4 DEF NewEntry
  <2> QED
    BY <2>1, <2>2 DEF Entries
<1>6. Ranked(f, L, E) /\ L \in Lengths /\ Gapped(c) /\ HasLength(L, c.chain, c.size)
  BY DEF Matched, Ranked, Lengths, Owes, Writing, Gapped, PastEnd
<1>7. Settled(L, D2, c)
  BY <1>5, <1>6 DEF Settled
<1>8. ASSUME c.chain # None
      PROVE  L[c.chain] >= 1
  <2>1. c.chain \in Clusters /\ f[c.chain] # None
    BY <1>1, <1>8, WriteHeads
  <2> QED
    BY <1>6, <2>1, UsedHasLength
<1> HIDE DEF D2, s
<1>9. Goes(L, E, D2, c, d)
  BY <1>1, <1>6, <1>7, <1>8, EntryWrittenOwes
<1> HIDE DEF d
<1>10. d.op = c.op /\ d.fd = c.fd /\ d.slot = s /\ Owes(L, E, D2, d)
  BY <1>9 DEF Goes, s
<1>11. Changing(c) \subseteq {s} /\ s \in Changing(d)
  BY <1>10 DEF Changing, Emptying, s
<1>12. Matched(f, L, E, D2, W, d)
  BY <1>2, <1>3, <1>10, <1>11, EntryMatched DEF D2
<1> QED
  BY <1>12 DEF AfterEntry, D2, d

\* open: the entry of a file that has been emptied.
LEMMA OpenEntryMatched ==
  ASSUME NEW f, NEW L, NEW E, NEW D \in Directories, NEW W \in Heads, NEW c,
         Sound(c), Good(f, D, W, c), Matched(f, L, E, D, W, c), c.op = "open", c.at = "entry"
  PROVE  Matched(f, L, E, Named(D, c), W, AfterEntry(c, TRUE))
<1> DEFINE D2 == Named(D, c)
           s == c.slot
           d == Return(c, TRUE)
<1>1. /\ c \in Locals /\ c.to = 0 /\ s \in Slots /\ D[s].kind = "file"
      /\ \A e \in Descriptors : W[e].open => W[e].slot # s
  BY DEF Sound, Good, Fits, Stage, Names
<1>2. Place(c) = s
  BY <1>1, PlaceIs
<1>3. D2[s] = NewEntry(c, D[s])
  BY <1>1, <1>2, NamedAt
<1>4. c.chain = None /\ c.size = 0
  BY DEF Matched, Owes
<1>5. D2[s].first_cluster = None /\ D2[s].size = 0 /\ D2[s].kind = "file"
  <2>1. D[s] \in Entries
    BY <1>1 DEF Directories
  <2>2. D2[s] = [D[s] EXCEPT !.first_cluster = c.chain, !.size = c.size]
    BY <1>1, <1>3 DEF NewEntry
  <2> QED
    BY <1>1, <1>4, <2>1, <2>2 DEF Entries
<1>6. /\ d.at = "return" /\ d.op = c.op /\ d.fd = c.fd /\ d.slot = c.slot
      /\ d.chain = c.chain /\ d.size = c.size
  BY <1>1, ReturnFields
<1> HIDE DEF D2, d
<1>7. Owes(L, E, D2, d)
  BY <1>4, <1>5, <1>6 DEF Owes, Walking, Allocating
<1>8. Changing(c) \subseteq {s} /\ Fulfils(L, D2[s])
  BY <1>5 DEF Changing, Emptying, Fulfils
<1>9. Matched(f, L, E, D2, W, d)
  BY <1>1, <1>2, <1>6, <1>7, <1>8, EntryMatched DEF D2
<1> QED
  BY <1>9 DEF AfterEntry, D2, d

\* close: the entry is written as it is.
LEMMA CloseEntryMatched ==
  ASSUME NEW f, NEW L, NEW E, NEW D \in Directories, NEW W \in Heads, NEW c,
         Sound(c), Good(f, D, W, c), Matched(f, L, E, D, W, c), c.op = "close", c.at = "entry"
  PROVE  Matched(f, L, E, Named(D, c), W, AfterEntry(c, TRUE))
<1> DEFINE s == c.slot
           d == Return(c, TRUE)
<1>1. /\ c \in Locals /\ c.to = 0 /\ c.fd \in Descriptors /\ W[c.fd].open
      /\ W[c.fd].slot = s
  BY DEF Sound, Good, Fits
<1>2. s \in Slots /\ D[s].kind = "file"
  <2>1. W[c.fd].slot \in Slots /\ D[W[c.fd].slot].kind = "file"
    BY <1>1, OpenSlots
  <2> QED
    BY <1>1, <2>1
<1>3. Place(c) = s
  BY <1>1, PlaceIs
<1>4. D[s].first_cluster = c.chain /\ D[s].size = c.size
  BY DEF Matched, Owes
<1>5. NewEntry(c, D[s]) = D[s]
  <2>1. D[s] \in Entries
    BY <1>2 DEF Directories
  <2>2. NewEntry(c, D[s]) = [D[s] EXCEPT !.first_cluster = c.chain, !.size = c.size]
    BY <1>2 DEF NewEntry
  <2> QED
    BY <1>4, <2>1, <2>2 DEF Entries
<1>6. Named(D, c) = D
  BY <1>2, <1>3, <1>5 DEF Named, Directories
<1>7. /\ d.at = "return" /\ d.op = c.op /\ d.fd = c.fd /\ d.slot = c.slot
      /\ d.chain = c.chain /\ d.size = c.size
  BY <1>1, ReturnFields
<1> HIDE DEF d
<1>8. Owes(L, E, D, d)
  BY <1>4, <1>7 DEF Owes, Walking, Allocating
<1>9. Changing(d) = Changing(c)
  BY <1>7 DEF Changing, Emptying
<1>10. Matched(f, L, E, D, W, d)
  BY <1>7, <1>8, <1>9 DEF Matched, Fulfilled, Agree
<1> QED
  BY <1>6, <1>10 DEF AfterEntry, d

\* mkdir: the entry of the new directory leads to the cluster it has taken.
LEMMA DirectoryEntryMatched ==
  ASSUME NEW f, NEW L, NEW E, NEW D \in Directories, NEW W \in Heads, NEW c,
         Sound(c), Good(f, D, W, c), Matched(f, L, E, D, W, c), c.op = "mkdir", c.at = "entry"
  PROVE  Matched(f, L, E, Named(D, c), W, AfterEntry(c, TRUE))
<1> DEFINE D2 == Named(D, c)
           s == c.to
           d == Return(c, TRUE)
<1>1. c \in Locals /\ Loose(f, D, View(W, c), {}, c.first) /\ s \in Slots /\ D[s].kind = "free"
  BY GoodIsQuiet DEF Sound, Stage, Allocates, Names
<1>2. Place(c) = s
  BY <1>1, PlaceIs
<1>3. D2[s] = [kind |-> "directory", first_cluster |-> c.first, size |-> 0]
  <2>1. D2[s] = NewEntry(c, D[s])
    BY <1>1, <1>2, NamedAt
  <2> QED
    BY <1>1, <2>1 DEF NewEntry
<1>4. L[c.first] = 1 /\ c.first # None
  BY <1>1, NoCluster DEF Matched, Owes, Allocating, Loose
<1>5. /\ d.at = "return" /\ d.op = c.op /\ d.fd = c.fd /\ d.slot = c.slot
      /\ d.chain = c.chain /\ d.size = c.size
  BY <1>1, ReturnFields
<1> HIDE DEF D2, d
<1>6. Owes(L, E, D2, d)
  BY <1>5 DEF Owes, Walking, Allocating
<1>7. Changing(c) \subseteq {s} /\ Fulfils(L, D2[s])
  BY <1>3, <1>4 DEF Changing, Emptying, Fulfils
<1>8. \A e \in Descriptors : W[e].open => W[e].slot # s
  BY <1>1, OpenSlots
<1>9. Matched(f, L, E, D2, W, d)
  BY <1>1, <1>2, <1>5, <1>6, <1>7, <1>8, EntryMatched DEF D2
<1> QED
  BY <1>9 DEF AfterEntry, D2, d

\* rename: the new entry leads to the chain, and its attribute is next.
LEMMA NewNameMatched ==
  ASSUME NEW f, NEW L, NEW E, NEW D \in Directories, NEW W \in Heads, NEW c,
         Sound(c), Good(f, D, W, c), Matched(f, L, E, D, W, c), c.op = "rename", c.at = "entry"
  PROVE  Matched(f, L, E, Named(D, c), W, AfterEntry(c, TRUE))
<1> DEFINE D2 == Named(D, c)
           s == c.to
           d == Goto(c, "attribute")
<1>1. c \in Locals /\ s \in Slots /\ D[s].kind = "free"
  BY DEF Sound, Good, Stage, Names
<1>2. Place(c) = s
  BY <1>1, PlaceIs
<1>3. D2[s] = [kind |-> "file", first_cluster |-> c.chain, size |-> c.size]
  <2>1. D2[s] = NewEntry(c, D[s])
    BY <1>1, <1>2, NamedAt
  <2> QED
    BY <1>1, <2>1 DEF NewEntry
<1>4. Fulfils(L, [kind |-> c.kind, first_cluster |-> c.chain, size |-> c.size])
  BY DEF Matched, Owes, Moving
<1>5. /\ d.at = "attribute" /\ d.op = c.op /\ d.fd = c.fd /\ d.slot = c.slot /\ d.to = s
      /\ d.chain = c.chain /\ d.size = c.size /\ d.kind = c.kind
  BY <1>1 DEF Goto, Locals
<1> HIDE DEF D2, d
<1>6. D2[s].first_cluster = c.chain /\ D2[s].size = c.size
  BY <1>3
<1>7. Owes(L, E, D2, d)
  BY <1>4, <1>5, <1>6 DEF Owes, Walking, Allocating, Moving
<1>8. Changing(c) \subseteq {s} /\ s \in Changing(d)
  BY <1>5 DEF Changing, Emptying
<1>9. \A e \in Descriptors : W[e].open => W[e].slot # s
  BY <1>1, OpenSlots
<1>10. Matched(f, L, E, D2, W, d)
  BY <1>1, <1>2, <1>5, <1>7, <1>8, <1>9, EntryMatched DEF D2
<1> QED
  BY <1>10 DEF AfterEntry, D2, d

\* rename: the new entry says that it is a directory when the old one does.
LEMMA AttributeMatched ==
  ASSUME NEW f, NEW L, NEW E, NEW D \in Directories, NEW W \in Heads, NEW c,
         Sound(c), Good(f, D, W, c), Matched(f, L, E, D, W, c), c.op = "rename",
         c.at = "attribute"
  PROVE  Matched(f, L, E, Named(D, c), W, AfterEntry(c, TRUE))
<1> DEFINE D2 == Named(D, c)
           s == c.to
           d == Goto(c, "erase")
<1>1. /\ c \in Locals /\ s \in Slots
      /\ \A e \in Descriptors : W[e].open => W[e].slot # s
  BY DEF Sound, Good, Stage, Names, View
<1>2. Place(c) = s
  BY <1>1, PlaceIs
<1>3. D2[s] = [D[s] EXCEPT !.kind = c.kind]
  <2>1. D2[s] = NewEntry(c, D[s])
    BY <1>1, <1>2, NamedAt
  <2> QED
    BY <1>1, <2>1 DEF NewEntry
<1>4. /\ Fulfils(L, [kind |-> c.kind, first_cluster |-> c.chain, size |-> c.size])
      /\ D[s].first_cluster = c.chain /\ D[s].size = c.size
  BY DEF Matched, Owes, Moving
<1>5. D2[s].kind = c.kind /\ D2[s].first_cluster = c.chain /\ D2[s].size = c.size
  <2>1. D[s] \in Entries
    BY <1>1 DEF Directories
  <2> QED
    BY <1>3, <1>4, <2>1 DEF Entries
<1>6. d.at = "erase" /\ d.op = c.op /\ d.fd = c.fd
  BY <1>1 DEF Goto, Locals
<1> HIDE DEF D2, d
<1>7. Owes(L, E, D2, d)
  BY <1>6 DEF Owes, Walking, Allocating, Moving
<1>8. Changing(c) \subseteq {s} /\ Fulfils(L, D2[s])
  BY <1>4, <1>5 DEF Changing, Emptying, Fulfils
<1>9. Matched(f, L, E, D2, W, d)
  BY <1>1, <1>2, <1>6, <1>7, <1>8, EntryMatched DEF D2
<1> QED
  BY <1>9 DEF AfterEntry, D2, d

\* unlink and the end of a rename: the entry is free.
LEMMA EraseMatched ==
  ASSUME NEW f, NEW L, NEW E, NEW D \in Directories, NEW W \in Heads, NEW c,
         Sound(c), Good(f, D, W, c), Matched(f, L, E, D, W, c), c.at = "erase"
  PROVE  Matched(f, L, E, Named(D, c), W, AfterEntry(c, TRUE))
<1> DEFINE D2 == Named(D, c)
           s == c.slot
           d == Return(c, TRUE)
<1>1. c.op \in {"rename", "unlink"}
  BY DEF Good, Stage, Placed
<1>2. /\ c \in Locals /\ s \in Slots
      /\ \A e \in Descriptors : W[e].open => W[e].slot # s
  BY <1>1 DEF Sound, Good, Fits
<1>3. Place(c) = s
  BY PlaceIs
<1>4. D2[s].kind = "free"
  <2>1. D2[s] = NewEntry(c, D[s])
    BY <1>2, <1>3, NamedAt
  <2> QED
    BY <1>1, <2>1 DEF NewEntry
<1>5. /\ d.at = "return" /\ d.op = c.op /\ d.fd = c.fd /\ d.slot = c.slot
      /\ d.chain = c.chain /\ d.size = c.size
  BY <1>2 DEF Return, Goto, Locals
<1> HIDE DEF D2, d
<1>6. Owes(L, E, D2, d)
  BY <1>1, <1>5 DEF Owes, Walking, Allocating, Moving
<1>7. Changing(c) \subseteq {s}
  BY <1>1 DEF Changing, Emptying
<1>8. Matched(f, L, E, D2, W, d)
  BY <1>2, <1>3, <1>4, <1>5, <1>6, <1>7, EntryMatched DEF D2
<1> QED
  BY <1>1, <1>8 DEF AfterEntry, D2, d

\* Every write to the directory.
LEMMA NamedMatched ==
  ASSUME NEW f \in Tables, NEW L, NEW E, NEW D \in Directories, NEW W \in Heads, NEW c,
         Sound(c), Good(f, D, W, c), Matched(f, L, E, D, W, c), c.at \in DirWrites
  PROVE  Matched(f, L, E, Named(D, c), W, AfterEntry(c, TRUE))
<1>1. /\ c.at = "entry" => c.op \in {"open", "write", "close", "mkdir", "rename"}
      /\ c.at = "attribute" => c.op = "rename"
  BY DEF Good, Stage, Placed
<1> QED
  BY <1>1, WriteEntryMatched, OpenEntryMatched, CloseEntryMatched, DirectoryEntryMatched,
     NewNameMatched, AttributeMatched, EraseMatched DEF DirWrites

-----------------------------------------------------------------------------
(* The accesses that read the directory, and sectors read to be written.   *)

\* A sector has been read.
LEMMA BufferMatched ==
  ASSUME NEW f, NEW L, NEW E, NEW D, NEW W, NEW c \in Locals, Matched(f, L, E, D, W, c), NEW b
  PROVE  Matched(f, L, E, D, W, [c EXCEPT !.buffer = b])
<1> DEFINE d == [c EXCEPT !.buffer = b]
<1>1. /\ d.op = c.op /\ d.at = c.at /\ d.ok = c.ok /\ d.fd = c.fd /\ d.slot = c.slot
      /\ d.to = c.to /\ d.kind = c.kind /\ d.chain = c.chain /\ d.size = c.size
      /\ d.gap = c.gap /\ d.count = c.count /\ d.left = c.left /\ d.found = c.found
      /\ d.cluster = c.cluster /\ d.first = c.first /\ d.previous = c.previous
      /\ d.tail = c.tail /\ d.undo = c.undo
  BY DEF Locals
<1> HIDE DEF d
<1>2. Changing(d) = Changing(c)
  BY <1>1 DEF Changing, Emptying
<1>3. Fulfilled(L, D, d) /\ Agree(D, W, d) /\ Owes(L, E, D, c)
  BY <1>1, <1>2 DEF Matched, Fulfilled, Agree
<1>4. Settled(L, D, d) = Settled(L, D, c) /\ Enough(L, D, d) = Enough(L, D, c)
  BY <1>1 DEF Settled, Enough
<1>5. Walking(L, E, D, d)
  <2>1. Walking(L, E, D, c)
    BY <1>3 DEF Owes
  <2> QED
    BY <1>1, <1>4, <2>1 DEF Walking, Stands
<1>6. Allocating(L, E, D, d)
  <2>1. Allocating(L, E, D, c)
    BY <1>3 DEF Owes
  <2>2. Grows(L, E, D, d) = Grows(L, E, D, c)
    BY <1>1, <1>4 DEF Grows, Got, Missing, Appends
  <2> QED
    BY <1>1, <2>1, <2>2 DEF Allocating
<1>7. c.op = "write" => Writing(L, D, d)
  <2>1. c.op = "write" => Writing(L, D, c)
    BY <1>3 DEF Owes
  <2> QED
    BY <1>1, <1>4, <2>1 DEF Writing
<1>8. c.op = "rename" => Moving(L, D, d)
  BY <1>1, <1>3 DEF Owes, Moving
<1>9. Owes(L, E, D, d)
  BY <1>1, <1>3, <1>5, <1>6, <1>7, <1>8 DEF Owes
<1> QED
  BY <1>3, <1>9 DEF Matched, d

\* All entries have the chains they should have, and the descriptors what the entries say.
Whole(f, L, E, D, W) ==
  /\ Ranked(f, L, E)
  /\ \A s \in Slots : D[s].kind # "free" => Fulfils(L, D[s])
  /\ \A d \in Descriptors : W[d].open =>
       /\ D[W[d].slot].first_cluster = W[d].first_cluster /\ D[W[d].slot].size = W[d].size

\* Nothing is being changed: a call that owes what it should is all there is to say.
LEMMA WholeMatches ==
  ASSUME NEW f, NEW L, NEW E, NEW D, NEW W, Whole(f, L, E, D, W), NEW d, Owes(L, E, D, d)
  PROVE  Matched(f, L, E, D, W, d)
BY DEF Whole, Matched, Fulfilled, Agree

\* A call that changes no entry leaves all of them with their chains.
LEMMA MatchedWhole ==
  ASSUME NEW f, NEW L, NEW E, NEW D, NEW W, NEW c, Matched(f, L, E, D, W, c),
         Changing(c) = {}, c.op # "write"
  PROVE  Whole(f, L, E, D, W)
BY DEF Whole, Matched, Fulfilled, Agree

\* mkdir and rename have looked for a place for their entry.
LEMMA PlacedMatched ==
  ASSUME NEW f, NEW L, NEW E, NEW D, NEW W, NEW c \in Locals, Good(f, D, W, c),
         Matched(f, L, E, D, W, c), c.at = "place", NEW t
  PROVE  /\ Matched(f, L, E, D, W, Return(c, FALSE))
         /\ Matched(f, L, E, D, W, [Goto(c, "entry") EXCEPT !.to = t])
<1>1. c.op \in {"mkdir", "rename"} /\ Changing(c) = {}
  BY DEF Good, Stage, Placed, Changing, Emptying
<1>2. Whole(f, L, E, D, W)
  BY <1>1, MatchedWhole
<1>3. Matched(f, L, E, D, W, Return(c, FALSE))
  <2> DEFINE d == Return(c, FALSE)
  <2>1. d.at = "return" /\ d.op = c.op
    BY DEF Return, Goto, Locals
  <2> HIDE DEF d
  <2>2. Owes(L, E, D, d)
    BY <1>1, <2>1 DEF Owes, Walking, Allocating, Moving
  <2> QED
    BY <1>2, <2>2, WholeMatches DEF d
<1>4. Matched(f, L, E, D, W, [Goto(c, "entry") EXCEPT !.to = t])
  <2> DEFINE d == [Goto(c, "entry") EXCEPT !.to = t]
  <2>1. /\ d.at = "entry" /\ d.op = c.op /\ d.first = c.first /\ d.kind = c.kind
        /\ d.chain = c.chain /\ d.size = c.size
    BY DEF Goto, Locals
  <2> HIDE DEF d
  <2>2. Owes(L, E, D, d)
    BY <1>1, <2>1 DEF Matched, Owes, Walking, Allocating, Moving
  <2> QED
    BY <1>2, <2>2, WholeMatches DEF d
<1> QED
  BY <1>3, <1>4

-----------------------------------------------------------------------------
(* The calls begin and return.                                             *)

\* The entry has been read into u.
LEMMA OpenedMatched ==
  ASSUME NEW f, NEW L, NEW E, NEW D, NEW W, NEW u \in Locals, Whole(f, L, E, D, W),
         u.slot \in Slots, u.kind = D[u.slot].kind, u.chain = D[u.slot].first_cluster,
         u.size = D[u.slot].size, u.kind # "free"
  PROVE  /\ u.op = "open" => Matched(f, L, E, D, W, Return(u, TRUE))
         /\ u.op = "open" /\ u.chain = None =>
              Matched(f, L, E, D, W, [Goto(u, "entry") EXCEPT !.size = 0])
         /\ u.op \in {"open", "unlink"} => Matched(f, L, E, D, W, freechain(u, u.chain))
         /\ u.op = "unlink" => Matched(f, L, E, D, W, Goto(u, "erase"))
         /\ u.op = "rename" => Matched(f, L, E, D, W, Goto(u, "place"))
<1>1. ASSUME u.op = "open"
      PROVE  Matched(f, L, E, D, W, Return(u, TRUE))
  <2> DEFINE d == Return(u, TRUE)
  <2>1. /\ d.at = "return" /\ d.op = u.op /\ d.slot = u.slot /\ d.chain = u.chain
        /\ d.size = u.size
    BY DEF Return, Goto, Locals
  <2> HIDE DEF d
  <2>2. Owes(L, E, D, d)
    BY <1>1, <2>1 DEF Owes, Walking, Allocating
  <2> QED
    BY <2>2, WholeMatches DEF d
<1>2. ASSUME u.op = "open", u.chain = None
      PROVE  Matched(f, L, E, D, W, [Goto(u, "entry") EXCEPT !.size = 0])
  <2> DEFINE d == [Goto(u, "entry") EXCEPT !.size = 0]
  <2>1. d.at = "entry" /\ d.op = u.op /\ d.chain = None /\ d.size = 0
    BY <1>2 DEF Goto, Locals
  <2> HIDE DEF d
  <2>2. Owes(L, E, D, d)
    BY <1>2, <2>1 DEF Owes, Walking, Allocating
  <2> QED
    BY <2>2, WholeMatches DEF d
<1>3. ASSUME u.op \in {"open", "unlink"}
      PROVE  Matched(f, L, E, D, W, freechain(u, u.chain))
  <2> DEFINE d == freechain(u, u.chain)
  <2>1. d.at = "free" /\ d.op = u.op
    BY DEF freechain, Goto, Locals
  <2> HIDE DEF d
  <2>2. Owes(L, E, D, d)
    BY <1>3, <2>1 DEF Owes, Walking, Allocating
  <2> QED
    BY <2>2, WholeMatches DEF d
<1>4. ASSUME u.op = "unlink"
      PROVE  Matched(f, L, E, D, W, Goto(u, "erase"))
  <2> DEFINE d == Goto(u, "erase")
  <2>1. d.at = "erase" /\ d.op = u.op
    BY DEF Goto, Locals
  <2> HIDE DEF d
  <2>2. Owes(L, E, D, d)
    BY <1>4, <2>1 DEF Owes, Walking, Allocating
  <2> QED
    BY <2>2, WholeMatches DEF d
<1>5. ASSUME u.op = "rename"
      PROVE  Matched(f, L, E, D, W, Goto(u, "place"))
  <2> DEFINE d == Goto(u, "place")
  <2>1. d.at = "place" /\ d.op = u.op /\ d.kind = u.kind /\ d.chain = u.chain /\ d.size = u.size
    BY DEF Goto, Locals
  <2> HIDE DEF d
  <2>2. Fulfils(L, [kind |-> u.kind, first_cluster |-> u.chain, size |-> u.size])
    BY DEF Whole, Fulfils
  <2>3. Owes(L, E, D, d)
    BY <1>5, <2>1, <2>2 DEF Owes, Walking, Allocating, Moving
  <2> QED
    BY <2>3, WholeMatches DEF d
<1> QED
  BY <1>1, <1>2, <1>3, <1>4, <1>5

\* The call returns, and the descriptor has what it knows of the file.
LEMMA ReturnsWhole ==
  ASSUME NEW f, NEW L, NEW E, NEW D, NEW W \in Heads, NEW c, Good(f, D, W, c),
         Matched(f, L, E, D, W, c), c.at = "return"
  PROVE  Whole(f, L, E, D, After(W, c))
<1>1. c.op \in {"open", "write", "close"} => c.fd \in Descriptors
  BY DEF Good, Fits
<1>2. Ranked(f, L, E) /\ Fulfilled(L, D, c) /\ Agree(D, W, c) /\ Owes(L, E, D, c)
  BY DEF Matched
<1>3. c.op # "write" => Whole(f, L, E, D, W)
  <2>1. c.op # "write" => Changing(c) = {}
    BY DEF Changing, Emptying
  <2> QED
    BY <2>1, MatchedWhole
<1>4. CASE c.op = "write"
  <2> DEFINE V == [W EXCEPT ![c.fd] = Left(c)]
  <2>1. After(W, c) = V
    BY <1>4 DEF After
  <2>2. V[c.fd] = Left(c) /\ \A e \in Descriptors : e # c.fd => V[e] = W[e]
    BY <1>1, <1>4 DEF Heads
  <2> HIDE DEF V
  <2>3. Settled(L, D, c) /\ D[c.slot].kind = "file"
    BY <1>2, <1>4, WriteSlots DEF Owes, Writing
  <2>4. Fulfils(L, D[c.slot])
    BY <2>3 DEF Settled, HasLength, Fulfils
  <2>5. \A s \in Slots : D[s].kind # "free" => Fulfils(L, D[s])
    <3>1. \A s \in Slots : s # c.slot => s \notin Changing(c)
      BY <1>4 DEF Changing, Emptying
    <3> QED
      BY <1>2, <2>4, <3>1 DEF Fulfilled
  <2>6. ASSUME NEW e \in Descriptors, V[e].open
        PROVE  /\ D[V[e].slot].first_cluster = V[e].first_cluster
               /\ D[V[e].slot].size = V[e].size
    <3>1. CASE e = c.fd
      BY <2>2, <2>3, <3>1 DEF Left, Settled
    <3>2. CASE e # c.fd
      BY <1>2, <2>2, <2>6, <3>2 DEF Agree
    <3> QED
      BY <3>1, <3>2
  <2> QED
    BY <1>2, <2>1, <2>5, <2>6 DEF Whole
<1>5. CASE c.op = "open" /\ c.ok
  <2> DEFINE V == [W EXCEPT ![c.fd] = Left(c)]
  <2>1. After(W, c) = V
    BY <1>5 DEF After
  <2>2. V[c.fd] = Left(c) /\ \A e \in Descriptors : e # c.fd => V[e] = W[e]
    BY <1>1, <1>5 DEF Heads
  <2> HIDE DEF V
  <2>3. D[c.slot].first_cluster = c.chain /\ D[c.slot].size = c.size
    BY <1>2, <1>5 DEF Owes
  <2>4. Whole(f, L, E, D, W)
    BY <1>3, <1>5
  <2>5. ASSUME NEW e \in Descriptors, V[e].open
        PROVE  /\ D[V[e].slot].first_cluster = V[e].first_cluster
               /\ D[V[e].slot].size = V[e].size
    <3>1. CASE e = c.fd
      BY <2>2, <2>3, <3>1 DEF Left
    <3>2. CASE e # c.fd
      BY <2>2, <2>4, <2>5, <3>2 DEF Whole
    <3> QED
      BY <3>1, <3>2
  <2> QED
    BY <2>1, <2>4, <2>5 DEF Whole
<1>6. CASE c.op = "close"
  <2> DEFINE V == [W EXCEPT ![c.fd] = Closed]
  <2>1. After(W, c) = V
    BY <1>6 DEF After
  <2>2. \A e \in Descriptors : V[e].open => V[e] = W[e]
    BY DEF Heads, Closed
  <2> HIDE DEF V
  <2>3. Whole(f, L, E, D, W)
    BY <1>3, <1>6
  <2> QED
    BY <2>1, <2>2, <2>3 DEF Whole
<1>7. CASE c.op \notin {"write", "close"} /\ ~(c.op = "open" /\ c.ok)
  BY <1>3, <1>7 DEF After
<1> QED
  BY <1>4, <1>5, <1>6, <1>7

\* A call that looks a path up begins, or none is there.
LEMMA LookupOwes ==
  ASSUME NEW L, NEW E, NEW D, NEW d,
         \/ d.op = "none" /\ d.at = "idle"
         \/ d.op \in {"open", "unlink", "rename"} /\ d.at = "lookup"
         \/ d.op \in {"open", "unlink", "rename"} /\ d.at = "return" /\ d.ok = FALSE
  PROVE  Owes(L, E, D, d)
BY DEF Owes, Walking, Allocating, Moving

\* mkdir begins: it wants one cluster.
LEMMA mkdirMatched ==
  ASSUME NEW f, NEW L, NEW E, NEW D, NEW W, Whole(f, L, E, D, W)
  PROVE  Matched(f, L, E, D, W, allocchain([Idle EXCEPT !.op = "mkdir"], 1, None))
<1> DEFINE u == [Idle EXCEPT !.op = "mkdir"]
<1>1. Idle \in Locals /\ "mkdir" \in Operations
  BY IdleIsSound DEF Sound, Operations
<1>2. u \in Locals /\ u.op = "mkdir"
  BY <1>1 DEF Locals
<1> HIDE DEF u
<1>3. 1 = Missing(u)
  BY <1>2 DEF Missing
<1>4. Goes(L, E, D, u, allocchain(u, 1, None))
  BY <1>2, <1>3, allocchainOwes
<1>5. Matched(f, L, E, D, W, allocchain(u, 1, None))
  BY <1>4, WholeMatches DEF Goes
<1> QED
  BY <1>5 DEF u

\* A write begins: the entry of the file is as the descriptor says.
LEMMA WriteSettled ==
  ASSUME NEW f \in Tables, NEW L, NEW E, NEW D \in Directories, NEW W, Whole(f, L, E, D, W),
         Tidy(f, D, W, {}, {}), NEW d \in Descriptors, W[d].open, NEW c \in Locals,
         c.slot = W[d].slot, c.chain = W[d].first_cluster, c.size = W[d].size
  PROVE  /\ Settled(L, D, c)
         /\ c.chain # None => c.chain \in Clusters /\ L[c.chain] >= 1 /\ Enough(L, D, c)
<1> DEFINE s == c.slot
<1>1. s \in Slots /\ D[s].kind = "file" /\ (c.chain \in Clusters => f[c.chain] # None)
  BY DEF Tidy, Headed
<1>2. D[s].first_cluster = c.chain /\ D[s].size = c.size
  BY DEF Whole
<1>3. Fulfils(L, D[s]) /\ Ranked(f, L, E)
  BY <1>1 DEF Whole
<1>4. c.chain \in Clusters \cup {None}
  BY DEF Locals, OptionalClusters
<1>5. Settled(L, D, c)
  BY <1>1, <1>2, <1>3, <1>4 DEF Fulfils, Settled, HasLength
<1>6. ASSUME c.chain # None
      PROVE  c.chain \in Clusters /\ L[c.chain] >= 1
  BY <1>1, <1>3, <1>4, <1>6, UsedHasLength
<1> QED
  BY <1>5, <1>6 DEF Enough

\* A write begins, with a chain to resize or without.
LEMMA WriteMatched ==
  ASSUME NEW f \in Tables, NEW L, NEW E, NEW D \in Directories, NEW W, Whole(f, L, E, D, W),
         Tidy(f, D, W, {}, {}), NEW d \in Descriptors, W[d].open, NEW c \in Locals,
         c.op = "write", c.slot = W[d].slot, c.chain = W[d].first_cluster,
         c.size = W[d].size, Gapped(c)
  PROVE  /\ Matched(f, L, E, D, W, resizechain(c))
         /\ ~c.gap => Matched(f, L, E, D, W, Goto(c, "entry"))
<1>1. /\ Settled(L, D, c)
      /\ c.chain # None => c.chain \in Clusters /\ L[c.chain] >= 1 /\ Enough(L, D, c)
  BY WriteSettled
<1>2. L \in Lengths
  BY DEF Whole, Ranked, Lengths
<1>3. Matched(f, L, E, D, W, resizechain(c))
  <2>1. Goes(L, E, D, c, resizechain(c))
    BY <1>1, <1>2, resizechainOwes
  <2> QED
    BY <2>1, WholeMatches DEF Goes
<1>4. ASSUME ~c.gap
      PROVE  Matched(f, L, E, D, W, Goto(c, "entry"))
  <2> DEFINE u == Goto(c, "entry")
  <2>1. /\ u.at = "entry" /\ u.op = "write" /\ u.chain = c.chain /\ u.size = c.size
        /\ u.gap = c.gap /\ u.undo = c.undo
    BY DEF Goto, Locals
  <2> HIDE DEF u
  <2>2. Owes(L, E, D, u)
    BY <1>1, <1>4, <2>1 DEF Owes, Walking, Allocating, Writing, Gapped, Settled
  <2> QED
    BY <2>2, WholeMatches DEF u
<1> QED
  BY <1>3, <1>4

\* A close begins.
LEMMA CloseMatched ==
  ASSUME NEW f, NEW L, NEW E, NEW D, NEW W, Whole(f, L, E, D, W), NEW d \in Descriptors,
         W[d].open, NEW c, c.op = "close", c.at = "entry", c.slot = W[d].slot,
         c.chain = W[d].first_cluster, c.size = W[d].size
  PROVE  Matched(f, L, E, D, W, c)
<1>1. Owes(L, E, D, c)
  BY DEF Whole, Owes, Walking, Allocating
<1> QED
  BY <1>1, WholeMatches

-----------------------------------------------------------------------------
(* The steps of one task that has the volume to itself.                    *)

CallMatches(p) == \E L, E : Matched(fat, L, E, dir, fd_table, call[p])

\* What a step makes of the call is so in the next state.
LEMMA StepMatches ==
  ASSUME TypeInv, NEW p, Alone(p), NEW c, Step(p, c),
         NEW L, NEW E, Matched(fat', L, E, dir', fd_table, c)
  PROVE  CallMatches(p)'
<1>1. call'[p] = c /\ fd_table' = fd_table
  BY AloneAndTyped DEF Step
<1>2. Matched(fat', L, E, dir', fd_table', call'[p])
  BY <1>1
<1> QED
  BY <1>2 DEF CallMatches

\* The accesses that only read the table.
LEMMA ReadsMatched ==
  ASSUME TypeInv, NEW p, Alone(p), CallIsGood(p), CallMatches(p),
         Scan(p) \/ ReadToFree(p) \/ chain_length(p) \/ get_nth_cluster(p) \/ ReadToCut(p)
  PROVE  CallMatches(p)'
<1> DEFINE c == call[p]
           v == fat[c.cluster]
<1>1. /\ Sound(c) /\ fat \in Tables /\ badReads = 0 /\ MaxBadReads = 0
  BY AloneAndTyped DEF Alone
<1>2. Good(fat, dir, fd_table, c)
  BY DEF CallIsGood
<1>3. PICK L, E : Matched(fat, L, E, dir, fd_table, c)
  BY DEF CallMatches
<1>4. \A u \in Links : readcluster(c.cluster, u) => u = v
  BY <1>1 DEF readcluster
<1>5. UNCHANGED <<fat, dir>>
  BY DEF Scan, ReadToFree, chain_length, get_nth_cluster, ReadToCut, Reads
<1> HIDE DEF c, v
<1>6. ASSUME NEW d, Step(p, d), Matched(fat, L, E, dir, fd_table, d)
      PROVE  CallMatches(p)'
  <2>1. Matched(fat', L, E, dir', fd_table, d)
    BY <1>5, <1>6
  <2> QED
    BY <1>6, <2>1, StepMatches
<1>7. CASE Scan(p)
  <2>1. Step(p, Scanned(c, v)) /\ c.at = "scan"
    BY <1>4, <1>7 DEF Scan, Reads, At, c
  <2>2. Matched(fat, L, E, dir, fd_table, Scanned(c, v))
    BY <1>1, <1>3, <2>1, ScannedMatched DEF v
  <2> QED
    BY <1>6, <2>1, <2>2
<1>8. CASE ReadToFree(p)
  <2>1. Step(p, ToClear(c, v)) /\ c.at = "free"
    BY <1>4, <1>8 DEF ReadToFree, Reads, At, c
  <2>2. Matched(fat, L, E, dir, fd_table, ToClear(c, v))
    BY <1>1, <1>2, <1>3, <2>1, ToClearMatched
  <2> QED
    BY <1>6, <2>1, <2>2
<1>9. CASE chain_length(p)
  <2>1. Step(p, Counted(c, v)) /\ c.at = "length"
    BY <1>4, <1>9 DEF chain_length, Reads, At, c
  <2>2. Matched(fat, L, E, dir, fd_table, Counted(c, v))
    BY <1>1, <1>2, <1>3, <2>1, CountedMatched DEF v
  <2> QED
    BY <1>6, <2>1, <2>2
<1>10. CASE get_nth_cluster(p)
  <2>1. Step(p, Walked(c, v)) /\ c.at = "nth"
    BY <1>4, <1>10 DEF get_nth_cluster, Reads, At, c
  <2>2. Matched(fat, L, E, dir, fd_table, Walked(c, v))
    BY <1>1, <1>3, <2>1, WalkedMatched DEF v
  <2> QED
    BY <1>6, <2>1, <2>2
<1>11. CASE ReadToCut(p)
  <2>1. Step(p, ToCut(c, v)) /\ c.at = "next"
    BY <1>4, <1>11 DEF ReadToCut, Reads, At, c
  <2>2. Matched(fat, L, E, dir, fd_table, ToCut(c, v))
    BY <1>1, <1>3, <2>1, ToCutMatched DEF v
  <2> QED
    BY <1>6, <2>1, <2>2
<1> QED
  BY <1>7, <1>8, <1>9, <1>10, <1>11

\* The writes to the table and the directory, each after the read of its sector.
LEMMA WritesMatched ==
  ASSUME TypeInv, NEW p, Alone(p), CallIsGood(p), CallMatches(p),
         ReadSector(p) \/ writecluster(p) \/ ReadDirectory(p) \/ WriteDirectory(p)
  PROVE  CallMatches(p)'
<1> DEFINE c == call[p]
<1>1. Sound(c) /\ c \in Locals /\ fat \in Tables /\ dir \in Directories /\ fd_table \in Heads
  BY AloneAndTyped
<1>2. Good(fat, dir, fd_table, c)
  BY DEF CallIsGood
<1>3. PICK L, E : Matched(fat, L, E, dir, fd_table, c)
  BY DEF CallMatches
<1>4. /\ c.at \in FatWrites => c.buffer \in {<<>>, fat}
      /\ c.at \in DirWrites => c.buffer \in {<<>>, dir}
  BY <1>2 DEF Good, Stage, Buffered
<1> HIDE DEF c
<1>5. ASSUME NEW b, Step(p, [c EXCEPT !.buffer = b]), UNCHANGED <<fat, dir>>
      PROVE  CallMatches(p)'
  <2>1. Matched(fat, L, E, dir, fd_table, [c EXCEPT !.buffer = b])
    BY <1>1, <1>3, BufferMatched
  <2>2. Matched(fat', L, E, dir', fd_table, [c EXCEPT !.buffer = b])
    BY <1>5, <2>1
  <2> QED
    BY <1>5, <2>2, StepMatches
<1>6. CASE ReadSector(p)
  <2>1. Step(p, [c EXCEPT !.buffer = fat]) /\ UNCHANGED <<fat, dir>>
    BY <1>6 DEF ReadSector, c
  <2> QED
    BY <1>5, <2>1
<1>7. CASE writecluster(p)
  <2>1. /\ c.at \in FatWrites /\ c.buffer = fat /\ Store(c) /\ Step(p, Written(c))
        /\ UNCHANGED dir
    BY <1>4, <1>7 DEF writecluster, c
  <2>2. fat' = Stored(fat, c)
    BY <2>1 DEF Store, Stored
  <2>3. PICK M, F : Matched(Stored(fat, c), M, F, dir, fd_table, Written(c))
    BY <1>1, <1>2, <1>3, <2>1, StoredMatched
  <2>4. Matched(fat', M, F, dir', fd_table, Written(c))
    BY <2>1, <2>2, <2>3
  <2> QED
    BY <2>1, <2>4, StepMatches
<1>8. CASE ReadDirectory(p)
  <2>1. Step(p, [c EXCEPT !.buffer = dir]) /\ UNCHANGED <<fat, dir>>
    BY <1>8 DEF ReadDirectory, c
  <2> QED
    BY <1>5, <2>1
<1>9. CASE WriteDirectory(p)
  <2>1. /\ c.at \in DirWrites /\ c.buffer = dir /\ Step(p, AfterEntry(c, TRUE)) /\ UNCHANGED fat
        /\ dir' = [c.buffer EXCEPT ![Place(c)] = NewEntry(c, c.buffer[Place(c)])]
    BY <1>4, <1>9 DEF WriteDirectory, c
  <2>2. dir' = Named(dir, c)
    BY <2>1 DEF Named
  <2>3. Matched(fat, L, E, Named(dir, c), fd_table, AfterEntry(c, TRUE))
    BY <1>1, <1>2, <1>3, <2>1, NamedMatched
  <2>4. Matched(fat', L, E, dir', fd_table, AfterEntry(c, TRUE))
    BY <2>1, <2>2, <2>3
  <2> QED
    BY <2>1, <2>4, StepMatches
<1> QED
  BY <1>6, <1>7, <1>8, <1>9

\* The entry is read: the call goes on or fails.
LEMMA LookupMatched ==
  ASSUME TypeInv, NEW p, Alone(p), CallIsGood(p), CallMatches(p), Lookup(p)
  PROVE  CallMatches(p)'
<1> DEFINE c == call[p]
           e == dir[c.slot]
           u == [c EXCEPT !.kind = e.kind, !.chain = e.first_cluster,
                          !.size = e.size, !.gap = FALSE]
<1>1. Sound(c) /\ c \in Locals /\ dir \in Directories
  BY AloneAndTyped
<1>2. /\ c.at = "lookup" /\ c.op \in {"open", "unlink", "rename"} /\ c.slot \in Slots
      /\ UNCHANGED <<fat, dir>>
  BY <1>1 DEF Lookup, At, Sound, Ready
<1>3. PICK L, E : Matched(fat, L, E, dir, fd_table, c)
  BY DEF CallMatches
<1>4. /\ e.kind \in {"free", "file", "directory"} /\ e.first_cluster \in OptionalClusters
      /\ e.size \in Sizes
  BY <1>1, <1>2 DEF Directories, Entries, Kinds, OptionalClusters, Sizes
<1>5. u \in Locals
  <2>1. e.kind \in Kinds
    BY <1>4 DEF Kinds
  <2>2. [c EXCEPT !.kind = e.kind, !.chain = e.first_cluster] \in Locals
    BY <1>1, <1>4, <2>1, Updates
  <2>3. ASSUME NEW d \in Locals PROVE [d EXCEPT !.size = e.size, !.gap = FALSE] \in Locals
    BY <1>4, Updates
  <2> QED
    BY <2>2, <2>3
<1>6. /\ u.op = c.op /\ u.slot = c.slot /\ u.kind = e.kind
      /\ u.chain = e.first_cluster /\ u.size = e.size
  BY <1>1 DEF Locals
<1>7. Whole(fat, L, E, dir, fd_table)
  <2>1. Changing(c) = {} /\ c.op # "write"
    BY <1>2 DEF Changing, Emptying
  <2> HIDE DEF c
  <2> QED
    BY <1>3, <2>1, MatchedWhole
<1>8. ASSUME NEW d, Step(p, d), Matched(fat, L, E, dir, fd_table, d)
      PROVE  CallMatches(p)'
  <2>1. Matched(fat', L, E, dir', fd_table, d)
    BY <1>2, <1>8
  <2> QED
    BY <1>8, <2>1, StepMatches
<1>9. CASE e.kind = "free" \/ (c.op = "open" /\ e.kind = "directory")
  <2>1. Step(p, Return(c, FALSE))
    BY <1>9 DEF Lookup
  <2> HIDE DEF c
  <2>2. LET d == Return(c, FALSE)
        IN  d.at = "return" /\ d.op = c.op /\ d.ok = FALSE
    BY <1>1, ReturnFields
  <2> DEFINE d == Return(c, FALSE)
  <2>3. d.op \in {"open", "unlink", "rename"} /\ d.at = "return" /\ d.ok = FALSE
    BY <1>2, <2>2
  <2>4. Step(p, d)
    BY <2>1
  <2> HIDE DEF d
  <2>5. Owes(L, E, dir, d)
    BY <2>3, LookupOwes
  <2>6. Matched(fat, L, E, dir, fd_table, d)
    BY <1>7, <2>5, WholeMatches
  <2> QED
    BY <1>8, <2>4, <2>6
<1>10. CASE ~(e.kind = "free" \/ (c.op = "open" /\ e.kind = "directory"))
  <2> DEFINE one == Return(u, TRUE)
             two == [Goto(u, "entry") EXCEPT !.size = 0]
             three == freechain(u, e.first_cluster)
             four == Goto(u, "erase")
             five == Goto(u, "place")
  <2>1. c.op = "open" => /\ e.kind = "file"
                         /\ Step(p, IF ~c.gap THEN one
                                    ELSE IF e.first_cluster = None THEN two ELSE three)
    BY <1>4, <1>10 DEF Lookup
  <2>2. c.op = "unlink" => Step(p, IF e.first_cluster = None THEN four ELSE three)
    BY <1>10 DEF Lookup
  <2>3. c.op = "rename" => Step(p, five)
    BY <1>10 DEF Lookup
  <2> HIDE DEF c, e, u
  <2>4. /\ u.slot \in Slots /\ u.kind = dir[u.slot].kind
        /\ u.chain = dir[u.slot].first_cluster /\ u.size = dir[u.slot].size /\ u.kind # "free"
    BY <1>2, <1>6, <1>10 DEF e
  <2>5. three = freechain(u, u.chain)
    BY <1>6
  <2>6. /\ u.op = "open" => Matched(fat, L, E, dir, fd_table, one)
        /\ u.op = "open" /\ u.chain = None => Matched(fat, L, E, dir, fd_table, two)
        /\ u.op \in {"open", "unlink"} => Matched(fat, L, E, dir, fd_table, freechain(u, u.chain))
        /\ u.op = "unlink" => Matched(fat, L, E, dir, fd_table, four)
        /\ u.op = "rename" => Matched(fat, L, E, dir, fd_table, five)
    BY <1>5, <1>7, <2>4, OpenedMatched
  <2> HIDE DEF one, two, three, four, five
  <2>7. CASE c.op = "open"
    <3>1. \/ Step(p, one)
          \/ Step(p, two) /\ u.chain = None
          \/ Step(p, three)
      BY <1>6, <2>1, <2>7
    <3> QED
      BY <1>6, <1>8, <2>5, <2>6, <2>7, <3>1
  <2>8. CASE c.op = "unlink"
    <3>1. Step(p, four) \/ Step(p, three)
      BY <2>2, <2>8
    <3> QED
      BY <1>6, <1>8, <2>5, <2>6, <2>8, <3>1
  <2>9. CASE c.op = "rename"
    BY <1>6, <1>8, <2>3, <2>6, <2>9
  <2> QED
    BY <1>2, <2>7, <2>8, <2>9
<1> QED
  BY <1>9, <1>10

\* mkdir and rename look for a place in the directory.
LEMMA findfreeslotsMatched ==
  ASSUME TypeInv, NEW p, Alone(p), CallIsGood(p), CallMatches(p), findfreeslots(p)
  PROVE  CallMatches(p)'
<1> DEFINE c == call[p]
           free == {s \in Slots : dir[s].kind = "free"}
           t == Least(free)
<1>1. /\ c \in Locals /\ c.at = "place" /\ Good(fat, dir, fd_table, c) /\ UNCHANGED <<fat, dir>>
  BY AloneAndTyped DEF findfreeslots, At, CallIsGood
<1>2. PICK L, E : Matched(fat, L, E, dir, fd_table, c)
  BY DEF CallMatches
<1>3. Step(p, Return(c, FALSE)) \/ Step(p, [Goto(c, "entry") EXCEPT !.to = t])
  BY DEF findfreeslots
<1> HIDE DEF c, t
<1>4. /\ Matched(fat, L, E, dir, fd_table, Return(c, FALSE))
      /\ Matched(fat, L, E, dir, fd_table, [Goto(c, "entry") EXCEPT !.to = t])
  BY <1>1, <1>2, PlacedMatched
<1>5. ASSUME NEW d, Step(p, d), Matched(fat, L, E, dir, fd_table, d)
      PROVE  CallMatches(p)'
  <2>1. Matched(fat', L, E, dir', fd_table, d)
    BY <1>1, <1>5
  <2> QED
    BY <1>5, <2>1, StepMatches
<1> QED
  BY <1>3, <1>4, <1>5

\* The call returns to the program.
LEMMA ReturnsMatched ==
  ASSUME TypeInv, NEW p, Alone(p), CallIsGood(p), CallMatches(p), Returns(p)
  PROVE  CallMatches(p)'
<1> DEFINE c == call[p]
<1>1. c.at = "return" /\ Good(fat, dir, fd_table, c) /\ fd_table \in Heads
  BY AloneAndTyped DEF Returns, At, CallIsGood
<1>2. PICK L, E : Matched(fat, L, E, dir, fd_table, c)
  BY DEF CallMatches
<1>3. fd_table' = After(fd_table, c) /\ UNCHANGED <<fat, dir>>
  BY DEF Returns, After
<1>4. call'[p] = Idle
  BY AloneAndTyped DEF Returns
<1> HIDE DEF c
<1>5. Whole(fat, L, E, dir, After(fd_table, c))
  BY <1>1, <1>2, ReturnsWhole
<1>6. Owes(L, E, dir, Idle)
  <2>1. Idle.op = "none" /\ Idle.at = "idle"
    BY DEF Idle
  <2> QED
    BY <2>1, LookupOwes
<1>7. Matched(fat, L, E, dir, After(fd_table, c), Idle)
  BY <1>5, <1>6, WholeMatches
<1>8. Matched(fat', L, E, dir', fd_table', call'[p])
  BY <1>3, <1>4, <1>7
<1> QED
  BY <1>8 DEF CallMatches

\* A call begins.
LEMMA BeginMatched ==
  ASSUME TypeInv, NEW p, Alone(p), CallIsGood(p), CallMatches(p), Begin(p)
  PROVE  CallMatches(p)'
<1>1. /\ fat \in Tables /\ dir \in Directories /\ fd_table \in Heads /\ Idle \in Locals
      /\ call[p].at = "idle"
  <2>1. call[p].at = "idle"
    BY DEF Begin, sys_open_handler, fat_unlink, fat_rename, fat_mkdir, fat_write, fat_close,
           Start, At
  <2> QED
    BY <2>1, AloneAndTyped, IdleIsSound DEF Sound
<1>2. Tidy(fat, dir, fd_table, {}, {}) /\ call[p].op = "none"
  <2> DEFINE c == call[p]
  <2>1. c.at = "idle" /\ Good(fat, dir, fd_table, c)
    BY <1>1 DEF CallIsGood
  <2> HIDE DEF c
  <2>2. Tidy(fat, dir, fd_table, {}, {}) /\ c.op = "none"
    BY <2>1 DEF Good, Stage, Placed, View, Renaming, Emptying
  <2> QED
    BY <2>2 DEF c
<1>3. PICK L, E : Matched(fat, L, E, dir, fd_table, call[p])
  BY DEF CallMatches
<1>4. Whole(fat, L, E, dir, fd_table)
  <2> DEFINE c == call[p]
  <2>1. c.op = "none" /\ Matched(fat, L, E, dir, fd_table, c)
    BY <1>2, <1>3
  <2> HIDE DEF c
  <2>2. Changing(c) = {}
    BY <2>1 DEF Changing, Emptying
  <2> QED
    BY <2>1, <2>2, MatchedWhole
<1>5. ASSUME NEW d, Start(p, d), Matched(fat, L, E, dir, fd_table, d)
      PROVE  CallMatches(p)'
  <2>1. Step(p, d) /\ UNCHANGED <<fat, dir>>
    BY <1>5 DEF Start
  <2>2. Matched(fat', L, E, dir', fd_table, d)
    BY <1>5, <2>1
  <2> QED
    BY <2>1, <2>2, StepMatches
<1>6. ASSUME NEW d, Start(p, d), d.op \in {"open", "unlink", "rename"}, d.at = "lookup"
      PROVE  CallMatches(p)'
  <2>1. Owes(L, E, dir, d)
    BY <1>6, LookupOwes
  <2>2. Matched(fat, L, E, dir, fd_table, d)
    BY <1>4, <2>1, WholeMatches
  <2> QED
    BY <1>5, <1>6, <2>2
<1>7. CASE sys_open_handler(p)
  <2> DEFINE o == Least({d \in Descriptors : ~fd_table[d].open})
  <2>1. PICK s \in Slots, truncate \in BOOLEAN :
          Start(p, [Goto(Idle, "lookup") EXCEPT
                      !.op = "open", !.fd = o, !.slot = s, !.gap = truncate])
    BY <1>7 DEF sys_open_handler
  <2> DEFINE d == [Goto(Idle, "lookup") EXCEPT
                     !.op = "open", !.fd = o, !.slot = s, !.gap = truncate]
  <2> HIDE DEF o
  <2>2. d.op = "open" /\ d.at = "lookup"
    BY DEF Goto, Idle
  <2>3. Start(p, d)
    BY <2>1
  <2> HIDE DEF d
  <2> QED
    BY <1>6, <2>2, <2>3
<1>8. ASSUME NEW op \in {"unlink", "rename"}, NEW s \in Slots,
             Start(p, [Goto(Idle, "lookup") EXCEPT !.op = op, !.slot = s])
      PROVE  CallMatches(p)'
  <2> DEFINE d == [Goto(Idle, "lookup") EXCEPT !.op = op, !.slot = s]
  <2>1. d.op = op /\ d.at = "lookup"
    BY DEF Goto, Idle
  <2>2. Start(p, d)
    BY <1>8
  <2> HIDE DEF d
  <2> QED
    BY <1>6, <2>1, <2>2
<1>9. CASE fat_unlink(p)
  BY <1>8, <1>9 DEF fat_unlink
<1>10. CASE fat_rename(p)
  BY <1>8, <1>10 DEF fat_rename
<1>11. CASE fat_mkdir(p)
  <2>1. Matched(fat, L, E, dir, fd_table, allocchain([Idle EXCEPT !.op = "mkdir"], 1, None))
    BY <1>4, mkdirMatched
  <2> QED
    BY <1>5, <1>11, <2>1 DEF fat_mkdir
<1>12. CASE fat_write(p)
  <2>1. PICK d \in Descriptors, n \in 1 .. MaxSize, m \in Sizes :
          LET f == fd_table[d]
              c == [Idle EXCEPT !.op = "write", !.fd = d, !.slot = f.slot,
                                !.chain = f.first_cluster, !.size = f.size, !.goal = n]
          IN  /\ fd_table[d].open
              /\ \/ Start(p, Resize([c EXCEPT !.count = n]))
                 \/ /\ f.size < m
                    /\ Start(p, resizechain([c EXCEPT !.count = m, !.position = m,
                                                      !.gap = TRUE]))
    BY <1>12 DEF fat_write, Usable
  <2> DEFINE f == fd_table[d]
             c == [Idle EXCEPT !.op = "write", !.fd = d, !.slot = f.slot,
                               !.chain = f.first_cluster, !.size = f.size, !.goal = n]
             u == [c EXCEPT !.count = n]
             w == [c EXCEPT !.count = m, !.position = m, !.gap = TRUE]
  <2>2. f \in OpenFiles /\ f.open
    BY <1>1, <2>1 DEF Heads
  <2>3. f.slot \in Slots \cup {0} /\ f.first_cluster \in OptionalClusters /\ f.size \in Sizes
    BY <2>2 DEF OpenFiles
  <2>4. n \in Sizes
    BY FatAssumption DEF Sizes
  <2>5. Start(p, Resize(u)) \/ (f.size < m /\ Start(p, resizechain(w)))
    BY <2>1
  <2> HIDE DEF f
  <2>6. c \in Locals
    <3>1. "write" \in Operations /\ d \in Descriptors \cup {0}
      BY DEF Operations
    <3>2. [Idle EXCEPT !.op = "write", !.fd = d] \in Locals
      BY <1>1, <3>1, Updates
    <3>3. ASSUME NEW e \in Locals
          PROVE  [e EXCEPT !.slot = f.slot, !.chain = f.first_cluster] \in Locals
      BY <2>3, Updates
    <3>4. ASSUME NEW e \in Locals
          PROVE  [e EXCEPT !.size = f.size, !.goal = n] \in Locals
      BY <2>3, <2>4, Updates
    <3> QED
      BY <3>2, <3>3, <3>4
  <2>7. /\ c.op = "write" /\ c.slot = f.slot /\ c.chain = f.first_cluster
        /\ c.size = f.size /\ c.gap = FALSE /\ c.undo = FALSE
    BY DEF Idle
  <2> HIDE DEF c
  <2>8. u \in Locals
    BY <2>4, <2>6, Updates
  <2>9. w \in Locals
    <3>1. [c EXCEPT !.count = m, !.position = m] \in Locals
      BY <2>6, Updates
    <3>2. ASSUME NEW e \in Locals PROVE [e EXCEPT !.gap = TRUE] \in Locals
      BY Updates
    <3> QED
      BY <3>1, <3>2
  <2>10. /\ u.op = "write" /\ u.slot = f.slot /\ u.chain = f.first_cluster
         /\ u.size = f.size /\ ~u.gap /\ ~u.undo
    BY <2>6, <2>7 DEF Locals
  <2>11. /\ w.op = "write" /\ w.slot = f.slot /\ w.chain = f.first_cluster
         /\ w.size = f.size /\ w.count = m /\ ~w.undo
    BY <2>6, <2>7 DEF Locals
  <2> HIDE DEF u, w
  <2>12. Matched(fat, L, E, dir, fd_table, Resize(u))
    <3>1. Gapped(u)
      BY <2>10 DEF Gapped, PastEnd
    <3>2. /\ Matched(fat, L, E, dir, fd_table, resizechain(u))
          /\ ~u.gap => Matched(fat, L, E, dir, fd_table, Goto(u, "entry"))
      BY <1>1, <1>2, <1>4, <2>2, <2>8, <2>10, <3>1, WriteMatched DEF f
    <3> QED
      BY <2>10, <3>2 DEF Resize
  <2>13. ASSUME f.size < m
         PROVE  Matched(fat, L, E, dir, fd_table, resizechain(w))
    <3>1. Gapped(w)
      <4>1. m \in Nat /\ f.size \in Nat
        BY <2>3 DEF Sizes
      <4> QED
        BY <2>11, <2>13, <4>1 DEF Gapped, PastEnd
    <3> QED
      BY <1>1, <1>2, <1>4, <2>2, <2>9, <2>11, <3>1, WriteMatched DEF f
  <2> QED
    BY <1>5, <2>5, <2>12, <2>13
<1>13. CASE fat_close(p)
  <2>1. PICK d \in Descriptors :
          /\ fd_table[d].open
          /\ Start(p, [Goto(Idle, "entry") EXCEPT
                         !.op = "close", !.fd = d, !.slot = fd_table[d].slot,
                         !.chain = fd_table[d].first_cluster, !.size = fd_table[d].size])
    BY <1>13 DEF fat_close, Usable
  <2> DEFINE f == fd_table[d]
             c == [Goto(Idle, "entry") EXCEPT
                     !.op = "close", !.fd = d, !.slot = f.slot,
                     !.chain = f.first_cluster, !.size = f.size]
  <2>2. f.open /\ Start(p, c)
    BY <2>1
  <2> HIDE DEF f
  <2>3. /\ c.op = "close" /\ c.at = "entry" /\ c.slot = f.slot /\ c.chain = f.first_cluster
        /\ c.size = f.size
    BY DEF Goto, Idle
  <2> HIDE DEF c
  <2>4. Matched(fat, L, E, dir, fd_table, c)
    BY <1>4, <2>2, <2>3, CloseMatched DEF f
  <2> QED
    BY <1>5, <2>2, <2>4
<1> QED
  BY <1>7, <1>9, <1>10, <1>11, <1>12, <1>13 DEF Begin

-----------------------------------------------------------------------------
(* Chains match their entries in every state.                              *)

\* An empty volume: every cluster is free.
LEMMA StartMatches ==
  ASSUME NEW p, Alone(p), Init
  PROVE  CallMatches(p)
<1> DEFINE L == [k \in Clusters |-> 0]
           E == [k \in Clusters |-> k]
<1>1. Idle = call[p] /\ Idle.op = "none" /\ Idle.at = "idle"
  BY DEF Alone, Init, Idle
<1>2. Ranked(fat, L, E)
  <2>1. \A k \in Clusters : fat[k] = None /\ L[k] = 0
    BY DEF Init, None
  <2>2. None # EOC /\ None \notin Clusters
    BY NoCluster
  <2> QED
    BY <2>1, <2>2 DEF Ranked
<1>3. \A d \in Descriptors : ~fd_table[d].open
  BY DEF Init, Closed
<1>4. \A s \in Slots : dir[s].kind # "free" => Fulfils(L, dir[s])
  BY DEF Init, Fulfils, None
<1> HIDE DEF L, E
<1>5. Whole(fat, L, E, dir, fd_table)
  BY <1>2, <1>3, <1>4 DEF Whole
<1>6. Owes(L, E, dir, Idle)
  BY <1>1, LookupOwes
<1>7. Matched(fat, L, E, dir, fd_table, Idle)
  BY <1>5, <1>6, WholeMatches
<1> QED
  BY <1>1, <1>7 DEF CallMatches

\* Every step of the task.
LEMMA MatchedStep ==
  ASSUME TypeInv, NEW p, Alone(p), CallIsGood(p), CallMatches(p), [Next]_vars
  PROVE  CallMatches(p)'
<1>1. CASE UNCHANGED vars
  BY <1>1 DEF vars, CallMatches
<1>2. CASE Next
  <2>1. faults = 0 /\ MaxFaults = 0 /\ \A q \in Callers : q = p
    BY AloneAndTyped DEF Alone
  <2>2. ~PowerCut /\ ~WriteFails(p) /\ ~WriteDirectoryFails(p) /\ ~TaskKilled(p)
    BY <2>1 DEF PowerCut, WriteFails, WriteDirectoryFails, TaskKilled
  <2>3. Begin(p) \/ Proceed(p)
    BY <1>2, <2>1, <2>2 DEF Next
  <2> QED
    BY <2>2, <2>3, BeginMatched, ReadsMatched, WritesMatched, LookupMatched,
       findfreeslotsMatched, ReturnsMatched DEF Proceed
<1> QED
  BY <1>1, <1>2

\* Between calls the lengths the entries give are those of the walks along the table.
LEMMA MatchedChains ==
  ASSUME TypeInv, NEW p, Alone(p), CallIsGood(p), CallMatches(p)
  PROVE  ChainsMatchEntries
<1>1. SUFFICES ASSUME At(p, "idle"),
                      NEW s \in Slots, dir[s].kind # "free"
               PROVE  LET e == dir[s]
                          k == e.first_cluster
                      IN  IF k = None
                            THEN e.kind = "file" /\ e.size = 0
                            ELSE /\ Follow(k)[MaxCluster] = EOC
                                 /\ Cardinality(Chain(k)) =
                                      IF e.kind = "file" THEN e.size ELSE 1
  BY DEF ChainsMatchEntries, Alone
<1> DEFINE c == call[p]
           k == dir[s].first_cluster
<1>2. c.at = "idle" /\ Good(fat, dir, fd_table, c)
  BY <1>1 DEF At, CallIsGood
<1>3. PICK L, E : Matched(fat, L, E, dir, fd_table, c)
  BY DEF CallMatches
<1>4. fat \in Tables /\ dir \in Directories
  BY AloneAndTyped
<1> HIDE DEF c
<1>5. /\ c.op = "none" /\ Tidy(fat, dir, fd_table, {}, {})
  BY <1>2 DEF Good, Stage, Placed, View, Renaming, Emptying
<1>6. Changing(c) = {}
  BY <1>5 DEF Changing, Emptying
<1>7. Ranked(fat, L, E) /\ Fulfils(L, dir[s])
  BY <1>1, <1>3, <1>6 DEF Matched, Fulfilled
<1>8. CASE k = None
  BY <1>7, <1>8 DEF Fulfils
<1>9. CASE k # None
  <2>1. k \in Clusters /\ fat[k] # None
    BY <1>1, <1>2, <1>4, <1>5, <1>6, <1>9, EntryHeads
  <2>2. L[k] = IF dir[s].kind = "file" THEN dir[s].size ELSE 1
    BY <1>7, <1>9 DEF Fulfils
  <2>3. Apart(fat, dir, {})
    BY <1>5 DEF Tidy
  <2>4. Follow(k)[MaxCluster] = EOC /\ Cardinality(Chain(k)) = L[k]
    BY <1>4, <1>7, <2>1, <2>3, FollowRanks
  <2> QED
    BY <1>9, <2>2, <2>4
<1> QED
  BY <1>8, <1>9

\* A task that has the volume to itself, keeps the rules for open files and meets no
\* fault leaves sound chains whatever it does, for any volume: no two entries share a
\* cluster, and between its calls every chain ends in the end mark and has as many
\* clusters as its entry says (kernel/fat.c: allocchain, resizechain, freechain and the
\* order in which the calls write the table and the directory).
THEOREM ChainsAreAlwaysSound ==
  ASSUME NEW p, Alone(p)
  PROVE  Spec => []ChainsAreSound
<1>1. Init => CallIsGood(p) /\ CallMatches(p)
  BY StartGood, StartMatches
<1>2. TypeInv /\ CallIsGood(p) /\ CallMatches(p) /\ [Next]_vars
        => CallIsGood(p)' /\ CallMatches(p)'
  BY GoodStep, MatchedStep
<1>3. TypeInv /\ CallIsGood(p) /\ CallMatches(p) => ChainsAreSound
  BY GoodSharesNothing, MatchedChains DEF ChainsAreSound
<1> QED
  BY <1>1, <1>2, <1>3, TypeInvariant, PTL DEF Spec
=============================================================================
