----------------------------- MODULE AlgorithmProofs -----------------------------
(* What is proved of what the program computes: the pointer scanner's chains, *)
(* the symbol table's names, and the pure functions on values, text and code. *)
EXTENDS PointerScan, SymbolTable, Inputs, Lemmas

--------------------------------------------------------------------------------
(* Following pointers, the memory an argument: the same before and after a    *)
(* step that leaves it alone.                                                 *)

(* Which words of a chunk are read, and which of all the regions.             *)
ReadableIn(h, k, c) ==
    {i \in 0 .. PointerChunk - 1 :
        \A j \in 0 .. i : c * PointerChunk + j < CellsIn(k) /\ CellAt(k, c, j) \in DOMAIN h}
WordsOf(h, k) == UNION {{CellAt(k, c, i) : i \in ReadableIn(h, k, c)} : c \in 0 .. CellsIn(k)}
SweptIn(h) == UNION {WordsOf(h, k) : k \in DOMAIN SweptRegions}

LeadsIn(h, a) == a \in DOMAIN h /\ h[a] # 0
FollowedIn(h, start, offsets) ==
    LET hop[i \in 0 .. Len(offsets)] ==
          IF i = 0 THEN start
          ELSE IF LeadsIn(h, hop[i - 1]) THEN h[hop[i - 1]] + offsets[i] ELSE Fail
    IN hop[Len(offsets)]
LeadsIntoIn(h, a, places) == LeadsIn(h, a) /\ \E t \in places : t - h[a] \in 0 .. MaxOffset
WithinIn(h, target, hops) ==
    LET within[n \in 0 .. hops] ==
          IF n = 0 THEN {target}
          ELSE within[n - 1] \cup {a \in SweptIn(h) : LeadsIntoIn(h, a, within[n - 1])}
    IN within[hops]
EndsAtIn(h, chain) ==
    IF Named(chain.module) = {} THEN Fail
    ELSE FollowedIn(h, LoadedModules[First(Named(chain.module))].base + chain.at, chain.offsets)

LEMMA InMemory ==
  /\ \A start, offsets : Followed(start, offsets) = FollowedIn(heap, start, offsets)
  /\ \A target, hops : Within(target, hops) = WithinIn(heap, target, hops)
  /\ \A chain : EndsAt(chain) = EndsAtIn(heap, chain)
  /\ \A k, c : Readable(k, c) = ReadableIn(heap, k, c)
  /\ \A start, offsets : Followed(start, offsets)' = FollowedIn(heap', start, offsets)
  /\ \A target, hops : Within(target, hops)' = WithinIn(heap', target, hops)
  /\ \A chain : EndsAt(chain)' = EndsAtIn(heap', chain)
<1>1. ASSUME NEW start, NEW offsets
      PROVE  /\ Followed(start, offsets) = FollowedIn(heap, start, offsets)
             /\ Followed(start, offsets)' = FollowedIn(heap', start, offsets)
  BY DEF Followed, FollowedIn, Leads, LeadsIn
<1>2. ASSUME NEW target, NEW hops
      PROVE  /\ Within(target, hops) = WithinIn(heap, target, hops)
             /\ Within(target, hops)' = WithinIn(heap', target, hops)
  BY DEF Within, WithinIn, LeadsInto, LeadsIntoIn, Leads, LeadsIn, SweptWords, SweptIn, WordsIn, WordsOf,
         Readable, ReadableIn
<1>3. ASSUME NEW chain
      PROVE  /\ EndsAt(chain) = EndsAtIn(heap, chain)
             /\ EndsAt(chain)' = EndsAtIn(heap', chain)
  BY DEF EndsAt, EndsAtIn, Followed, FollowedIn, Leads, LeadsIn
<1>4. \A k, c : Readable(k, c) = ReadableIn(heap, k, c)
  BY DEF Readable, ReadableIn
<1> QED BY <1>1, <1>2, <1>3, <1>4

Memory(h) == DOMAIN h \subseteq Address /\ \A a \in DOMAIN h : h[a] \in Nat

(* A walk of pointers, place by place: where each offset leads to.            *)
Walk(h, start, offsets, f) ==
    /\ f \in [0 .. Len(offsets) -> Int] /\ f[0] = start
    /\ \A i \in 1 .. Len(offsets) : f[i] = IF LeadsIn(h, f[i - 1]) THEN h[f[i - 1]] + offsets[i] ELSE Fail

LEMMA Walked ==
  ASSUME NEW h, Memory(h), NEW start \in Int, NEW offsets \in Seq(Nat)
  PROVE  \E f : Walk(h, start, offsets, f) /\ FollowedIn(h, start, offsets) = f[Len(offsets)]
<1> DEFINE N == Len(offsets)
           onward == [n \in 1 .. N |-> [a \in Int |-> IF LeadsIn(h, a) THEN h[a] + offsets[n] ELSE Fail]]
           IsHop(f) == f = [i \in 0 .. N |-> IF i = 0 THEN start
                              ELSE IF LeadsIn(h, f[i - 1]) THEN h[f[i - 1]] + offsets[i] ELSE Fail]
<1>0. N \in Nat
  OBVIOUS
<1>1. Steps(onward, N, Int)
  BY DEF LeadsIn, Memory, Fail, Steps
<1>2. PICK f \in [0 .. N -> Int] : f[0] = start /\ \A n \in 1 .. N : f[n] = onward[n][f[n - 1]]
  <2> HIDE DEF onward, N
  <2>1. \E f : Iterates(f, onward, start, N, Int)
    BY <1>0, <1>1, Recursion
  <2> QED BY <2>1 DEF Iterates
<1>3. ASSUME NEW n \in 1 .. N
      PROVE  f[n] = IF LeadsIn(h, f[n - 1]) THEN h[f[n - 1]] + offsets[n] ELSE Fail
  <2>1. n - 1 \in 0 .. N
    BY <1>0
  <2>2. f[n - 1] \in Int
    BY <2>1
  <2>3. f[n] = onward[n][f[n - 1]]
    BY <1>2
  <2> QED BY <2>2, <2>3
<1>4. IsHop(f)
  <2>1. \A i \in 0 .. N : i = 0 \/ i \in 1 .. N
    BY <1>0
  <2> QED BY <1>2, <1>3, <2>1
<1>5. PICK g : IsHop(g) /\ FollowedIn(h, start, offsets) = g[N]
  BY <1>4 DEF FollowedIn
<1>6. g[N] = f[N]
  <2> DEFINE P == {n \in 0 .. N : g[n] = f[n]}
  <2>1. 0 \in P
    BY <1>0, <1>2, <1>5
  <2>2. ASSUME NEW n \in 1 .. N, n - 1 \in P PROVE n \in P
    <3>1. n \in 0 .. N /\ n # 0 /\ g[n - 1] = f[n - 1]
      BY <1>0, <2>2
    <3>2. g[n] = IF LeadsIn(h, g[n - 1]) THEN h[g[n - 1]] + offsets[n] ELSE Fail
      BY <1>5, <3>1
    <3> HIDE DEF N
    <3>3. g[n] = f[n]
      BY <1>3, <3>1, <3>2
    <3> QED BY <3>1, <3>3
  <2> HIDE DEF P
  <2>3. \A n \in 0 .. N : n \in P
    BY <1>0, <2>1, <2>2, Upward
  <2> QED BY <1>0, <2>3 DEF P
<1> QED BY <1>2, <1>3, <1>5, <1>6 DEF Walk

(* A walk is settled by where it begins.                                      *)
LEMMA OneWalk ==
  ASSUME NEW h, Memory(h), NEW start \in Int, NEW offsets \in Seq(Nat),
         NEW f, Walk(h, start, offsets, f)
  PROVE  FollowedIn(h, start, offsets) = f[Len(offsets)]
<1> DEFINE N == Len(offsets)
<1>0. N \in Nat
  OBVIOUS
<1>1. PICK g : Walk(h, start, offsets, g) /\ FollowedIn(h, start, offsets) = g[N]
  BY Walked
<1> DEFINE P == {n \in 0 .. N : g[n] = f[n]}
<1>2. 0 \in P
  BY <1>0, <1>1 DEF Walk
<1>3. ASSUME NEW n \in 1 .. N, n - 1 \in P PROVE n \in P
  <2>1. n \in 0 .. N /\ g[n - 1] = f[n - 1]
    BY <1>0, <1>3
  <2>2. /\ f[n] = IF LeadsIn(h, f[n - 1]) THEN h[f[n - 1]] + offsets[n] ELSE Fail
        /\ g[n] = IF LeadsIn(h, g[n - 1]) THEN h[g[n - 1]] + offsets[n] ELSE Fail
    BY <1>1 DEF Walk
  <2> QED BY <2>1, <2>2
<1> HIDE DEF P
<1>4. \A n \in 0 .. N : n \in P
  BY <1>0, <1>2, <1>3, Upward
<1> QED BY <1>0, <1>1, <1>4 DEF P

(* No offset is where one is; one more in front is one pointer more.           *)
LEMMA FollowedNone ==
  ASSUME NEW h, Memory(h), NEW start \in Int
  PROVE  FollowedIn(h, start, <<>>) = start
<1>1. <<>> \in Seq(Nat) /\ Len(<<>>) = 0
  OBVIOUS
<1>2. PICK f : Walk(h, start, <<>>, f) /\ FollowedIn(h, start, <<>>) = f[0]
  BY <1>1, Walked
<1> QED BY <1>2 DEF Walk

LEMMA FollowedFurther ==
  ASSUME NEW h, Memory(h), NEW a \in Int, LeadsIn(h, a), NEW by \in Nat, NEW offsets \in Seq(Nat)
  PROVE  FollowedIn(h, a, <<by>> \o offsets) = FollowedIn(h, h[a] + by, offsets)
<1> DEFINE all == <<by>> \o offsets
           N == Len(offsets)
<1>1. /\ N \in Nat /\ all \in Seq(Nat) /\ Len(all) = N + 1
      /\ all[1] = by /\ \A n \in 1 .. N : all[n + 1] = offsets[n]
  OBVIOUS
<1>2. h[a] + by \in Int
  BY DEF LeadsIn, Memory
<1>3. PICK f : Walk(h, a, all, f) /\ FollowedIn(h, a, all) = f[N + 1]
  <2> HIDE DEF all
  <2> QED BY <1>1, Walked
<1> HIDE DEF all, N
<1> DEFINE g == [n \in 0 .. N |-> f[n + 1]]
<1>4. Walk(h, h[a] + by, offsets, g)
  <2>1. \A n \in 0 .. N : n + 1 \in 0 .. N + 1 /\ f[n + 1] \in Int
    <3>1. f \in [0 .. N + 1 -> Int]
      BY <1>1, <1>3 DEF Walk
    <3> QED BY <1>1, <3>1
  <2>2. g \in [0 .. N -> Int]
    BY <2>1
  <2>3. g[0] = h[a] + by
    <3>1. 1 \in 1 .. N + 1 /\ 0 \in 0 .. N
      BY <1>1
    <3>2. f[1] = h[a] + by
      BY <1>1, <1>3, <3>1 DEF Walk
    <3> QED BY <3>1, <3>2
  <2>4. ASSUME NEW n \in 1 .. N
        PROVE  g[n] = IF LeadsIn(h, g[n - 1]) THEN h[g[n - 1]] + offsets[n] ELSE Fail
    <3>1. n + 1 \in 1 .. N + 1 /\ n \in 0 .. N /\ n - 1 \in 0 .. N /\ (n + 1) - 1 = (n - 1) + 1
      BY <1>1
    <3>2. f[n + 1] = IF LeadsIn(h, f[n]) THEN h[f[n]] + offsets[n] ELSE Fail
      <4>1. \A i \in 1 .. N + 1 : f[i] = IF LeadsIn(h, f[i - 1]) THEN h[f[i - 1]] + all[i] ELSE Fail
        BY <1>1, <1>3 DEF Walk
      <4>2. (n + 1) - 1 = n /\ all[n + 1] = offsets[n]
        BY <1>1, <3>1
      <4> QED BY <3>1, <4>1, <4>2
    <3>3. g[n] = f[n + 1] /\ g[n - 1] = f[n]
      BY <3>1
    <3> QED BY <3>2, <3>3
  <2> HIDE DEF g
  <2> QED BY <2>2, <2>3, <2>4 DEF Walk, N
<1>5. FollowedIn(h, h[a] + by, offsets) = g[N]
  <2> HIDE DEF g
  <2> QED BY <1>2, <1>4, OneWalk DEF N
<1>6. g[N] = f[N + 1]
  <2>1. N \in 0 .. N
    BY <1>1
  <2> QED BY <2>1
<1> QED BY <1>3, <1>5, <1>6 DEF all

--------------------------------------------------------------------------------
(* What leads to an address in some number of pointers                        *)

Onward(h, places) == places \cup {a \in SweptIn(h) : LeadsIntoIn(h, a, places)}
Rings(h, t, N, f) ==
    /\ f \in [0 .. N -> SUBSET (SweptIn(h) \cup {t})] /\ f[0] = {t}
    /\ \A n \in 1 .. N : f[n] = Onward(h, f[n - 1])

LEMMA Ringed ==
  ASSUME NEW h, NEW t, NEW N \in Nat
  PROVE  \E f : Rings(h, t, N, f) /\ WithinIn(h, t, N) = f[N]
<1> DEFINE S == SUBSET (SweptIn(h) \cup {t})
           onward == [n \in 1 .. N |-> [places \in S |-> Onward(h, places)]]
           IsWithin(f) == f = [n \in 0 .. N |-> IF n = 0 THEN {t}
                                ELSE f[n - 1] \cup {a \in SweptIn(h) : LeadsIntoIn(h, a, f[n - 1])}]
<1>1. Steps(onward, N, S)
  <2>1. \A places \in S : Onward(h, places) \in S
    BY DEF Onward
  <2> HIDE DEF S
  <2> QED BY <2>1 DEF Steps
<1>2. PICK f : /\ f \in [0 .. N -> S] /\ f[0] = {t}
               /\ \A n \in 1 .. N : f[n] = onward[n][f[n - 1]]
  <2>1. {t} \in S
    OBVIOUS
  <2> HIDE DEF onward, S
  <2>2. \E f : Iterates(f, onward, {t}, N, S)
    BY <1>1, <2>1, Recursion
  <2> QED BY <2>2 DEF Iterates
<1>3. ASSUME NEW n \in 1 .. N PROVE f[n] = Onward(h, f[n - 1])
  <2>1. n - 1 \in 0 .. N
    OBVIOUS
  <2> HIDE DEF S
  <2> QED BY <1>2, <2>1
<1>4. IsWithin(f)
  <2>1. \A i \in 0 .. N : i = 0 \/ i \in 1 .. N
    OBVIOUS
  <2>2. f = [n \in 0 .. N |-> f[n]]
    BY <1>2
  <2>3. \A n \in 0 .. N : f[n] = IF n = 0 THEN {t}
                                 ELSE f[n - 1] \cup {a \in SweptIn(h) : LeadsIntoIn(h, a, f[n - 1])}
    BY <1>2, <1>3, <2>1 DEF Onward
  <2> QED BY <2>2, <2>3
<1>5. PICK g : IsWithin(g) /\ WithinIn(h, t, N) = g[N]
  BY <1>4 DEF WithinIn
<1> DEFINE P == {n \in 0 .. N : g[n] = f[n]}
<1>6. 0 \in P
  BY <1>2, <1>5
<1>7. ASSUME NEW n \in 1 .. N, n - 1 \in P PROVE n \in P
  <2>1. n \in 0 .. N /\ n # 0 /\ g[n - 1] = f[n - 1]
    BY <1>7
  <2>2. g[n] = Onward(h, g[n - 1])
    BY <1>5, <2>1 DEF Onward
  <2> QED BY <1>3, <2>1, <2>2
<1> HIDE DEF P
<1>8. \A n \in 0 .. N : n \in P
  BY <1>6, <1>7, Upward
<1>9. g[N] = f[N]
  BY <1>8 DEF P
<1>10. Rings(h, t, N, f)
  BY <1>2, <1>3 DEF Rings
<1> QED BY <1>5, <1>9, <1>10

LEMMA SameRings ==
  ASSUME NEW h, NEW t, NEW N \in Nat, NEW M \in Nat, M <= N,
         NEW f, NEW g, Rings(h, t, N, f), Rings(h, t, M, g)
  PROVE  f[M] = g[M]
<1> DEFINE P == {n \in 0 .. M : g[n] = f[n]}
<1>1. 0 \in P
  <2>1. 0 \in 0 .. M
    OBVIOUS
  <2>2. f[0] = {t} /\ g[0] = {t}
    BY DEF Rings
  <2> QED BY <2>1, <2>2
<1>2. ASSUME NEW n \in 1 .. M, n - 1 \in P PROVE n \in P
  <2>1. n \in 0 .. M /\ n \in 1 .. N /\ g[n - 1] = f[n - 1]
    BY <1>2
  <2>2. g[n] = Onward(h, g[n - 1]) /\ f[n] = Onward(h, f[n - 1])
    BY <2>1 DEF Rings
  <2> QED BY <2>1, <2>2
<1> HIDE DEF P
<1>3. \A n \in 0 .. M : n \in P
  BY <1>1, <1>2, Upward
<1> QED BY <1>3 DEF P

LEMMA WithinNone ==
  ASSUME NEW h, NEW t
  PROVE  WithinIn(h, t, 0) = {t}
BY Ringed DEF Rings

LEMMA WithinMore ==
  ASSUME NEW h, NEW t, NEW n \in Nat
  PROVE  WithinIn(h, t, n + 1) = Onward(h, WithinIn(h, t, n))
<1>1. PICK f : Rings(h, t, n, f) /\ WithinIn(h, t, n) = f[n]
  BY Ringed
<1>2. PICK g : Rings(h, t, n + 1, g) /\ WithinIn(h, t, n + 1) = g[n + 1]
  BY Ringed
<1>3. f[n] = g[n]
  BY <1>1, <1>2, SameRings
<1>4. g[n + 1] = Onward(h, g[n])
  <2>1. n + 1 \in 1 .. n + 1 /\ (n + 1) - 1 = n
    OBVIOUS
  <2> QED BY <1>2, <2>1 DEF Rings
<1> QED BY <1>1, <1>2, <1>3, <1>4

LEMMA WithinGrows ==
  ASSUME NEW h, NEW t, NEW n \in Nat, NEW m \in 0 .. n
  PROVE  WithinIn(h, t, m) \subseteq WithinIn(h, t, n)
<1> DEFINE W(k) == WithinIn(h, t, k)
           P == {k \in 0 .. n - m : W(m) \subseteq W(m + k)}
<1>1. \A k \in Nat : W(k) \subseteq W(k + 1)
  <2> HIDE DEF P
  <2>1. \A k \in Nat : WithinIn(h, t, k + 1) = Onward(h, WithinIn(h, t, k))
    BY WithinMore
  <2> HIDE DEF W
  <2>2. \A k \in Nat : W(k) \subseteq Onward(h, W(k))
    BY DEF Onward
  <2> QED BY <2>1, <2>2 DEF W
<1> HIDE DEF W
<1>2. 0 \in P
  OBVIOUS
<1>3. ASSUME NEW k \in 1 .. n - m, k - 1 \in P PROVE k \in P
  <2>1. W(m) \subseteq W(m + (k - 1)) /\ m + (k - 1) \in Nat /\ (m + (k - 1)) + 1 = m + k
    BY <1>3
  <2>2. W(m + (k - 1)) \subseteq W(m + k)
    BY <1>1, <2>1
  <2> QED BY <2>1, <2>2
<1> HIDE DEF P
<1>4. n - m \in P
  BY <1>2, <1>3, Upward
<1>5. m + (n - m) = n
  OBVIOUS
<1> QED BY <1>4, <1>5 DEF P, W

(* A depth that adds nothing is the last that could.                          *)
LEMMA WithinStays ==
  ASSUME NEW h, NEW t, NEW n \in Nat, NEW m \in 0 .. n,
         WithinIn(h, t, m + 1) = WithinIn(h, t, m)
  PROVE  WithinIn(h, t, n) = WithinIn(h, t, m)
<1> DEFINE W(k) == WithinIn(h, t, k)
           P == {k \in 0 .. n - m : W(m + k) = W(m)}
<1>1. \A k \in Nat : W(k + 1) = Onward(h, W(k))
  BY WithinMore
<1>a. W(m + 1) = W(m)
  OBVIOUS
<1> HIDE DEF W
<1>2. 0 \in P
  OBVIOUS
<1>3. ASSUME NEW k \in 1 .. n - m, k - 1 \in P PROVE k \in P
  <2>1. W(m + (k - 1)) = W(m) /\ m + (k - 1) \in Nat /\ (m + (k - 1)) + 1 = m + k
    BY <1>3
  <2>2. W(m + k) = Onward(h, W(m))
    BY <1>1, <2>1
  <2>3. W(m + 1) = Onward(h, W(m))
    BY <1>1
  <2> QED BY <1>a, <2>2, <2>3
<1> HIDE DEF P
<1>4. n - m \in P
  BY <1>2, <1>3, Upward
<1>5. m + (n - m) = n
  OBVIOUS
<1> QED BY <1>4, <1>5 DEF P, W

--------------------------------------------------------------------------------
(* The inductive invariant of the pointer scanner                             *)

Found == [module : {LoadedModules[k].name : k \in DOMAIN LoadedModules}, base : Nat, at : Nat, offsets : Seq(Nat)]
Places == [address : Nat, offsets : Seq(Nat)]
Buffers == UNION {[D -> Nat] : D \in SUBSET Nat}
Searches == [pc : {"gone", "scan", "words", "filter", "check", "leave"}, target : Nat, depth : Nat,
             region : Nat \ {0}, chunk : Nat, at : Nat, buffer : Buffers, frontier : Seq(Places), next : Seq(Places), seen : SUBSET Nat, truncated : BOOLEAN,
             chains : Seq(Found), kept : Seq(Found)]

ChainTypeOK ==
    /\ Memory(heap)
    /\ found \in Seq(Found) /\ earlier \in Seq(Found)
    /\ searcher \in Searches
    /\ looked \in Nat /\ opened \in BOOLEAN /\ cut \in BOOLEAN
    /\ searcher.pc = "words" => searcher.region \in DOMAIN SweptRegions
    /\ asker.for \in {"scan", "filter"} => asker.target \in Nat

(* A result stands only once the worker has left its loop, and it has noticed *)
(* that it was detached from.                                                 *)
Underway == searcher.pc \in {"scan", "words", "filter", "check"}
Phases ==
    /\ searcher.pc # "gone" <=> searching
    /\ Underway => verdict = "starting"
    /\ Midway /\ ~opened => cut
    /\ cut => ~opened

(* What a scan has found: chains from different places, each in a module of   *)
(* the chain's name, and leading to the target.                               *)
Distinct(chains) == \A i, j \in DOMAIN chains : Root(chains[i]) = Root(chains[j]) => i = j
Roots(chains) == {Root(chains[i]) : i \in DOMAIN chains}
Rooted(h, t, c) == ModuleOf(Root(c)) # {} /\ (Cardinality(Named(c.module)) = 1 => EndsAtIn(h, c) = t)
Sound(h, t, chains) == Distinct(chains) /\ \A i \in DOMAIN chains : Rooted(h, t, chains[i])
Static(places) == {a \in places : ModuleOf(a) # {}}

(* Where it has been, and what of that leads to what is within its depth.     *)
Before(k, c, i, region, chunk, at) == k < region \/ (k = region /\ (c < chunk \/ (c = chunk /\ i < at)))
Behind(h, region, chunk, at) ==
    {a \in SweptIn(h) : \E k \in DOMAIN SweptRegions : \E c \in Nat : \E i \in ReadableIn(h, k, c) :
        a = CellAt(k, c, i) /\ Before(k, c, i, region, chunk, at)}
Nearby(h, s) == WithinIn(h, s.target, s.depth)
Looked(h, s) == {a \in Behind(h, s.region, s.chunk, s.at) : LeadsIntoIn(h, a, Nearby(h, s))}
Takes(places) == {places[i].address : i \in DOMAIN places}
Leading(h, t, places) == \A i \in DOMAIN places : FollowedIn(h, places[i].address, places[i].offsets) = t

(* What a scan has seen is what leads to the target in so many pointers, and  *)
(* what it has come by that needs one more; all of it, unless it has dropped  *)
(* something.                                                                 *)
ScanSound(h, s, chains) ==
    /\ s.depth <= MaxDepth
    /\ s.depth = MaxDepth => s.region = 1 /\ s.chunk = 0 /\ s.at = 0
    /\ s.target \in s.seen /\ s.seen \subseteq Nearby(h, s) \cup Looked(h, s)
    /\ Takes(s.frontier) \subseteq Nearby(h, s) /\ Leading(h, s.target, s.frontier)
    /\ Takes(s.next) \subseteq s.seen /\ Leading(h, s.target, s.next)
    /\ Sound(h, s.target, chains) /\ Roots(chains) \subseteq s.seen \ {s.target}
ScanWhole(h, s, chains) ==
    /\ Nearby(h, s) \cup Looked(h, s) \subseteq s.seen
    /\ s.seen \ Nearby(h, s) \subseteq Takes(s.next)
    /\ IF s.depth = 0 THEN s.target \in Takes(s.frontier)
       ELSE Nearby(h, s) \ WithinIn(h, s.target, s.depth - 1) \subseteq Takes(s.frontier)
    /\ Static(s.seen \ {s.target}) \subseteq Roots(chains)

(* What has been read of a chunk, all that can be unless it was detached.     *)
Buffered(h, w, s) ==
    /\ s.depth < MaxDepth
    /\ DOMAIN s.buffer \subseteq ReadableIn(h, s.region, s.chunk)
    /\ \A i \in DOMAIN s.buffer : s.buffer[i] = h[CellAt(s.region, s.chunk, i)]
    /\ w => DOMAIN s.buffer = ReadableIn(h, s.region, s.chunk)

Quiet == ~rewritten
ScanGoes(h, w, s, chains) == ScanSound(h, s, chains) /\ (w /\ ~s.truncated => ScanWhole(h, s, chains))
ScanGave(h, t, chains, whole) ==
    LET reach == WithinIn(h, t, MaxDepth) \ {t} IN
    Sound(h, t, chains) /\ Roots(chains) \subseteq reach /\ (whole => Static(reach) \subseteq Roots(chains))
Scanning ==
    /\ searcher.pc = "scan" => searcher.at = 0
    /\ searcher.pc \in {"scan", "words"} /\ Quiet => ScanGoes(heap, ~cut, searcher, found)
    /\ searcher.pc = "words" /\ Quiet => Buffered(heap, ~cut, searcher)
Scanned == verdict \in {"complete", "limit", "cancelled"} /\ Quiet =>
               ScanGave(heap, searcher.target, found, verdict = "complete" /\ ~cut)

(* A rescan has the chains of the job before, and has kept those of the ones  *)
(* looked at that lead to the new target.                                     *)
Kept(h, t, chains, n) == Picked(chains, {i \in 1 .. n : EndsAtIn(h, chains[i]) = t})
Through(n) == IF cut THEN looked ELSE n
Filtering ==
    /\ searcher.pc \in {"filter", "check"} =>
         found = earlier /\ searcher.chains = earlier /\ searcher.at <= Len(earlier)
    /\ searcher.pc = "filter" => searcher.at = 0 /\ searcher.kept = <<>>
    /\ searcher.pc = "check" =>
         /\ cut => looked <= searcher.at
         /\ ~rewritten => searcher.kept = Kept(heap, searcher.target, earlier, Through(searcher.at))
    /\ verdict \in {"kept", "refused"} => found = earlier
    /\ verdict = "filtered" /\ cut => looked <= Len(earlier)
    /\ verdict = "filtered" /\ ~rewritten =>
         found = Kept(heap, searcher.target, earlier, Through(Len(earlier)))

ChainInv == ChainTypeOK /\ Phases /\ Scanning /\ Scanned /\ Filtering

LEMMA ChainsHonestFollows == ChainInv => ChainsHonest
<1> SUFFICES ASSUME ChainInv PROVE ChainsHonest
  OBVIOUS
<1> DEFINE t == searcher.target
<1>1. ASSUME ~searching, verdict \in {"complete", "limit", "cancelled"}, ~rewritten
      PROVE  /\ \A i, j \in DOMAIN found : Root(found[i]) = Root(found[j]) => i = j
             /\ \A i \in DOMAIN found :
                  /\ Root(found[i]) \in StaticWithin
                  /\ Cardinality(Named(found[i].module)) = 1 => EndsAt(found[i]) = t
             /\ verdict = "complete" /\ ~cut => StaticWithin \subseteq {Root(found[i]) : i \in DOMAIN found}
  <2>1. ScanGave(heap, t, found, verdict = "complete" /\ ~cut)
    BY <1>1 DEF ChainInv, Scanned, Quiet
  <2>2. WithinIn(heap, t, MaxDepth) = Within(t, MaxDepth)
    BY InMemory
  <2>3. StaticWithin = Static(WithinIn(heap, t, MaxDepth) \ {t})
    BY <2>2 DEF StaticWithin, Static
  <2>4. \A c : EndsAtIn(heap, c) = EndsAt(c)
    BY InMemory
  <2>5. ASSUME NEW i \in DOMAIN found
        PROVE  /\ Root(found[i]) \in StaticWithin
               /\ Cardinality(Named(found[i].module)) = 1 => EndsAt(found[i]) = t
    BY <2>1, <2>3, <2>4 DEF ScanGave, Sound, Rooted, Roots, Static
  <2> QED BY <2>1, <2>3, <2>5 DEF ScanGave, Sound, Distinct, Roots
<1>2. verdict \in {"kept", "refused"} => found = earlier
  BY DEF ChainInv, Filtering
<1>3. ASSUME verdict = "filtered", ~rewritten
      PROVE  found = Picked(earlier, {i \in DOMAIN earlier : (cut => i <= looked) /\ EndsAt(earlier[i]) = t})
  <2>1. DOMAIN earlier = 1 .. Len(earlier) /\ Len(earlier) \in Nat /\ looked \in Nat
    BY DEF ChainInv, ChainTypeOK
  <2>2. found = Kept(heap, t, earlier, Through(Len(earlier))) /\ (cut => looked <= Len(earlier))
    BY <1>3 DEF ChainInv, Filtering
  <2>3. \A c : EndsAtIn(heap, c) = EndsAt(c)
    BY InMemory
  <2>4. {i \in 1 .. Through(Len(earlier)) : EndsAtIn(heap, earlier[i]) = t}
          = {i \in DOMAIN earlier : (cut => i <= looked) /\ EndsAt(earlier[i]) = t}
    BY <2>1, <2>2, <2>3 DEF Through
  <2> QED BY <2>2, <2>4 DEF Kept
<1> QED BY <1>1, <1>2, <1>3 DEF ChainsHonest, ScanHonest, RescanHonest

--------------------------------------------------------------------------------
(* Places and the places behind                                               *)

LEMMA FirstIs ==
  ASSUME NEW P \in SUBSET Nat, P # {}
  PROVE  First(P) \in P /\ \A j \in P : First(P) <= j
<1>1. \E k \in P : \A j \in P : k <= j
  BY LeastNumber
<1> QED BY <1>1 DEF First

LEMMA Modules ==
  ASSUME NEW k \in DOMAIN LoadedModules
  PROVE  /\ LoadedModules[k].base \in Nat /\ LoadedModules[k].size \in Nat
         /\ k \in Nat
<1> DEFINE M == [name : {LoadedModules[j].name : j \in DOMAIN LoadedModules}, base : Address, size : Nat]
<1>1. LoadedModules \in Seq(M)
  BY PointerAssumption
<1> HIDE DEF M
<1>2. LoadedModules[k] \in M /\ k \in Nat
  BY <1>1
<1> QED BY <1>2 DEF M, Address

LEMMA ModuleOfIs ==
  ASSUME NEW a, ModuleOf(a) # {}
  PROVE  /\ First(ModuleOf(a)) \in ModuleOf(a) /\ First(ModuleOf(a)) \in DOMAIN LoadedModules
<1>1. ModuleOf(a) \in SUBSET Nat
  BY Modules DEF ModuleOf
<1>2. First(ModuleOf(a)) \in ModuleOf(a)
  BY <1>1, FirstIs
<1> QED BY <1>2 DEF ModuleOf

LEMMA Regions ==
  ASSUME NEW k \in DOMAIN SweptRegions
  PROVE  SweptRegions[k].base \in Nat /\ CellsIn(k) \in Nat /\ k \in 1 .. Len(SweptRegions)
<1> DEFINE R == [base : Address, size : Nat, readable : BOOLEAN]
<1>1. SweptRegions \in Seq(R)
  BY PointerAssumption
<1> HIDE DEF R
<1>2. SweptRegions[k] \in R /\ k \in 1 .. Len(SweptRegions)
  BY <1>1
<1>3. SweptRegions[k].base \in Nat /\ CellsIn(k) \in Nat
  BY <1>2 DEF R, Address, CellsIn
<1> QED BY <1>2, <1>3

(* Chunks further on lie further on.                                          *)
LEMMA Chunks ==
  ASSUME NEW c \in Nat, NEW d \in Nat, c <= d
  PROVE  /\ c * PointerChunk \in Nat /\ c <= c * PointerChunk
         /\ c * PointerChunk <= d * PointerChunk
<1> DEFINE n == PointerChunk
           e == d - c
<1>1. n \in Nat /\ n >= 1
  BY PointerAssumption
<1>2. e \in Nat /\ d = c + e
  OBVIOUS
<1> HIDE DEF n, e
<1>3. c * n \in Nat /\ e * n \in Nat /\ (c + e) * n = c * n + e * n
  BY <1>1, <1>2
<1>4. c <= c * n
  BY <1>1
<1> QED BY <1>2, <1>3, <1>4 DEF n

(* What is read of a chunk are its first words, in Nat.                       *)
LEMMA ReadableIs ==
  ASSUME NEW h, NEW k \in DOMAIN SweptRegions, NEW c \in Nat, NEW i \in ReadableIn(h, k, c)
  PROVE  /\ i \in Nat /\ CellAt(k, c, i) \in Nat /\ CellAt(k, c, i) \in DOMAIN h
         /\ CellAt(k, c, i) \in SweptIn(h) /\ c * PointerChunk < CellsIn(k)
         /\ \A j \in 0 .. i : j \in ReadableIn(h, k, c)
<1>1. /\ PointerChunk \in Nat /\ SweptRegions[k].base \in Nat /\ CellsIn(k) \in Nat
      /\ c * PointerChunk \in Nat /\ c <= c * PointerChunk
  BY Regions, Chunks, PointerAssumption
<1>2. /\ i \in 0 .. PointerChunk - 1
      /\ \A j \in 0 .. i : c * PointerChunk + j < CellsIn(k) /\ CellAt(k, c, j) \in DOMAIN h
  BY DEF ReadableIn
<1> DEFINE start == c * PointerChunk
<1>3. i \in Nat /\ i \in 0 .. i /\ 0 \in 0 .. i /\ start + 0 = start
  BY <1>1, <1>2
<1>4. start < CellsIn(k) /\ CellAt(k, c, i) \in DOMAIN h
  BY <1>2, <1>3
<1>5. CellAt(k, c, i) \in Nat
  BY <1>1, <1>3 DEF CellAt
<1>6. c \in 0 .. CellsIn(k)
  BY <1>1, <1>4
<1>7. CellAt(k, c, i) \in SweptIn(h)
  BY <1>6 DEF SweptIn, WordsOf
<1>8. ASSUME NEW j \in 0 .. i PROVE j \in ReadableIn(h, k, c)
  <2>1. j \in 0 .. PointerChunk - 1 /\ \A m \in 0 .. j : m \in 0 .. i
    BY <1>1, <1>2, <1>3
  <2> QED BY <1>2, <2>1 DEF ReadableIn
<1> QED BY <1>3, <1>4, <1>5, <1>7, <1>8

LEMMA SweptIs ==
  ASSUME NEW h, NEW a \in SweptIn(h)
  PROVE  \E k \in DOMAIN SweptRegions : \E c \in Nat : \E i \in ReadableIn(h, k, c) : a = CellAt(k, c, i)
<1>1. PICK k \in DOMAIN SweptRegions : a \in WordsOf(h, k)
  BY DEF SweptIn
<1>2. PICK c \in 0 .. CellsIn(k) : \E i \in ReadableIn(h, k, c) : a = CellAt(k, c, i)
  BY <1>1 DEF WordsOf
<1>3. c \in Nat
  BY Regions
<1> QED BY <1>2, <1>3

LEMMA BehindStart == \A h : Behind(h, 1, 0, 0) = {}
<1> SUFFICES ASSUME NEW h, NEW k \in DOMAIN SweptRegions, NEW c \in Nat, NEW i \in ReadableIn(h, k, c),
                    Before(k, c, i, 1, 0, 0)
             PROVE  FALSE
  BY DEF Behind
<1>1. k \in 1 .. Len(SweptRegions) /\ i \in Nat
  BY Regions, ReadableIs
<1> QED BY <1>1 DEF Before

LEMMA BehindAll ==
  ASSUME NEW h, NEW r \in Nat, r > Len(SweptRegions), NEW chunk, NEW at
  PROVE  Behind(h, r, chunk, at) = SweptIn(h)
<1> SUFFICES ASSUME NEW a \in SweptIn(h) PROVE a \in Behind(h, r, chunk, at)
  BY DEF Behind
<1>1. PICK k \in DOMAIN SweptRegions : \E c \in Nat : \E i \in ReadableIn(h, k, c) : a = CellAt(k, c, i)
  BY SweptIs
<1>2. k < r
  BY Regions, PointerAssumption
<1> QED BY <1>1, <1>2 DEF Behind, Before

(* One word further, one chunk, one region.                                   *)
LEMMA BehindCell ==
  ASSUME NEW h, NEW r \in DOMAIN SweptRegions, NEW c \in Nat, NEW at \in ReadableIn(h, r, c)
  PROVE  LET here == CellAt(r, c, at) IN
         here \in Nat /\ here \in SweptIn(h) /\ Behind(h, r, c, at + 1) = Behind(h, r, c, at) \cup {here}
<1> DEFINE here == CellAt(r, c, at)
<1>1. here \in Nat /\ here \in SweptIn(h) /\ at \in Nat
  BY ReadableIs
<1>2. ASSUME NEW k \in DOMAIN SweptRegions, NEW d \in Nat, NEW i \in ReadableIn(h, k, d)
      PROVE  Before(k, d, i, r, c, at + 1) <=> Before(k, d, i, r, c, at) \/ (k = r /\ d = c /\ i = at)
  <2>1. k \in Nat /\ r \in Nat
    BY Regions
  <2>2. i \in Nat
    BY ReadableIs
  <2> QED BY <1>1, <2>1, <2>2 DEF Before
<1>3. here \in Behind(h, r, c, at + 1)
  BY <1>1, <1>2 DEF Behind
<1>4. ASSUME NEW a \in SweptIn(h) PROVE a \in Behind(h, r, c, at + 1) <=> a \in Behind(h, r, c, at) \/ a = here
  BY <1>2, <1>3 DEF Behind
<1>5. \A x, y : Behind(h, r, x, y) \subseteq SweptIn(h)
  BY DEF Behind
<1> QED BY <1>1, <1>4, <1>5

LEMMA BehindChunk ==
  ASSUME NEW h, NEW r \in DOMAIN SweptRegions, NEW c \in Nat, NEW at \in Nat
  PROVE  /\ Behind(h, r, c, at) \subseteq Behind(h, r, c + 1, 0)
         /\ at \notin ReadableIn(h, r, c) => Behind(h, r, c + 1, 0) = Behind(h, r, c, at)
<1>1. ASSUME NEW k \in DOMAIN SweptRegions, NEW d \in Nat, NEW i \in ReadableIn(h, k, d)
      PROVE  /\ Before(k, d, i, r, c, at) => Before(k, d, i, r, c + 1, 0)
             /\ at \notin ReadableIn(h, r, c) /\ Before(k, d, i, r, c + 1, 0) => Before(k, d, i, r, c, at)
  <2>1. k \in Nat /\ r \in Nat /\ i \in Nat /\ \A j \in 0 .. i : j \in ReadableIn(h, k, d)
    BY Regions, ReadableIs
  <2>2. Before(k, d, i, r, c, at) => Before(k, d, i, r, c + 1, 0)
    BY <2>1 DEF Before
  <2>3. ASSUME at \notin ReadableIn(h, r, c), Before(k, d, i, r, c + 1, 0) PROVE Before(k, d, i, r, c, at)
    <3>1. k < r \/ (k = r /\ (d < c \/ d = c))
      BY <2>1, <2>3 DEF Before
    <3>2. CASE k = r /\ d = c
      <4>1. at \notin 0 .. i
        BY <2>1, <2>3, <3>2
      <4>2. i < at
        BY <2>1, <4>1
      <4> QED BY <3>2, <4>2 DEF Before
    <3> QED BY <3>1, <3>2 DEF Before
  <2> QED BY <2>2, <2>3
<1> QED BY <1>1 DEF Behind

LEMMA BehindRegion ==
  ASSUME NEW h, NEW r \in DOMAIN SweptRegions, NEW c \in Nat, ~(c * PointerChunk < CellsIn(r))
  PROVE  Behind(h, r + 1, 0, 0) = Behind(h, r, c, 0)
<1>1. ASSUME NEW k \in DOMAIN SweptRegions, NEW d \in Nat, NEW i \in ReadableIn(h, k, d)
      PROVE  Before(k, d, i, r + 1, 0, 0) <=> Before(k, d, i, r, c, 0)
  <2>1. k \in Nat /\ r \in Nat /\ i \in Nat /\ d * PointerChunk < CellsIn(k) /\ CellsIn(k) \in Nat
    BY Regions, ReadableIs
  <2>2. k = r => d < c
    <3>1. c <= d => c * PointerChunk <= d * PointerChunk
      BY Chunks
    <3>2. c * PointerChunk \in Nat /\ d * PointerChunk \in Nat
      BY Chunks
    <3> QED BY <2>1, <3>1, <3>2
  <2> QED BY <2>1, <2>2 DEF Before
<1> QED BY <1>1 DEF Behind

--------------------------------------------------------------------------------
(* Types and phases                                                           *)

(* What a cell that leads somewhere adds: itself, a pointer before a place    *)
(* known already, and a chain if a module has it.                             *)
LEMMA NearestIs ==
  ASSUME ChainTypeOK, NEW p \in Nat, Reached(p) # {}
  PROVE  /\ Nearest(p) \in DOMAIN searcher.frontier
         /\ searcher.frontier[Nearest(p)] \in Places
         /\ searcher.frontier[Nearest(p)].address - p \in 0 .. MaxOffset
<1> DEFINE f == searcher.frontier
           At == {f[k].address : k \in Reached(p)}
<1>1. f \in Seq(Places)
  BY DEF ChainTypeOK, Searches
<1>2. \A k \in Reached(p) : k \in DOMAIN f /\ f[k] \in Places /\ f[k].address - p \in 0 .. MaxOffset
  BY <1>1 DEF Reached
<1>3. At \in SUBSET Nat /\ At # {}
  BY <1>2 DEF Places
<1>4. PICK m \in At : \A j \in At : m <= j
  <2> HIDE DEF At
  <2> QED BY <1>3, LeastNumber
<1>5. \E k \in Reached(p) : \A j \in Reached(p) : f[k].address <= f[j].address
  BY <1>4
<1>6. Nearest(p) \in Reached(p)
  BY <1>5 DEF Nearest
<1> QED BY <1>2, <1>6

LEMMA CandidateIs ==
  ASSUME ChainTypeOK, NEW a \in Nat, NEW p \in Nat, Reached(p) # {}, NEW c, c = PlaceAt(a, p)
  PROVE  /\ c \in Places /\ c.address = a
         /\ ModuleOf(a) # {} => ChainFrom(c) \in Found /\ Root(ChainFrom(c)) = a
<1> DEFINE source == searcher.frontier[Nearest(p)]
           m == LoadedModules[First(ModuleOf(a))]
<1>1. source \in Places /\ OffsetOf(source, p) \in Nat
  BY NearestIs, PointerAssumption DEF OffsetOf
<1>2. c.address = a /\ c.offsets = <<OffsetOf(source, p)>> \o source.offsets
  BY DEF PlaceAt
<1>3. c.offsets \in Seq(Nat)
  <2> HIDE DEF source
  <2> QED BY <1>1, <1>2 DEF Places
<1>4. c \in Places
  BY <1>2, <1>3 DEF PlaceAt, Places
<1>5. ASSUME ModuleOf(a) # {} PROVE ChainFrom(c) \in Found /\ Root(ChainFrom(c)) = a
  <2>1. First(ModuleOf(a)) \in DOMAIN LoadedModules /\ First(ModuleOf(a)) \in ModuleOf(a)
    BY <1>5, ModuleOfIs
  <2>2. m.base \in Nat /\ m.size \in Nat /\ a \in m.base .. m.base + m.size - 1
    BY <2>1, Modules DEF ModuleOf
  <2>3. a - m.base \in Nat
    BY <2>2
  <2>4. ChainFrom(c) = [module |-> m.name, base |-> m.base, at |-> a - m.base, offsets |-> c.offsets]
    BY <1>2 DEF ChainFrom
  <2>5. m.name \in {LoadedModules[k].name : k \in DOMAIN LoadedModules}
    BY <2>1
  <2> HIDE DEF m
  <2>6. ChainFrom(c) \in Found
    BY <1>3, <2>2, <2>3, <2>4, <2>5 DEF Found
  <2> QED BY <2>2, <2>4, <2>6 DEF Root
<1> QED BY <1>2, <1>4, <1>5

LEMMA NoSearchTypes == NoSearch \in Searches
<1>1. <<>> \in [{} -> Nat]
  OBVIOUS
<1>2. <<>> \in Buffers
  BY <1>1 DEF Buffers
<1> QED BY <1>2 DEF NoSearch, Searches

(* What a chunk's words are, and what that leaves to be looked at.            *)
LEMMA ReadTypes ==
  ASSUME ChainTypeOK, ReadCells
  PROVE  /\ searcher' \in Searches /\ searcher'.pc = "words" /\ searcher'.at = 0
         /\ searcher.region \in DOMAIN SweptRegions
         /\ searcher'.buffer = [i \in IF opened THEN ReadableIn(heap, searcher.region, searcher.chunk) ELSE {} |->
                                  heap[CellAt(searcher.region, searcher.chunk, i)]]
         /\ searcher' = [searcher EXCEPT !.pc = "words", !.at = 0, !.buffer = searcher'.buffer]
<1> DEFINE k == searcher.region
           c == searcher.chunk
           D == IF opened THEN ReadableIn(heap, k, c) ELSE {}
           buffer == [i \in D |-> heap[CellAt(k, c, i)]]
<1>1. searcher \in Searches /\ Memory(heap)
  BY DEF ChainTypeOK
<1>2. k \in DOMAIN SweptRegions /\ c \in Nat
  <2>1. k \in Nat \ {0} /\ c \in Nat
    BY <1>1 DEF Searches
  <2> QED BY <2>1, PointerAssumption DEF ReadCells, Swept
<1>3. \A i \in ReadableIn(heap, k, c) : i \in Nat /\ heap[CellAt(k, c, i)] \in Nat
  BY <1>1, <1>2, ReadableIs DEF Memory
<1>4. buffer \in [D -> Nat] /\ D \in SUBSET Nat
  BY <1>3
<1>5. buffer \in Buffers
  <2> HIDE DEF D, buffer
  <2> QED BY <1>4 DEF Buffers
<1>6. searcher' = [searcher EXCEPT !.pc = "words", !.at = 0, !.buffer = buffer]
  BY InMemory DEF ReadCells
<1> HIDE DEF buffer
<1>7. searcher' \in Searches /\ searcher'.pc = "words" /\ searcher'.at = 0 /\ searcher'.buffer = buffer
  BY <1>1, <1>5, <1>6 DEF Searches
<1> QED BY <1>2, <1>6, <1>7 DEF buffer

LEMMA ChainStart == ChainInit => ChainInv
<1> SUFFICES ASSUME ChainInit PROVE ChainInv
  OBVIOUS
<1>1. Memory(heap)
  BY PointerAssumption DEF ChainInit, Memory
<1>2. NoSearch \in Searches
  BY NoSearchTypes
<1>a. NoSearch.pc = "gone"
  BY DEF NoSearch
<1>3. ChainTypeOK
  <2>1. found = <<>> /\ earlier = <<>> /\ searcher = NoSearch /\ looked = 0 /\ opened = TRUE /\ cut = FALSE
    BY DEF ChainInit
  <2>2. asker.for = "none"
    BY DEF ChainInit, NotAsking
  <2>3. <<>> \in Seq(Found)
    OBVIOUS
  <2> QED BY <1>1, <1>2, <1>a, <2>1, <2>2, <2>3 DEF ChainTypeOK
<1>4. Phases
  BY DEF Phases, Underway, Midway, ChainInit, NoSearch
<1>5. Scanning /\ Scanned /\ Filtering
  BY DEF Scanning, Scanned, Filtering, ChainInit, NoSearch
<1> QED BY <1>3, <1>4, <1>5 DEF ChainInv

(* A rescan's chain: it is one of the results before.                         *)
LEMMA CheckTypes ==
  ASSUME ChainTypeOK, CheckChain
  PROVE  searcher' \in Searches
<1> DEFINE chain == searcher.chains[searcher.at + 1]
           kept == IF ResolveChain(chain) = searcher.target THEN Append(searcher.kept, chain) ELSE searcher.kept
<1>1. searcher \in Searches
  BY DEF ChainTypeOK
<1>2. searcher.chains \in Seq(Found) /\ searcher.at \in Nat /\ searcher.kept \in Seq(Found)
  BY <1>1 DEF Searches
<1>3. chain \in Found
  BY <1>2 DEF CheckChain
<1>4. kept \in Seq(Found)
  <2> HIDE DEF chain
  <2>1. Append(searcher.kept, chain) \in Seq(Found)
    BY <1>2, <1>3, AppendProperties
  <2> QED BY <1>2, <2>1
<1>5. searcher' = [searcher EXCEPT !.at = @ + 1, !.kept = kept]
  BY DEF CheckChain
<1> HIDE DEF kept
<1>6. searcher.at + 1 \in Nat
  BY <1>2
<1> QED BY <1>1, <1>4, <1>5, <1>6 DEF Searches

LEMMA VisitTypes ==
  ASSUME ChainTypeOK, VisitCell
  PROVE  searcher' \in Searches /\ found' \in Seq(Found)
<1>1. searcher \in Searches /\ found \in Seq(Found) /\ Memory(heap)
  BY DEF ChainTypeOK
<1> DEFINE p == searcher.buffer[searcher.at]
<1>2. /\ searcher.region \in DOMAIN SweptRegions /\ searcher.at \in Nat /\ searcher.chunk \in Nat
      /\ p \in Nat
  <2>1. searcher.at \in Nat /\ searcher.chunk \in Nat /\ searcher.buffer \in Buffers
    BY <1>1 DEF Searches
  <2>2. \A b \in Buffers : \A i \in DOMAIN b : b[i] \in Nat
    BY DEF Buffers
  <2> QED BY <2>1, <2>2 DEF VisitCell, Walking, ChainTypeOK
<1>3. Here \in Nat
  <2>1. SweptRegions[searcher.region].base \in Nat
    BY <1>2, Regions
  <2>2. searcher.chunk * PointerChunk \in Nat
    BY <1>2, Chunks
  <2> QED BY <1>2, <2>1, <2>2 DEF Here, CellAt
<1> HIDE DEF p
<1>4. CASE searcher' = [searcher EXCEPT !.at = @ + 1] /\ UNCHANGED found
  <2>1. searcher.at + 1 \in Nat
    BY <1>2
  <2> QED BY <1>1, <1>4, <2>1 DEF Searches
<1>5. CASE Reached(p) # {} /\ Take(PlaceAt(Here, p))
  <2> DEFINE c == PlaceAt(Here, p)
  <2>2. /\ c \in Places /\ c.address = Here
        /\ ModuleOf(Here) # {} => ChainFrom(c) \in Found
    BY <1>2, <1>3, <1>5, CandidateIs
  <2>3. searcher.next \in Seq(Places) /\ searcher.seen \in SUBSET Nat /\ searcher.truncated \in BOOLEAN
    BY <1>1 DEF Searches
  <2> HIDE DEF c
  <2>4. Append(searcher.next, c) \in Seq(Places)
    BY <2>2, <2>3, AppendProperties
  <2>5. ModuleOf(Here) # {} => Append(found, ChainFrom(c)) \in Seq(Found)
    BY <1>1, <2>2, AppendProperties
  <2>6. Take(c)
    BY <1>5 DEF c
  <2>7. found' \in Seq(Found)
    BY <1>1, <2>2, <2>5, <2>6 DEF Take
  <2>8. PICK next \in Seq(Places), dropped \in BOOLEAN :
          searcher' = [searcher EXCEPT !.at = @ + 1, !.seen = @ \cup {Here}, !.next = next, !.truncated = dropped]
    <3> DEFINE next == IF Len(searcher.next) < MaxFrontier THEN Append(searcher.next, c) ELSE searcher.next
               dropped == \/ searcher.truncated
                          \/ ~(Len(searcher.next) < MaxFrontier)
                          \/ (ModuleOf(Here) # {} /\ ~(Len(found) < MaxChains))
    <3>1. next \in Seq(Places) /\ dropped \in BOOLEAN
      BY <2>3, <2>4
    <3>2. searcher' = [searcher EXCEPT !.at = @ + 1, !.seen = @ \cup {Here}, !.next = next, !.truncated = dropped]
      BY <2>2, <2>6 DEF Take
    <3> HIDE DEF next, dropped
    <3> QED BY <3>1, <3>2
  <2>9. searcher.at + 1 \in Nat /\ searcher.seen \cup {Here} \in SUBSET Nat
    BY <1>2, <1>3, <2>3
  <2>10. searcher' \in Searches
    BY <1>1, <2>8, <2>9 DEF Searches
  <2> QED BY <2>7, <2>10
<1> QED BY <1>4, <1>5 DEF VisitCell, p

LEMMA ChainTypes == ChainInv /\ [ChainNext]_chainVars => ChainTypeOK' /\ Phases'
<1> SUFFICES ASSUME ChainInv, [ChainNext]_chainVars PROVE ChainTypeOK' /\ Phases'
  OBVIOUS
<1> USE DEF chainShared, chainHistory, Midway
<1>1. ChainTypeOK /\ Phases
  BY DEF ChainInv
<1>2. searcher \in Searches /\ found \in Seq(Found) /\ earlier \in Seq(Found) /\ Memory(heap)
  BY <1>1 DEF ChainTypeOK
<1>3. UNCHANGED heap => Memory(heap)'
  BY <1>2 DEF Memory
<1>a. CASE HeapMoves
  <2>1. Memory(heap')
    BY <1>2, <1>a, PointerAssumption DEF HeapMoves, Moved, Memory
  <2> QED BY <1>1, <1>a, <2>1 DEF HeapMoves, Moved, ChainTypeOK, Phases, Underway
<1>p. CASE Detached
  <2>1. searcher.at \in Nat
    BY <1>2 DEF Searches
  <2>2. Memory(heap)'
    BY <1>3, <1>p DEF Detached
  <2> QED BY <1>1, <1>p, <2>1, <2>2 DEF Detached, Moved, ChainTypeOK, Phases, Underway
<1>b. ASSUME NEW what \in {"scan", "filter", "cancel"}, NEW t \in Sought \cup {0}, BeginCall(what, t)
      PROVE  ChainTypeOK' /\ Phases'
  <2>1. t \in Nat
    BY PointerAssumption DEF Address
  <2>2. asker'.for \in {"scan", "filter"} => asker'.target \in Nat
    BY <1>b, <2>1 DEF BeginCall
  <2> QED BY <1>1, <1>2, <1>3, <1>b, <2>2 DEF BeginCall, ChainTypeOK, Phases, Underway
<1>c. CASE StartSearch
  <2>1. asker.target \in Nat
    BY <1>1, <1>c DEF StartSearch, ChainTypeOK
  <2>2. <<[address |-> asker.target, offsets |-> <<>>]>> \in Seq(Places)
    BY <2>1 DEF Places
  <2>3. searcher' \in Searches
    <3>1. {asker.target} \in SUBSET Nat
      BY <2>1
    <3> QED BY <1>c, <2>1, <2>2, <3>1, NoSearchTypes DEF StartSearch, Searches
  <2>4. found' \in Seq(Found)
    BY <1>c DEF StartSearch
  <2> QED BY <1>1, <1>2, <1>3, <1>c, <2>3, <2>4 DEF StartSearch, ChainTypeOK, Phases, Underway, NoSearch, NotAsking
<1>d. CASE Filter
  <2>1. asker.target \in Nat
    BY <1>1, <1>d DEF Filter, ChainTypeOK
  <2>2. searcher' \in Searches
    BY <1>2, <1>d, <2>1, NoSearchTypes DEF Filter, Searches
  <2> QED BY <1>1, <1>2, <1>3, <1>d, <2>2 DEF Filter, ChainTypeOK, Phases, Underway, NoSearch, NotAsking
<1>e. CASE Cancelled
  BY <1>1, <1>3, <1>e DEF Cancelled, ChainTypeOK, Phases, Underway, NotAsking
<1>f. CASE VisitCell
  <2>1. searcher' \in Searches /\ found' \in Seq(Found)
    BY <1>1, <1>f, VisitTypes
  <2>2. searcher'.pc = searcher.pc /\ searcher'.region = searcher.region
    BY <1>2, <1>f DEF VisitCell, Take, Searches
  <2> QED BY <1>1, <1>3, <1>f, <2>1, <2>2 DEF VisitCell, ChainTypeOK, Phases, Underway
<1>q. CASE ReadCells
  <2>1. /\ searcher' \in Searches /\ searcher'.pc = "words" /\ searcher.pc = "scan"
        /\ searcher'.region \in DOMAIN SweptRegions
    <3>1. /\ searcher' \in Searches /\ searcher'.pc = "words" /\ searcher.region \in DOMAIN SweptRegions
          /\ searcher' = [searcher EXCEPT !.pc = "words", !.at = 0, !.buffer = searcher'.buffer]
      BY <1>1, <1>q, ReadTypes
    <3>2. searcher'.region = searcher.region
      BY <1>2, <3>1 DEF Searches
    <3> QED BY <1>q, <3>1, <3>2 DEF ReadCells, Sweeping
  <2> QED BY <1>1, <1>3, <1>q, <2>1 DEF ReadCells, ChainTypeOK, Phases, Underway
<1>r. CASE NextChunk
  <2>1. searcher' \in Searches /\ searcher'.pc = "scan" /\ searcher.pc = "words"
    <3>1. searcher.chunk + 1 \in Nat
      BY <1>2 DEF Searches
    <3>2. NoSearch.buffer = <<>> /\ NoSearch.buffer \in Buffers
      BY NoSearchTypes DEF NoSearch, Searches
    <3> QED BY <1>2, <1>r, <3>1, <3>2 DEF NextChunk, Walking, Searches
  <2> QED BY <1>1, <1>3, <1>r, <2>1 DEF NextChunk, ChainTypeOK, Phases, Underway
<1>g. CASE NextRegion
  <2>1. searcher' \in Searches /\ searcher'.pc = searcher.pc /\ searcher.pc = "scan"
    <3>1. searcher.region + 1 \in Nat \ {0}
      BY <1>2 DEF Searches
    <3> QED BY <1>2, <1>g, <3>1 DEF NextRegion, Sweeping, Searches
  <2> QED BY <1>1, <1>3, <1>g, <2>1 DEF NextRegion, ChainTypeOK, Phases, Underway
<1>h. CASE NextDepth
  <2>1. searcher' \in Searches /\ searcher'.pc = searcher.pc /\ searcher.pc = "scan"
    <3> DEFINE deeper == searcher.depth + 1
               ahead == searcher.next
               none == <<>>
    <3>1. deeper \in Nat /\ ahead \in Seq(Places) /\ none \in Seq(Places) /\ 1 \in Nat \ {0}
      BY <1>2 DEF Searches
    <3>2. searcher' = [searcher EXCEPT !.depth = deeper, !.region = 1, !.chunk = 0, !.frontier = ahead, !.next = none]
      BY <1>h DEF NextDepth
    <3>3. searcher.pc = "scan"
      BY <1>h DEF NextDepth, Sweeping
    <3>4. 0 \in Nat
      OBVIOUS
    <3> HIDE DEF deeper, ahead, none
    <3>5. [searcher EXCEPT !.depth = deeper, !.region = 1, !.chunk = 0] \in Searches
      BY <1>2, <3>1, <3>4 DEF Searches
    <3>6. searcher' = [[searcher EXCEPT !.depth = deeper, !.region = 1, !.chunk = 0]
                          EXCEPT !.frontier = ahead, !.next = none]
      BY <1>2, <3>2 DEF Searches
    <3>7. \A z \in Searches : [z EXCEPT !.frontier = ahead, !.next = none] \in Searches
      BY <3>1 DEF Searches
    <3>8. searcher' \in Searches
      BY <3>5, <3>6, <3>7
    <3>9. searcher'.pc = searcher.pc
      BY <1>2, <3>2 DEF Searches
    <3> QED BY <3>3, <3>8, <3>9
  <2> QED BY <1>1, <1>3, <1>h, <2>1 DEF NextDepth, ChainTypeOK, Phases, Underway
<1>i. CASE EndScan
  <2>1. searcher' \in Searches /\ searcher'.pc = "leave" /\ searcher.pc \in {"scan", "words"}
    BY <1>2, <1>i DEF EndScan, Searches
  <2> QED BY <1>1, <1>3, <1>i, <2>1 DEF EndScan, ChainTypeOK, Phases, Underway
<1>j. CASE EndThread
  <2>1. searcher' \in Searches /\ searcher'.pc = "gone"
    BY <1>2, <1>j DEF EndThread, Searches
  <2> QED BY <1>1, <1>3, <1>j, <2>1 DEF EndThread, ChainTypeOK, Phases, Underway
<1>k. CASE RefuseFilter
  <2>1. searcher' \in Searches /\ searcher'.pc = "leave" /\ searcher.pc = "filter"
    BY <1>2, <1>k DEF RefuseFilter, Searches
  <2> QED BY <1>1, <1>3, <1>k, <2>1 DEF RefuseFilter, ChainTypeOK, Phases, Underway
<1>l. CASE BeginFilter
  <2>1. searcher' \in Searches /\ searcher'.pc = "check" /\ searcher.pc = "filter"
    BY <1>2, <1>l DEF BeginFilter, Searches
  <2> QED BY <1>1, <1>3, <1>l, <2>1 DEF BeginFilter, ChainTypeOK, Phases, Underway
<1>m. CASE CheckChain
  <2>1. searcher' \in Searches
    BY <1>1, <1>m, CheckTypes
  <2>2. searcher'.pc = searcher.pc
    BY <1>2, <1>m DEF CheckChain, Searches
  <2> QED BY <1>1, <1>3, <1>m, <2>1, <2>2 DEF CheckChain, ChainTypeOK, Phases, Underway
<1>n. CASE EndFilter
  <2>1. searcher' \in Searches /\ searcher'.pc = "leave" /\ searcher.pc = "check"
    BY <1>2, <1>n DEF EndFilter, Searches
  <2>2. found' \in Seq(Found)
    BY <1>2, <1>n DEF EndFilter, Searches
  <2> QED BY <1>1, <1>3, <1>n, <2>1, <2>2 DEF EndFilter, ChainTypeOK, Phases, Underway
<1>o. CASE UNCHANGED chainVars
  BY <1>1, <1>3, <1>o DEF chainVars, ChainTypeOK, Phases, Underway
<1> QED
  BY <1>a, <1>b, <1>c, <1>d, <1>e, <1>f, <1>g, <1>h, <1>i, <1>j, <1>k, <1>l, <1>m, <1>n, <1>o, <1>p, <1>q, <1>r
  DEF ChainNext, Searcher, Asker

--------------------------------------------------------------------------------
(* Rescans                                                                    *)

LEMMA KeptNone == ASSUME NEW h, NEW t, NEW chains PROVE Kept(h, t, chains, 0) = <<>>
<1>1. {i \in 1 .. 0 : EndsAtIn(h, chains[i]) = t} = {}
  OBVIOUS
<1> QED BY <1>1, PickedNone DEF Kept

LEMMA KeptNext ==
  ASSUME NEW h, NEW t, NEW chains \in Seq(Found), NEW n \in Nat, n < Len(chains)
  PROVE  Kept(h, t, chains, n + 1) =
           IF EndsAtIn(h, chains[n + 1]) = t
           THEN Append(Kept(h, t, chains, n), chains[n + 1]) ELSE Kept(h, t, chains, n)
<1> DEFINE Good(i) == EndsAtIn(h, chains[i]) = t
           I == {i \in 1 .. n : Good(i)}
<1>1. n + 1 \in DOMAIN chains /\ (n + 1) - 1 = n /\ 1 .. n + 1 = (1 .. n) \cup {n + 1}
  OBVIOUS
<1>2. CASE Good(n + 1)
  <2>1. {i \in 1 .. n + 1 : Good(i)} = I \cup {n + 1}
    <3> HIDE DEF Good
    <3> QED BY <1>1, <1>2
  <2>2. I \in SUBSET (1 .. (n + 1) - 1)
    BY <1>1
  <2> HIDE DEF I
  <2>3. Picked(chains, I \cup {n + 1}) = Append(Picked(chains, I), chains[n + 1])
    BY <1>1, <2>2, PickedNext
  <2> QED BY <1>2, <2>1, <2>3 DEF Kept, I
<1>3. CASE ~Good(n + 1)
  <2>1. {i \in 1 .. n + 1 : Good(i)} = I
    <3> HIDE DEF Good
    <3> QED BY <1>1, <1>3
  <2> QED BY <1>3, <2>1 DEF Kept
<1> QED BY <1>2, <1>3

LEMMA ChainFiltering == ChainInv /\ [ChainNext]_chainVars => Filtering'
<1> SUFFICES ASSUME ChainInv, [ChainNext]_chainVars PROVE Filtering'
  OBVIOUS
<1> USE DEF chainShared, chainHistory
<1>1. ChainTypeOK /\ Phases /\ Filtering
  BY DEF ChainInv
<1>2. searcher \in Searches /\ found \in Seq(Found) /\ earlier \in Seq(Found) /\ looked \in Nat
  BY <1>1 DEF ChainTypeOK
<1>3. ASSUME UNCHANGED <<heap, found, verdict, searcher, cut, looked, rewritten, earlier>> PROVE Filtering'
  BY <1>1, <1>3 DEF Filtering, Through
<1>4. ASSUME verdict' \notin {"kept", "refused", "filtered"}, searcher'.pc \notin {"filter", "check"}
      PROVE  Filtering'
  BY <1>4 DEF Filtering
<1>5. searcher.pc \in {"scan", "words"} => verdict = "starting"
  BY <1>1 DEF Phases, Underway
<1>a. CASE HeapMoves
  BY <1>1, <1>a DEF HeapMoves, Moved, Filtering
<1>b. ASSUME NEW what, NEW t, BeginCall(what, t) PROVE Filtering'
  BY <1>3, <1>b DEF BeginCall
<1>c. CASE StartSearch
  <2>1. searcher'.pc = "scan"
    BY <1>c DEF StartSearch, NoSearch
  <2> QED BY <1>4, <1>c, <2>1 DEF StartSearch
<1>d. CASE Filter
  <2>1. searcher'.pc = "filter" /\ searcher'.chains = found /\ searcher'.at = 0 /\ searcher'.kept = <<>>
    BY <1>d DEF Filter, NoSearch
  <2>2. found' = earlier' /\ searcher'.chains = earlier' /\ 0 <= Len(earlier')
    BY <1>2, <1>d, <2>1 DEF Filter
  <2> QED BY <1>d, <2>1, <2>2 DEF Filter, Filtering
<1>e. CASE Cancelled
  BY <1>3, <1>e DEF Cancelled
<1>f. CASE VisitCell
  <2>1. searcher'.pc = "words" /\ searcher.pc = "words"
    BY <1>2, <1>f DEF VisitCell, Take, Searches, Walking
  <2> QED BY <1>4, <1>5, <1>f, <2>1 DEF VisitCell
<1>q. CASE ReadCells
  <2>1. searcher'.pc = "words" /\ searcher.pc = "scan"
    BY <1>1, <1>q, ReadTypes DEF ReadCells, Sweeping
  <2> QED BY <1>4, <1>5, <1>q, <2>1 DEF ReadCells
<1>r. CASE NextChunk
  <2>1. searcher'.pc = "scan" /\ searcher.pc = "words"
    BY <1>2, <1>r DEF NextChunk, Searches, Walking
  <2> QED BY <1>4, <1>5, <1>r, <2>1 DEF NextChunk
<1>g. CASE NextRegion
  <2>1. searcher'.pc = "scan" /\ searcher.pc = "scan"
    BY <1>2, <1>g DEF NextRegion, Searches, Sweeping
  <2> QED BY <1>4, <1>5, <1>g, <2>1 DEF NextRegion
<1>h. CASE NextDepth
  <2>1. searcher'.pc = "scan" /\ searcher.pc = "scan"
    BY <1>2, <1>h DEF NextDepth, Searches, Sweeping
  <2> QED BY <1>4, <1>5, <1>h, <2>1 DEF NextDepth
<1>i. CASE EndScan
  <2>1. searcher'.pc = "leave"
    BY <1>2, <1>i DEF EndScan, Searches
  <2> QED BY <1>4, <1>i, <2>1 DEF EndScan
<1>j. CASE EndThread
  <2>1. searcher'.pc = "gone" /\ searcher'.target = searcher.target
    BY <1>2, <1>j DEF EndThread, Searches
  <2> QED BY <1>1, <1>j, <2>1 DEF EndThread, Filtering, Through
<1>k. CASE RefuseFilter
  <2>1. searcher'.pc = "leave" /\ searcher.pc = "filter"
    BY <1>2, <1>k DEF RefuseFilter, Searches
  <2> QED BY <1>1, <1>k, <2>1 DEF RefuseFilter, Filtering
<1>l. CASE BeginFilter
  <2>1. /\ searcher'.pc = "check" /\ searcher.pc = "filter" /\ searcher'.chains = searcher.chains
        /\ searcher'.at = searcher.at /\ searcher'.kept = searcher.kept /\ searcher'.target = searcher.target
    BY <1>2, <1>l DEF BeginFilter, Searches
  <2>2. verdict = "starting" /\ ~cut
    BY <1>1, <1>l, <2>1 DEF Phases, Underway, BeginFilter
  <2>3. /\ found = earlier /\ searcher.chains = earlier /\ searcher.at = 0 /\ 0 <= Len(earlier)
        /\ searcher.kept = <<>>
    BY <1>1, <2>1 DEF Filtering
  <2>4. Kept(heap, searcher.target, earlier, 0) = <<>>
    BY KeptNone
  <2>5. UNCHANGED <<heap, found, verdict, cut, looked, rewritten, earlier>>
    BY <1>l DEF BeginFilter
  <2> QED BY <2>1, <2>2, <2>3, <2>4, <2>5 DEF Filtering, Through
<1>m. CASE CheckChain
  <2> DEFINE n == searcher.at
             t == searcher.target
             chain == earlier[n + 1]
  <2>1. searcher.pc = "check" /\ found = earlier /\ searcher.chains = earlier /\ n \in Nat /\ n < Len(earlier)
    BY <1>1, <1>2, <1>m DEF CheckChain, Filtering, Searches
  <2>2. /\ searcher'.pc = "check" /\ searcher'.chains = earlier /\ searcher'.at = n + 1 /\ searcher'.target = t
        /\ searcher'.kept = IF ResolveChain(chain) = t THEN Append(searcher.kept, chain) ELSE searcher.kept
    BY <1>2, <1>m, <2>1 DEF CheckChain, Searches
  <2>3. verdict = "starting"
    BY <1>1, <2>1 DEF Phases, Underway
  <2>4. UNCHANGED <<heap, found, verdict, cut, looked, rewritten, earlier>>
    BY <1>m DEF CheckChain
  <2>5. n + 1 <= Len(earlier) /\ (cut => looked <= n + 1)
    <3>1. cut => looked <= n
      BY <1>1, <2>1 DEF Filtering
    <3> QED BY <1>2, <2>1, <3>1
  <2>6. ~rewritten => searcher.kept = Kept(heap, t, earlier, Through(n))
    BY <1>1, <2>1 DEF Filtering
  <2>7. CASE ~opened
    <3>1. cut
      BY <1>1, <2>1, <2>7 DEF Phases, Midway
    <3>2. ResolveChain(chain) # t
      BY <1>2, <2>7 DEF ResolveChain, Fail, Searches
    <3>3. ~rewritten => searcher'.kept = Kept(heap, t, earlier, Through(n + 1))
      BY <2>2, <2>6, <3>1, <3>2 DEF Through
    <3> QED BY <2>1, <2>2, <2>3, <2>4, <2>5, <3>3 DEF Filtering, Through
  <2>8. CASE opened
    <3>1. ~cut
      BY <1>1, <2>8 DEF Phases
    <3>2. ResolveChain(chain) = EndsAtIn(heap, chain)
      BY <2>8, InMemory DEF ResolveChain
    <3>3. Kept(heap, t, earlier, n + 1) =
            IF EndsAtIn(heap, chain) = t
            THEN Append(Kept(heap, t, earlier, n), chain) ELSE Kept(heap, t, earlier, n)
      BY <1>2, <2>1, KeptNext
    <3>4. ~rewritten => searcher'.kept = Kept(heap, t, earlier, Through(n + 1))
      BY <2>2, <2>6, <3>1, <3>2, <3>3 DEF Through
    <3> QED BY <2>1, <2>2, <2>3, <2>4, <2>5, <3>4 DEF Filtering, Through
  <2> QED BY <1>1, <2>7, <2>8 DEF ChainTypeOK
<1>n. CASE EndFilter
  <2>1. /\ searcher'.pc = "leave" /\ searcher.pc = "check" /\ searcher'.target = searcher.target
        /\ found = earlier /\ searcher.at <= Len(earlier) /\ searcher.at \in Nat /\ searcher.chains = earlier
        /\ cut => looked <= searcher.at
        /\ ~rewritten => searcher.kept = Kept(heap, searcher.target, earlier, Through(searcher.at))
    BY <1>1, <1>2, <1>n DEF EndFilter, Filtering, Searches
  <2>2. CASE stopping
    BY <1>n, <2>1, <2>2 DEF EndFilter, Filtering
  <2>3. CASE ~stopping
    <3>1. searcher.at = Len(earlier)
      BY <1>2, <1>n, <2>1, <2>3 DEF EndFilter
    <3> QED BY <1>n, <2>1, <2>3, <3>1 DEF EndFilter, Filtering, Through
  <2> QED BY <2>2, <2>3
<1>o. CASE UNCHANGED chainVars
  BY <1>3, <1>o DEF chainVars
<1>p. CASE Detached
  <2>1. opened /\ UNCHANGED <<heap, found, verdict, searcher, rewritten, earlier>>
    BY <1>p DEF Detached, Moved
  <2>2. ~cut
    BY <1>1, <2>1 DEF Phases
  <2>3. CASE Midway
    <3>1. verdict = "starting"
      BY <1>1, <2>3 DEF Phases, Underway, Midway
    <3>2. cut' /\ looked' = searcher.at
      BY <1>p, <2>3 DEF Detached
    <3>3. searcher.at \in Nat
      BY <1>2 DEF Searches
    <3> QED BY <1>1, <2>1, <2>2, <3>1, <3>2, <3>3 DEF Filtering, Through
  <2>4. CASE ~Midway
    <3>1. ~cut' /\ looked' = looked
      BY <1>p, <2>2, <2>4 DEF Detached
    <3> QED BY <1>1, <2>1, <2>2, <3>1 DEF Filtering, Through
  <2> QED BY <2>3, <2>4
<1> QED
  BY <1>a, <1>b, <1>c, <1>d, <1>e, <1>f, <1>g, <1>h, <1>i, <1>j, <1>k, <1>l, <1>m, <1>n, <1>o, <1>p, <1>q, <1>r
  DEF ChainNext, Searcher, Asker

--------------------------------------------------------------------------------
(* Scans: how far one has come                                                *)

(* A depth that has been swept has all that is within one pointer more.        *)
LEMMA Swept1 ==
  ASSUME NEW h, NEW s \in Searches, s.region > Len(SweptRegions)
  PROVE  Nearby(h, s) \cup Looked(h, s) = WithinIn(h, s.target, s.depth + 1)
<1>1. s.region \in Nat /\ s.depth \in Nat
  BY DEF Searches
<1>2. Behind(h, s.region, s.chunk, s.at) = SweptIn(h)
  BY <1>1, BehindAll
<1>3. WithinIn(h, s.target, s.depth + 1) = Onward(h, Nearby(h, s))
  BY <1>1, WithinMore DEF Nearby
<1> QED BY <1>2, <1>3 DEF Onward, Looked

LEMMA ScanReach ==
  ASSUME NEW h, NEW s \in Searches, NEW chains, ScanSound(h, s, chains)
  PROVE  s.seen \subseteq WithinIn(h, s.target, MaxDepth)
<1> DEFINE W(k) == WithinIn(h, s.target, k)
<1>1. s.depth \in Nat /\ s.depth <= MaxDepth /\ MaxDepth \in Nat
  BY PointerAssumption DEF ScanSound, Searches
<1>2. s.seen \subseteq W(s.depth) \cup Looked(h, s)
  BY DEF ScanSound, Nearby
<1>3. CASE s.depth = MaxDepth
  <2>1. Looked(h, s) = {}
    BY <1>3, BehindStart DEF ScanSound, Looked
  <2> QED BY <1>2, <1>3, <2>1
<1>4. CASE s.depth # MaxDepth
  <2>1. Looked(h, s) \subseteq W(s.depth + 1) /\ W(s.depth) \subseteq W(s.depth + 1)
    <3>1. W(s.depth + 1) = Onward(h, Nearby(h, s))
      BY <1>1, WithinMore DEF Nearby
    <3> QED BY <3>1 DEF Onward, Looked, Behind, Nearby
  <2>2. s.depth + 1 \in 0 .. MaxDepth
    BY <1>1, <1>4
  <2>3. W(s.depth + 1) \subseteq W(MaxDepth)
    BY <1>1, <2>2, WithinGrows
  <2> QED BY <1>2, <2>1, <2>3
<1> QED BY <1>3, <1>4

LEMMA ScanAll ==
  ASSUME NEW h, NEW s \in Searches, NEW chains, ScanSound(h, s, chains), ScanWhole(h, s, chains),
         s.depth = MaxDepth \/ (s.region > Len(SweptRegions) /\ s.next = <<>>)
  PROVE  WithinIn(h, s.target, MaxDepth) \subseteq s.seen
<1> DEFINE W(k) == WithinIn(h, s.target, k)
<1>1. s.depth \in Nat /\ s.depth <= MaxDepth /\ MaxDepth \in Nat
  BY PointerAssumption DEF ScanSound, Searches
<1>2. W(s.depth) \subseteq s.seen
  BY DEF ScanWhole, Nearby
<1>3. CASE s.depth # MaxDepth
  <2>1. s.region > Len(SweptRegions) /\ s.next = <<>>
    BY <1>3
  <2>2. W(s.depth + 1) = W(s.depth) \cup Looked(h, s)
    BY <2>1, Swept1 DEF Nearby
  <2>3. s.seen \ W(s.depth) = {}
    BY <2>1 DEF ScanWhole, Nearby, Takes
  <2>4. W(s.depth + 1) \subseteq s.seen
    BY <2>2 DEF ScanWhole, Nearby
  <2>5. W(s.depth + 1) = W(s.depth)
    BY <2>2, <2>3, <2>4
  <2>6. W(MaxDepth) = W(s.depth)
    <3>1. s.depth \in 0 .. MaxDepth
      BY <1>1
    <3> QED BY <1>1, <2>5, <3>1, WithinStays
  <2> QED BY <1>2, <2>6
<1> QED BY <1>2, <1>3

(* A chain made where a module holds its place leads to the target.           *)
LEMMA ChainTo ==
  ASSUME NEW h, NEW t, NEW c \in Places, ModuleOf(c.address) # {},
         FollowedIn(h, c.address, c.offsets) = t
  PROVE  Rooted(h, t, ChainFrom(c)) /\ Root(ChainFrom(c)) = c.address
<1> DEFINE k == First(ModuleOf(c.address))
           m == LoadedModules[k]
           r == ChainFrom(c)
<1>1. k \in DOMAIN LoadedModules
  BY ModuleOfIs
<1>2. m.base \in Nat /\ c.address \in Nat
  BY <1>1, Modules DEF Places
<1>3. r = [module |-> m.name, base |-> m.base, at |-> c.address - m.base, offsets |-> c.offsets]
  BY DEF ChainFrom
<1> HIDE DEF r
<1>4. m.base + r.at = c.address /\ Root(r) = c.address /\ r.module = m.name /\ r.offsets = c.offsets
  <2> HIDE DEF m
  <2> QED BY <1>2, <1>3 DEF Root
<1>5. ASSUME Cardinality(Named(r.module)) = 1 PROVE EndsAtIn(h, r) = t
  <2>1. Named(r.module) \subseteq 1 .. Len(LoadedModules)
    BY PointerAssumption DEF Named
  <2>2. Len(LoadedModules) \in Nat
    BY PointerAssumption
  <2>3. IsFiniteSet(Named(r.module))
    <3>1. IsFiniteSet(1 .. Len(LoadedModules))
      BY <2>2, FS_Interval
    <3> QED BY <2>1, <3>1, FS_Subset
  <2>4. PICK j : Named(r.module) = {j}
    BY <1>5, <2>3, FS_Singleton
  <2>5. k \in Named(r.module)
    BY <1>1, <1>4 DEF Named
  <2>6. Named(r.module) = {k}
    BY <2>4, <2>5
  <2>7. First(Named(r.module)) = k
    <3>1. {k} \in SUBSET Nat /\ {k} # {}
      BY <1>1, Modules
    <3> HIDE DEF k
    <3>2. First({k}) \in {k}
      BY <3>1, FirstIs
    <3> QED BY <2>6, <3>2
  <2> HIDE DEF k
  <2>8. Named(r.module) # {}
    BY <2>6
  <2> QED BY <1>4, <2>7, <2>8 DEF EndsAtIn
<1>6. ModuleOf(Root(r)) # {}
  BY <1>4
<1> QED BY <1>4, <1>5, <1>6 DEF Rooted, r

(* One cell further: what is there joins what has been looked at, if it leads *)
(* to what is within the depth.                                               *)
LEMMA LookedNext ==
  ASSUME NEW h, NEW s \in Searches, s.region \in DOMAIN SweptRegions,
         s.at \in ReadableIn(h, s.region, s.chunk), NEW here, here = CellAt(s.region, s.chunk, s.at),
         NEW z \in Searches, z.region = s.region, z.chunk = s.chunk, z.at = s.at + 1,
         z.target = s.target, z.depth = s.depth
  PROVE  /\ here \in Nat /\ here \in SweptIn(h) /\ Nearby(h, z) = Nearby(h, s)
         /\ Looked(h, z) = IF LeadsIntoIn(h, here, Nearby(h, s)) THEN Looked(h, s) \cup {here}
                              ELSE Looked(h, s)
<1>1. s.chunk \in Nat
  BY DEF Searches
<1>2. /\ here \in Nat /\ here \in SweptIn(h)
      /\ Behind(h, s.region, s.chunk, s.at + 1) = Behind(h, s.region, s.chunk, s.at) \cup {here}
  BY <1>1, BehindCell
<1>3. Nearby(h, z) = Nearby(h, s)
  BY DEF Nearby
<1> QED BY <1>2, <1>3 DEF Looked

(* What leads to anything within the depth but to no place of the frontier    *)
(* was within it already.                                                     *)
LEMMA FrontierLeads ==
  ASSUME NEW h, NEW s \in Searches, NEW chains, ScanWhole(h, s, chains),
         NEW a \in SweptIn(h), LeadsIntoIn(h, a, Nearby(h, s)), a \notin s.seen
  PROVE  LeadsIntoIn(h, a, Takes(s.frontier))
<1> DEFINE W(k) == WithinIn(h, s.target, k)
<1>1. PICK b \in W(s.depth) : b - h[a] \in 0 .. MaxOffset
  BY DEF LeadsIntoIn, Nearby
<1>2. LeadsIn(h, a)
  BY DEF LeadsIntoIn
<1>3. W(s.depth) \subseteq s.seen
  BY DEF ScanWhole, Nearby
<1>4. CASE b \in Takes(s.frontier)
  BY <1>1, <1>2, <1>4 DEF LeadsIntoIn
<1>5. CASE b \notin Takes(s.frontier)
  <2>1. CASE s.depth = 0
    <3>1. b = s.target
      BY <1>1, <2>1, WithinNone
    <3> QED BY <1>5, <2>1, <3>1 DEF ScanWhole
  <2>2. CASE s.depth # 0
    <3>1. b \in W(s.depth - 1)
      BY <1>1, <1>5, <2>2 DEF ScanWhole, Nearby
    <3>2. s.depth - 1 \in Nat /\ (s.depth - 1) + 1 = s.depth
      BY <2>2 DEF Searches
    <3>3. W(s.depth) = Onward(h, W(s.depth - 1))
      BY <3>2, WithinMore
    <3>4. a \in W(s.depth)
      BY <1>1, <1>2, <3>1, <3>3 DEF Onward, LeadsIntoIn
    <3> QED BY <1>3, <3>4
  <2> QED BY <2>1, <2>2
<1> QED BY <1>4, <1>5

LEMMA VisitPass ==
  ASSUME NEW h, NEW w, NEW s \in Searches, NEW chains, ScanGoes(h, w, s, chains), s.depth < MaxDepth,
         s.region \in DOMAIN SweptRegions, s.at \in ReadableIn(h, s.region, s.chunk),
         NEW here, here = CellAt(s.region, s.chunk, s.at),
         LeadsIntoIn(h, here, Takes(s.frontier)) => here \in s.seen,
         NEW z \in Searches, z = [s EXCEPT !.at = @ + 1]
  PROVE  ScanGoes(h, w, z, chains)
<1>1. /\ z.region = s.region /\ z.chunk = s.chunk /\ z.at = s.at + 1 /\ z.target = s.target
      /\ z.depth = s.depth /\ z.frontier = s.frontier /\ z.next = s.next /\ z.seen = s.seen /\ z.truncated = s.truncated
  BY DEF Searches
<1>2. /\ here \in SweptIn(h) /\ Nearby(h, z) = Nearby(h, s)
      /\ Looked(h, z) = IF LeadsIntoIn(h, here, Nearby(h, s)) THEN Looked(h, s) \cup {here}
                           ELSE Looked(h, s)
  BY <1>1, LookedNext
<1>3. z.depth # MaxDepth
  BY <1>1, PointerAssumption DEF Searches
<1>4. ScanSound(h, z, chains)
  <2>1. ScanSound(h, s, chains)
    BY DEF ScanGoes
  <2> QED BY <1>1, <1>2, <1>3, <2>1 DEF ScanSound
<1>5. ASSUME ScanWhole(h, s, chains) PROVE ScanWhole(h, z, chains)
  <2>1. LeadsIntoIn(h, here, Nearby(h, s)) => here \in s.seen
    BY <1>2, <1>5, FrontierLeads
  <2>2. Nearby(h, z) \cup Looked(h, z) \subseteq z.seen
    BY <1>1, <1>2, <1>5, <2>1 DEF ScanWhole
  <2> QED BY <1>1, <1>2, <1>5, <2>2 DEF ScanWhole
<1> QED BY <1>1, <1>4, <1>5 DEF ScanGoes

LEMMA Appended ==
  ASSUME NEW S, NEW q \in Seq(S), NEW e \in S
  PROVE  /\ Append(q, e) \in Seq(S) /\ DOMAIN Append(q, e) = DOMAIN q \cup {Len(q) + 1}
         /\ \A i \in DOMAIN q : i # Len(q) + 1 /\ Append(q, e)[i] = q[i]
         /\ Append(q, e)[Len(q) + 1] = e
BY AppendProperties

LEMMA RootsNext ==
  ASSUME NEW chains \in Seq(Found), NEW r \in Found
  PROVE  Roots(Append(chains, r)) = Roots(chains) \cup {Root(r)}
<1> DEFINE q == Append(chains, r)
<1>1. /\ DOMAIN q = DOMAIN chains \cup {Len(chains) + 1}
      /\ \A i \in DOMAIN chains : q[i] = chains[i]
      /\ q[Len(chains) + 1] = r
  BY Appended
<1> HIDE DEF q
<1>2. Roots(q) = Roots(chains) \cup {Root(r)}
  BY <1>1 DEF Roots
<1> QED BY <1>2 DEF q

LEMMA TakesNext ==
  ASSUME NEW places \in Seq(Places), NEW c \in Places
  PROVE  /\ Takes(Append(places, c)) = Takes(places) \cup {c.address}
         /\ \A h, t : Leading(h, t, places) /\ FollowedIn(h, c.address, c.offsets) = t
                           => Leading(h, t, Append(places, c))
<1> DEFINE q == Append(places, c)
<1>1. /\ DOMAIN q = DOMAIN places \cup {Len(places) + 1}
      /\ \A i \in DOMAIN places : q[i] = places[i]
      /\ q[Len(places) + 1] = c
  BY Appended
<1> HIDE DEF q
<1>2. Takes(q) = Takes(places) \cup {c.address}
  BY <1>1 DEF Takes
<1>3. \A h, t : Leading(h, t, places) /\ FollowedIn(h, c.address, c.offsets) = t => Leading(h, t, q)
  BY <1>1 DEF Leading
<1> QED BY <1>2, <1>3 DEF q

LEMMA SoundNext ==
  ASSUME NEW h, NEW t, NEW chains \in Seq(Found), Sound(h, t, chains),
         NEW r \in Found, Rooted(h, t, r), Root(r) \notin Roots(chains)
  PROVE  Sound(h, t, Append(chains, r))
<1> DEFINE q == Append(chains, r)
<1>1. /\ DOMAIN q = DOMAIN chains \cup {Len(chains) + 1}
      /\ \A i \in DOMAIN chains : q[i] = chains[i]
      /\ q[Len(chains) + 1] = r
  BY Appended
<1> HIDE DEF q
<1>2. \A i \in DOMAIN chains : Root(chains[i]) # Root(r)
  BY DEF Roots
<1>3. Distinct(q)
  BY <1>1, <1>2 DEF Distinct, Sound
<1>4. \A i \in DOMAIN q : Rooted(h, t, q[i])
  BY <1>1 DEF Sound
<1> QED BY <1>3, <1>4 DEF Sound, q

LEMMA VisitTake ==
  ASSUME NEW h, NEW w, NEW s \in Searches, NEW chains \in Seq(Found), ScanGoes(h, w, s, chains),
         s.depth < MaxDepth, s.region \in DOMAIN SweptRegions, s.at \in ReadableIn(h, s.region, s.chunk),
         NEW here, here = CellAt(s.region, s.chunk, s.at),
         LeadsIntoIn(h, here, Takes(s.frontier)), here \notin s.seen,
         NEW c \in Places, c.address = here, FollowedIn(h, here, c.offsets) = s.target,
         ModuleOf(here) # {} => ChainFrom(c) \in Found,
         NEW z \in Searches, z.region = s.region, z.chunk = s.chunk, z.at = s.at + 1,
         z.target = s.target, z.depth = s.depth, z.frontier = s.frontier, z.seen = s.seen \cup {here}, z.next \in {s.next, Append(s.next, c)},
         NEW more, more \in {chains, Append(chains, ChainFrom(c))}, ModuleOf(here) = {} => more = chains,
         ~z.truncated => /\ ~s.truncated /\ z.next = Append(s.next, c)
                         /\ ModuleOf(here) # {} => more = Append(chains, ChainFrom(c))
  PROVE  ScanGoes(h, w, z, more)
<1> DEFINE t == s.target
<1>1. ScanSound(h, s, chains)
  BY DEF ScanGoes
<1>2. /\ here \in SweptIn(h) /\ Nearby(h, z) = Nearby(h, s)
      /\ Looked(h, z) = IF LeadsIntoIn(h, here, Nearby(h, s)) THEN Looked(h, s) \cup {here}
                           ELSE Looked(h, s)
  BY LookedNext
<1>3. Looked(h, z) = Looked(h, s) \cup {here}
  BY <1>1, <1>2 DEF ScanSound, LeadsIntoIn
<1>4. z.depth # MaxDepth
  BY PointerAssumption DEF Searches
<1>5. s.next \in Seq(Places)
  BY DEF Searches
<1>6. /\ z.next = Append(s.next, c) => Takes(z.next) = Takes(s.next) \cup {here}
      /\ Takes(z.next) \subseteq Takes(s.next) \cup {here}
      /\ Leading(h, t, z.next)
  <2>1. Leading(h, t, s.next)
    BY <1>1 DEF ScanSound
  <2>2. Takes(Append(s.next, c)) = Takes(s.next) \cup {here}
    BY <1>5, TakesNext
  <2>3. Leading(h, t, Append(s.next, c))
    BY <1>5, <2>1, TakesNext
  <2>4. z.next = s.next \/ z.next = Append(s.next, c)
    OBVIOUS
  <2> HIDE DEF t
  <2> QED BY <2>1, <2>2, <2>3, <2>4
<1>7. here # t /\ here \notin Roots(chains)
  BY <1>1 DEF ScanSound
<1>8. /\ Sound(h, t, more) /\ Roots(more) \subseteq Roots(chains) \cup {here}
      /\ Roots(chains) \subseteq Roots(more)
      /\ more # chains => here \in Roots(more)
      /\ more = Append(chains, ChainFrom(c)) /\ ModuleOf(here) # {} => here \in Roots(more)
  <2>1. Sound(h, t, chains)
    BY <1>1 DEF ScanSound
  <2>2. CASE ModuleOf(here) = {}
    BY <2>1, <2>2
  <2>3. CASE ModuleOf(here) # {}
    <3> DEFINE r == ChainFrom(c)
    <3>1. Rooted(h, t, r) /\ Root(r) = here /\ r \in Found
      BY <2>3, ChainTo
    <3> HIDE DEF r
    <3>2. Sound(h, t, Append(chains, r)) /\ Roots(Append(chains, r)) = Roots(chains) \cup {here}
      BY <1>7, <2>1, <3>1, SoundNext, RootsNext
    <3>3. more \in {chains, Append(chains, r)}
      BY DEF r
    <3>4. more = Append(chains, ChainFrom(c)) => more = Append(chains, r)
      BY DEF r
    <3> HIDE DEF t
    <3> QED BY <2>1, <3>2, <3>3, <3>4
  <2> QED BY <2>2, <2>3
<1>9. ScanSound(h, z, more)
  BY <1>1, <1>2, <1>3, <1>4, <1>6, <1>7, <1>8 DEF ScanSound
<1>10. ASSUME w, ~z.truncated PROVE ScanWhole(h, z, more)
  <2>1. ScanWhole(h, s, chains) /\ Takes(z.next) = Takes(s.next) \cup {here}
    BY <1>6, <1>10 DEF ScanGoes
  <2>2. Static(z.seen \ {t}) \subseteq Roots(more)
    <3>1. Static(z.seen \ {t}) \subseteq Static(s.seen \ {t}) \cup {here}
      BY DEF Static
    <3>2. ModuleOf(here) = {} => here \notin Static(z.seen \ {t})
      BY DEF Static
    <3>3. ModuleOf(here) # {} => here \in Roots(more)
      BY <1>8, <1>10
    <3>4. Static(s.seen \ {t}) \subseteq Roots(chains)
      BY <2>1 DEF ScanWhole
    <3> QED BY <1>8, <3>1, <3>2, <3>3, <3>4
  <2>3. Nearby(h, z) \cup Looked(h, z) \subseteq z.seen
    BY <1>2, <1>3, <2>1 DEF ScanWhole
  <2>4. z.seen \ Nearby(h, z) \subseteq Takes(z.next)
    BY <1>2, <2>1 DEF ScanWhole
  <2> QED BY <1>2, <2>1, <2>2, <2>3, <2>4 DEF ScanWhole
<1> QED BY <1>9, <1>10 DEF ScanGoes

(* A chunk that is read, one that has been looked through, a region or a      *)
(* depth further.                                                             *)
LEMMA ChunkRead ==
  ASSUME NEW h, NEW w, NEW s \in Searches, NEW chains, ScanGoes(h, w, s, chains), s.at = 0,
         NEW z \in Searches, z = [s EXCEPT !.pc = "words", !.at = 0, !.buffer = z.buffer]
  PROVE  ScanGoes(h, w, z, chains)
<1>1. /\ z.region = s.region /\ z.chunk = s.chunk /\ z.at = s.at /\ z.target = s.target /\ z.depth = s.depth
      /\ z.frontier = s.frontier /\ z.next = s.next /\ z.seen = s.seen /\ z.truncated = s.truncated
  BY DEF Searches
<1>2. Nearby(h, z) = Nearby(h, s) /\ Looked(h, z) = Looked(h, s)
  BY <1>1 DEF Nearby, Looked
<1> QED BY <1>1, <1>2 DEF ScanGoes, ScanSound, ScanWhole

LEMMA ChunkDone ==
  ASSUME NEW h, NEW w, NEW s \in Searches, NEW chains, ScanGoes(h, w, s, chains), s.depth < MaxDepth,
         s.region \in DOMAIN SweptRegions, w => s.at \notin ReadableIn(h, s.region, s.chunk),
         NEW z \in Searches, z = [s EXCEPT !.pc = "scan", !.chunk = @ + 1, !.at = 0, !.buffer = <<>>]
  PROVE  ScanGoes(h, w, z, chains)
<1>1. /\ z.region = s.region /\ z.chunk = s.chunk + 1 /\ z.at = 0 /\ z.target = s.target /\ z.depth = s.depth
      /\ z.frontier = s.frontier /\ z.next = s.next /\ z.seen = s.seen /\ z.truncated = s.truncated
  BY DEF Searches
<1>2. Nearby(h, z) = Nearby(h, s)
  BY <1>1 DEF Nearby
<1>3. /\ Behind(h, s.region, s.chunk, s.at) \subseteq Behind(h, z.region, z.chunk, z.at)
      /\ w => Behind(h, z.region, z.chunk, z.at) = Behind(h, s.region, s.chunk, s.at)
  <2>1. s.at \in Nat /\ s.chunk \in Nat
    BY DEF Searches
  <2> QED BY <1>1, <2>1, BehindChunk
<1>4. Looked(h, s) \subseteq Looked(h, z) /\ (w => Looked(h, z) = Looked(h, s))
  BY <1>2, <1>3 DEF Looked
<1>5. z.depth # MaxDepth
  BY <1>1, PointerAssumption DEF Searches
<1> QED BY <1>1, <1>2, <1>4, <1>5 DEF ScanGoes, ScanSound, ScanWhole

LEMMA RegionDone ==
  ASSUME NEW h, NEW w, NEW s \in Searches, NEW chains, ScanGoes(h, w, s, chains), s.depth < MaxDepth, s.at = 0,
         s.region \in DOMAIN SweptRegions, ~(s.chunk * PointerChunk < CellsIn(s.region)),
         NEW z \in Searches, z = [s EXCEPT !.region = @ + 1, !.chunk = 0]
  PROVE  ScanGoes(h, w, z, chains)
<1>1. /\ z.region = s.region + 1 /\ z.chunk = 0 /\ z.at = 0 /\ z.target = s.target /\ z.depth = s.depth
      /\ z.frontier = s.frontier /\ z.next = s.next /\ z.seen = s.seen /\ z.truncated = s.truncated
  BY DEF Searches
<1>2. Nearby(h, z) = Nearby(h, s)
  BY <1>1 DEF Nearby
<1>3. Behind(h, z.region, z.chunk, z.at) = Behind(h, s.region, s.chunk, s.at)
  <2>1. s.chunk \in Nat
    BY DEF Searches
  <2> QED BY <1>1, <2>1, BehindRegion
<1>4. Looked(h, z) = Looked(h, s)
  BY <1>2, <1>3 DEF Looked
<1>5. z.depth # MaxDepth
  BY <1>1, PointerAssumption DEF Searches
<1> QED BY <1>1, <1>2, <1>4, <1>5 DEF ScanGoes, ScanSound, ScanWhole

LEMMA DepthDone ==
  ASSUME NEW h, NEW w, NEW s \in Searches, NEW chains, ScanGoes(h, w, s, chains), s.depth < MaxDepth,
         s.region > Len(SweptRegions),
         NEW z \in Searches, z.depth = s.depth + 1, z.region = 1, z.chunk = 0, z.at = 0, z.frontier = s.next, z.next = <<>>,
         z.target = s.target, z.seen = s.seen, z.truncated = s.truncated
  PROVE  ScanGoes(h, w, z, chains)
<1>1. Nearby(h, s) \cup Looked(h, s) = Nearby(h, z)
  BY Swept1 DEF Nearby
<1>2. Looked(h, z) = {}
  BY BehindStart DEF Looked
<1>3. z.depth \in Nat /\ z.depth <= MaxDepth /\ z.depth # 0 /\ z.depth - 1 = s.depth
  <2>1. s.depth \in Nat /\ MaxDepth \in Nat
    BY PointerAssumption DEF Searches
  <2> QED BY <2>1
<1>4. Takes(z.next) = {} /\ Leading(h, z.target, z.next)
  BY DEF Takes, Leading
<1>5. ScanSound(h, z, chains)
  BY <1>1, <1>2, <1>3, <1>4 DEF ScanGoes, ScanSound
<1>6. ASSUME ScanWhole(h, s, chains) PROVE ScanWhole(h, z, chains)
  <2>1. WithinIn(h, z.target, z.depth - 1) = Nearby(h, s)
    BY <1>3 DEF Nearby
  <2>2. Nearby(h, z) \subseteq z.seen
    BY <1>1, <1>6 DEF ScanWhole
  <2>3. z.seen \ Nearby(h, z) = {}
    BY <1>1, <1>5, <1>2 DEF ScanSound
  <2>4. Nearby(h, z) \ WithinIn(h, z.target, z.depth - 1) \subseteq Takes(z.frontier)
    BY <1>6, <2>1, <2>2 DEF ScanWhole
  <2> QED BY <1>2, <1>3, <1>6, <2>2, <2>3, <2>4 DEF ScanWhole
<1> QED BY <1>5, <1>6 DEF ScanGoes

LEMMA ScanBegins ==
  ASSUME NEW h, NEW w, Memory(h), NEW z \in Searches, z.depth = 0, z.region = 1, z.chunk = 0, z.at = 0, z.seen = {z.target},
         z.frontier = <<[address |-> z.target, offsets |-> <<>>]>>, z.next = <<>>
  PROVE  ScanGoes(h, w, z, <<>>)
<1>1. Nearby(h, z) = {z.target} /\ Looked(h, z) = {}
  BY WithinNone, BehindStart DEF Nearby, Looked
<1>2. z.target \in Int
  BY DEF Searches
<1>3. Takes(z.frontier) = {z.target} /\ Leading(h, z.target, z.frontier)
  BY <1>2, FollowedNone DEF Takes, Leading
<1>4. Takes(z.next) = {} /\ Leading(h, z.target, z.next)
  BY DEF Takes, Leading
<1>5. Sound(h, z.target, <<>>) /\ Roots(<<>>) = {}
  BY DEF Sound, Distinct, Roots
<1>6. ScanSound(h, z, <<>>)
  BY <1>1, <1>3, <1>4, <1>5, PointerAssumption DEF ScanSound
<1>7. ScanWhole(h, z, <<>>)
  BY <1>1, <1>3, <1>4, <1>5 DEF ScanWhole, Static
<1> QED BY <1>6, <1>7 DEF ScanGoes

--------------------------------------------------------------------------------
(* Scans: every step                                                          *)

LEMMA VisitScanning ==
  ASSUME ChainInv, VisitCell, Quiet, searcher' \in Searches
  PROVE  /\ ScanGoes(heap, ~cut, searcher', found') /\ Buffered(heap, ~cut, searcher')
         /\ searcher'.pc = "words"
<1> DEFINE s == searcher
           here == CellAt(s.region, s.chunk, s.at)
           p == s.buffer[s.at]
           c == PlaceAt(here, p)
<1>1. s \in Searches /\ found \in Seq(Found) /\ Memory(heap) /\ ChainTypeOK
  BY DEF ChainInv, ChainTypeOK
<1>2. ScanGoes(heap, ~cut, s, found) /\ Buffered(heap, ~cut, s)
  BY DEF ChainInv, Scanning, VisitCell, Walking
<1>3. /\ s.depth < MaxDepth /\ s.at \in ReadableIn(heap, s.region, s.chunk) /\ p = heap[here]
      /\ s.region \in DOMAIN SweptRegions /\ here = Here
  BY <1>1, <1>2 DEF VisitCell, Walking, Buffered, Here, ChainTypeOK
<1>4. here \in Nat /\ here \in DOMAIN heap /\ heap[here] \in Nat
  <2>1. s.chunk \in Nat
    BY <1>1 DEF Searches
  <2> QED BY <1>1, <1>3, <2>1, ReadableIs DEF Memory
<1>5. /\ LeadsIn(heap, here) <=> p # 0
      /\ p # 0 => (Reached(p) # {} <=> LeadsIntoIn(heap, here, Takes(s.frontier)))
  <2> HIDE DEF here, p
  <2>1. p = heap[here] /\ here \in DOMAIN heap
    BY <1>3, <1>4
  <2> QED BY <2>1 DEF Reached, LeadsIntoIn, Takes, LeadsIn
<1>9. ASSUME NEW z \in Searches, z.region = s.region, z.chunk = s.chunk, z.depth = s.depth, z.buffer = s.buffer
      PROVE  Buffered(heap, ~cut, z)
  BY <1>2, <1>9 DEF Buffered
<1>a. s.pc = "words"
  BY DEF VisitCell, Walking
<1> HIDE DEF here, p
<1>6. CASE searcher' = [searcher EXCEPT !.at = @ + 1] /\ UNCHANGED found
           /\ ~(p # 0 /\ here \notin s.seen /\ Reached(p) # {})
  <2>1. LeadsIntoIn(heap, here, Takes(s.frontier)) => here \in s.seen
    BY <1>5, <1>6 DEF LeadsIntoIn
  <2>2. ScanGoes(heap, ~cut, searcher', found)
    BY <1>1, <1>2, <1>3, <1>6, <2>1, VisitPass DEF here
  <2>3. /\ searcher'.region = s.region /\ searcher'.chunk = s.chunk /\ searcher'.depth = s.depth
        /\ searcher'.buffer = s.buffer /\ searcher'.pc = s.pc
    BY <1>1, <1>6 DEF Searches
  <2> QED BY <1>6, <1>9, <1>a, <2>2, <2>3
<1>7. CASE p # 0 /\ here \notin s.seen /\ Reached(p) # {} /\ Take(c)
  <2> DEFINE z == searcher'
             source == s.frontier[Nearest(p)]
  <2>1. p \in Nat /\ p = heap[here]
    BY <1>3, <1>4 DEF p, here
  <2>2. /\ c \in Places /\ c.address = here
        /\ ModuleOf(here) # {} => ChainFrom(c) \in Found
    BY <1>1, <1>4, <1>7, <2>1, CandidateIs
  <2>3. FollowedIn(heap, here, c.offsets) = s.target
    <3>1. /\ Nearest(p) \in DOMAIN s.frontier /\ source \in Places
          /\ source.address - p \in 0 .. MaxOffset
      BY <1>1, <1>7, <2>1, NearestIs
    <3>2. c.offsets = <<source.address - p>> \o source.offsets
      BY DEF PlaceAt, OffsetOf
    <3>3. source.address - p \in Nat /\ source.offsets \in Seq(Nat)
      BY <2>1, <3>1, PointerAssumption DEF Places
    <3>4. p + (source.address - p) = source.address
      BY <2>1, <3>1 DEF Places
    <3>5. FollowedIn(heap, source.address, source.offsets) = s.target
      BY <1>2, <3>1 DEF ScanGoes, ScanSound, Leading
    <3> HIDE DEF source
    <3>6. FollowedIn(heap, here, c.offsets) = FollowedIn(heap, heap[here] + (source.address - p), source.offsets)
      BY <1>1, <1>4, <1>5, <1>7, <3>2, <3>3, FollowedFurther
    <3> QED BY <2>1, <3>4, <3>5, <3>6
  <2>4. LeadsIntoIn(heap, here, Takes(s.frontier))
    BY <1>5, <1>7
  <2> HIDE DEF c
  <2>5. /\ z.region = s.region /\ z.chunk = s.chunk /\ z.at = s.at + 1 /\ z.target = s.target
        /\ z.depth = s.depth /\ z.frontier = s.frontier /\ z.seen = s.seen \cup {here}
        /\ z.next = (IF Len(s.next) < MaxFrontier THEN Append(s.next, c) ELSE s.next)
        /\ z.truncated = (s.truncated \/ ~(Len(s.next) < MaxFrontier)
                            \/ (ModuleOf(here) # {} /\ ~(Len(found) < MaxChains)))
        /\ found' = IF ModuleOf(here) # {} /\ Len(found) < MaxChains THEN Append(found, ChainFrom(c)) ELSE found
    BY <1>1, <1>7, <2>2 DEF Take, Searches
  <2>6. /\ z.next \in {s.next, Append(s.next, c)}
        /\ found' \in {found, Append(found, ChainFrom(c))} /\ (ModuleOf(here) = {} => found' = found)
        /\ ~z.truncated => /\ ~s.truncated /\ z.next = Append(s.next, c)
                           /\ ModuleOf(here) # {} => found' = Append(found, ChainFrom(c))
    BY <2>5
  <2>7. z.buffer = s.buffer /\ z.pc = s.pc
    BY <1>1, <1>7 DEF Take, Searches
  <2>8. ScanGoes(heap, ~cut, z, found')
    BY <1>1, <1>2, <1>3, <1>7, <2>2, <2>3, <2>4, <2>5, <2>6, VisitTake DEF here
  <2> QED BY <1>9, <1>a, <2>5, <2>7, <2>8
<1> QED BY <1>3, <1>6, <1>7 DEF VisitCell, p

(* A detach leaves what has been found and read as it was.                    *)
LEMMA ScanLess ==
  ASSUME NEW h, NEW w, NEW s, NEW chains
  PROVE  /\ ScanGoes(h, w, s, chains) => ScanGoes(h, FALSE, s, chains)
         /\ Buffered(h, w, s) => Buffered(h, FALSE, s)
BY DEF ScanGoes, Buffered

LEMMA ChainScanning == ChainInv /\ [ChainNext]_chainVars => Scanning'
<1> SUFFICES ASSUME ChainInv, [ChainNext]_chainVars PROVE Scanning'
  OBVIOUS
<1> USE DEF chainShared, chainHistory
<1>1. ChainTypeOK /\ Phases /\ Scanning /\ ChainTypeOK'
  BY ChainTypes DEF ChainInv
<1>2. searcher \in Searches /\ found \in Seq(Found) /\ Memory(heap) /\ searcher' \in Searches
  BY <1>1 DEF ChainTypeOK
<1>3. ASSUME UNCHANGED <<heap, found, searcher, rewritten, cut>> PROVE Scanning'
  BY <1>1, <1>3 DEF Scanning, Quiet
<1>4. ASSUME searcher'.pc \notin {"scan", "words"} PROVE Scanning'
  BY <1>4 DEF Scanning
<1>5. ASSUME UNCHANGED <<heap, rewritten, cut>>, searcher'.pc = "scan", searcher'.at = 0,
             Quiet => ScanGoes(heap, ~cut, searcher', found')
      PROVE  Scanning'
  BY <1>5 DEF Scanning, Quiet
<1>a. CASE HeapMoves
  BY <1>1, <1>a DEF HeapMoves, Moved, Scanning, Quiet
<1>b. ASSUME NEW what, NEW t, BeginCall(what, t) PROVE Scanning'
  BY <1>3, <1>b DEF BeginCall
<1>c. CASE StartSearch
  <2>1. /\ searcher'.depth = 0 /\ searcher'.region = 1 /\ searcher'.at = 0 /\ searcher'.target = asker.target
        /\ searcher'.seen = {asker.target} /\ searcher'.next = <<>> /\ searcher'.chunk = 0
        /\ searcher'.frontier = <<[address |-> asker.target, offsets |-> <<>>]>>
        /\ searcher'.pc = "scan"
    BY <1>c DEF StartSearch, NoSearch
  <2>2. ScanGoes(heap, ~cut', searcher', <<>>)
    BY <1>2, <2>1, ScanBegins
  <2> QED BY <1>c, <2>1, <2>2 DEF StartSearch, Scanning
<1>d. CASE Filter
  <2>1. searcher'.pc = "filter"
    BY <1>d DEF Filter, NoSearch
  <2> QED BY <1>4, <2>1
<1>e. CASE Cancelled
  BY <1>3, <1>e DEF Cancelled
<1>f. CASE VisitCell
  <2>1. /\ Quiet => ScanGoes(heap, ~cut, searcher', found') /\ Buffered(heap, ~cut, searcher')
        /\ UNCHANGED <<heap, rewritten, cut>>
    BY <1>2, <1>f, VisitScanning DEF VisitCell
  <2>2. searcher'.pc = "words"
    BY <1>2, <1>f DEF VisitCell, Take, Walking, Searches
  <2> QED BY <2>1, <2>2 DEF Scanning, Quiet
<1>q. CASE ReadCells
  <2>1. /\ searcher'.pc = "words" /\ searcher'.at = 0 /\ searcher.pc = "scan" /\ searcher.at = 0
        /\ searcher.depth < MaxDepth
        /\ searcher'.buffer = [i \in IF opened THEN ReadableIn(heap, searcher.region, searcher.chunk) ELSE {} |->
                                  heap[CellAt(searcher.region, searcher.chunk, i)]]
        /\ searcher' = [searcher EXCEPT !.pc = "words", !.at = 0, !.buffer = searcher'.buffer]
    BY <1>1, <1>q, ReadTypes DEF ReadCells, Sweeping, Scanning
  <2>2. Quiet => ScanGoes(heap, ~cut, searcher', found)
    BY <1>1, <1>2, <2>1, ChunkRead DEF Scanning
  <2>3. /\ searcher'.region = searcher.region /\ searcher'.chunk = searcher.chunk
        /\ searcher'.depth = searcher.depth
    BY <1>2, <2>1 DEF Searches
  <2>4. ~cut => opened
    BY <1>1, <2>1 DEF Phases, Midway
  <2>5. Buffered(heap, ~cut, searcher')
    <3> DEFINE D == IF opened THEN ReadableIn(heap, searcher.region, searcher.chunk) ELSE {}
    <3>1. D \subseteq ReadableIn(heap, searcher.region, searcher.chunk)
      OBVIOUS
    <3>2. ~cut => D = ReadableIn(heap, searcher.region, searcher.chunk)
      BY <2>4
    <3>3. searcher'.buffer = [i \in D |-> heap[CellAt(searcher.region, searcher.chunk, i)]]
      BY <2>1
    <3> HIDE DEF D
    <3> QED BY <2>1, <2>3, <3>1, <3>2, <3>3 DEF Buffered
  <2> QED BY <1>q, <2>1, <2>2, <2>5 DEF ReadCells, Scanning, Quiet
<1>r. CASE NextChunk
  <2>1. /\ searcher.pc = "words" /\ searcher.region \in DOMAIN SweptRegions
        /\ searcher' = [searcher EXCEPT !.pc = "scan", !.chunk = @ + 1, !.at = 0, !.buffer = <<>>]
        /\ UNCHANGED <<heap, found, rewritten, cut>>
    BY <1>1, <1>r DEF NextChunk, Walking, ChainTypeOK
  <2>2. searcher'.pc = "scan" /\ searcher'.at = 0
    BY <1>2, <2>1 DEF Searches
  <2>3. ASSUME Quiet PROVE ScanGoes(heap, ~cut, searcher', found)
    <3>1. ScanGoes(heap, ~cut, searcher, found) /\ Buffered(heap, ~cut, searcher)
      BY <1>1, <2>1, <2>3 DEF Scanning
    <3>2. /\ searcher.depth < MaxDepth
          /\ ~cut => searcher.at \notin ReadableIn(heap, searcher.region, searcher.chunk)
      BY <1>r, <3>1 DEF Buffered, NextChunk
    <3> QED BY <1>2, <2>1, <3>1, <3>2, ChunkDone
  <2> QED BY <1>5, <2>1, <2>2, <2>3
<1>g. CASE NextRegion
  <2>1. searcher.region \in DOMAIN SweptRegions
    <3>1. searcher.region \in Nat \ {0}
      BY <1>2 DEF Searches
    <3> QED BY <1>g, <3>1, PointerAssumption DEF NextRegion, Swept
  <2>2. /\ searcher.pc = "scan" /\ searcher.at = 0 /\ searcher.depth < MaxDepth
        /\ ~(searcher.chunk * PointerChunk < CellsIn(searcher.region))
        /\ searcher' = [searcher EXCEPT !.region = @ + 1, !.chunk = 0]
        /\ UNCHANGED <<heap, found, rewritten, cut>>
    BY <1>1, <1>g DEF NextRegion, Sweeping, Scanning, ChunksLeft
  <2>3. searcher'.pc = "scan" /\ searcher'.at = 0
    BY <1>2, <2>2 DEF Searches
  <2>4. Quiet => ScanGoes(heap, ~cut, searcher', found)
    BY <1>1, <1>2, <2>1, <2>2, RegionDone DEF Scanning
  <2> QED BY <1>5, <2>2, <2>3, <2>4
<1>h. CASE NextDepth
  <2>1. /\ searcher.pc = "scan" /\ searcher.at = 0 /\ searcher.depth < MaxDepth
        /\ searcher.region > Len(SweptRegions)
        /\ UNCHANGED <<heap, found, rewritten, cut>>
    BY <1>1, <1>h DEF NextDepth, Sweeping, Swept, Scanning
  <2>2. /\ searcher'.depth = searcher.depth + 1 /\ searcher'.region = 1 /\ searcher'.chunk = 0
        /\ searcher'.frontier = searcher.next /\ searcher'.next = <<>> /\ searcher'.target = searcher.target
        /\ searcher'.seen = searcher.seen /\ searcher'.truncated = searcher.truncated
        /\ searcher'.at = 0 /\ searcher'.pc = "scan"
    BY <1>2, <1>h, <2>1 DEF NextDepth, Searches
  <2>3. Quiet => ScanGoes(heap, ~cut, searcher', found)
    BY <1>1, <1>2, <2>1, <2>2, DepthDone DEF Scanning
  <2> QED BY <1>5, <2>1, <2>2, <2>3
<1>i. CASE EndScan
  <2>1. searcher'.pc = "leave"
    BY <1>2, <1>i DEF EndScan, Searches
  <2> QED BY <1>4, <2>1
<1>j. CASE EndThread
  <2>1. searcher'.pc = "gone"
    BY <1>2, <1>j DEF EndThread, Searches
  <2> QED BY <1>4, <2>1
<1>k. CASE RefuseFilter
  <2>1. searcher'.pc = "leave"
    BY <1>2, <1>k DEF RefuseFilter, Searches
  <2> QED BY <1>4, <2>1
<1>l. CASE BeginFilter
  <2>1. searcher'.pc = "check"
    BY <1>2, <1>l DEF BeginFilter, Searches
  <2> QED BY <1>4, <2>1
<1>m. CASE CheckChain
  <2>1. searcher'.pc = "check"
    BY <1>2, <1>m DEF CheckChain, Searches
  <2> QED BY <1>4, <2>1
<1>n. CASE EndFilter
  <2>1. searcher'.pc = "leave"
    BY <1>2, <1>n DEF EndFilter, Searches
  <2> QED BY <1>4, <2>1
<1>o. CASE UNCHANGED chainVars
  BY <1>3, <1>o DEF chainVars
<1>p. CASE Detached
  <2>1. UNCHANGED <<heap, found, searcher, rewritten>> /\ cut' = (cut \/ Midway)
    BY <1>p DEF Detached, Moved
  <2>2. CASE searcher.pc \in {"scan", "words"}
    <3>1. cut'
      BY <2>1, <2>2 DEF Midway
    <3>2. (~cut)' = FALSE
      BY <3>1
    <3> QED BY <1>1, <2>1, <3>2, ScanLess DEF Scanning, Quiet
  <2>3. CASE searcher.pc \notin {"scan", "words"}
    BY <1>4, <2>1, <2>3
  <2> QED BY <2>2, <2>3
<1> QED
  BY <1>a, <1>b, <1>c, <1>d, <1>e, <1>f, <1>g, <1>h, <1>i, <1>j, <1>k, <1>l, <1>m, <1>n, <1>o, <1>p, <1>q, <1>r
  DEF ChainNext, Searcher, Asker

LEMMA ChainScanned == ChainInv /\ [ChainNext]_chainVars => Scanned'
<1> SUFFICES ASSUME ChainInv, [ChainNext]_chainVars PROVE Scanned'
  OBVIOUS
<1> USE DEF chainShared, chainHistory
<1>1. ChainTypeOK /\ Phases /\ Scanning /\ Scanned
  BY DEF ChainInv
<1>2. searcher \in Searches /\ found \in Seq(Found)
  BY <1>1 DEF ChainTypeOK
<1>3. ASSUME UNCHANGED <<heap, found, verdict, rewritten, cut>>, searcher'.target = searcher.target
      PROVE  Scanned'
  BY <1>1, <1>3 DEF Scanned, Quiet
<1>4. ASSUME verdict' \notin {"complete", "limit", "cancelled"} PROVE Scanned'
  BY <1>4 DEF Scanned
<1>5. Underway => verdict = "starting"
  BY <1>1 DEF Phases
<1>a. CASE HeapMoves
  BY <1>a DEF HeapMoves, Moved, Scanned, Quiet
<1>b. ASSUME NEW what, NEW t, BeginCall(what, t) PROVE Scanned'
  BY <1>3, <1>b DEF BeginCall
<1>c. CASE StartSearch
  BY <1>4, <1>c DEF StartSearch
<1>d. CASE Filter
  BY <1>4, <1>d DEF Filter
<1>e. CASE Cancelled
  BY <1>3, <1>e DEF Cancelled
<1>f. CASE VisitCell
  BY <1>4, <1>5, <1>f DEF VisitCell, Walking, Underway
<1>q. CASE ReadCells
  BY <1>4, <1>5, <1>q DEF ReadCells, Sweeping, Underway
<1>r. CASE NextChunk
  BY <1>4, <1>5, <1>r DEF NextChunk, Walking, Underway
<1>g. CASE NextRegion
  BY <1>4, <1>5, <1>g DEF NextRegion, Sweeping, Underway
<1>h. CASE NextDepth
  BY <1>4, <1>5, <1>h DEF NextDepth, Sweeping, Underway
<1>i. CASE EndScan
  <2> DEFINE t == searcher.target
             W == WithinIn(heap, t, MaxDepth)
  <2>1. searcher'.target = t /\ UNCHANGED <<heap, found, rewritten, cut>>
    BY <1>2, <1>i DEF EndScan, Searches
  <2>2. ASSUME Quiet PROVE ScanGave(heap, t, found, verdict' = "complete" /\ ~cut)
    <3>1. ScanSound(heap, searcher, found)
      BY <1>1, <1>i, <2>2 DEF EndScan, Scanning, ScanGoes
    <3>2. searcher.seen \subseteq W
      BY <1>2, <3>1, ScanReach
    <3>3. ASSUME verdict' = "complete", ~cut PROVE Static(W \ {t}) \subseteq Roots(found)
      <4>1. ScanWhole(heap, searcher, found)
        BY <1>1, <1>i, <2>2, <3>3 DEF EndScan, Scanning, ScanGoes
      <4>2. searcher.depth = MaxDepth \/ (searcher.region > Len(SweptRegions) /\ searcher.next = <<>>)
        BY <1>i, <3>3 DEF EndScan, Swept
      <4>3. W \subseteq searcher.seen
        BY <1>2, <3>1, <4>1, <4>2, ScanAll
      <4> QED BY <4>1, <4>3 DEF ScanWhole, Static
    <3> QED BY <3>1, <3>2, <3>3 DEF ScanGave, ScanSound
  <2> QED BY <2>1, <2>2 DEF Scanned, Quiet
<1>j. CASE EndThread
  <2>1. searcher'.target = searcher.target
    BY <1>2, <1>j DEF EndThread, Searches
  <2> QED BY <1>3, <1>j, <2>1 DEF EndThread
<1>k. CASE RefuseFilter
  BY <1>4, <1>k DEF RefuseFilter
<1>l. CASE BeginFilter
  BY <1>4, <1>5, <1>l DEF BeginFilter, Underway
<1>m. CASE CheckChain
  BY <1>4, <1>5, <1>m DEF CheckChain, Underway
<1>n. CASE EndFilter
  BY <1>4, <1>n DEF EndFilter
<1>o. CASE UNCHANGED chainVars
  BY <1>3, <1>o DEF chainVars
<1>p. CASE Detached
  <2>1. UNCHANGED <<heap, found, verdict, searcher, rewritten>> /\ cut' = (cut \/ Midway)
    BY <1>p DEF Detached, Moved
  <2>2. cut => cut'
    BY <2>1
  <2>3. ASSUME NEW t, NEW whole, NEW less, less => whole, ScanGave(heap, t, found, whole)
        PROVE  ScanGave(heap, t, found, less)
    BY <2>3 DEF ScanGave
  <2> QED BY <1>1, <2>1, <2>2, <2>3 DEF Scanned, Quiet
<1> QED
  BY <1>a, <1>b, <1>c, <1>d, <1>e, <1>f, <1>g, <1>h, <1>i, <1>j, <1>k, <1>l, <1>m, <1>n, <1>o, <1>p, <1>q, <1>r
  DEF ChainNext, Searcher, Asker

(* A scan that says it is complete, and was attached throughout, has a chain  *)
(* from every static address that leads to the target within its depth, among *)
(* the words it gets to see: not those after a hole in their chunk.  No scan  *)
(* has any other.  A rescan keeps exactly the chains that still lead there,   *)
(* detached midway those of them it had looked at, or leaves all as they were *)
(* (PointerScanner.cpp:138-338): for any memory, modules, regions, chunks and *)
(* limits.                                                                    *)
THEOREM ChainsAreHonest == ChainSpec => []ChainsHonest
<1>1. ChainInit => ChainInv
  BY ChainStart
<1>2. ChainInv /\ [ChainNext]_chainVars => ChainInv'
  BY ChainTypes, ChainScanning, ChainScanned, ChainFiltering DEF ChainInv
<1>3. ChainInv => ChainsHonest
  BY ChainsHonestFollows
<1> QED BY <1>1, <1>2, <1>3, PTL DEF ChainSpec

--------------------------------------------------------------------------------
(* Names and exports                                                          *)

(* The steps an export's forwarders take, one module and export to the next.   *)
NextAsked(x) == IF x \in DOMAIN ExportsOf /\ ModuleBase(x[1]) # NoAddress /\ ~IsCode(ExportsOf[x])
                THEN ExportsOf[x].forward ELSE x

LEMMA Asking ==
  ASSUME NEW m, NEW e, ResolveExport(m, e) # NoAddress
  PROVE  \E asked : /\ asked[0] = <<m, e>>
                    /\ \A d \in 1 .. MaxForwarderDepth : asked[d] = NextAsked(asked[d - 1])
                    /\ LET last == asked[MaxForwarderDepth - 1] IN
                       /\ last \in DOMAIN ExportsOf /\ ModuleBase(last[1]) # NoAddress /\ IsCode(ExportsOf[last])
                       /\ ResolveExport(m, e) = Wrapped(modules[last[1]] + ExportsOf[last].offset)
<1> DEFINE N == MaxForwarderDepth
           S == {<<m, e>>} \cup DOMAIN ExportsOf \cup {ExportsOf[x].forward : x \in DOMAIN ExportsOf}
           onward == [n \in 1 .. N |-> [x \in S |-> NextAsked(x)]]
           IsAsked(f) == f = [d \in 0 .. N |->
                               IF d = 0 THEN <<m, e>>
                               ELSE LET before == f[d - 1] IN
                                    IF before \in DOMAIN ExportsOf /\ ModuleBase(before[1]) # NoAddress /\ ~IsCode(ExportsOf[before])
                                    THEN ExportsOf[before].forward ELSE before]
<1>0. N \in Nat \ {0}
  BY SymbolAssumption
<1>1. Steps(onward, N, S)
  <2>1. \A x \in S : NextAsked(x) \in S
    BY DEF NextAsked
  <2> HIDE DEF S
  <2> QED BY <2>1 DEF Steps
<1>2. PICK f : f \in [0 .. N -> S] /\ f[0] = <<m, e>> /\ \A n \in 1 .. N : f[n] = onward[n][f[n - 1]]
  <2>1. <<m, e>> \in S
    OBVIOUS
  <2> HIDE DEF onward, S
  <2>2. \E f : Iterates(f, onward, <<m, e>>, N, S)
    BY <1>0, <1>1, <2>1, Recursion
  <2> QED BY <2>2 DEF Iterates
<1>3. ASSUME NEW n \in 1 .. N PROVE f[n] = NextAsked(f[n - 1])
  <2>1. n - 1 \in 0 .. N
    BY <1>0
  <2> HIDE DEF S
  <2> QED BY <1>2, <2>1
<1>4. IsAsked(f)
  <2>1. \A i \in 0 .. N : i = 0 \/ i \in 1 .. N
    BY <1>0
  <2>2. f = [n \in 0 .. N |-> f[n]]
    BY <1>2
  <2>3. \A d \in 0 .. N : f[d] = IF d = 0 THEN <<m, e>>
                               ELSE LET before == f[d - 1] IN
                                    IF before \in DOMAIN ExportsOf /\ ModuleBase(before[1]) # NoAddress /\ ~IsCode(ExportsOf[before])
                                    THEN ExportsOf[before].forward ELSE before
    BY <1>2, <1>3, <2>1 DEF NextAsked
  <2> HIDE DEF N, S
  <2> QED BY <2>2, <2>3
<1>5. PICK g : IsAsked(g) /\ LET last == g[N - 1] IN
        /\ last \in DOMAIN ExportsOf /\ ModuleBase(last[1]) # NoAddress /\ IsCode(ExportsOf[last])
        /\ ResolveExport(m, e) = Wrapped(modules[last[1]] + ExportsOf[last].offset)
  BY <1>4 DEF ResolveExport
<1>6. g[0] = <<m, e>> /\ \A d \in 1 .. N : g[d] = NextAsked(g[d - 1])
  <2>1. 0 \in 0 .. N /\ \A d \in 1 .. N : d \in 0 .. N /\ d # 0
    BY <1>0
  <2> QED BY <1>5, <2>1 DEF NextAsked
<1> QED BY <1>5, <1>6

(* Where they end: at code of a loaded module that they lead to.              *)
LEMMA ExportIsCode ==
  ASSUME NEW x \in DOMAIN ExportsOf, ResolveExport(x[1], x[2]) # NoAddress
  PROVE  \E y \in LeadsTo(x) :
           /\ y[1] \in DOMAIN modules /\ ExportsOf[y].forward = << >>
           /\ ResolveExport(x[1], x[2]) = Wrapped(modules[y[1]] + ExportsOf[y].offset)
<1> DEFINE N == MaxForwarderDepth
<1>1. N \in Nat \ {0} /\ <<x[1], x[2]>> = x
  BY SymbolAssumption
<1>2. PICK asked : /\ asked[0] = <<x[1], x[2]>>
                   /\ \A d \in 1 .. N : asked[d] = NextAsked(asked[d - 1])
                   /\ LET last == asked[N - 1] IN
                      /\ last \in DOMAIN ExportsOf /\ ModuleBase(last[1]) # NoAddress /\ IsCode(ExportsOf[last])
                      /\ ResolveExport(x[1], x[2]) = Wrapped(modules[last[1]] + ExportsOf[last].offset)
  BY <1>1, Asking
<1> DEFINE last == asked[N - 1]
<1>3. ASSUME NEW s \in SUBSET DOMAIN ExportsOf, x \in s, Closed(s) PROVE last \in s
  <2> DEFINE P == {d \in 0 .. N : asked[d] \in DOMAIN ExportsOf => asked[d] \in s}
  <2>1. 0 \in P
    BY <1>1, <1>2, <1>3
  <2>2. ASSUME NEW d \in 1 .. N, d - 1 \in P PROVE d \in P
    <3> DEFINE before == asked[d - 1]
    <3>1. asked[d] = NextAsked(before) /\ (before \in DOMAIN ExportsOf => before \in s)
      BY <1>2, <2>2
    <3>2. asked[d] \in DOMAIN ExportsOf => asked[d] \in s
      <4> HIDE DEF before
      <4> QED BY <1>3, <3>1 DEF NextAsked, Closed
    <3> QED BY <3>2
  <2> HIDE DEF P
  <2>3. \A d \in 0 .. N : d \in P
    BY <1>1, <2>1, <2>2, Upward
  <2>4. N - 1 \in 0 .. N
    BY <1>1
  <2> QED BY <1>2, <2>3, <2>4 DEF P
<1>4. last \in LeadsTo(x)
  BY <1>2, <1>3 DEF LeadsTo
<1>5. last[1] \in DOMAIN modules /\ ExportsOf[last].forward = << >>
  BY <1>2 DEF ModuleBase, IsCode
<1> QED BY <1>2, <1>4, <1>5

(* Text of one word, and of one with an offset.                               *)
LEMMA ResolveWord ==
  ASSUME NEW text, text.terms = << >>
  PROVE  Resolve(text) = ResolveTerm(text.head)
<1> DEFINE f == [i \in 0 .. 0 |-> ResolveTerm(text.head)]
           IsSum(g) == g = [i \in 0..Len(text.terms) |->
                 IF i = 0 THEN ResolveTerm(text.head)
                 ELSE IF g[i - 1] = NoAddress \/ text.terms[i].offset = NoAddress THEN NoAddress
                 ELSE Wrapped(IF text.terms[i].subtract THEN g[i - 1] - text.terms[i].offset
                                                        ELSE g[i - 1] + text.terms[i].offset)]
<1>1. Len(text.terms) = 0
  OBVIOUS
<1>2. IsSum(f)
  BY <1>1
<1>3. PICK g : IsSum(g) /\ Resolve(text) = g[0]
  BY <1>1, <1>2 DEF Resolve
<1> QED BY <1>1, <1>3

LEMMA ResolvePlus ==
  ASSUME NEW text, NEW by, text.terms = <<Plus(by)>>, by # NoAddress, ResolveTerm(text.head) # NoAddress
  PROVE  Resolve(text) = Wrapped(ResolveTerm(text.head) + by)
<1> DEFINE base == ResolveTerm(text.head)
           f == [i \in 0 .. 1 |-> IF i = 0 THEN base ELSE Wrapped(base + by)]
           IsSum(g) == g = [i \in 0..Len(text.terms) |->
                 IF i = 0 THEN ResolveTerm(text.head)
                 ELSE IF g[i - 1] = NoAddress \/ text.terms[i].offset = NoAddress THEN NoAddress
                 ELSE Wrapped(IF text.terms[i].subtract THEN g[i - 1] - text.terms[i].offset
                                                        ELSE g[i - 1] + text.terms[i].offset)]
<1>1. Len(text.terms) = 1 /\ text.terms[1].offset = by /\ text.terms[1].subtract = FALSE
  BY DEF Plus
<1>2. IsSum(f)
  BY <1>1
<1>3. PICK g : IsSum(g) /\ Resolve(text) = g[1]
  BY <1>1, <1>2 DEF Resolve
<1>4. g[0] = base
  BY <1>1, <1>3
<1>5. 1 \in 0 .. 1
  OBVIOUS
<1> QED BY <1>1, <1>3, <1>4, <1>5

(* Without a target there are no modules.                                     *)
SymbolInv ==
    /\ haveTarget \in BOOLEAN
    /\ IF haveTarget THEN modules \in Layouts ELSE modules = NoEntries

LEMMA DescribedResolves ==
  ASSUME SymbolInv, NEW a \in 0 .. Top, NEW text \in Describe(a),
         DOMAIN symbols \cap ModuleNames = {}, ModulesAt(a) \cap Dashed = {}
  PROVE  Resolve(text) = a
<1> DEFINE named == {n \in DOMAIN symbols : symbols[n].address = a}
<1>1. CASE named # {}
  <2>1. PICK n \in named : text = Text(Word(n), << >>)
    BY <1>1 DEF Describe
  <2>2. text.terms = << >> /\ text.head = Word(n) /\ text.head.word = n /\ text.head.export = ""
    BY <2>1 DEF Text, Word
  <2>3. ResolveTerm(text.head) = a
    BY <2>2 DEF ResolveTerm
  <2> QED BY <2>2, <2>3, ResolveWord
<1>2. CASE named = {}
  <2>1. PICK m \in ModulesAt(a) :
          text = LET name == NameOf(m) IN
                 IF a = modules[m] THEN name ELSE Text(name.head, Append(name.terms, Plus(a - modules[m])))
    BY <1>2 DEF Describe
  <2>2. haveTarget /\ a # 0 /\ m \in DOMAIN modules /\ Inside(m, a) /\ m \notin Dashed
    BY <2>1 DEF ModulesAt
  <2>3. modules[m] \in Nat \ {0} /\ m \in ModuleNames /\ Top \in Nat
    BY <2>2, SymbolAssumption DEF SymbolInv
  <2>4. NameOf(m) = Text(Word(m), << >>)
    BY <2>2 DEF NameOf
  <2>5. ResolveTerm(Word(m)) = modules[m] /\ modules[m] # NoAddress
    <3>1. m \notin DOMAIN symbols
      BY <2>3
    <3>2. ModuleBase(m) = modules[m] /\ modules[m] # NoAddress
      BY <2>2, <2>3 DEF ModuleBase, NoAddress
    <3>3. Word(m).word = m /\ Word(m).export = ""
      BY DEF Word
    <3> QED BY <2>2, <3>1, <3>2, <3>3 DEF ResolveTerm
  <2>6. CASE a = modules[m]
    <3>1. text.terms = << >> /\ text.head = Word(m)
      BY <2>1, <2>4, <2>6 DEF Text
    <3> QED BY <2>5, <2>6, <3>1, ResolveWord
  <2>7. CASE a # modules[m]
    <3> DEFINE by == a - modules[m]
    <3>1. text.head = Word(m) /\ text.terms = <<Plus(by)>>
      BY <2>1, <2>4, <2>7 DEF Text
    <3>2. by \in Nat /\ by # NoAddress /\ modules[m] + by = a
      BY <2>2, <2>3 DEF Inside, NoAddress
    <3> HIDE DEF by
    <3>3. Resolve(text) = Wrapped(a)
      BY <2>5, <3>1, <3>2, ResolvePlus
    <3>4. Wrapped(a) = a
      BY <2>3 DEF Wrapped
    <3> QED BY <3>3, <3>4
  <2> QED BY <2>6, <2>7
<1> QED BY <1>1, <1>2

(* What describe() calls an address leads back to it, and an export is the    *)
(* code its forwarders lead to (SymbolTable.cpp, ExportResolver.cpp): for any *)
(* modules, wherever they are, exports, and symbols defined on the way.       *)
THEOREM LookupsDoAgree == SymbolSpec => []LookupsAgree
<1>1. SymbolInit => SymbolInv
  BY DEF SymbolInit, SymbolInv
<1>2. SymbolInv /\ [SymbolNext]_symbolVars => SymbolInv'
  <2> SUFFICES ASSUME SymbolInv, [SymbolNext]_symbolVars PROVE SymbolInv'
    OBVIOUS
  <2>1. ASSUME NEW layout \in Layouts, MoveTo(layout) PROVE SymbolInv'
    BY <2>1 DEF MoveTo, SymbolInv
  <2>2. CASE LeaveTarget
    BY <2>2 DEF LeaveTarget, SymbolInv
  <2>3. ASSUME UNCHANGED <<modules, haveTarget>> PROVE SymbolInv'
    BY <2>3 DEF SymbolInv
  <2> QED BY <2>1, <2>2, <2>3 DEF SymbolNext, symbolVars, ClearSymbols, Define, DefineFixed, Undefine
<1>3. SymbolInv => LookupsAgree
  BY SymbolAssumption, DescribedResolves, ExportIsCode DEF LookupsAgree
<1> QED BY <1>1, <1>2, <1>3, PTL DEF SymbolSpec

--------------------------------------------------------------------------------
(* Division                                                                   *)

LEMMA BaseFacts == Digit \in Nat /\ Digit > 1 /\ Base \in Nat /\ Base > Digit
<1>1. Digit \in Nat /\ Digit > 1
  BY InputsAssumption DEF ValuesAssumption
<1> QED BY <1>1 DEF Base

LEMMA Divided ==
  ASSUME NEW n \in Int, NEW c \in Nat, c > 0
  PROVE  n \div c \in Int /\ n % c \in 0 .. c - 1 /\ n = (c * (n \div c)) + (n % c)
OBVIOUS

(* A number is a multiple and a rest in one way only.                         *)
LEMMA OneRest ==
  ASSUME NEW c \in Nat, c > 0, NEW p \in Int, NEW q \in Int, NEW a \in 0 .. c - 1, NEW b \in 0 .. c - 1,
         c * p + a = c * q + b
  PROVE  p = q /\ a = b
<1>1. ASSUME NEW i \in Int, NEW j \in Int, i < j PROVE c * i + c <= c * j
  <2>1. j - i \in Nat /\ j - i >= 1
    BY <1>1
  <2>2. c * (j - i) >= c
    BY <2>1
  <2>3. c * (j - i) = c * j - c * i
    OBVIOUS
  <2>4. c * i \in Int /\ c * j \in Int
    OBVIOUS
  <2> QED BY <2>2, <2>3, <2>4
<1>2. c * p \in Int /\ c * q \in Int
  OBVIOUS
<1>3. ~(p < q)
  BY <1>1, <1>2
<1>4. ~(q < p)
  BY <1>1, <1>2
<1>5. p = q
  BY <1>3, <1>4
<1> QED BY <1>2, <1>5

--------------------------------------------------------------------------------
(* Numbers of bytes                                                           *)

(* What the last of some bytes are worth.                                     *)
Worth(b, f) ==
    /\ f \in [0 .. Len(b) -> Int] /\ f[0] = 0
    /\ \A n \in 1 .. Len(b) : f[n] = b[Len(b) - n + 1] + Base * f[n - 1]

LEMMA Numbered ==
  ASSUME NEW b \in Seq(Int)
  PROVE  \E f : Worth(b, f) /\ Number(b) = f[Len(b)]
<1> DEFINE N == Len(b)
           step == [n \in 1 .. N |-> [x \in Int |-> b[N - n + 1] + Base * x]]
           IsLast(f) == f = [n \in 0 .. N |-> IF n = 0 THEN 0 ELSE b[N - n + 1] + Base * f[n - 1]]
<1>0. N \in Nat /\ Base \in Nat /\ \A n \in 1 .. N : b[N - n + 1] \in Int
  BY BaseFacts
<1>i. 0 \in Int /\ \A n \in 1 .. N : n \in 0 .. N /\ n - 1 \in 0 .. N /\ n # 0
  BY <1>0
<1>p. \A x \in Int : Base * x \in Int
  BY <1>0
<1>1. Steps(step, N, Int)
  BY <1>0, <1>p DEF Steps
<1>2. PICK f \in [0 .. N -> Int] : f[0] = 0 /\ \A n \in 1 .. N : f[n] = step[n][f[n - 1]]
  <2> HIDE DEF step, N
  <2>1. \E f : Iterates(f, step, 0, N, Int)
    BY <1>0, <1>i, <1>1, Recursion
  <2> QED BY <2>1 DEF Iterates
<1>3. ASSUME NEW n \in 1 .. N PROVE f[n] = b[N - n + 1] + Base * f[n - 1]
  <2>1. f[n - 1] \in Int
    BY <1>i
  <2> QED BY <1>2, <2>1
<1>4. IsLast(f)
  <2>1. \A n \in 0 .. N : n = 0 \/ n \in 1 .. N
    BY <1>0
  <2> QED BY <1>2, <1>3, <2>1
<1>5. PICK g : IsLast(g) /\ Number(b) = g[N]
  BY <1>4 DEF Number
<1> HIDE DEF N
<1>6. g[0] = 0 /\ \A n \in 1 .. N : g[n] = b[N - n + 1] + Base * g[n - 1]
  <2>1. 0 \in 0 .. N /\ \A n \in 1 .. N : n \in 0 .. N /\ n # 0
    BY <1>0
  <2> QED BY <1>5, <2>1
<1> DEFINE P == {n \in 0 .. N : g[n] \in Int}
<1>7. 0 \in P
  BY <1>0, <1>6
<1>8. ASSUME NEW n \in 1 .. N, n - 1 \in P PROVE n \in P
  <2>1. g[n - 1] \in Int
    BY <1>8
  <2>2. Base * g[n - 1] \in Int
    BY <1>p, <2>1
  <2>3. b[N - n + 1] + Base * g[n - 1] \in Int
    BY <1>0, <2>2
  <2> QED BY <1>i, <1>6, <2>3
<1> HIDE DEF P
<1>9. \A n \in 0 .. N : n \in P
  BY <1>0, <1>7, <1>8, Upward
<1>10. g \in [0 .. N -> Int]
  BY <1>5, <1>9 DEF P
<1> QED BY <1>5, <1>6, <1>10 DEF Worth, N

(* The values a width has room for, width by width.                           *)
Rooms(w, f) ==
    /\ f \in [0 .. w -> Nat \ {0}] /\ f[0] = 1
    /\ \A k \in 1 .. w : f[k] = Base * f[k - 1]

LEMMA Roomy ==
  ASSUME NEW w \in Nat
  PROVE  \E f : Rooms(w, f) /\ Capacity(w) = f[w]
<1> DEFINE S == Nat \ {0}
           step == [n \in 1 .. w |-> [x \in S |-> Base * x]]
           IsCapacity(f) == f = [k \in 0 .. w |-> IF k = 0 THEN 1 ELSE Base * f[k - 1]]
<1>0. \A x \in S : Base * x \in S
  BY BaseFacts
<1>1. Steps(step, w, S)
  BY <1>0 DEF Steps
<1>2. PICK f \in [0 .. w -> S] : f[0] = 1 /\ \A n \in 1 .. w : f[n] = step[n][f[n - 1]]
  <2> HIDE DEF step
  <2>1. \E f : Iterates(f, step, 1, w, S)
    BY <1>1, Recursion
  <2> QED BY <2>1 DEF Iterates
<1>3. ASSUME NEW n \in 1 .. w PROVE f[n] = Base * f[n - 1]
  <2>1. f[n - 1] \in S
    OBVIOUS
  <2> QED BY <1>2, <2>1
<1>4. IsCapacity(f)
  <2>1. \A n \in 0 .. w : n = 0 \/ n \in 1 .. w
    OBVIOUS
  <2> QED BY <1>2, <1>3, <2>1
<1>5. PICK g : IsCapacity(g) /\ Capacity(w) = g[w]
  BY <1>4 DEF Capacity
<1>6. g[0] = 1 /\ \A n \in 1 .. w : g[n] = Base * g[n - 1]
  <2>1. 0 \in 0 .. w /\ \A n \in 1 .. w : n \in 0 .. w /\ n # 0
    OBVIOUS
  <2> QED BY <1>5, <2>1
<1> DEFINE P == {n \in 0 .. w : g[n] \in S}
<1>7. 0 \in P
  BY <1>6
<1>8. ASSUME NEW n \in 1 .. w, n - 1 \in P PROVE n \in P
  BY <1>0, <1>6, <1>8
<1> HIDE DEF P
<1>9. \A n \in 0 .. w : n \in P
  BY <1>7, <1>8, Upward
<1>10. g \in [0 .. w -> S]
  BY <1>5, <1>9 DEF P
<1> QED BY <1>5, <1>6, <1>10 DEF Rooms

(* Bytes are worth something their width has room for.                        *)
LEMMA NumberFits ==
  ASSUME NEW b \in Seq(Byte)
  PROVE  Number(b) \in Nat /\ Capacity(Len(b)) \in Nat /\ Number(b) < Capacity(Len(b))
<1> DEFINE N == Len(b)
<1>1. N \in Nat /\ b \in Seq(Int) /\ Base \in Nat /\ \A n \in 1 .. N : b[N - n + 1] \in 0 .. Base - 1
  <2>1. Byte \subseteq Int
    BY BaseFacts DEF Byte
  <2>2. \A n \in 1 .. N : b[N - n + 1] \in Byte
    OBVIOUS
  <2> QED BY <2>1, <2>2, BaseFacts DEF Byte
<1>2. PICK f : Worth(b, f) /\ Number(b) = f[N]
  BY <1>1, Numbered
<1>3. PICK c : Rooms(N, c) /\ Capacity(N) = c[N]
  BY <1>1, Roomy
<1> DEFINE P == {n \in 0 .. N : f[n] \in Nat /\ f[n] < c[n]}
<1>4. 0 \in P
  BY <1>1, <1>2, <1>3 DEF Worth, Rooms
<1>5. ASSUME NEW n \in 1 .. N, n - 1 \in P PROVE n \in P
  <2>0. n \in 0 .. N /\ n - 1 \in 0 .. N
    BY <1>1
  <2>1. f[n - 1] \in Nat /\ c[n - 1] \in Nat /\ f[n - 1] + 1 <= c[n - 1]
    <3>1. c[n - 1] \in Nat
      BY <1>3, <2>0 DEF Rooms
    <3> QED BY <1>5, <3>1
  <2>2. f[n] = b[N - n + 1] + Base * f[n - 1] /\ c[n] = Base * c[n - 1]
    BY <1>2, <1>3 DEF Worth, Rooms
  <2>3. Base * (f[n - 1] + 1) <= Base * c[n - 1]
    <3>1. ASSUME NEW x \in Nat, NEW y \in Nat, x <= y PROVE Base * x <= Base * y
      BY <1>1, <3>1
    <3> QED BY <2>1, <3>1
  <2>4. Base * (f[n - 1] + 1) = Base * f[n - 1] + Base /\ Base * f[n - 1] \in Nat /\ Base * c[n - 1] \in Nat
    <3>1. \A x \in Nat : Base * (x + 1) = Base * x + Base /\ Base * x \in Nat
      BY <1>1
    <3> QED BY <2>1, <3>1
  <2>5. b[N - n + 1] \in 0 .. Base - 1
    BY <1>1
  <2>6. f[n] \in Nat /\ f[n] < c[n]
    <3> DEFINE u == Base * f[n - 1]
               v == Base * c[n - 1]
    <3>1. u \in Nat /\ v \in Nat /\ u + Base <= v
      BY <2>3, <2>4
    <3> HIDE DEF u, v
    <3>2. b[N - n + 1] + u \in Nat /\ b[N - n + 1] + u < v
      BY <1>1, <2>5, <3>1
    <3> QED BY <2>2, <3>2 DEF u, v
  <2> QED BY <2>0, <2>6
<1> HIDE DEF P
<1>6. \A n \in 0 .. N : n \in P
  BY <1>1, <1>4, <1>5, Upward
<1>7. N \in 0 .. N
  BY <1>1
<1> QED BY <1>2, <1>3, <1>6, <1>7 DEF P, Rooms

(* No two byte strings of a width are worth the same.                         *)
LEMMA NumberTells ==
  ASSUME NEW N \in Nat, NEW a \in [1 .. N -> Byte], NEW b \in [1 .. N -> Byte], Number(a) = Number(b)
  PROVE  a = b
<1>1. /\ Base \in Nat /\ Base > 0 /\ a \in Seq(Int) /\ b \in Seq(Int) /\ Len(a) = N /\ Len(b) = N
      /\ \A n \in 1 .. N : a[N - n + 1] \in 0 .. Base - 1 /\ b[N - n + 1] \in 0 .. Base - 1
  <2>1. Byte \subseteq Int
    BY BaseFacts DEF Byte
  <2>2. \A n \in 1 .. N : a[N - n + 1] \in Byte /\ b[N - n + 1] \in Byte
    OBVIOUS
  <2>3. a \in Seq(Byte) /\ b \in Seq(Byte) /\ Len(a) = N /\ Len(b) = N
    OBVIOUS
  <2> QED BY <2>1, <2>2, <2>3, BaseFacts DEF Byte
<1>2. PICK f : Worth(a, f) /\ Number(a) = f[N]
  BY <1>1, Numbered
<1>3. PICK g : Worth(b, g) /\ Number(b) = g[N]
  BY <1>1, Numbered
<1> DEFINE P == {n \in 0 .. N : f[N - n] = g[N - n]}
<1>4. 0 \in P
  <2>1. N - 0 = N /\ 0 \in 0 .. N
    OBVIOUS
  <2> QED BY <1>2, <1>3, <2>1
<1>5. ASSUME NEW n \in 1 .. N, f[n] = g[n]
      PROVE  a[N - n + 1] = b[N - n + 1] /\ f[n - 1] = g[n - 1]
  <2> DEFINE p == f[n - 1]
             q == g[n - 1]
             x == a[N - n + 1]
             y == b[N - n + 1]
  <2>1. n \in 1 .. Len(a) /\ n \in 1 .. Len(b) /\ n - 1 \in 0 .. N
    BY <1>1
  <2>2. f[n] = x + Base * p /\ g[n] = y + Base * q /\ p \in Int /\ q \in Int
    BY <1>1, <1>2, <1>3, <2>1 DEF Worth
  <2>3. x \in 0 .. Base - 1 /\ y \in 0 .. Base - 1
    BY <1>1
  <2> HIDE DEF p, q, x, y
  <2>4. x + Base * p = y + Base * q
    BY <1>5, <2>2
  <2>5. Base * p + x = Base * q + y
    <3>1. Base * p \in Int /\ Base * q \in Int
      BY <1>1, <2>2
    <3>2. x \in Int /\ y \in Int
      BY <1>1, <2>3
    <3> QED BY <2>4, <3>1, <3>2
  <2>6. p = q /\ x = y
    <3>1. Base \in Nat /\ Base > 0 /\ p \in Int /\ q \in Int
      BY <1>1, <2>2
    <3> QED BY <2>3, <2>5, <3>1, OneRest
  <2> QED BY <2>6 DEF p, q, x, y
<1>6. ASSUME NEW n \in 1 .. N, n - 1 \in P PROVE n \in P
  <2>1. N - (n - 1) \in 1 .. N /\ (N - (n - 1)) - 1 = N - n
    OBVIOUS
  <2>2. f[N - (n - 1)] = g[N - (n - 1)]
    BY <1>6
  <2>3. f[N - n] = g[N - n]
    BY <1>5, <2>1, <2>2
  <2> QED BY <2>3
<1> HIDE DEF P
<1>7. \A n \in 0 .. N : n \in P
  BY <1>4, <1>6, Upward
<1>8. ASSUME NEW i \in 1 .. N PROVE a[i] = b[i]
  <2>1. N - i + 1 \in 1 .. N /\ N - (N - i + 1) + 1 = i /\ i - 1 \in 0 .. N /\ N - (i - 1) = N - i + 1
    OBVIOUS
  <2>2. f[N - (i - 1)] = g[N - (i - 1)]
    BY <1>7, <2>1 DEF P
  <2> QED BY <1>5, <2>1, <2>2
<1> QED BY <1>8

(* A zero as the most significant byte adds nothing.                          *)
LEMMA NumberWithZero ==
  ASSUME NEW b \in Seq(Int), NEW z \in Seq(Int), Len(z) = Len(b) + 1, z[Len(b) + 1] = 0,
         \A i \in 1 .. Len(b) : z[i] = b[i]
  PROVE  Number(z) = Number(b)
<1> DEFINE N == Len(b)
<1>1. N \in Nat /\ Base \in Nat
  BY BaseFacts
<1>2. PICK f : Worth(b, f) /\ Number(b) = f[N]
  BY Numbered
<1>3. PICK g : Worth(z, g) /\ Number(z) = g[N + 1]
  BY Numbered
<1> HIDE DEF N
<1> DEFINE P == {n \in 0 .. N : g[n + 1] = f[n]}
<1>4. ASSUME NEW n \in 1 .. N + 1 PROVE g[n] = z[(N + 1) - n + 1] + Base * g[n - 1]
  BY <1>3 DEF Worth, N
<1>5. 0 \in P
  <2>1. 1 \in 1 .. N + 1 /\ (N + 1) - 1 + 1 = N + 1 /\ 1 - 1 = 0
    BY <1>1
  <2>2. g[1] = z[N + 1] + Base * g[0]
    <3>1. g[1] = z[(N + 1) - 1 + 1] + Base * g[1 - 1]
      BY <1>4, <2>1
    <3> QED BY <2>1, <3>1
  <2>3. g[0] = 0 /\ f[0] = 0
    BY <1>2, <1>3 DEF Worth
  <2> QED BY <1>1, <2>2, <2>3 DEF N
<1>6. ASSUME NEW n \in 1 .. N, n - 1 \in P PROVE n \in P
  <2>1. n + 1 \in 1 .. N + 1 /\ (N + 1) - (n + 1) + 1 = N - n + 1 /\ (n + 1) - 1 = n /\ n - 1 \in 0 .. N
        /\ N - n + 1 \in 1 .. N /\ (n - 1) + 1 = n /\ n \in 0 .. N
    BY <1>1
  <2>2. g[n + 1] = z[N - n + 1] + Base * g[n]
    BY <1>4, <2>1
  <2>3. f[n] = b[N - n + 1] + Base * f[n - 1]
    BY <1>2 DEF Worth, N
  <2>4. g[n] = f[n - 1] /\ z[N - n + 1] = b[N - n + 1]
    BY <1>6, <2>1 DEF N
  <2> QED BY <2>1, <2>2, <2>3, <2>4
<1> HIDE DEF P
<1>7. \A n \in 0 .. N : n \in P
  BY <1>1, <1>5, <1>6, Upward
<1>8. g[N + 1] = f[N]
  BY <1>1, <1>7 DEF P
<1> QED BY <1>2, <1>3, <1>8
--------------------------------------------------------------------------------
(* Values of a type                                                           *)

LEMMA Spread ==
  ASSUME NEW c \in Int, NEW i \in Int, NEW j \in Int
  PROVE  c * i \in Int /\ c * (i + j) = c * i + c * j /\ c * (i - j) = c * i - c * j
OBVIOUS

LEMMA Width == \A t \in Whole : ValueTypeSize(t) \in Nat \ {0}
BY DEF ValueTypeSize, Whole, Signed, Unsigned

(* What does not fit is cut off as a multiple of what does.                   *)
LEMMA Packed ==
  ASSUME NEW t \in Whole, NEW n \in Int
  PROVE  /\ Pack(t, n) \in ValueOf(t)
         /\ \E q \in Int : Number(Pack(t, n)) = n - Capacity(ValueTypeSize(t)) * q
<1> DEFINE w == ValueTypeSize(t)
           step == [k \in 1 .. w |-> [x \in Int |-> x \div Base]]
           IsRest(f) == f = [k \in 0 .. w |-> IF k = 0 THEN n ELSE f[k - 1] \div Base]
           b == Pack(t, n)
<1>0. w \in Nat /\ w > 0 /\ Base \in Nat /\ Base > 0
  BY Width, BaseFacts
<1>d. \A x \in Int : x \div Base \in Int /\ x % Base \in 0 .. Base - 1 /\ x = (Base * (x \div Base)) + (x % Base)
  BY <1>0, Divided
<1> HIDE DEF w
<1>1. Steps(step, w, Int)
  BY <1>d DEF Steps
<1>2. PICK f \in [0 .. w -> Int] : f[0] = n /\ \A k \in 1 .. w : f[k] = step[k][f[k - 1]]
  <2> HIDE DEF step
  <2>1. \E f : Iterates(f, step, n, w, Int)
    BY <1>0, <1>1, Recursion
  <2> QED BY <2>1 DEF Iterates
<1>i. 0 \in 0 .. w /\ w \in 0 .. w /\ \A k \in 1 .. w : k \in 0 .. w /\ k - 1 \in 0 .. w /\ k # 0
  BY <1>0
<1>3. ASSUME NEW k \in 1 .. w PROVE f[k] = f[k - 1] \div Base
  <2>1. f[k - 1] \in Int
    BY <1>i
  <2> QED BY <1>2, <2>1
<1>4. IsRest(f)
  <2>1. \A k \in 0 .. w : k = 0 \/ k \in 1 .. w
    BY <1>0
  <2> QED BY <1>2, <1>3, <2>1
<1>5. PICK g : IsRest(g) /\ b = [i \in 1 .. w |-> g[i - 1] % Base]
  <2> DEFINE G == CHOOSE g : IsRest(g)
  <2>1. IsRest(G)
    BY <1>4
  <2>2. b = [i \in 1 .. w |-> G[i - 1] % Base]
    BY DEF Pack, w
  <2> HIDE DEF G, b, IsRest
  <2> QED BY <2>1, <2>2
<1> HIDE DEF b
<1>6. g[0] = n /\ \A k \in 1 .. w : g[k] = g[k - 1] \div Base
  BY <1>5, <1>i
<1> DEFINE P == {k \in 0 .. w : g[k] \in Int}
<1>7. 0 \in P
  BY <1>6, <1>i
<1>8. ASSUME NEW k \in 1 .. w, k - 1 \in P PROVE k \in P
  <2>1. g[k - 1] \in Int
    BY <1>8
  <2>2. g[k - 1] \div Base \in Int
    BY <1>d, <2>1
  <2> QED BY <1>6, <1>i, <2>2
<1> HIDE DEF P
<1>9. \A k \in 0 .. w : g[k] \in Int
  <2>1. \A k \in 0 .. w : k \in P
    BY <1>0, <1>7, <1>8, Upward
  <2> QED BY <2>1 DEF P
<1>10. b \in [1 .. w -> Byte] /\ b \in Seq(Int) /\ Len(b) = w
  <2>1. \A i \in 1 .. w : g[i - 1] % Base \in 0 .. Base - 1
    BY <1>9, <1>d, <1>i
  <2>2. 0 .. Base - 1 \subseteq Int
    BY <1>0
  <2>3. b \in [1 .. w -> 0 .. Base - 1]
    BY <1>5, <2>1
  <2>4. b \in [1 .. w -> Int]
    BY <2>2, <2>3
  <2> QED BY <1>0, <2>3, <2>4 DEF Byte
<1>11. PICK s : Worth(b, s) /\ Number(b) = s[w]
  BY <1>10, Numbered
<1>12. PICK c : Rooms(w, c) /\ Capacity(w) = c[w]
  BY <1>0, Roomy
<1> DEFINE q == g[w]
           R == {k \in 0 .. w : s[k] = g[w - k] - c[k] * q}
<1>13. q \in Int
  BY <1>9, <1>i
<1>14. 0 \in R
  <2>1. s[0] = 0 /\ c[0] = 1 /\ w - 0 = w
    BY <1>0, <1>11, <1>12 DEF Worth, Rooms
  <2>2. 1 * q = q /\ q - q = 0
    BY <1>13
  <2> QED BY <2>1, <2>2, <1>i
<1>15. ASSUME NEW k \in 1 .. w, k - 1 \in R PROVE k \in R
  <2>1. w - k + 1 \in 1 .. w /\ (w - k + 1) - 1 = w - k /\ w - (k - 1) = w - k + 1 /\ w - k \in 0 .. w
    BY <1>0
  <2>2. s[k] = b[w - k + 1] + Base * s[k - 1]
    BY <1>10, <1>11 DEF Worth
  <2>3. b[w - k + 1] = g[w - k] % Base
    BY <1>5, <2>1
  <2>4. s[k - 1] = g[w - k + 1] - c[k - 1] * q /\ g[w - k + 1] = g[w - k] \div Base /\ c[k] = Base * c[k - 1]
    BY <1>6, <1>12, <1>15, <2>1 DEF Rooms
  <2> DEFINE x == g[w - k]
             y == c[k - 1]
             d == x \div Base
             r == x % Base
  <2>5. x \in Int /\ y \in Int
    <3>1. c \in [0 .. w -> Nat \ {0}] /\ k - 1 \in 0 .. w
      BY <1>12, <1>i DEF Rooms
    <3>2. y \in Int
      BY <3>1
    <3>3. x \in Int
      BY <1>9, <2>1
    <3> QED BY <3>2, <3>3
  <2>6. d \in Int /\ r \in Int /\ x = (Base * d) + r
    <3> HIDE DEF x
    <3>1. d \in Int /\ r \in 0 .. Base - 1 /\ x = (Base * d) + r
      BY <1>d, <2>5
    <3> QED BY <1>0, <3>1
  <2>7. s[k] = r + Base * (d - y * q) /\ c[k] = Base * y
    BY <2>2, <2>3, <2>4
  <2> HIDE DEF x, y, d, r, q
  <2>8. Base * (d - y * q) = Base * d - Base * (y * q) /\ Base * (y * q) = (Base * y) * q
    <3>1. y * q \in Int
      BY <1>13, <2>5
    <3>2. Base * (y * q) = (Base * y) * q
      BY <1>0, <1>13, <2>5
    <3> QED BY <1>0, <2>6, <3>1, <3>2, Spread
  <2>9. Base * d \in Int /\ (Base * y) * q \in Int
    <3>1. Base * y \in Int
      BY <1>0, <2>5
    <3> QED BY <1>0, <1>13, <2>6, <3>1
  <2>10. s[k] = x - c[k] * q
    BY <2>6, <2>7, <2>8, <2>9
  <2> QED BY <1>i, <2>10 DEF x
<1> HIDE DEF R, q
<1>16. \A k \in 0 .. w : k \in R
  BY <1>0, <1>14, <1>15, Upward
<1>17. s[w] = g[w - w] - c[w] * q /\ w - w = 0
  BY <1>0, <1>16, <1>i DEF R
<1> QED BY <1>6, <1>10, <1>11, <1>12, <1>13, <1>17 DEF b, w, ValueOf

(* The number of a type that so many in unsigned bytes are.                   *)
SignedAs(t, n) == IF t \in Signed /\ 2 * n >= Capacity(ValueTypeSize(t)) THEN n - Capacity(ValueTypeSize(t)) ELSE n

LEMMA Unpacked ==
  ASSUME NEW t \in Whole, NEW b \in ValueOf(t)
  PROVE  /\ Capacity(ValueTypeSize(t)) \in Nat \ {0} /\ Number(b) \in 0 .. Capacity(ValueTypeSize(t)) - 1
         /\ Unpack(t, b) = SignedAs(t, Number(b))
<1> DEFINE w == ValueTypeSize(t)
<1>1. w \in Nat /\ b \in [1 .. w -> Byte]
  BY Width DEF ValueOf
<1> HIDE DEF w
<1>2. b \in Seq(Byte) /\ Len(b) = w
  BY <1>1
<1>3. SubSeq(b, 1, w) = b
  BY <1>1, <1>2
<1>4. Number(b) \in Nat /\ Capacity(w) \in Nat /\ Number(b) < Capacity(w)
  BY <1>2, NumberFits
<1>5. Unpack(t, b) = SignedAs(t, Number(b))
  <2> DEFINE m == Number(SubSeq(b, 1, w))
  <2>1. Unpack(t, b) = (IF t \notin Whole \/ Len(b) < w THEN 0
                        ELSE IF t \in Signed /\ 2 * m >= Capacity(w) THEN m - Capacity(w) ELSE m)
    BY DEF Unpack, w
  <2>2. m = Number(b)
    BY <1>3
  <2> HIDE DEF m
  <2>3. ~(t \notin Whole \/ Len(b) < w)
    BY <1>1, <1>2
  <2> QED BY <2>1, <2>2, <2>3 DEF SignedAs, w
<1> QED BY <1>4, <1>5 DEF w

(* The number read is that of the bytes up to a multiple of what fits, and    *)
(* tells them.                                                                *)
LEMMA UnpackFacts ==
  ASSUME NEW t \in Whole, NEW a \in ValueOf(t), NEW b \in ValueOf(t)
  PROVE  /\ Unpack(t, a) \in Int
         /\ \E k \in Int : Unpack(t, a) = Number(a) - Capacity(ValueTypeSize(t)) * k
         /\ Unpack(t, a) = Unpack(t, b) <=> a = b
<1> DEFINE w == ValueTypeSize(t)
           c == Capacity(w)
<1>1. /\ c \in Nat /\ c > 0 /\ Number(a) \in 0 .. c - 1 /\ Number(b) \in 0 .. c - 1
      /\ Unpack(t, a) = SignedAs(t, Number(a)) /\ Unpack(t, b) = SignedAs(t, Number(b))
  BY Unpacked
<1>2. w \in Nat /\ a \in [1 .. w -> Byte] /\ b \in [1 .. w -> Byte]
  BY Width DEF ValueOf
<1>3. \A n \in 0 .. c - 1 : SignedAs(t, n) = (IF t \in Signed /\ 2 * n >= c THEN n - c ELSE n)
  BY DEF SignedAs
<1> HIDE DEF w, c
<1>4. \A m, n \in 0 .. c - 1 : SignedAs(t, m) = SignedAs(t, n) => m = n
  BY <1>1, <1>3
<1>5. Unpack(t, a) = Unpack(t, b) <=> a = b
  BY <1>1, <1>2, <1>4, NumberTells
<1>6. c * 0 = 0 /\ c * 1 = c /\ 0 \in Int /\ 1 \in Int
  BY <1>1
<1>7. SignedAs(t, Number(a)) = Number(a) - c * 0 \/ SignedAs(t, Number(a)) = Number(a) - c * 1
  BY <1>1, <1>3, <1>6
<1>8. \E k \in Int : Unpack(t, a) = Number(a) - c * k
  BY <1>1, <1>6, <1>7
<1>9. Unpack(t, a) \in Int
  BY <1>1, <1>3
<1> QED BY <1>5, <1>8, <1>9 DEF c, w

(* Arithmetic in a type is that of integers up to a multiple of what fits.    *)
LEMMA Wraps ==
  ASSUME NEW t \in Whole, NEW b \in ValueOf(t), NEW n \in Int
  PROVE  Unpack(t, b) = Wrap(t, n) <=> \E q \in Int : Unpack(t, b) = n + Capacity(ValueTypeSize(t)) * q
<1> DEFINE c == Capacity(ValueTypeSize(t))
           p == Pack(t, n)
<1>1. p \in ValueOf(t) /\ Wrap(t, n) = Unpack(t, p)
  BY Packed DEF Wrap
<1>2. PICK i \in Int : Number(p) = n - c * i
  BY Packed
<1>3. /\ c \in Nat /\ c > 0 /\ Number(p) \in 0 .. c - 1 /\ Number(b) \in 0 .. c - 1
      /\ Unpack(t, p) = SignedAs(t, Number(p)) /\ Unpack(t, b) = SignedAs(t, Number(b))
  BY <1>1, Unpacked
<1>4. PICK j \in Int : Unpack(t, p) = Number(p) - c * j
  BY <1>1, UnpackFacts
<1>5. PICK k \in Int : Unpack(t, b) = Number(b) - c * k
  BY UnpackFacts
<1> HIDE DEF c, p
<1>m. \A x, y \in Int : c * x \in Int /\ c * (x + y) = c * x + c * y /\ c * (x - y) = c * x - c * y
  BY <1>3, Spread
<1>6. ASSUME Unpack(t, b) = Wrap(t, n) PROVE \E q \in Int : Unpack(t, b) = n + c * q
  <2>1. Unpack(t, b) = n - c * i - c * j
    BY <1>1, <1>2, <1>4, <1>6
  <2>2. 0 - (i + j) \in Int /\ i + j \in Int /\ 0 \in Int
    OBVIOUS
  <2>3. c * (0 - (i + j)) = c * 0 - c * (i + j) /\ c * (i + j) = c * i + c * j /\ c * i \in Int /\ c * j \in Int
    BY <1>m, <2>2
  <2>4. c * 0 = 0
    BY <1>3
  <2>5. Unpack(t, b) = n + c * (0 - (i + j))
    BY <2>1, <2>3, <2>4
  <2> QED BY <2>2, <2>5
<1>7. ASSUME NEW q \in Int, Unpack(t, b) = n + c * q PROVE Unpack(t, b) = Wrap(t, n)
  <2>1. c * i \in Int /\ c * k \in Int /\ c * q \in Int /\ i + q \in Int
    BY <1>m
  <2>2. c * (i + q) = c * i + c * q /\ c * (i + q) \in Int
    BY <1>m, <2>1
  <2>3. Number(b) = n + c * q + c * k /\ Number(p) = n - c * i
    BY <1>2, <1>3, <1>5, <1>7, <2>1
  <2>4. c * (i + q) + Number(p) = Number(b) - c * k
    BY <1>3, <2>1, <2>2, <2>3
  <2>5. i + q + k \in Int /\ c * ((i + q) + k) = c * (i + q) + c * k
    BY <1>m, <2>1
  <2>6. c * ((i + q) + k) + Number(p) = c * 0 + Number(b)
    BY <1>3, <2>1, <2>2, <2>4, <2>5
  <2>7. Number(p) = Number(b)
    <3>1. (i + q) + k \in Int /\ 0 \in Int
      OBVIOUS
    <3> QED BY <1>3, <2>6, <3>1, OneRest
  <2> QED BY <1>1, <1>3, <2>7
<1> QED BY <1>6, <1>7 DEF c

(* What is more by some is what it is more than less by as much.              *)
LEMMA RiseIsFall ==
  ASSUME NEW t \in Whole, NEW a \in ValueOf(t), NEW b \in ValueOf(t), NEW n \in Int
  PROVE  Unpack(t, a) = Wrap(t, Unpack(t, b) + n) <=> Unpack(t, b) = Wrap(t, Unpack(t, a) - n)
<1> DEFINE c == Capacity(ValueTypeSize(t))
           x == Unpack(t, a)
           y == Unpack(t, b)
<1>1. c \in Int /\ x \in Int /\ y \in Int
  BY Unpacked, UnpackFacts
<1>2. /\ x = Wrap(t, y + n) <=> \E q \in Int : x = (y + n) + c * q
      /\ y = Wrap(t, x - n) <=> \E q \in Int : y = (x - n) + c * q
  BY <1>1, Wraps
<1> HIDE DEF c, x, y
<1>m. \A q \in Int : c * q \in Int /\ c * (0 - q) = 0 - c * q /\ 0 - q \in Int
  <2>1. c * 0 = 0
    BY <1>1
  <2> QED BY <1>1, <2>1, Spread
<1>3. ASSUME NEW q \in Int, x = (y + n) + c * q PROVE \E r \in Int : y = (x - n) + c * r
  <2>1. y = (x - n) + c * (0 - q)
    BY <1>1, <1>3, <1>m
  <2> QED BY <2>1, <1>m
<1>4. ASSUME NEW q \in Int, y = (x - n) + c * q PROVE \E r \in Int : x = (y + n) + c * r
  <2>1. x = (y + n) + c * (0 - q)
    BY <1>1, <1>4, <1>m
  <2> QED BY <2>1, <1>m
<1> QED BY <1>2, <1>3, <1>4 DEF x, y

(* The laws of comparison, for any two values and a step or bound.            *)
LEMMA CompareLaws ==
  ASSUME NEW t \in Whole, NEW a \in ValueOf(t), NEW b \in ValueOf(t), NEW d \in ValueOf(t)
  PROVE  LET Rises(mode, c, p) == RelativeCompare(mode, t, c, p, d)
             Matches(mode, low, high) == AbsoluteCompare(mode, t, a, low, high) IN
         /\ Rises("increased", a, b) <=> Rises("decreased", b, a)
         /\ Rises("increasedBy", a, b) <=> Rises("decreasedBy", b, a)
         /\ (Rises("increased", a, b) \/ Rises("decreased", a, b)) <=> a # b
         /\ Matches("between", b, d) <=> Matches("between", d, b)
         /\ Matches("between", b, d) <=>
              ~(\/ Matches("smaller", b, << >>) /\ Matches("smaller", d, << >>)
                \/ Matches("bigger", b, << >>) /\ Matches("bigger", d, << >>))
<1> DEFINE x == Unpack(t, a)
           y == Unpack(t, b)
           z == Unpack(t, d)
<1>1. x \in Int /\ y \in Int /\ z \in Int /\ (x = y <=> a = b)
  BY UnpackFacts
<1>2. Len(a) >= ValueTypeSize(t)
  <2>1. ValueTypeSize(t) \in Nat
    BY Width
  <2> QED BY <2>1 DEF ValueOf
<1>3. x = Wrap(t, y + z) <=> y = Wrap(t, x - z)
  BY <1>1, RiseIsFall
<1>4. /\ RelativeCompare("increased", t, a, b, d) <=> x > y
      /\ RelativeCompare("decreased", t, b, a, d) <=> y < x
      /\ RelativeCompare("decreased", t, a, b, d) <=> x < y
      /\ RelativeCompare("increasedBy", t, a, b, d) <=> x = Wrap(t, y + z)
      /\ RelativeCompare("decreasedBy", t, b, a, d) <=> y = Wrap(t, x - z)
  BY DEF RelativeCompare
<1>5. /\ AbsoluteCompare("smaller", t, a, b, << >>) <=> x < y
      /\ AbsoluteCompare("smaller", t, a, d, << >>) <=> x < z
      /\ AbsoluteCompare("bigger", t, a, b, << >>) <=> x > y
      /\ AbsoluteCompare("bigger", t, a, d, << >>) <=> x > z
  BY <1>2 DEF AbsoluteCompare
<1>6. /\ AbsoluteCompare("between", t, a, b, d) <=> Ordered(y, z)[1] <= x /\ x <= Ordered(y, z)[2]
      /\ AbsoluteCompare("between", t, a, d, b) <=> Ordered(z, y)[1] <= x /\ x <= Ordered(z, y)[2]
  BY <1>2 DEF AbsoluteCompare
<1> HIDE DEF x, y, z
<1>7. \A i, j \in Int : /\ Ordered(i, j)[1] = (IF i <= j THEN i ELSE j)
                        /\ Ordered(i, j)[2] = (IF i <= j THEN j ELSE i)
  BY DEF Ordered
<1>8. AbsoluteCompare("between", t, a, b, d) <=> AbsoluteCompare("between", t, a, d, b)
  BY <1>1, <1>6, <1>7
<1>9. AbsoluteCompare("between", t, a, b, d) <=> ~((x < y /\ x < z) \/ (x > y /\ x > z))
  BY <1>1, <1>6, <1>7
<1>10. x > y <=> y < x
  BY <1>1
<1>11. (x > y \/ x < y) <=> a # b
  BY <1>1
<1> QED BY <1>3, <1>4, <1>5, <1>8, <1>9, <1>10, <1>11

--------------------------------------------------------------------------------
(* Text                                                                       *)

Digits == 0 .. Digit - 1

(* Where nothing but digits is between the spaces, the digits are what is.    *)
LEMMA SameDigits ==
  ASSUME NEW text \in Seq(Nat), NEW compact, compact = Unspaced(text),
         \A k \in DOMAIN compact : IsDigit(compact[k]) \/ compact[k] = Prefix
  PROVE  compact \in Seq(Nat) /\ DigitsOf(text) = Spelled(compact)
<1> DEFINE I == {i \in DOMAIN text : text[i] # Space}
           J == {i \in DOMAIN text : IsDigit(Spelled(text)[i])}
           m == Cardinality(I)
           g == Ascending(I)
<1>1. compact = Picked(text, I) /\ I \in SUBSET (DOMAIN text)
  BY DEF Unspaced
<1>2. compact \in Seq(Nat) /\ \A i \in I : \E k \in DOMAIN compact : compact[k] = text[i]
  <2> HIDE DEF I, J
  <2> QED BY <1>1, PickedFacts
<1>3. \A i \in DOMAIN text : Spelled(text)[i] = (IF text[i] = Prefix THEN 0 ELSE text[i]) /\ text[i] \in Nat
  BY DEF Spelled
<1>4. J = I
  <2>1. ASSUME NEW i \in I PROVE i \in J
    <3>1. IsDigit(text[i]) \/ text[i] = Prefix
      BY <1>2
    <3> QED BY <1>3, <3>1, BaseFacts DEF IsDigit
  <2>2. ASSUME NEW i \in J PROVE i \in I
    BY <1>3, BaseFacts DEF IsDigit, Space, Prefix
  <2> QED BY <2>1, <2>2
<1>5. IsFiniteSet(I) /\ I \in SUBSET Int
  <2>1. IsFiniteSet(1 .. Len(text)) /\ DOMAIN text = 1 .. Len(text)
    BY FS_Interval
  <2>2. I \in SUBSET (1 .. Len(text)) /\ 1 .. Len(text) \subseteq Int
    BY <2>1
  <2> HIDE DEF I
  <2> QED BY <2>1, <2>2, FS_Subset
<1> HIDE DEF I, J
<1>6. m \in Nat /\ g \in [1 .. m -> I]
  BY <1>5, AscendingFacts
<1> HIDE DEF g, m
<1>7. /\ compact = [k \in 1 .. m |-> text[g[k]]]
      /\ DigitsOf(text) = [k \in 1 .. m |-> Spelled(text)[g[k]]]
  BY <1>1, <1>4 DEF DigitsOf, Picked, J, g, m
<1>8. Spelled(compact) = [k \in 1 .. m |-> IF compact[k] = Prefix THEN 0 ELSE compact[k]]
  BY <1>7 DEF Spelled
<1>9. \A k \in 1 .. m : Spelled(text)[g[k]] = (IF compact[k] = Prefix THEN 0 ELSE compact[k])
  <2>1. \A k \in 1 .. m : g[k] \in DOMAIN text /\ compact[k] = text[g[k]]
    BY <1>1, <1>6, <1>7
  <2> QED BY <1>3, <2>1
<1>10. DigitsOf(text) = Spelled(compact)
  BY <1>7, <1>8, <1>9
<1> QED BY <1>2, <1>10

LEMMA OnlyDigits ==
  ASSUME NEW text \in Seq(Nat), NEW compact, compact = Unspaced(text), \A k \in DOMAIN compact : IsDigit(compact[k])
  PROVE  compact \in Seq(Digits) /\ DigitsOf(text) = compact
<1>1. compact \in Seq(Nat) /\ DigitsOf(text) = Spelled(compact)
  BY SameDigits
<1>2. \A k \in DOMAIN compact : compact[k] # Prefix /\ compact[k] \in Digits
  BY <1>1, BaseFacts DEF IsDigit, Prefix, Digits
<1>3. Spelled(compact) = compact
  BY <1>1, <1>2 DEF Spelled
<1>4. compact \in Seq(Digits)
  BY <1>1, <1>2
<1> QED BY <1>1, <1>3, <1>4

(* Bytes of digits begin at every other one.                                  *)
LEMMA StartsOfDigits ==
  ASSUME NEW c \in Seq(Digits)
  PROVE  ByteStarts(c) = {2 * i - 1 : i \in 1 .. (Len(c) + 1) \div 2}
<1> DEFINE N == Len(c)
           M == (N + 1) \div 2
           Next1(x) == IF x > N THEN x ELSE x + (IF Lone(c, x) THEN 1 ELSE 2)
           step == [n \in 1 .. N |-> [x \in Int |-> Next1(x)]]
           IsAt(f) == f = [n \in 0 .. N |-> IF n = 0 THEN 1 ELSE Next1(f[n - 1])]
<1>0. N \in Nat /\ M \in Nat /\ M <= N /\ N <= 2 * M /\ 2 * M <= N + 1 /\ DOMAIN c = 1 .. N
  OBVIOUS
<1>l. \A x \in 1 .. N : ~Lone(c, x)
  <2>1. \A x \in 1 .. N : c[x] \in Digits
    OBVIOUS
  <2> QED BY <2>1, BaseFacts DEF Lone, Digits, Wild
<1>1. Steps(step, N, Int)
  BY DEF Steps
<1> HIDE DEF N, M
<1>2. PICK f \in [0 .. N -> Int] : f[0] = 1 /\ \A n \in 1 .. N : f[n] = step[n][f[n - 1]]
  <2> HIDE DEF step
  <2>1. 1 \in Int
    OBVIOUS
  <2>2. \E f : Iterates(f, step, 1, N, Int)
    BY <1>0, <1>1, <2>1, Recursion
  <2> QED BY <2>2 DEF Iterates
<1>i. 0 \in 0 .. N /\ \A n \in 1 .. N : n \in 0 .. N /\ n - 1 \in 0 .. N /\ n # 0
  BY <1>0
<1>3. ASSUME NEW n \in 1 .. N PROVE f[n] = Next1(f[n - 1])
  <2>1. f[n - 1] \in Int
    BY <1>i
  <2> HIDE DEF Next1
  <2> QED BY <1>2, <2>1
<1> HIDE DEF Next1
<1>4. IsAt(f)
  <2>1. \A n \in 0 .. N : n = 0 \/ n \in 1 .. N
    BY <1>0
  <2> QED BY <1>2, <1>3, <2>1
<1>5. PICK g : IsAt(g) /\ ByteStarts(c) = {g[n] : n \in 0 .. N} \cap DOMAIN c
  <2> DEFINE G == CHOOSE g : IsAt(g)
  <2>1. IsAt(G)
    BY <1>4
  <2>2. ByteStarts(c) = {G[n] : n \in 0 .. N} \cap DOMAIN c
    BY DEF ByteStarts, N, Next1
  <2> HIDE DEF G, IsAt
  <2> QED BY <2>1, <2>2
<1>6. g[0] = 1 /\ \A n \in 1 .. N : g[n] = Next1(g[n - 1])
  BY <1>5, <1>i
<1> DEFINE P == {n \in 0 .. N : g[n] = 1 + 2 * (IF n <= M THEN n ELSE M)}
<1>7. 0 \in P
  BY <1>0, <1>6, <1>i
<1>8. ASSUME NEW n \in 1 .. N, n - 1 \in P PROVE n \in P
  <2>1. g[n - 1] = 1 + 2 * (IF n - 1 <= M THEN n - 1 ELSE M)
    BY <1>8
  <2>2. g[n] = Next1(g[n - 1])
    BY <1>6
  <2>3. CASE n <= M
    <3>1. g[n - 1] = 2 * n - 1 /\ 2 * n - 1 \in 1 .. N
      BY <1>0, <2>1, <2>3
    <3>2. Next1(2 * n - 1) = 2 * n + 1
      BY <1>0, <1>l, <3>1 DEF Next1
    <3>3. g[n] = 1 + 2 * n
      BY <2>2, <3>1, <3>2
    <3> QED BY <1>i, <2>3, <3>3
  <2>4. CASE n > M
    <3>1. g[n - 1] = 2 * M + 1 /\ 2 * M + 1 > N
      BY <1>0, <2>1, <2>4
    <3>2. g[n] = 1 + 2 * M
      BY <1>0, <2>2, <3>1 DEF Next1
    <3>3. ~(n <= M)
      BY <1>0, <2>4
    <3> QED BY <1>i, <3>2, <3>3
  <2> QED BY <1>0, <2>3, <2>4
<1> HIDE DEF P
<1>9. \A n \in 0 .. N : g[n] = 1 + 2 * (IF n <= M THEN n ELSE M)
  <2>1. \A n \in 0 .. N : n \in P
    BY <1>0, <1>7, <1>8, Upward
  <2> QED BY <2>1 DEF P
<1>10. ASSUME NEW x \in ByteStarts(c) PROVE \E i \in 1 .. M : x = 2 * i - 1
  <2>1. PICK n \in 0 .. N : x = g[n] /\ x \in 1 .. N
    BY <1>0, <1>5
  <2>2. n < M /\ x = 1 + 2 * n
    BY <1>0, <1>9, <2>1
  <2>3. n + 1 \in 1 .. M /\ x = 2 * (n + 1) - 1
    BY <1>0, <2>2
  <2> QED BY <2>3
<1>11. ASSUME NEW i \in 1 .. M PROVE 2 * i - 1 \in ByteStarts(c)
  <2>1. i - 1 \in 0 .. N /\ i - 1 <= M /\ 2 * i - 1 \in 1 .. N /\ 1 + 2 * (i - 1) = 2 * i - 1
    BY <1>0
  <2>2. g[i - 1] = 2 * i - 1
    BY <1>9, <2>1
  <2> QED BY <1>0, <1>5, <2>1, <2>2
<1> QED BY <1>10, <1>11 DEF M, N

LEMMA PickedOdd ==
  ASSUME NEW M \in Nat, NEW s, NEW I, I = {2 * i - 1 : i \in 1 .. M}
  PROVE  Picked(s, I) = [i \in 1 .. M |-> s[2 * i - 1]]
<1> DEFINE g == [i \in 1 .. M |-> 2 * i - 1]
<1>1. g \in [1 .. M -> Int] /\ Increases(g)
  BY DEF Increases
<1>2. \A i \in 1 .. M : g[i] = 2 * i - 1
  OBVIOUS
<1> HIDE DEF g
<1>3. (\A i \in 1 .. M : g[i] \in I) /\ (\A x \in I : \E i \in 1 .. M : g[i] = x)
  BY <1>2
<1>4. Cardinality(I) = M /\ Ascending(I) = g
  BY <1>1, <1>3, AscendingOf
<1>5. Picked(s, I) = [i \in 1 .. M |-> s[g[i]]]
  BY <1>4 DEF Picked
<1> QED BY <1>2, <1>5

(* A pattern of digits is taken when it is of whole bytes, and is those.      *)
LEMMA PatternOfDigits ==
  ASSUME NEW text \in Seq(Nat), NEW c, c = Unspaced(text), \A k \in DOMAIN c : IsDigit(c[k])
  PROVE  ParseHexPattern(text).bytes = IF Len(c) % 2 = 0 THEN Pairs(c) ELSE << >>
<1> DEFINE N == Len(c)
           M == (N + 1) \div 2
           I == ByteStarts(c)
           half(k) == IsDigit(c[k]) /\ (k = N \/ ~IsDigit(c[k + 1]))
           byte == [k \in DOMAIN c |-> IF k \in I /\ IsDigit(c[k]) THEN c[k] * Digit + c[k + 1] ELSE 0]
<1>1. c \in Seq(Digits)
  BY OnlyDigits
<1>2. N \in Nat /\ M \in Nat /\ DOMAIN c = 1 .. N /\ I = {2 * i - 1 : i \in 1 .. M}
  BY <1>1, StartsOfDigits
<1>3. ParseHexPattern(text).bytes = IF \E k \in I : half(k) THEN << >> ELSE Picked(byte, I)
  BY DEF ParseHexPattern, NoPattern
<1> HIDE DEF I, byte
<1>4. CASE N % 2 = 0
  <2>1. M = N \div 2 /\ N = 2 * M
    <3>1. N \in Nat
      BY <1>2
    <3> HIDE DEF N
    <3> QED BY <1>4, <3>1 DEF M
  <2>2. ASSUME NEW k \in I PROVE ~half(k)
    <3>1. PICK i \in 1 .. M : k = 2 * i - 1
      BY <1>2
    <3>2. k # N /\ k + 1 \in DOMAIN c
      BY <1>2, <2>1, <3>1
    <3> QED BY <3>2
  <2>4. Picked(byte, I) = [i \in 1 .. M |-> byte[2 * i - 1]]
    <3>1. M \in Nat
      BY <1>2
    <3> HIDE DEF M
    <3> QED BY <1>2, <3>1, PickedOdd
  <2>5. \A i \in 1 .. M : byte[2 * i - 1] = c[2 * i - 1] * Digit + c[2 * i]
    <3>1. \A i \in 1 .. M : 2 * i - 1 \in DOMAIN c /\ 2 * i - 1 \in I /\ (2 * i - 1) + 1 = 2 * i
      BY <1>2, <2>1
    <3> QED BY <3>1 DEF byte
  <2>6. Picked(byte, I) = [i \in 1 .. M |-> c[2 * i - 1] * Digit + c[2 * i]]
    BY <2>4, <2>5
  <2>7. Pairs(c) = [i \in 1 .. M |-> c[2 * i - 1] * Digit + c[2 * i]]
    BY <2>1 DEF Pairs
  <2> QED BY <1>3, <1>4, <2>2, <2>6, <2>7
<1>5. CASE N % 2 # 0
  <2>1. M \in 1 .. M /\ 2 * M - 1 = N /\ N \in DOMAIN c
    BY <1>2, <1>5
  <2>2. N \in I
    BY <1>2, <2>1
  <2>3. half(N)
    BY <2>1
  <2> QED BY <1>3, <1>5, <2>2, <2>3
<1> QED BY <1>4, <1>5

(* The digits of bytes written down, two of each.                             *)
DigitPairs(b) == [j \in 1 .. 2 * Len(b) |-> IF j % 2 = 1 THEN b[(j + 1) \div 2] \div Digit ELSE b[j \div 2] % Digit]

LEMMA ByteDigits ==
  ASSUME NEW x \in Byte
  PROVE  x \div Digit \in Digits /\ x % Digit \in Digits /\ (x \div Digit) * Digit + (x % Digit) = x
<1>1. Digit \in Nat /\ Digit > 1 /\ x \in Nat /\ x < Digit * Digit
  BY BaseFacts DEF Byte, Base
<1>2. x \div Digit \in Int /\ x % Digit \in 0 .. Digit - 1 /\ x = (Digit * (x \div Digit)) + (x % Digit)
  BY <1>1, Divided
<1> DEFINE q == x \div Digit
           r == x % Digit
<1>3. q \in Int /\ r \in Int /\ 0 <= r /\ r < Digit /\ x = Digit * q + r
  BY <1>1, <1>2
<1> HIDE DEF q, r
<1>4. q >= 0
  <2> SUFFICES ASSUME q <= -1 PROVE FALSE
    BY <1>3
  <2>1. Digit * q <= -Digit
    BY <1>1, <1>3
  <2> QED BY <1>1, <1>3, <2>1
<1>5. q < Digit
  <2> SUFFICES ASSUME q >= Digit PROVE FALSE
    BY <1>1, <1>3
  <2>1. Digit * q >= Digit * Digit
    BY <1>1, <1>3
  <2> QED BY <1>1, <1>3, <2>1
<1>6. q * Digit = Digit * q
  BY <1>1, <1>3
<1> QED BY <1>1, <1>3, <1>4, <1>5, <1>6 DEF q, r, Digits

LEMMA HexUnspaced ==
  ASSUME NEW b \in Seq(Byte), b # << >>
  PROVE  /\ BytesToHex(b) \in Seq(Nat)
         /\ Unspaced(BytesToHex(b)) = DigitPairs(b)
         /\ \A k \in DOMAIN DigitPairs(b) : IsDigit(DigitPairs(b)[k])
<1> DEFINE n == Len(b)
           text == BytesToHex(b)
           pairs == DigitPairs(b)
           I == {k \in DOMAIN text : text[k] # Space}
           g == [j \in 1 .. 2 * n |-> 3 * ((j - 1) \div 2) + 1 + ((j - 1) % 2)]
<1>1. n \in Nat /\ n > 0 /\ \A i \in 1 .. n : b[i] \in Byte
  BY EmptySeq
<1>2. \A i \in 1 .. n : b[i] \div Digit \in Digits /\ b[i] % Digit \in Digits
  BY <1>1, ByteDigits
<1> HIDE DEF n
<1>3. DOMAIN text = 1 .. 3 * n - 1 /\ \A k \in 1 .. 3 * n - 1 :
         text[k] = (CASE k % 3 = 1 -> b[(k + 2) \div 3] \div Digit
                      [] k % 3 = 2 -> b[(k + 2) \div 3] % Digit
                      [] OTHER -> Space)
  BY DEF BytesToHex, n
<1>4. \A k \in 1 .. 3 * n - 1 : (k + 2) \div 3 \in 1 .. n /\ k % 3 \in 0 .. 2
  BY <1>1
<1> HIDE DEF text
<1>5. \A k \in 1 .. 3 * n - 1 :
         /\ k % 3 = 1 => text[k] = b[(k + 2) \div 3] \div Digit /\ text[k] \in Digits
         /\ k % 3 = 2 => text[k] = b[(k + 2) \div 3] % Digit /\ text[k] \in Digits
         /\ k % 3 = 0 => text[k] = Space
  BY <1>2, <1>3, <1>4
<1>6. text \in Seq(Nat)
  <2>1. Digits \subseteq Nat /\ Space \in Nat
    BY BaseFacts DEF Digits, Space
  <2>2. \A k \in 1 .. 3 * n - 1 : text[k] \in Nat
    <3>1. ASSUME NEW k \in 1 .. 3 * n - 1 PROVE text[k] \in Nat
      <4>1. k % 3 = 0 \/ k % 3 = 1 \/ k % 3 = 2
        BY <1>4
      <4> QED BY <1>5, <2>1, <4>1
    <3> QED BY <3>1
  <2>3. text \in [1 .. 3 * n - 1 -> Nat]
    <3>1. text = [k \in 1 .. 3 * n - 1 |-> text[k]]
      BY <1>3 DEF text, BytesToHex, n
    <3> QED BY <2>2, <3>1
  <2> QED BY <1>1, <2>3
<1>7. I = {k \in 1 .. 3 * n - 1 : k % 3 # 0}
  <2>1. Space \notin Digits
    BY BaseFacts DEF Space, Digits
  <2>2. \A k \in 1 .. 3 * n - 1 : text[k] # Space <=> k % 3 # 0
    <3>1. ASSUME NEW k \in 1 .. 3 * n - 1 PROVE text[k] # Space <=> k % 3 # 0
      <4>1. k % 3 = 0 \/ k % 3 = 1 \/ k % 3 = 2
        BY <1>4
      <4> QED BY <1>5, <2>1, <4>1
    <3> QED BY <3>1
  <2> QED BY <1>3, <2>2
<1>8. \A j \in 1 .. 2 * n : /\ g[j] \in 1 .. 3 * n - 1 /\ g[j] % 3 = 1 + ((j - 1) % 2)
                            /\ (g[j] + 2) \div 3 = 1 + ((j - 1) \div 2)
  BY <1>1
<1>9. g \in [1 .. 2 * n -> Int] /\ Increases(g) /\ 2 * n \in Nat
  BY <1>1 DEF Increases
<1>10. ASSUME NEW k \in 1 .. 3 * n - 1, k % 3 # 0 PROVE \E j \in 1 .. 2 * n : g[j] = k
  <2> DEFINE j == 2 * (k \div 3) + (k % 3)
  <2>1. j \in 1 .. 2 * n
    BY <1>1, <1>10
  <2>2. 3 * ((j - 1) \div 2) + 1 + ((j - 1) % 2) = k
    BY <1>1, <1>10
  <2> HIDE DEF j
  <2> QED BY <2>1, <2>2
<1>11. (\A j \in 1 .. 2 * n : g[j] \in I) /\ (\A k \in I : \E j \in 1 .. 2 * n : g[j] = k)
  <2>1. \A j \in 1 .. 2 * n : g[j] \in 1 .. 3 * n - 1 /\ g[j] % 3 # 0
    BY <1>1
  <2> HIDE DEF g, I
  <2> QED BY <1>7, <1>10, <2>1
<1> HIDE DEF g
<1>12. Unspaced(text) = [j \in 1 .. 2 * n |-> text[g[j]]]
  <2>1. Unspaced(text) = Picked(text, I)
    BY DEF Unspaced
  <2> HIDE DEF I
  <2>2. Cardinality(I) = 2 * n /\ Ascending(I) = g
    BY <1>9, <1>11, AscendingOf
  <2> QED BY <2>1, <2>2 DEF Picked
<1>13. \A j \in 1 .. 2 * n : text[g[j]] = pairs[j] /\ pairs[j] \in Digits
  <2>1. ASSUME NEW j \in 1 .. 2 * n PROVE text[g[j]] = pairs[j] /\ pairs[j] \in Digits
    <3>1. pairs[j] = IF j % 2 = 1 THEN b[(j + 1) \div 2] \div Digit ELSE b[j \div 2] % Digit
      BY DEF DigitPairs, n
    <3> HIDE DEF pairs
    <3>2. CASE j % 2 = 1
      <4>1. g[j] \in 1 .. 3 * n - 1 /\ g[j] % 3 = 1 /\ (g[j] + 2) \div 3 = (j + 1) \div 2
        <5>1. (j - 1) % 2 = 0 /\ 1 + ((j - 1) \div 2) = (j + 1) \div 2
          BY <1>1, <3>2
        <5> QED BY <1>8, <5>1
      <4> QED BY <1>5, <3>1, <3>2, <4>1
    <3>3. CASE j % 2 # 1
      <4>1. g[j] \in 1 .. 3 * n - 1 /\ g[j] % 3 = 2 /\ (g[j] + 2) \div 3 = j \div 2
        <5>1. (j - 1) % 2 = 1 /\ 1 + ((j - 1) \div 2) = j \div 2
          BY <1>1, <3>3
        <5> QED BY <1>8, <5>1
      <4> QED BY <1>5, <3>1, <3>3, <4>1
    <3> QED BY <3>2, <3>3
  <2> QED BY <2>1
<1>14. pairs = [j \in 1 .. 2 * n |-> pairs[j]]
  BY DEF DigitPairs, n
<1> HIDE DEF pairs
<1>15. Unspaced(text) = pairs
  BY <1>12, <1>13, <1>14
<1>16. \A k \in DOMAIN pairs : IsDigit(pairs[k])
  <2>1. DOMAIN pairs = 1 .. 2 * n
    BY <1>14
  <2> QED BY <1>13, <2>1, BaseFacts DEF Digits, IsDigit
<1> QED BY <1>6, <1>15, <1>16 DEF text, pairs

LEMMA PairsOfDigits ==
  ASSUME NEW b \in Seq(Byte)
  PROVE  Pairs(DigitPairs(b)) = b /\ Len(DigitPairs(b)) = 2 * Len(b)
<1> DEFINE n == Len(b)
           pairs == DigitPairs(b)
<1>1. n \in Nat /\ b = [i \in 1 .. n |-> b[i]] /\ \A i \in 1 .. n : b[i] \in Byte
  OBVIOUS
<1> HIDE DEF n
<1>2. pairs = [j \in 1 .. 2 * n |-> IF j % 2 = 1 THEN b[(j + 1) \div 2] \div Digit ELSE b[j \div 2] % Digit]
  BY DEF DigitPairs, n
<1> HIDE DEF pairs
<1>3. Len(pairs) = 2 * n /\ (2 * n) \div 2 = n
  BY <1>1, <1>2
<1>4. Pairs(pairs) = [i \in 1 .. n |-> pairs[2 * i - 1] * Digit + pairs[2 * i]]
  BY <1>3 DEF Pairs
<1>5. ASSUME NEW i \in 1 .. n PROVE pairs[2 * i - 1] * Digit + pairs[2 * i] = b[i]
  <2>1. /\ 2 * i - 1 \in 1 .. 2 * n /\ (2 * i - 1) % 2 = 1 /\ ((2 * i - 1) + 1) \div 2 = i
        /\ 2 * i \in 1 .. 2 * n /\ (2 * i) % 2 # 1 /\ (2 * i) \div 2 = i
    <3>1. n \in Nat /\ i \in Nat /\ 1 <= i /\ i <= n
      BY <1>1
    <3>2. (2 * i - 1) % 2 = 1 /\ ((2 * i - 1) + 1) \div 2 = i
      BY <3>1
    <3>3. (2 * i) % 2 # 1 /\ (2 * i) \div 2 = i
      BY <3>1
    <3>4. 2 * i - 1 \in 1 .. 2 * n /\ 2 * i \in 1 .. 2 * n
      BY <3>1
    <3> QED BY <3>2, <3>3, <3>4
  <2>2. pairs[2 * i - 1] = b[i] \div Digit /\ pairs[2 * i] = b[i] % Digit
    BY <1>2, <2>1
  <2>3. (b[i] \div Digit) * Digit + (b[i] % Digit) = b[i]
    BY <1>1, ByteDigits
  <2> QED BY <2>2, <2>3
<1>6. Pairs(pairs) = b
  BY <1>1, <1>4, <1>5
<1> QED BY <1>3, <1>6 DEF n, pairs

LEMMA ReadBack == ASSUME NEW b \in Seq(Byte), b # << >> PROVE ReadsAsWritten(b)
<1> DEFINE text == BytesToHex(b)
           pairs == DigitPairs(b)
<1>1. text \in Seq(Nat) /\ Unspaced(text) = pairs /\ \A k \in DOMAIN pairs : IsDigit(pairs[k])
  BY HexUnspaced
<1>2. Pairs(pairs) = b /\ Len(pairs) % 2 = 0
  <2>1. Len(b) \in Nat
    OBVIOUS
  <2>2. (2 * Len(b)) % 2 = 0
    BY <2>1
  <2> QED BY <2>2, PairsOfDigits
<1> HIDE DEF text, pairs
<1>3. DigitsOf(text) = pairs
  BY <1>1, OnlyDigits
<1>4. ParseHexBytes(text) = b
  BY <1>2, <1>3 DEF ParseHexBytes, PadOdd
<1>5. ParseHexPattern(text).bytes = b
  BY <1>1, <1>2, PatternOfDigits
<1> QED BY <1>4, <1>5 DEF ReadsAsWritten, text

--------------------------------------------------------------------------------
(* Addresses                                                                  *)

LEMMA PairsAre ==
  ASSUME NEW c \in Seq(Nat)
  PROVE  Pairs(c) \in Seq(Nat) /\ Len(Pairs(c)) = Len(c) \div 2
<1> DEFINE n == Len(c) \div 2
<1>1. n \in Nat /\ \A i \in 1 .. n : 2 * i \in 1 .. Len(c) /\ 2 * i - 1 \in 1 .. Len(c)
  OBVIOUS
<1> HIDE DEF n
<1>2. \A i \in 1 .. n : c[2 * i - 1] * Digit + c[2 * i] \in Nat
  <2>1. \A i \in 1 .. n : c[2 * i - 1] \in Nat /\ c[2 * i] \in Nat
    BY <1>1
  <2>2. \A x, y \in Nat : x * Digit + y \in Nat
    BY BaseFacts
  <2> QED BY <2>1, <2>2
<1>3. Pairs(c) = [i \in 1 .. n |-> c[2 * i - 1] * Digit + c[2 * i]]
  BY DEF Pairs, n
<1>4. Pairs(c) \in [1 .. n -> Nat]
  BY <1>2, <1>3
<1>5. Pairs(c) \in Seq(Nat) /\ Len(Pairs(c)) = n
  <2> DEFINE p == Pairs(c)
  <2> HIDE DEF p
  <2>1. p \in [1 .. n -> Nat]
    BY <1>4 DEF p
  <2>2. p \in Seq(Nat) /\ Len(p) = n
    BY <1>1, <2>1
  <2> QED BY <2>2 DEF p
<1> QED BY <1>5 DEF n

LEMMA Reversed ==
  ASSUME NEW S, NEW s \in Seq(S)
  PROVE  /\ Reverse(s) \in Seq(S) /\ Len(Reverse(s)) = Len(s)
         /\ \A i \in 1 .. Len(s) : Reverse(s)[i] = s[Len(s) - i + 1]
<1>1. Reverse(s) = [i \in 1 .. Len(s) |-> s[(Len(s) - i) + 1]]
  BY DEF Reverse
<1>2. \A i \in 1 .. Len(s) : s[(Len(s) - i) + 1] \in S
  OBVIOUS
<1>3. Reverse(s) \in [1 .. Len(s) -> S]
  BY <1>1, <1>2
<1> QED BY <1>1, <1>3

(* A zero in front changes no number.                                         *)
LEMMA ZeroInFront ==
  ASSUME NEW v \in Seq(Digits)
  PROVE  Number(Reverse(Pairs(PadOdd(<<0>> \o v)))) = Number(Reverse(Pairs(PadOdd(v))))
<1> DEFINE n == Len(v)
           v1 == <<0>> \o v
           v2 == <<0>> \o v1
<1>1. 0 \in Digits /\ Digits \subseteq Nat
  BY BaseFacts DEF Digits
<1>2. n \in Nat /\ v \in Seq(Nat) /\ <<0>> \in Seq(Nat) /\ Len(<<0>>) = 1
  <2>1. v \in Seq(Nat)
    BY <1>1, SeqMonotonic
  <2>2. <<0>> \in Seq(Nat) /\ Len(<<0>>) = 1
    OBVIOUS
  <2> QED BY <2>1, <2>2
<1>3. v1 \in Seq(Nat) /\ Len(v1) = n + 1 /\ v1[1] = 0 /\ \A i \in 1 .. n : v1[i + 1] = v[i]
  BY <1>2
<1> HIDE DEF v1
<1>4. v2 \in Seq(Nat) /\ Len(v2) = n + 2 /\ v2[1] = 0 /\ v2[2] = 0 /\ \A i \in 1 .. n : v2[i + 2] = v[i]
  <2>1. v2 \in Seq(Nat) /\ Len(v2) = n + 2 /\ v2[1] = 0 /\ \A i \in 1 .. n + 1 : v2[i + 1] = v1[i]
    BY <1>2, <1>3
  <2> HIDE DEF v2
  <2>2. 1 \in 1 .. n + 1 /\ 1 + 1 = 2 /\ \A i \in 1 .. n : i + 1 \in 1 .. n + 1 /\ (i + 1) + 1 = i + 2
    BY <1>2
  <2>3. v2[2] = 0
    BY <1>3, <2>1, <2>2
  <2>4. \A i \in 1 .. n : v2[i + 2] = v[i]
    BY <1>3, <2>1, <2>2
  <2> QED BY <2>1, <2>3, <2>4
<1> HIDE DEF v2
<1>5. CASE n % 2 # 0
  <2>1. (n + 1) % 2 = 0
    BY <1>2, <1>5
  <2>2. PadOdd(v) = v1 /\ PadOdd(v1) = v1
    BY <1>3, <1>5, <2>1 DEF PadOdd, v1
  <2> QED BY <2>2 DEF v1
<1>6. CASE n % 2 = 0
  <2> DEFINE h == n \div 2
             p == Pairs(v)
             z == Pairs(v2)
  <2>1. (n + 1) % 2 # 0 /\ h \in Nat /\ n = 2 * h /\ (n + 2) \div 2 = h + 1
    BY <1>2, <1>6
  <2>2. PadOdd(v) = v /\ PadOdd(v1) = v2
    BY <1>3, <1>6, <2>1 DEF PadOdd, v2
  <2>3. p \in Seq(Nat) /\ Len(p) = h /\ z \in Seq(Nat) /\ Len(z) = h + 1
    BY <1>2, <1>4, <2>1, PairsAre
  <2>4. /\ \A i \in 1 .. h : p[i] = v[2 * i - 1] * Digit + v[2 * i]
        /\ \A i \in 1 .. h + 1 : z[i] = v2[2 * i - 1] * Digit + v2[2 * i]
    BY <1>4, <2>1 DEF Pairs
  <2> HIDE DEF p, z, h
  <2>5. z[1] = 0
    <3>1. 1 \in 1 .. h + 1 /\ 2 * 1 - 1 = 1 /\ 2 * 1 = 2
      BY <2>1
    <3>2. z[1] = v2[1] * Digit + v2[2]
      BY <2>4, <3>1
    <3>3. 0 * Digit + 0 = 0
      BY BaseFacts
    <3> QED BY <1>4, <3>2, <3>3
  <2>6. ASSUME NEW i \in 1 .. h PROVE z[i + 1] = p[i]
    <3>1. i + 1 \in 1 .. h + 1 /\ 2 * (i + 1) - 1 = (2 * i - 1) + 2 /\ 2 * (i + 1) = 2 * i + 2
          /\ 2 * i - 1 \in 1 .. n /\ 2 * i \in 1 .. n
      BY <2>1
    <3>2. v2[2 * (i + 1) - 1] = v[2 * i - 1] /\ v2[2 * (i + 1)] = v[2 * i]
      BY <1>4, <3>1
    <3> QED BY <2>4, <3>1, <3>2
  <2> DEFINE rp == Reverse(p)
             rz == Reverse(z)
  <2>7. /\ rp \in Seq(Nat) /\ Len(rp) = h /\ \A i \in 1 .. h : rp[i] = p[h - i + 1]
        /\ rz \in Seq(Nat) /\ Len(rz) = h + 1 /\ \A i \in 1 .. h + 1 : rz[i] = z[(h + 1) - i + 1]
    <3>1. rp \in Seq(Nat) /\ Len(rp) = Len(p) /\ \A i \in 1 .. Len(p) : rp[i] = p[Len(p) - i + 1]
      BY <2>3, Reversed
    <3>2. rz \in Seq(Nat) /\ Len(rz) = Len(z) /\ \A i \in 1 .. Len(z) : rz[i] = z[Len(z) - i + 1]
      BY <2>3, Reversed
    <3> HIDE DEF rp, rz
    <3> QED BY <2>3, <3>1, <3>2
  <2> HIDE DEF rp, rz
  <2>8. rz[h + 1] = 0
    <3>1. h + 1 \in 1 .. h + 1 /\ (h + 1) - (h + 1) + 1 = 1
      BY <2>1
    <3> QED BY <2>5, <2>7, <3>1
  <2>9. \A i \in 1 .. h : rz[i] = rp[i]
    <3>1. ASSUME NEW i \in 1 .. h PROVE rz[i] = rp[i]
      <4>1. i \in 1 .. h + 1 /\ h - i + 1 \in 1 .. h /\ (h + 1) - i + 1 = (h - i + 1) + 1
        BY <2>1
      <4>2. rz[i] = z[(h - i + 1) + 1]
        BY <2>7, <4>1
      <4>3. z[(h - i + 1) + 1] = p[h - i + 1]
        BY <2>6, <4>1
      <4> QED BY <2>7, <4>2, <4>3
    <3> QED BY <3>1
  <2>10. Number(rz) = Number(rp)
    <3>1. rp \in Seq(Int) /\ rz \in Seq(Int)
      BY <2>7, SeqMonotonic
    <3> QED BY <2>7, <2>8, <2>9, <3>1, NumberWithZero
  <2> QED BY <2>2, <2>10 DEF rp, rz, p, z, v1
<1> QED BY <1>5, <1>6

LEMMA ParsersDoAgree == ASSUME NEW text \in Seq(Nat) PROVE ParsersAgree(text)
<1> DEFINE c == Unspaced(text)
           prefixed == c # << >> /\ c[1] = Prefix
           v == IF prefixed THEN Tail(c) ELSE c
           number == Number(Reverse(Pairs(PadOdd(v))))
<1>p. ~IsDigit(Prefix) /\ ~IsDigit(Wild) /\ Wild # Space
  BY BaseFacts DEF IsDigit, Prefix, Wild, Space
<1>1. /\ c \in Seq(Nat) /\ \A k \in DOMAIN c : \E i \in DOMAIN text : c[k] = text[i]
  <2> DEFINE I == {i \in DOMAIN text : text[i] # Space}
  <2>1. c = Picked(text, I) /\ I \in SUBSET (DOMAIN text)
    BY DEF Unspaced
  <2> HIDE DEF I, c
  <2> QED BY <2>1, PickedFacts
<1>2. ParseAddress(text, PointerBytes) # -1 =>
        /\ \A i \in DOMAIN v : IsDigit(v[i])
        /\ ParseAddress(text, PointerBytes) = number
  BY DEF ParseAddress
<1> HIDE DEF c
<1>3. ASSUME \A i \in DOMAIN v : IsDigit(v[i]) PROVE number = Number(Reverse(ParseHexBytes(text)))
  <2>1. CASE ~prefixed
    <3>1. v = c
      BY <2>1
    <3>2. DigitsOf(text) = c
      BY <1>3, <3>1, OnlyDigits DEF c
    <3> QED BY <3>1, <3>2 DEF ParseHexBytes
  <2>2. CASE prefixed
    <3>1. /\ v \in Seq(Nat) /\ Len(c) = Len(v) + 1 /\ c[1] = Prefix /\ Len(v) \in Nat
          /\ DOMAIN c = 1 .. Len(v) + 1 /\ DOMAIN v = 1 .. Len(v)
          /\ \A i \in 1 .. Len(v) : c[i + 1] = v[i]
      BY <1>1, <2>2
    <3> HIDE DEF v
    <3>2. \A k \in DOMAIN c : k = 1 \/ (k - 1 \in DOMAIN v /\ k = (k - 1) + 1)
      BY <3>1
    <3>3. \A k \in DOMAIN c : IsDigit(c[k]) \/ c[k] = Prefix
      BY <1>3, <3>1, <3>2
    <3>4. DigitsOf(text) = Spelled(c)
      BY <3>3, SameDigits DEF c
    <3>5. v \in Seq(Digits)
      <4>1. \A k \in DOMAIN v : v[k] \in Digits
        <5>1. \A k \in DOMAIN v : v[k] \in Nat
          BY <3>1
        <5> QED BY <1>3, <5>1, BaseFacts DEF IsDigit, Digits
      <4>2. v \in [1 .. Len(v) -> Digits]
        <5>1. v = [k \in 1 .. Len(v) |-> v[k]]
          BY <3>1
        <5> QED BY <3>1, <4>1, <5>1
      <4> QED BY <3>1, <4>2
    <3>6. Spelled(c) = <<0>> \o v
      <4> DEFINE s == Spelled(c)
                 z == <<0>> \o v
      <4>1. DOMAIN s = 1 .. Len(v) + 1 /\ \A k \in 1 .. Len(v) + 1 : s[k] = (IF c[k] = Prefix THEN 0 ELSE c[k])
        BY <3>1 DEF Spelled
      <4>2. z \in Seq(Nat) /\ Len(z) = Len(v) + 1 /\ z[1] = 0 /\ \A i \in 1 .. Len(v) : z[i + 1] = v[i]
        BY <3>1
      <4>3. ASSUME NEW k \in 1 .. Len(v) + 1 PROVE s[k] = z[k]
        <5> HIDE DEF s, z
        <5>1. CASE k = 1
          BY <3>1, <4>1, <4>2, <5>1
        <5>2. CASE k # 1
          <6>1. k - 1 \in 1 .. Len(v) /\ (k - 1) + 1 = k
            BY <3>1, <5>2
          <6>2. c[k] = v[k - 1] /\ z[k] = v[k - 1]
            BY <3>1, <4>2, <6>1
          <6>3. v[k - 1] # Prefix
            BY <1>3, <1>p, <3>1, <6>1
          <6> QED BY <4>1, <6>2, <6>3
        <5> QED BY <5>1, <5>2
      <4>4. s = [k \in 1 .. Len(v) + 1 |-> s[k]] /\ z = [k \in 1 .. Len(v) + 1 |-> z[k]]
        <5>1. s = [k \in 1 .. Len(v) + 1 |-> s[k]]
          BY <3>1 DEF Spelled
        <5> HIDE DEF z
        <5>2. z = [k \in 1 .. Len(v) + 1 |-> z[k]]
          BY <4>2
        <5> QED BY <5>1, <5>2
      <4> HIDE DEF s, z
      <4>5. s = z
        BY <4>3, <4>4
      <4> QED BY <4>5 DEF s, z
    <3> QED BY <3>4, <3>5, <3>6, ZeroInFront DEF ParseHexBytes
  <2> QED BY <2>1, <2>2
<1>4. ASSUME ParseHexPattern(text).bytes # << >>, \A i \in DOMAIN text : text[i] # Wild
      PROVE  ParseHexPattern(text).bytes = ParseHexBytes(text)
  <2>1. \A k \in DOMAIN c : IsDigit(c[k])
    <3>1. ~\E k \in DOMAIN c : ~IsDigit(c[k]) /\ c[k] # Wild
      BY <1>4 DEF ParseHexPattern, NoPattern, c
    <3>2. \A k \in DOMAIN c : c[k] # Wild
      BY <1>1, <1>4
    <3> QED BY <3>1, <3>2
  <2>2. DigitsOf(text) = c
    BY <2>1, OnlyDigits DEF c
  <2>3. Len(c) % 2 = 0 /\ ParseHexPattern(text).bytes = Pairs(c)
    <3>1. ParseHexPattern(text).bytes = IF Len(c) % 2 = 0 THEN Pairs(c) ELSE << >>
      BY <2>1, PatternOfDigits DEF c
    <3> QED BY <1>4, <3>1
  <2> QED BY <2>2, <2>3 DEF ParseHexBytes, PadOdd
<1> HIDE DEF v, number
<1> QED BY <1>2, <1>3, <1>4 DEF ParsersAgree

--------------------------------------------------------------------------------
(* Patterns                                                                   *)

PlacesOf(bytes, size, pattern) ==
    {at \in 0..(size - Len(pattern)) : at + Len(pattern) <= Len(bytes) /\ MatchAt(bytes, at, pattern)}

LEMMA ChunkFacts == PatternChunk \in Nat /\ PatternChunk > 0
BY InputsAssumption

(* What is found of a chunk is what begins in it.                             *)
LEMMA ChunkIs ==
  ASSUME NEW bytes, Len(bytes) \in Nat, NEW pattern, Len(pattern) \in Nat \ {0},
         NEW size \in Nat, NEW offset \in Nat, offset + Len(pattern) <= size
  PROVE  ChunkMatches(bytes, size, offset, pattern) =
           {at \in PlacesOf(bytes, size, pattern) : offset <= at /\ at < offset + PatternChunk}
<1> DEFINE needle == Len(pattern)
           B == Len(bytes)
           span == AtMost(PatternChunk, size - offset)
           read == AtMost(PatternRead(span, needle, size - offset), B - offset)
           last == offset + AtMost(span, read - needle + 1) - 1
<1>1. needle \in Nat /\ needle > 0 /\ B \in Nat /\ offset + needle <= size
  OBVIOUS
<1>2. /\ span = (IF PatternChunk < size - offset THEN PatternChunk ELSE size - offset)
      /\ read = (IF span + needle - 1 < size - offset
                 THEN (IF span + needle - 1 < B - offset THEN span + needle - 1 ELSE B - offset)
                 ELSE IF size - offset < B - offset THEN size - offset ELSE B - offset)
      /\ last = offset + (IF span < read - needle + 1 THEN span ELSE read - needle + 1) - 1
  BY DEF AtMost, PatternRead
<1>3. ChunkMatches(bytes, size, offset, pattern) =
        IF read < needle THEN {} ELSE {at \in offset .. last : MatchAt(bytes, at, pattern)}
  BY DEF ChunkMatches
<1>4. \A at : at \in PlacesOf(bytes, size, pattern) <=>
        at \in 0 .. size - needle /\ at + needle <= B /\ MatchAt(bytes, at, pattern)
  BY DEF PlacesOf
<1> HIDE DEF needle, B, span, read, last
<1>5. span \in Int /\ read \in Int /\ last \in Int
  BY <1>1, <1>2, ChunkFacts
<1>6. ASSUME NEW at \in Int
      PROVE  (read >= needle /\ at \in offset .. last) <=>
             (at \in 0 .. size - needle /\ at + needle <= B /\ offset <= at /\ at < offset + PatternChunk)
  BY <1>1, <1>2, <1>5, ChunkFacts
<1>7. ASSUME NEW at \in ChunkMatches(bytes, size, offset, pattern)
      PROVE  at \in PlacesOf(bytes, size, pattern) /\ offset <= at /\ at < offset + PatternChunk
  <2>1. ~(read < needle) /\ at \in offset .. last /\ MatchAt(bytes, at, pattern)
    BY <1>3, <1>7
  <2>2. at \in Int /\ read >= needle
    BY <1>1, <1>5, <2>1
  <2> QED BY <1>4, <1>6, <2>1, <2>2
<1>8. ASSUME NEW at \in PlacesOf(bytes, size, pattern), offset <= at, at < offset + PatternChunk
      PROVE  at \in ChunkMatches(bytes, size, offset, pattern)
  <2>1. at \in 0 .. size - needle /\ at + needle <= B /\ MatchAt(bytes, at, pattern)
    BY <1>4
  <2>2. at \in Int
    BY <2>1
  <2>3. read >= needle /\ at \in offset .. last
    BY <1>6, <1>8, <2>1, <2>2
  <2>4. ~(read < needle)
    BY <1>1, <1>5, <2>3
  <2> QED BY <1>3, <2>1, <2>3, <2>4
<1> QED BY <1>7, <1>8

LEMMA PatternsAreFound ==
  ASSUME NEW bytes, Len(bytes) \in Nat, NEW pattern, Len(pattern) \in Nat \ {0}, pattern # << >>,
         NEW size \in Nat, NEW most \in Nat
  PROVE  PatternFound(bytes, size, pattern, most)
<1> DEFINE needle == Len(pattern)
           places == PlacesOf(bytes, size, pattern)
           Offset(n) == (n - 1) * PatternChunk
           Begun(n) == {at \in places : at < n * PatternChunk}
           Chunk(n) == ChunkMatches(bytes, size, Offset(n), pattern)
           Onward1(n, x) == IF Offset(n) + needle > size THEN x ELSE x \o Ascending(Chunk(n))
           step == [n \in 1 .. size |-> [x \in Seq(Int) |-> Onward1(n, x)]]
           IsFound(f) == f = [n \in 0 .. size |-> IF n = 0 THEN << >>
                                ELSE IF Offset(n) + needle > size THEN f[n - 1]
                                ELSE f[n - 1] \o Ascending(Chunk(n))]
<1>1. needle \in Nat /\ needle > 0 /\ PatternChunk \in Nat /\ PatternChunk > 0
  BY ChunkFacts
<1>2. places \in SUBSET Int /\ IsFiniteSet(places) /\ \A at \in places : 0 <= at /\ at + needle <= size
  <2>1. \A at \in places : at \in 0 .. size - needle
    BY DEF PlacesOf
  <2> HIDE DEF places
  <2>2. places \in SUBSET (0 .. size - needle)
    BY <2>1
  <2>3. IsFiniteSet(0 .. size - needle)
    BY <1>1, FS_Interval
  <2>4. \A at \in 0 .. size - needle : at \in Int /\ 0 <= at /\ at + needle <= size
    BY <1>1
  <2>5. IsFiniteSet(places)
    BY <2>2, <2>3, FS_Subset
  <2>6. \A at \in places : at \in Int /\ 0 <= at /\ at + needle <= size
    BY <2>1, <2>4
  <2> QED BY <2>5, <2>6
<1>3. ASSUME NEW n \in 1 .. size
      PROVE  Offset(n) \in Nat /\ n * PatternChunk = Offset(n) + PatternChunk
  <2>1. n - 1 \in Nat
    OBVIOUS
  <2>2. (n - 1) * PatternChunk \in Nat /\ n * PatternChunk = (n - 1) * PatternChunk + PatternChunk
    BY <1>1, <2>1
  <2> QED BY <2>2
<1> HIDE DEF places, needle, Offset
<1>4. ASSUME NEW n \in 1 .. size, ~(Offset(n) + needle > size)
      PROVE  Chunk(n) = {at \in places : Offset(n) <= at /\ at < Offset(n) + PatternChunk}
  <2>1. Offset(n) + needle <= size /\ Offset(n) \in Nat
    BY <1>1, <1>3, <1>4
  <2> QED BY <2>1, ChunkIs DEF places, needle
<1> HIDE DEF Chunk
<1>5. ASSUME NEW n \in 1 .. size, ~(Offset(n) + needle > size)
      PROVE  Chunk(n) \in SUBSET Int /\ IsFiniteSet(Chunk(n)) /\ Ascending(Chunk(n)) \in Seq(Int)
  <2>1. Chunk(n) \in SUBSET places
    BY <1>4, <1>5
  <2>2. Chunk(n) \in SUBSET Int /\ IsFiniteSet(Chunk(n))
    BY <1>2, <2>1, FS_Subset
  <2>3. Cardinality(Chunk(n)) \in Nat /\ Ascending(Chunk(n)) \in [1 .. Cardinality(Chunk(n)) -> Chunk(n)]
    BY <2>2, AscendingFacts
  <2>4. Ascending(Chunk(n)) \in [1 .. Cardinality(Chunk(n)) -> Int]
    BY <2>2, <2>3
  <2>5. Ascending(Chunk(n)) \in Seq(Int)
    BY <2>3, <2>4
  <2> QED BY <2>2, <2>5
<1>6. ASSUME NEW n \in 1 .. size, NEW x \in Seq(Int) PROVE Onward1(n, x) \in Seq(Int)
  BY <1>5, ConcatProperties
<1>7. Steps(step, size, Seq(Int))
  <2> HIDE DEF Onward1
  <2> QED BY <1>6 DEF Steps
<1>8. PICK f \in [0 .. size -> Seq(Int)] : f[0] = << >> /\ \A n \in 1 .. size : f[n] = step[n][f[n - 1]]
  <2> HIDE DEF step
  <2>1. << >> \in Seq(Int)
    OBVIOUS
  <2>2. \E f : Iterates(f, step, << >>, size, Seq(Int))
    BY <1>7, <2>1, Recursion
  <2> QED BY <2>2 DEF Iterates
<1>i. 0 \in 0 .. size /\ size \in 0 .. size /\ \A n \in 1 .. size : n \in 0 .. size /\ n - 1 \in 0 .. size /\ n # 0
  OBVIOUS
<1>9. ASSUME NEW n \in 1 .. size PROVE f[n] = Onward1(n, f[n - 1])
  <2>1. f[n - 1] \in Seq(Int)
    BY <1>i
  <2> HIDE DEF Onward1
  <2> QED BY <1>8, <2>1
<1>10. IsFound(f)
  <2>1. \A n \in 0 .. size : n = 0 \/ n \in 1 .. size
    OBVIOUS
  <2>2. \A n \in 0 .. size : f[n] = IF n = 0 THEN << >> ELSE Onward1(n, f[n - 1])
    <3> HIDE DEF Onward1
    <3> QED BY <1>8, <1>9, <1>i, <2>1
  <2> QED BY <2>2
<1>11. PICK g : IsFound(g) /\ FindPattern(bytes, size, pattern, most) =
                                SubSeq(g[size], 1, AtMost(Len(g[size]), most))
  <2> DEFINE G == CHOOSE g : IsFound(g)
  <2>1. IsFound(G)
    BY <1>10
  <2>2. FindPattern(bytes, size, pattern, most) = SubSeq(G[size], 1, AtMost(Len(G[size]), most))
    BY DEF FindPattern, Chunk, Offset, needle
  <2> HIDE DEF G, IsFound
  <2> QED BY <2>1, <2>2
<1>12. g[0] = << >> /\ \A n \in 1 .. size : g[n] = Onward1(n, g[n - 1])
  BY <1>11, <1>i
<1> HIDE DEF IsFound, Onward1
<1> DEFINE P == {n \in 0 .. size : g[n] = Ascending(Begun(n))}
<1>13. 0 \in P
  <2>1. 0 * PatternChunk = 0
    BY <1>1
  <2>2. Begun(0) = {}
    <3>1. \A at \in places : at \in Int /\ 0 <= at
      BY <1>2
    <3>2. \A at \in places : ~(at < 0)
      BY <3>1
    <3>3. Begun(0) = {at \in places : at < 0}
      BY <2>1
    <3> HIDE DEF Begun
    <3> QED BY <3>2, <3>3
  <2> HIDE DEF Begun
  <2>3. Ascending({}) = << >>
    <3>1. Cardinality({}) = 0
      BY FS_EmptySet
    <3> QED BY <3>1 DEF Ascending
  <2> QED BY <1>12, <1>i, <2>2, <2>3
<1>14. ASSUME NEW n \in 1 .. size, n - 1 \in P PROVE n \in P
  <2> DEFINE o == Offset(n)
  <2>1. /\ g[n - 1] = Ascending(Begun(n - 1)) /\ g[n] = Onward1(n, g[n - 1])
        /\ o \in Nat /\ (n - 1) * PatternChunk = o /\ n * PatternChunk = o + PatternChunk
    BY <1>3, <1>12, <1>14 DEF Offset
  <2>2. Begun(n - 1) = {at \in places : at < o} /\ Begun(n) = {at \in places : at < o + PatternChunk}
    BY <2>1
  <2> HIDE DEF Begun, o
  <2>3. CASE o + needle > size
    <3>1. \A at \in places : at < o /\ at < o + PatternChunk
      <4>1. \A at \in places : at \in Int /\ at + needle <= size
        BY <1>2
      <4> QED BY <1>1, <2>1, <2>3, <4>1
    <3>2. Begun(n - 1) = Begun(n)
      BY <2>2, <3>1
    <3>3. g[n] = g[n - 1]
      BY <2>1, <2>3 DEF Onward1, o
    <3> QED BY <1>i, <2>1, <3>2, <3>3
  <2>4. CASE ~(o + needle > size)
    <3>1. Chunk(n) = {at \in places : o <= at /\ at < o + PatternChunk}
      BY <1>4, <2>4 DEF o
    <3>2. /\ Begun(n - 1) \in SUBSET places /\ Chunk(n) \in SUBSET places
          /\ \A a \in Begun(n - 1), b \in Chunk(n) : a < b
          /\ Begun(n) = Begun(n - 1) \cup Chunk(n)
      <4>1. \A at \in places : at \in Int /\ (at < o \/ o <= at) /\ (at < o => at < o + PatternChunk)
        BY <1>1, <1>2, <2>1
      <4>2. Begun(n - 1) \in SUBSET places /\ Chunk(n) \in SUBSET places
        BY <2>2, <3>1
      <4>3. ASSUME NEW a \in Begun(n - 1), NEW b \in Chunk(n) PROVE a < b
        <5>1. a \in Int /\ b \in Int /\ a < o /\ o <= b
          BY <2>2, <3>1, <4>1
        <5> QED BY <2>1, <5>1
      <4>4. Begun(n) = Begun(n - 1) \cup Chunk(n)
        BY <2>2, <3>1, <4>1
      <4> QED BY <4>2, <4>3, <4>4
    <3>3. /\ Begun(n - 1) \in SUBSET Int /\ IsFiniteSet(Begun(n - 1))
          /\ Chunk(n) \in SUBSET Int /\ IsFiniteSet(Chunk(n))
      BY <1>2, <3>2, FS_Subset
    <3>4. Ascending(Begun(n)) = Ascending(Begun(n - 1)) \o Ascending(Chunk(n))
      BY <3>2, <3>3, AscendingJoined
    <3>5. g[n] = g[n - 1] \o Ascending(Chunk(n))
      BY <2>1, <2>4 DEF Onward1, o
    <3> QED BY <1>i, <2>1, <3>4, <3>5
  <2> QED BY <2>3, <2>4
<1> HIDE DEF P, Begun
<1>15. g[size] = Ascending(places)
  <2>1. \A n \in 0 .. size : n \in P
    BY <1>13, <1>14, Upward
  <2>2. Begun(size) = places
    <3>1. size * PatternChunk >= size
      BY <1>1
    <3>2. size * PatternChunk \in Int
      BY <1>1
    <3>3. \A at \in places : at < size * PatternChunk
      <4>1. ASSUME NEW x \in Int, NEW y \in Int, y >= size, x + needle <= size PROVE x < y
        BY <1>1, <4>1
      <4>2. \A at \in places : at \in Int /\ at + needle <= size
        BY <1>2
      <4> QED BY <3>1, <3>2, <4>1, <4>2
    <3> QED BY <3>3 DEF Begun
  <2> QED BY <1>i, <2>1, <2>2 DEF P
<1> DEFINE all == Ascending(places)
           m == Cardinality(places)
           k == AtMost(m, most)
           firsts == FindPattern(bytes, size, pattern, most)
<1>16. /\ m \in Nat /\ all \in [1 .. m -> places]
       /\ \A i \in 1 .. m : Cardinality({j \in places : j < all[i]}) = i - 1
  BY <1>2, AscendingFacts
<1>17. firsts = SubSeq(all, 1, AtMost(Len(all), most))
  BY <1>11, <1>15
<1> HIDE DEF all, m, firsts
<1>18. Len(all) = m /\ k \in Nat /\ k <= m /\ k = AtMost(most, m)
  BY <1>16 DEF AtMost
<1>19. firsts = [i \in 1 .. k |-> all[i]] /\ Len(firsts) = k
  <2>1. all \in Seq(places)
    BY <1>16
  <2>2. firsts = SubSeq(all, 1, k)
    BY <1>17, <1>18
  <2> HIDE DEF k
  <2> QED BY <1>16, <1>18, <2>1, <2>2
<1>20. Len(firsts) = AtMost(most, m) /\ DOMAIN firsts = 1 .. k
  BY <1>18, <1>19
<1>21. ASSUME NEW i \in DOMAIN firsts
       PROVE  firsts[i] \in places /\ Cardinality({p \in places : p < firsts[i]}) = i - 1
  <2>1. i \in 1 .. k /\ i \in 1 .. m
    BY <1>16, <1>18, <1>20
  <2> HIDE DEF k
  <2>2. firsts[i] = all[i]
    BY <1>19, <2>1
  <2> QED BY <1>16, <2>1, <2>2
<1> HIDE DEF k
<1> QED BY <1>20, <1>21 DEF PatternFound, firsts, m, places, PlacesOf

--------------------------------------------------------------------------------
(* Listings of code                                                           *)

Coded(lengths, from, end) ==
    /\ from \in Nat \ {0} /\ end \in Nat /\ from <= end
    /\ \A at \in from .. end - 1 : at \in DOMAIN lengths /\ lengths[at] \in Nat

(* A listing goes from one instruction to the next until the end.             *)
LEMMA Listed ==
  ASSUME NEW lengths, NEW from, NEW end, Coded(lengths, from, end), NEW n, n = end - from
  PROVE  \E f : /\ n \in Nat /\ f \in [0 .. n -> from .. end] /\ f[0] = from /\ f[n] = end
                /\ \A i \in 1 .. n : f[i] = IF f[i - 1] >= end THEN f[i - 1]
                                            ELSE f[i - 1] + StepWidth(lengths, f[i - 1], end)
                /\ Range(Listing(lengths, from, end)) = {f[i] : i \in 0 .. n}
<1> DEFINE Onward1(x) == IF x >= end THEN x ELSE x + StepWidth(lengths, x, end)
           step == [i \in 1 .. n |-> [x \in from .. end |-> Onward1(x)]]
           IsStart(f) == f = [i \in 0 .. end - from |-> IF i = 0 THEN from ELSE
                                LET before == f[i - 1] IN
                                IF before >= end THEN before ELSE before + StepWidth(lengths, before, end)]
<1>1. from \in Nat /\ end \in Nat /\ from <= end /\ n \in Nat /\ n = end - from /\ from \in from .. end
  BY DEF Coded
<1>2. ASSUME NEW x \in from .. end
      PROVE  Onward1(x) \in from .. end /\ (x < end => Onward1(x) > x)
  <2>1. CASE x >= end
    BY <1>1, <2>1
  <2>2. CASE x < end
    <3>1. x \in from .. end - 1 /\ x \in Int
      BY <1>1, <2>2
    <3>2. lengths[x] \in Nat
      BY <3>1 DEF Coded
    <3>3. StepWidth(lengths, x, end) \in Nat /\ StepWidth(lengths, x, end) > 0 /\ x + StepWidth(lengths, x, end) <= end
      BY <1>1, <2>2, <3>1, <3>2 DEF StepWidth, Decodes
    <3>4. Onward1(x) = x + StepWidth(lengths, x, end)
      BY <1>1, <2>2, <3>1
    <3> HIDE DEF Onward1
    <3> QED BY <1>1, <3>1, <3>3, <3>4
  <2> QED BY <1>1, <2>1, <2>2
<1>3. Steps(step, n, from .. end)
  <2> HIDE DEF Onward1
  <2> QED BY <1>2 DEF Steps
<1>4. PICK f \in [0 .. n -> from .. end] : f[0] = from /\ \A i \in 1 .. n : f[i] = step[i][f[i - 1]]
  <2> HIDE DEF step
  <2>1. \E f : Iterates(f, step, from, n, from .. end)
    BY <1>1, <1>3, Recursion
  <2> QED BY <2>1 DEF Iterates
<1>i. 0 \in 0 .. n /\ n \in 0 .. n /\ \A i \in 1 .. n : i \in 0 .. n /\ i - 1 \in 0 .. n /\ i # 0
  BY <1>1
<1>5. ASSUME NEW i \in 1 .. n PROVE f[i] = Onward1(f[i - 1])
  <2>1. f[i - 1] \in from .. end
    BY <1>i
  <2> HIDE DEF Onward1
  <2> QED BY <1>4, <2>1
<1>6. IsStart(f)
  <2>1. \A i \in 0 .. n : f[i] = IF i = 0 THEN from ELSE Onward1(f[i - 1])
    <3>1. \A i \in 0 .. n : i = 0 \/ i \in 1 .. n
      BY <1>1
    <3> HIDE DEF Onward1
    <3> QED BY <1>4, <1>5, <1>i, <3>1
  <2> QED BY <1>1, <2>1
<1>7. PICK g : IsStart(g) /\ Listing(lengths, from, end) = [i \in 1 .. end - from + 1 |-> g[i - 1]]
  <2> DEFINE G == CHOOSE g : IsStart(g)
  <2>1. IsStart(G)
    BY <1>6
  <2>2. Listing(lengths, from, end) = [i \in 1 .. end - from + 1 |-> G[i - 1]]
    BY DEF Listing
  <2> HIDE DEF G, IsStart
  <2> QED BY <2>1, <2>2
<1>8. g = [i \in 0 .. n |-> g[i]] /\ g[0] = from /\ \A i \in 1 .. n : g[i] = Onward1(g[i - 1])
  BY <1>1, <1>7, <1>i
<1> HIDE DEF IsStart, Onward1
<1> DEFINE P == {i \in 0 .. n : g[i] \in from .. end /\ (g[i] = end \/ g[i] >= from + i)}
<1>9. 0 \in P
  BY <1>1, <1>8, <1>i
<1>10. ASSUME NEW i \in 1 .. n, i - 1 \in P PROVE i \in P
  <2>1. g[i - 1] \in from .. end /\ (g[i - 1] = end \/ g[i - 1] >= from + (i - 1)) /\ g[i] = Onward1(g[i - 1])
    BY <1>8, <1>10
  <2>2. g[i] \in from .. end /\ (g[i - 1] < end => g[i] > g[i - 1])
    BY <1>2, <2>1
  <2>3. g[i - 1] = end => g[i] = end
    <3>1. end >= end
      BY <1>1
    <3> QED BY <2>1, <3>1 DEF Onward1
  <2>4. g[i] = end \/ g[i] >= from + i
    BY <1>1, <2>1, <2>2, <2>3
  <2> QED BY <1>i, <2>2, <2>4
<1> HIDE DEF P
<1>11. \A i \in 0 .. n : g[i] \in from .. end /\ (g[i] = end \/ g[i] >= from + i)
  <2>1. \A i \in 0 .. n : i \in P
    BY <1>1, <1>9, <1>10, Upward
  <2> QED BY <2>1 DEF P
<1>12. g \in [0 .. n -> from .. end]
  BY <1>8, <1>11
<1>13. g[n] = end
  <2>1. g[n] \in from .. end /\ (g[n] = end \/ g[n] >= from + n)
    BY <1>11, <1>i
  <2> QED BY <1>1, <2>1
<1>14. Range(Listing(lengths, from, end)) = {g[i] : i \in 0 .. n}
  <2> DEFINE L == Listing(lengths, from, end)
  <2>1. DOMAIN L = 1 .. n + 1 /\ \A i \in 1 .. n + 1 : L[i] = g[i - 1]
    BY <1>1, <1>7
  <2> HIDE DEF L
  <2> DEFINE RL == Range(L)
             G == {g[i] : i \in 0 .. n}
  <2>2. /\ \A y : y \in RL <=> \E i \in 1 .. n + 1 : y = L[i]
        /\ \A y : y \in G <=> \E i \in 0 .. n : y = g[i]
    BY <2>1 DEF Range
  <2> HIDE DEF RL, G
  <2>3. ASSUME NEW y \in RL PROVE y \in G
    <3>1. PICK i \in 1 .. n + 1 : y = L[i]
      BY <2>2
    <3>2. i - 1 \in 0 .. n /\ y = g[i - 1]
      BY <1>1, <2>1, <3>1
    <3> QED BY <2>2, <3>2
  <2>4. ASSUME NEW y \in G PROVE y \in RL
    <3>1. PICK j \in 0 .. n : y = g[j]
      BY <2>2
    <3>2. j + 1 \in 1 .. n + 1 /\ (j + 1) - 1 = j
      BY <1>1
    <3>3. y = L[j + 1]
      BY <2>1, <3>1, <3>2
    <3> QED BY <2>2, <3>2, <3>3
  <2>5. RL = G
    BY <2>3, <2>4
  <2> QED BY <2>5 DEF L, RL, G
<1>15. \A i \in 1 .. n : g[i] = IF g[i - 1] >= end THEN g[i - 1]
                                   ELSE g[i - 1] + StepWidth(lengths, g[i - 1], end)
  BY <1>8 DEF Onward1
<1>16. n \in Nat /\ g[0] = from
  BY <1>1, <1>8
<1> HIDE DEF Onward1, step
<1> QED BY <1>12, <1>13, <1>14, <1>15, <1>16

(* What is listed: the first and the end, after each its next, and nothing    *)
(* between the two.                                                           *)
Follows(R, lengths, end, x) ==
    /\ x + StepWidth(lengths, x, end) \in R
    /\ \A y \in R : ~(x < y /\ y < x + StepWidth(lengths, x, end))

LEMMA ListingFacts ==
  ASSUME NEW lengths, NEW from, NEW end, Coded(lengths, from, end), NEW R, R = Range(Listing(lengths, from, end))
  PROVE  /\ R \in SUBSET (from .. end) /\ from \in R /\ end \in R
         /\ \A x \in R : x < end => Follows(R, lengths, end, x)
         /\ \A s \in SUBSET (from .. end) : \A at \in s :
               from \in s /\ (\A x \in s : x < at => Follows(s, lengths, end, x)) => at \in R
<1> DEFINE n == end - from
<1>0. from \in Nat /\ end \in Nat /\ from <= end /\ n \in Nat
  BY DEF Coded
<1>1. PICK f : /\ f \in [0 .. n -> from .. end] /\ f[0] = from /\ f[n] = end
               /\ \A i \in 1 .. n : f[i] = IF f[i - 1] >= end THEN f[i - 1]
                                           ELSE f[i - 1] + StepWidth(lengths, f[i - 1], end)
               /\ R = {f[i] : i \in 0 .. n}
  BY Listed
<1> HIDE DEF n
<1>i. 0 \in 0 .. n /\ n \in 0 .. n /\ \A i \in 1 .. n : i \in 0 .. n /\ i - 1 \in 0 .. n
  BY <1>0
<1>w. \A x \in from .. end - 1 : StepWidth(lengths, x, end) \in Nat /\ StepWidth(lengths, x, end) > 0
  BY <1>0 DEF Coded, StepWidth, Decodes
<1>2. R \in SUBSET (from .. end) /\ from \in R /\ end \in R
  <2>1. \A i \in 0 .. n : f[i] \in R /\ f[i] \in from .. end
    BY <1>1
  <2>2. \A y \in R : \E i \in 0 .. n : y = f[i]
    BY <1>1
  <2>3. f[0] = from /\ f[n] = end
    BY <1>1
  <2> QED BY <1>i, <2>1, <2>2, <2>3
<1>3. ASSUME NEW i \in 1 .. n PROVE f[i - 1] <= f[i]
  <2>1. f[i - 1] \in from .. end
    BY <1>1, <1>i
  <2>2. CASE f[i - 1] >= end
    BY <1>0, <1>1, <2>1, <2>2
  <2>3. CASE f[i - 1] < end
    <3>1. f[i - 1] \in from .. end - 1 /\ ~(f[i - 1] >= end) /\ f[i - 1] \in Int
      BY <1>0, <2>1, <2>3
    <3>2. f[i] = f[i - 1] + StepWidth(lengths, f[i - 1], end)
      BY <1>1, <3>1
    <3>3. StepWidth(lengths, f[i - 1], end) \in Nat
      BY <1>w, <3>1
    <3> QED BY <3>1, <3>2, <3>3
  <2> QED BY <1>0, <2>1, <2>2, <2>3
<1>4. ASSUME NEW j \in 0 .. n PROVE \A i \in 0 .. n : i <= j \/ f[j] <= f[i]
  <2> DEFINE P == {i \in 0 .. n : i <= j \/ f[j] <= f[i]}
  <2>1. 0 \in P
    BY <1>0
  <2>2. ASSUME NEW i \in 1 .. n, i - 1 \in P PROVE i \in P
    <3>1. f[i - 1] <= f[i] /\ f[i - 1] \in Int /\ f[i] \in Int /\ f[j] \in Int
      <4>1. f[i - 1] \in from .. end /\ f[i] \in from .. end /\ f[j] \in from .. end
        BY <1>1, <1>i
      <4> QED BY <1>3, <4>1
    <3>2. i - 1 <= j \/ f[j] <= f[i - 1]
      BY <2>2
    <3>3. i <= j \/ i - 1 = j \/ ~(i - 1 <= j)
      OBVIOUS
    <3> QED BY <1>i, <3>1, <3>2, <3>3
  <2> HIDE DEF P
  <2>3. \A i \in 0 .. n : i \in P
    BY <1>0, <2>1, <2>2, Upward
  <2> QED BY <2>3 DEF P
<1>5. ASSUME NEW x \in R, x < end PROVE Follows(R, lengths, end, x)
  <2>1. PICK j \in 0 .. n : x = f[j]
    BY <1>1
  <2>2. j # n /\ j + 1 \in 1 .. n /\ (j + 1) - 1 = j
    <3>1. ~(end < end)
      BY <1>0
    <3>2. j # n
      BY <1>1, <1>5, <2>1, <3>1
    <3> QED BY <1>0, <3>2
  <2>3. x \in from .. end - 1 /\ x \in Int /\ ~(x >= end)
    BY <1>0, <1>2, <1>5
  <2>4. f[j + 1] = x + StepWidth(lengths, x, end)
    BY <1>1, <2>1, <2>2, <2>3
  <2>5. x + StepWidth(lengths, x, end) \in R
    BY <1>1, <1>i, <2>2, <2>4
  <2>6. ASSUME NEW y \in R, x < y, y < x + StepWidth(lengths, x, end) PROVE FALSE
    <3>1. PICK i \in 0 .. n : y = f[i]
      BY <1>1
    <3>2. f[i] \in Int /\ f[j] \in Int /\ f[j + 1] \in Int /\ j + 1 \in 0 .. n
      <4>1. f[i] \in from .. end /\ f[j] \in from .. end /\ f[j + 1] \in from .. end
        BY <1>1, <1>i, <2>2
      <4> QED BY <1>i, <2>2, <4>1
    <3>3. ~(i <= j)
      <4>1. i <= j => j <= i \/ f[i] <= f[j]
        BY <1>4
      <4>2. i = j => f[i] = f[j]
        OBVIOUS
      <4>3. i <= j /\ j <= i => i = j
        BY <1>0
      <4> QED BY <2>1, <2>6, <3>1, <3>2, <4>1, <4>2, <4>3
    <3>4. i = j + 1 \/ ~(i <= j + 1)
      BY <1>0, <3>3
    <3>5. f[j + 1] <= f[i]
      <4>1. i <= j + 1 \/ f[j + 1] <= f[i]
        BY <1>4, <3>2
      <4> QED BY <3>2, <3>4, <4>1
    <3> QED BY <2>4, <2>6, <3>1, <3>2, <3>5
  <2> QED BY <2>5, <2>6 DEF Follows
<1>6. ASSUME NEW s \in SUBSET (from .. end), NEW at \in s, from \in s,
             \A x \in s : x < at => Follows(s, lengths, end, x)
      PROVE  at \in R
  <2> SUFFICES ASSUME at \notin R PROVE FALSE
    OBVIOUS
  <2>0. at \in from .. end /\ at \in Int
    BY <1>0
  <2> DEFINE P == {i \in 0 .. n : f[i] \in s /\ f[i] < at}
  <2>1. 0 \in P
    <3>1. from # at
      BY <1>2
    <3>2. from < at
      BY <1>0, <2>0, <3>1
    <3> QED BY <1>1, <1>6, <1>i, <3>2
  <2>2. ASSUME NEW i \in 1 .. n, i - 1 \in P PROVE i \in P
    <3> DEFINE x == f[i - 1]
    <3>1. x \in s /\ x < at /\ x \in from .. end
      BY <1>1, <1>i, <2>2
    <3>2. x \in Int /\ ~(x >= end)
      BY <1>0, <2>0, <3>1
    <3>3. f[i] = x + StepWidth(lengths, x, end)
      BY <1>1, <3>2
    <3>4. f[i] \in s /\ ~(x < at /\ at < f[i])
      BY <1>6, <3>1, <3>3 DEF Follows
    <3>5. f[i] \in R /\ f[i] # at
      BY <1>1, <1>i
    <3>6. f[i] \in Int
      BY <1>0, <1>2, <3>5
    <3>7. f[i] < at
      BY <2>0, <3>1, <3>4, <3>5, <3>6
    <3> QED BY <1>i, <3>4, <3>7
  <2> HIDE DEF P
  <2>3. n \in P
    BY <1>0, <1>i, <2>1, <2>2, Upward
  <2>4. end < at
    BY <1>1, <2>3 DEF P
  <2> QED BY <1>0, <2>0, <2>4
<1> QED BY <1>2, <1>5, <1>6

LEMMA LeastIs ==
  ASSUME NEW S \in SUBSET Nat, S # {}
  PROVE  Min(S) \in S /\ \A y \in S : Min(S) <= y
<1>1. \E x \in S : \A y \in S : x <= y
  BY LeastNumber
<1> QED BY <1>1 DEF Min

LEMMA GreatestIs ==
  ASSUME NEW n \in Nat, NEW S \in SUBSET (0 .. n), S # {}
  PROVE  Max(S) \in S /\ \A y \in S : Max(S) >= y
<1> DEFINE T == {k \in 0 .. n : n - k \in S}
<1>1. \A x \in S : n - x \in T /\ x \in Int /\ n - (n - x) = x
  BY DEF T
<1>2. T \in SUBSET Nat /\ T # {} /\ \A k \in T : n - k \in S /\ k \in Int
  <2>1. \A k \in T : k \in Nat /\ n - k \in S /\ k \in Int
    OBVIOUS
  <2>2. PICK x \in S : TRUE
    OBVIOUS
  <2> HIDE DEF T
  <2> QED BY <1>1, <2>1, <2>2
<1> HIDE DEF T
<1>3. PICK m \in T : \A k \in T : m <= k
  BY <1>2, LeastNumber
<1>4. n - m \in S /\ \A y \in S : n - m >= y
  <2>1. ASSUME NEW y \in S PROVE n - m >= y
    <3>1. m <= n - y /\ m \in Int /\ y \in Int
      BY <1>1, <1>2, <1>3
    <3> QED BY <3>1
  <2> QED BY <1>2, <2>1
<1>5. \E x \in S : \A y \in S : x >= y
  BY <1>4
<1> QED BY <1>5 DEF Max

--------------------------------------------------------------------------------
(* A patch, and the instruction before an address                             *)

(* What a boundary is said to be is what a listing gives.                     *)
LEMMA BoundariesListed ==
  ASSUME NEW lengths, NEW from, NEW end, Coded(lengths, from, end)
  PROVE  Boundaries(lengths, from, end) = Range(Listing(lengths, from, end))
<1> DEFINE R == Range(Listing(lengths, from, end))
           B == Boundaries(lengths, from, end)
<1>0. from \in Nat /\ end \in Nat
  BY DEF Coded
<1>1. /\ R \in SUBSET (from .. end) /\ from \in R /\ end \in R
      /\ \A x \in R : x < end => Follows(R, lengths, end, x)
      /\ \A s \in SUBSET (from .. end) : \A at \in s :
            from \in s /\ (\A x \in s : x < at => Follows(s, lengths, end, x)) => at \in R
  BY ListingFacts
<1>2. \A at : at \in B <=> /\ at \in from .. end
                           /\ \E s \in SUBSET (from .. end) :
                                /\ {from, at} \subseteq s
                                /\ \A x \in s : x < at => Follows(s, lengths, end, x)
  BY DEF Boundaries, Follows
<1> HIDE DEF R, B
<1>3. ASSUME NEW at \in B PROVE at \in R
  <2>1. PICK s \in SUBSET (from .. end) : {from, at} \subseteq s /\ \A x \in s : x < at => Follows(s, lengths, end, x)
    BY <1>2
  <2> QED BY <1>1, <2>1
<1>4. ASSUME NEW at \in R PROVE at \in B
  <2>1. at \in from .. end /\ {from, at} \subseteq R
    BY <1>1
  <2>2. ASSUME NEW x \in R, x < at PROVE Follows(R, lengths, end, x)
    <3>1. x \in from .. end
      BY <1>1
    <3>2. x < end
      BY <1>0, <2>1, <2>2, <3>1
    <3> QED BY <1>1, <3>2
  <2> QED BY <1>1, <1>2, <2>1, <2>2
<1>5. B = R
  BY <1>3, <1>4
<1> QED BY <1>5 DEF B, R

LEMMA PaddedWhole ==
  ASSUME NEW lengths, NEW from, NEW end, Coded(lengths, from, end), NEW size \in Nat, MaxListed \in Nat
  PROVE  PadWhole(lengths, from, end, size)
<1> DEFINE R == Range(Listing(lengths, from, end))
           listed == WithinListing(R)
           enough == {at \in listed : Covers(at - from, size)}
           covered == IF enough = {} THEN Max(listed) - from ELSE Min(enough) - from
           padded == PaddedLength(lengths, from, end, size)
           touched == TouchedBy(lengths, from, end, size)
           seen == from + size <= end /\ Cardinality(touched) <= MaxListed
<1>0. from \in Nat /\ end \in Nat /\ from <= end
  BY DEF Coded
<1>1. R \in SUBSET (from .. end) /\ from \in R /\ end \in R
  BY ListingFacts
<1>2. Boundaries(lengths, from, end) = R
  BY BoundariesListed
<1>3. padded = IF size = 0 THEN 0 ELSE IF covered > size THEN covered ELSE size
  BY DEF PaddedLength
<1>t. \A at : at \in touched <=> at \in R /\ at - from < size
  BY <1>2 DEF TouchedBy
<1> HIDE DEF padded, R
<1>r. \A at \in R : at \in Nat /\ from <= at /\ at <= end
  BY <1>0, <1>1
<1>f. ASSUME NEW at PROVE IsFiniteSet({b \in R : b < at})
  <2>1. IsFiniteSet(from .. end)
    BY <1>0, FS_Interval
  <2> QED BY <1>1, <2>1, FS_Subset
<1>l. \A at : at \in listed <=> at \in R /\ Cardinality({b \in R : b < at}) <= MaxListed
  BY DEF WithinListing
<1>4. \A at : at \in enough <=> at \in listed /\ at - from >= size
  BY DEF Covers
<1> HIDE DEF listed, enough, touched
<1>5. enough \in SUBSET Nat
  BY <1>4, <1>l, <1>r
<1>6. CASE ~seen
  <2>1. ASSUME NEW at \in listed PROVE ~(at - from >= size)
    <3> SUFFICES ASSUME at - from >= size PROVE FALSE
      OBVIOUS
    <3>1. at \in R /\ at \in Nat /\ at <= end /\ Cardinality({b \in R : b < at}) <= MaxListed
      BY <1>l, <1>r
    <3>2. from + size <= end
      BY <1>0, <3>1
    <3>3. touched \subseteq {b \in R : b < at}
      <4>1. ASSUME NEW b \in touched PROVE b \in R /\ b < at
        <5>1. b \in R /\ b - from < size
          BY <1>t
        <5>2. b \in Nat
          BY <1>r, <5>1
        <5> QED BY <1>0, <3>1, <5>1, <5>2
      <4> QED BY <4>1
    <3>4. Cardinality(touched) <= Cardinality({b \in R : b < at}) /\ IsFiniteSet(touched)
      BY <1>f, <3>3, FS_Subset
    <3>5. Cardinality(touched) \in Nat /\ Cardinality({b \in R : b < at}) \in Nat
      BY <1>f, <3>4, FS_CardinalityType
    <3>6. Cardinality(touched) <= MaxListed
      BY <3>1, <3>4, <3>5
    <3> QED BY <1>6, <3>2, <3>6
  <2>2. enough = {}
    BY <1>4, <2>1
  <2>3. from \in listed
    <3>1. {b \in R : b < from} = {}
      BY <1>0, <1>r
    <3> QED BY <1>1, <1>l, <3>1, FS_EmptySet
  <2>4. listed \in SUBSET (0 .. end)
    <3>1. \A at \in listed : at \in R
      BY <1>l
    <3>2. \A at \in listed : at \in Nat /\ at <= end
      BY <1>r, <3>1
    <3>3. \A at \in listed : at \in 0 .. end
      BY <1>0, <3>2
    <3> QED BY <3>3
  <2>5. Max(listed) \in listed
    BY <1>0, <2>3, <2>4, GreatestIs
  <2>6. covered < size /\ covered \in Int
    <3>1. Max(listed) \in Nat
      <4>1. \A at \in listed : at \in Nat
        BY <1>l, <1>r
      <4> QED BY <2>5, <4>1
    <3>2. ~(Max(listed) - from >= size)
      BY <2>1, <2>5
    <3>3. covered = Max(listed) - from
      BY <2>2
    <3> HIDE DEF covered
    <3> QED BY <1>0, <3>1, <3>2, <3>3
  <2> HIDE DEF covered
  <2>7. padded = size
    BY <1>3, <2>6
  <2>8. padded >= size
    BY <2>7
  <2> QED BY <1>6, <2>7, <2>8 DEF PadWhole, padded, touched
<1>7. CASE seen
  <2> DEFINE far == {at \in R : at - from >= size}
             least == Min(far)
  <2>0. far \in SUBSET Nat /\ end \in far
    <3>1. \A at \in far : at \in Nat
      BY <1>r
    <3>2. end - from >= size
      BY <1>0, <1>7
    <3>3. end \in far
      BY <1>1, <3>2
    <3> QED BY <3>1, <3>3
  <2>1. least \in far /\ \A y \in far : least <= y
    BY <2>0, LeastIs
  <2> HIDE DEF least
  <2>2. least \in R /\ least \in Nat /\ least - from >= size
    BY <1>r, <2>1
  <2>3. {b \in R : b < least} = touched
    <3>1. ASSUME NEW b \in R PROVE b < least <=> b - from < size
      <4>1. b \in Nat /\ (b - from >= size => least <= b)
        BY <1>r, <2>1, <3>1
      <4> QED BY <1>0, <2>2, <4>1
    <3> QED BY <1>t, <3>1
  <2>4. least \in enough
    BY <1>4, <1>7, <1>l, <2>2, <2>3
  <2>5. Min(enough) = least
    <3>1. Min(enough) \in enough /\ \A y \in enough : Min(enough) <= y
      BY <1>5, <2>4, LeastIs
    <3>2. Min(enough) \in far /\ Min(enough) \in Nat
      BY <1>4, <1>5, <1>l, <3>1
    <3>3. Min(enough) <= least /\ least <= Min(enough)
      BY <2>1, <2>4, <3>1, <3>2
    <3> QED BY <2>2, <3>2, <3>3
  <2>6. covered = least - from
    BY <2>4, <2>5
  <2> HIDE DEF covered
  <2>7. padded = IF size = 0 THEN 0 ELSE least - from
    BY <1>0, <1>3, <2>2, <2>6
  <2>8. padded >= size
    BY <1>0, <2>2, <2>7
  <2>9. ASSUME size > 0
        PROVE  from + padded \in R /\ \A at \in R : at - from >= size => at - from >= padded
    <3>1. padded = least - from
      BY <2>7, <2>9
    <3>2. from + padded = least
      BY <1>0, <2>2, <3>1
    <3>3. ASSUME NEW at \in R, at - from >= size PROVE at - from >= padded
      <4>1. least <= at /\ at \in Nat
        BY <1>r, <2>1, <3>3
      <4> QED BY <1>0, <2>2, <3>1, <4>1
    <3> QED BY <2>2, <3>2, <3>3
  <2> QED BY <1>2, <1>7, <2>8, <2>9 DEF PadWhole, padded, touched
<1> QED BY <1>6, <1>7

(* In phase, decoding lands on an instruction that ends at the address.       *)
LEMMA Landed ==
  ASSUME NEW lengths, NEW from, NEW address, Coded(lengths, from, address), from < address,
         InPhase(lengths, from, address), NEW at, at = Landing(lengths, from, address)
  PROVE  at \in from .. address - 1 /\ lengths[at] # 0 /\ at + lengths[at] = address
<1> DEFINE R == Range(Listing(lengths, from, address))
           S == {x \in R : x < address}
<1>0. from \in Nat /\ address \in Nat
  BY DEF Coded
<1>1. /\ R \in SUBSET (from .. address) /\ from \in R
      /\ \A x \in R : x < address => Follows(R, lengths, address, x)
  BY ListingFacts
<1>2. at = Max(S) /\ \A x \in R : x < address => Decodes(lengths, x, address)
  BY DEF Landing, InPhase
<1> HIDE DEF R
<1>3. S \in SUBSET (0 .. address) /\ S # {}
  <2>1. \A x \in R : x \in 0 .. address
    BY <1>0, <1>1
  <2> QED BY <1>1, <2>1
<1> HIDE DEF S
<1>4. at \in S /\ \A y \in S : at >= y
  BY <1>0, <1>2, <1>3, GreatestIs
<1>5. at \in R /\ at < address /\ at \in from .. address /\ at \in Int
  BY <1>0, <1>1, <1>4 DEF S
<1>6. lengths[at] # 0 /\ at + lengths[at] <= address /\ lengths[at] \in Nat
  <2>1. at \in from .. address - 1
    BY <1>0, <1>5
  <2>2. lengths[at] \in Nat
    BY <2>1 DEF Coded
  <2> QED BY <1>2, <1>5, <2>2 DEF Decodes
<1>7. at + lengths[at] \in R
  <2>1. StepWidth(lengths, at, address) = lengths[at]
    BY <1>6 DEF StepWidth, Decodes
  <2> QED BY <1>1, <1>5, <2>1 DEF Follows
<1>8. ~(at + lengths[at] < address)
  <2> SUFFICES ASSUME at + lengths[at] < address PROVE FALSE
    OBVIOUS
  <2>1. at >= at + lengths[at]
    BY <1>4, <1>7 DEF S
  <2> QED BY <1>5, <1>6, <2>1
<1> QED BY <1>0, <1>5, <1>6, <1>8

LEMMA PrecedingIsReal ==
  ASSUME NEW lengths, NEW first, NEW address, Coded(lengths, first, address), first < address
  PROVE  PrecedingReal(lengths, first, address)
<1> DEFINE low == Max({first, address - MaxLookback})
           reach == low .. address - 1
           starts == {from \in reach : InPhase(lengths, from, address)}
           Land(from) == Landing(lengths, from, address)
           Agreed(at) == {from \in starts : Land(from) = at}
           D == {Land(from) : from \in starts}
           votes == [at \in D |-> Cardinality(Agreed(at))]
           most == {at \in DOMAIN votes : \A b \in DOMAIN votes : votes[b] <= votes[at]}
           taken == PrecedingInstruction(lengths, first, address)
<1>0. first \in Nat /\ first > 0 /\ address \in Nat /\ MaxLookback \in Nat /\ MaxLookback > 0
  BY InputsAssumption DEF Coded
<1>1. low \in Nat /\ first <= low /\ low < address
  <2>1. \E x \in {first, address - MaxLookback} : \A y \in {first, address - MaxLookback} : x >= y
    BY <1>0
  <2>2. low \in {first, address - MaxLookback} /\ \A y \in {first, address - MaxLookback} : low >= y
    BY <2>1 DEF Max
  <2> HIDE DEF low
  <2> QED BY <1>0, <2>2
<1>2. taken = IF most = {} THEN 0 ELSE Min(most)
  BY DEF PrecedingInstruction, Votes
<1> HIDE DEF low, taken
<1>3. starts \in SUBSET (0 .. address) /\ IsFiniteSet(starts)
  <2>1. starts \in SUBSET (0 .. address)
    BY <1>0, <1>1
  <2>2. IsFiniteSet(0 .. address)
    BY <1>0, FS_Interval
  <2> HIDE DEF starts
  <2> QED BY <2>1, <2>2, FS_Subset
<1>4. ASSUME NEW from \in starts
      PROVE  Land(from) \in reach /\ lengths[Land(from)] # 0 /\ Land(from) + lengths[Land(from)] = address
  <2>1. from \in Nat /\ first <= from /\ low <= from /\ from < address /\ InPhase(lengths, from, address)
    BY <1>0, <1>1
  <2>2. Coded(lengths, from, address)
    BY <1>0, <2>1 DEF Coded
  <2> HIDE DEF starts
  <2>3. /\ Land(from) \in from .. address - 1 /\ lengths[Land(from)] # 0
        /\ Land(from) + lengths[Land(from)] = address
    BY <2>1, <2>2, Landed
  <2> QED BY <1>0, <1>1, <2>1, <2>3
<1> HIDE DEF starts, Land
<1>5. ASSUME NEW at \in D PROVE at \in reach /\ at \in Nat \ {0} /\ lengths[at] # 0 /\ at + lengths[at] = address
  <2>1. PICK from \in starts : at = Land(from)
    OBVIOUS
  <2>2. at \in reach /\ lengths[at] # 0 /\ at + lengths[at] = address
    BY <1>4, <2>1
  <2> QED BY <1>0, <1>1, <2>2
<1>6. ASSUME NEW at \in D PROVE votes[at] \in 0 .. Cardinality(starts)
  <2>1. Agreed(at) \in SUBSET starts
    OBVIOUS
  <2> HIDE DEF Agreed
  <2>2. Cardinality(Agreed(at)) \in Nat /\ Cardinality(Agreed(at)) <= Cardinality(starts) /\ Cardinality(starts) \in Nat
    BY <1>3, <2>1, FS_Subset, FS_CardinalityType
  <2> QED BY <2>2
<1>7. DOMAIN votes = D
  OBVIOUS
<1> HIDE DEF votes
<1>8. starts # {} => most # {}
  <2> SUFFICES ASSUME starts # {} PROVE most # {}
    OBVIOUS
  <2> DEFINE V == {votes[at] : at \in D}
             n == Cardinality(starts)
  <2>1. n \in Nat
    BY <1>3, FS_CardinalityType
  <2>2. D # {}
    OBVIOUS
  <2> HIDE DEF D, n
  <2>3. V \in SUBSET (0 .. n) /\ V # {}
    BY <1>6, <2>2 DEF n
  <2>4. Max(V) \in V /\ \A v \in V : Max(V) >= v
    <3> HIDE DEF V
    <3> QED BY <2>1, <2>3, GreatestIs
  <2>5. PICK at \in D : votes[at] = Max(V)
    BY <2>4
  <2>6. \A b \in D : votes[b] <= votes[at]
    <3>1. \A b \in D : votes[at] >= votes[b] /\ votes[b] \in Int /\ votes[at] \in Int
      BY <1>6, <2>4, <2>5
    <3> QED BY <3>1
  <2> QED BY <1>7, <2>6
<1>9. most \in SUBSET D
  BY <1>7
<1> HIDE DEF most
<1>10. starts = {} => D = {}
  OBVIOUS
<1> HIDE DEF D
<1>11. most # {} => taken \in D
  <2> SUFFICES ASSUME most # {} PROVE taken \in D
    OBVIOUS
  <2>1. most \in SUBSET Nat
    BY <1>5, <1>9
  <2>2. Min(most) \in most
    BY <2>1, LeastIs
  <2> QED BY <1>2, <1>9, <2>2
<1>12. taken = 0 <=> starts = {}
  BY <1>2, <1>5, <1>8, <1>9, <1>10, <1>11
<1>13. taken # 0 => taken \in reach /\ lengths[taken] # 0 /\ taken + lengths[taken] = address
  BY <1>2, <1>5, <1>11
<1>14. starts = {} <=> \A from \in reach : ~InPhase(lengths, from, address)
  BY DEF starts
<1> HIDE DEF reach
<1> QED BY <1>12, <1>13, <1>14 DEF PrecedingReal, taken, reach, low

--------------------------------------------------------------------------------
(* Every input                                                                *)

LEMMA InputsAreSound ==
  ASSUME input \in ComparedInputs \cup TextInputs \cup PatternInputs \cup CodeInputs
  PROVE  AlgorithmsSound
<1>1. CASE input \in ComparedInputs
  <2>1. PICK t \in ComparedTypes :
          input \in [kind : {"values"}, type : {t}, a : ValueOf(t), b : ValueOf(t), d : ValueOf(t)]
    BY <1>1 DEF ComparedInputs
  <2>2. t \in Whole
    BY InputsAssumption
  <2>3. input.kind = "values" /\ input.type = t /\ input.a \in ValueOf(t) /\ input.b \in ValueOf(t) /\ input.d \in ValueOf(t)
    BY <2>1
  <2>4. ComparesAgree
    BY <2>2, <2>3, CompareLaws DEF ComparesAgree, Compares, Bounded
  <2>5. input.a \o input.b \in Seq(Byte) /\ input.a \o input.b # << >>
    <3> DEFINE w == ValueTypeSize(t)
    <3>1. w \in Nat /\ w > 0 /\ input.a \in [1 .. w -> Byte] /\ input.b \in [1 .. w -> Byte]
      BY <2>2, <2>3, Width DEF ValueOf
    <3> HIDE DEF w
    <3>2. input.a \in Seq(Byte) /\ input.b \in Seq(Byte) /\ Len(input.a) = w /\ Len(input.b) = w
      BY <3>1
    <3>3. input.a \o input.b \in Seq(Byte) /\ Len(input.a \o input.b) = w + w
      <4> DEFINE p == input.a
                 q == input.b
      <4> HIDE DEF p, q
      <4>1. p \in Seq(Byte) /\ q \in Seq(Byte) /\ Len(p) = w /\ Len(q) = w
        BY <3>2 DEF p, q
      <4>2. p \o q \in Seq(Byte) /\ Len(p \o q) = w + w
        BY <4>1, ConcatProperties
      <4> QED BY <4>2 DEF p, q
    <3>4. w + w # 0 /\ Len(<< >>) = 0
      BY <3>1
    <3> QED BY <3>3, <3>4
  <2>6. ReadsAsWritten(input.a \o input.b)
    BY <2>5, ReadBack
  <2> QED BY <2>3, <2>4, <2>6 DEF AlgorithmsSound
<1>2. CASE input \in TextInputs
  <2>1. input.kind = "text" /\ input.text \in UpTo(MaxText, 0 .. Prefix)
    BY <1>2 DEF TextInputs
  <2>2. PICK n \in 0 .. MaxText : input.text \in [1 .. n -> 0 .. Prefix]
    BY <2>1 DEF UpTo
  <2>3. input.text \in Seq(Nat)
    <3>1. 0 .. Prefix \subseteq Nat
      BY BaseFacts DEF Prefix
    <3>2. input.text \in [1 .. n -> Nat] /\ n \in Nat
      BY <2>2, <3>1, InputsAssumption
    <3> QED BY <3>2
  <2>4. ParsersAgree(input.text)
    BY <2>3, ParsersDoAgree
  <2> QED BY <2>1, <2>4 DEF AlgorithmsSound
<1>3. CASE input \in PatternInputs
  <2>1. /\ input.kind = "pattern" /\ input.bytes \in UpTo(MaxRead, {0, 1}) /\ input.size \in Nat
        /\ input.pattern \in UpTo(MaxNeedle, {AnyByte, 0, 1}) /\ input.most \in Nat
    BY <1>3, InputsAssumption DEF PatternInputs
  <2>2. ASSUME NEW most \in Nat, NEW S, NEW s \in UpTo(most, S) PROVE s \in Seq(S)
    <3>1. PICK n \in 0 .. most : s \in [1 .. n -> S]
      BY DEF UpTo
    <3> QED BY <3>1
  <2>3. input.bytes \in Seq({0, 1}) /\ input.pattern \in Seq({AnyByte, 0, 1})
    BY <2>1, <2>2, InputsAssumption
  <2>4. ASSUME input.pattern # << >> PROVE PatternFound(input.bytes, input.size, input.pattern, input.most)
    <3>1. Len(input.bytes) \in Nat /\ Len(input.pattern) \in Nat \ {0}
      BY <2>3, <2>4, EmptySeq, LenProperties
    <3> QED BY <2>1, <2>4, <3>1, PatternsAreFound
  <2> QED BY <2>1, <2>4 DEF AlgorithmsSound
<1>4. CASE input \in CodeInputs
  <2>1. input.kind = "code" /\ input.lengths \in [1 .. MaxCode -> 0 .. MaxLength]
    BY <1>4 DEF CodeInputs
  <2>2. MaxCode \in Nat /\ MaxLength \in Nat
    BY InputsAssumption
  <2>3. ASSUME NEW from \in Nat \ {0}, NEW end \in Nat, from <= end, end <= MaxCode + 1
        PROVE  Coded(input.lengths, from, end)
    <3>1. ASSUME NEW at \in from .. end - 1 PROVE at \in DOMAIN input.lengths /\ input.lengths[at] \in Nat
      <4>1. at \in 1 .. MaxCode
        BY <2>2, <2>3
      <4>2. input.lengths[at] \in 0 .. MaxLength
        BY <2>1, <4>1
      <4> QED BY <2>1, <2>2, <4>1, <4>2
    <3> QED BY <2>3, <3>1 DEF Coded
  <2>4. ASSUME NEW end \in 1 .. MaxCode + 1, NEW size \in 0 .. MaxCode PROVE PadWhole(input.lengths, 1, end, size)
    <3>1. 1 \in Nat \ {0} /\ end \in Nat /\ 1 <= end /\ end <= MaxCode + 1 /\ size \in Nat
      BY <2>2
    <3> QED BY <2>3, <3>1, PaddedWhole, InputsAssumption
  <2>5. ASSUME NEW first \in 1 .. MaxCode, NEW address \in first + 1 .. MaxCode + 1
        PROVE  PrecedingReal(input.lengths, first, address)
    <3>1. first \in Nat \ {0} /\ address \in Nat /\ first <= address /\ first < address /\ address <= MaxCode + 1
      BY <2>2
    <3> QED BY <2>3, <3>1, PrecedingIsReal
  <2> QED BY <2>1, <2>4, <2>5 DEF AlgorithmsSound
<1> QED BY <1>1, <1>2, <1>3, <1>4

(* Whatever is compared, written, read, searched or padded, of whatever width *)
(* and base, comparisons and parsers agree, every search finds what it is     *)
(* for, and a patch is padded to whole instructions as long as it touches no  *)
(* more of them than are listed, else left alone (Domain.cpp; MemoryScanner.cpp, relativeCompare, absoluteCompare and   *)
(* findPattern; Disassembler.cpp, padToInstructionBoundary and                *)
(* precedingInstruction).                                                     *)
THEOREM AlgorithmsAlwaysSound == InputsSpec => []AlgorithmsSound
<1> DEFINE Inputs1 == input \in ComparedInputs \cup TextInputs \cup PatternInputs \cup CodeInputs
<1>1. InputsInit => Inputs1
  BY DEF InputsInit
<1>2. Inputs1 /\ [UNCHANGED input]_input => Inputs1'
  BY DEF ComparedInputs, TextInputs, PatternInputs, CodeInputs
<1>3. Inputs1 => AlgorithmsSound
  BY InputsAreSound
<1> HIDE DEF Inputs1
<1> QED BY <1>1, <1>2, <1>3, PTL DEF InputsSpec
================================================================================
