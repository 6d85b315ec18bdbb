-------------------------- MODULE RadixCache_proofs --------------------------
(***************************************************************************)
(* The radix tree stays one tree, with exact lock counts, leaves, sizes    *)
(* and priorities, and evicts in the order of its policy, for any tokens,  *)
(* slots, clients, keys, inserts, priorities and policies.  And seen from  *)
(* outside it is the map of PrefixCache: the tree refines it.              *)
(*                                                                         *)
(* The first part is about prefixes, the second about what one helper of   *)
(* the code does to any well-formed tree, the third about the steps, the   *)
(* fourth about the order of evictions, and the last about the map a tree  *)
(* stands for and what each step does to it.                               *)
(***************************************************************************)
EXTENDS RadixCache, PrefixMap_lemmas, FiniteSetTheorems

-----------------------------------------------------------------------------
(* Prefixes *)

\* A set of numbers that is not empty has a least element.
LEMMA LeastNumber ==
    ASSUME NEW T \in SUBSET Nat, T # {}
    PROVE  \E m \in T : \A y \in T : m <= y
<1>1. PICK m \in T : \A y \in T : <<y, m>> \notin OpToRel(<, Nat)
    BY WFMin, NatLessThanWellFounded
<1>2. \A y \in T : m <= y
    <2> TAKE y \in T
    <2>1. y \in Nat /\ m \in Nat
        OBVIOUS
    <2>2. y < m => <<y, m>> \in OpToRel(<, Nat)
        BY <2>1, Zenon DEF OpToRel
    <2>3. ~ (y < m)
        BY <1>1, <2>2, Zenon
    <2> QED BY <2>1, <2>3
<1> QED BY <1>2

LEMMA MaxOfPair ==
    ASSUME NEW a \in Int, NEW b \in Int
    PROVE  Max({a, b}) = IF a >= b THEN a ELSE b
<1> DEFINE m == IF a >= b THEN a ELSE b
<1>1. m \in {a, b} /\ \A y \in {a, b} : m >= y
    OBVIOUS
<1>2. \A x \in {a, b} : (\A y \in {a, b} : x >= y) => x = m
    OBVIOUS
<1>3. Max({a, b}) \in {a, b} /\ \A y \in {a, b} : Max({a, b}) >= y
    <2> HIDE DEF m
    <2>1. \E x \in {a, b} : \A y \in {a, b} : x >= y
        BY <1>1
    <2> QED BY <2>1 DEF Max
<1> HIDE DEF m
<1>4. Max({a, b}) = m
    BY <1>2, <1>3
<1> QED BY <1>4 DEF m

\* IsPrefix, token by token.
LEMMA PrefixByToken ==
    ASSUME NEW S, NEW p \in Seq(S), NEW q \in Seq(S)
    PROVE  IsPrefix(p, q) <=>
                Len(p) <= Len(q) /\ \A i \in 1 .. Len(p) : p[i] = q[i]
<1>1. Len(p) \in Nat /\ Len(q) \in Nat
    BY LenProperties
<1>2. SubSeq(p, 1, Len(p)) = p
    BY SubSeqFull
<1>3. ASSUME Len(p) <= Len(q)
      PROVE  /\ Take(q, Len(p)) \in Seq(S) /\ Len(Take(q, Len(p))) = Len(p)
             /\ \A i \in 1 .. Len(p) : Take(q, Len(p))[i] = q[i]
    BY <1>1, <1>3, TakeProperties
<1>4. ASSUME Len(p) <= Len(q), \A i \in 1 .. Len(p) : p[i] = q[i]
      PROVE  p = Take(q, Len(p))
    BY <1>3, <1>4, SeqEqual
<1> QED BY <1>2, <1>3, <1>4 DEF IsPrefix, Take

\* A prefix is what its length takes.
LEMMA PrefixIsTake ==
    ASSUME NEW S, NEW p \in Seq(S), NEW q \in Seq(S)
    PROVE  IsPrefix(p, q) <=> Len(p) <= Len(q) /\ p = Take(q, Len(p))
<1>1. SubSeq(p, 1, Len(p)) = p
    BY SubSeqFull
<1> QED BY <1>1 DEF IsPrefix, Take

LEMMA TakeIsPrefix ==
    ASSUME NEW S, NEW q \in Seq(S), NEW n \in 0 .. Len(q)
    PROVE  /\ Take(q, n) \in Seq(S) /\ Len(Take(q, n)) = n
           /\ IsPrefix(Take(q, n), q)
<1>1. Take(q, n) \in Seq(S) /\ Len(Take(q, n)) = n
    BY TakeProperties
<1>2. n <= Len(q)
    BY LenProperties
<1> QED BY <1>1, <1>2, PrefixIsTake

LEMMA PrefixReflexive ==
    ASSUME NEW S, NEW p \in Seq(S)
    PROVE  IsPrefix(p, p)
<1>1. Len(p) \in Nat
    BY LenProperties
<1> QED BY <1>1, PrefixByToken

LEMMA PrefixTransitive ==
    ASSUME NEW S, NEW p \in Seq(S), NEW q \in Seq(S), NEW r \in Seq(S),
           IsPrefix(p, q), IsPrefix(q, r)
    PROVE  IsPrefix(p, r)
<1>1. Len(p) \in Nat /\ Len(q) \in Nat /\ Len(r) \in Nat
    BY LenProperties
<1> QED BY <1>1, PrefixByToken

\* Of two prefixes of a sequence the shorter is a prefix of the longer.
LEMMA PrefixesComparable ==
    ASSUME NEW S, NEW p \in Seq(S), NEW q \in Seq(S), NEW r \in Seq(S),
           IsPrefix(p, r), IsPrefix(q, r), Len(p) <= Len(q)
    PROVE  IsPrefix(p, q)
<1>1. Len(p) \in Nat /\ Len(q) \in Nat /\ Len(r) \in Nat
    BY LenProperties
<1> QED BY <1>1, PrefixByToken

LEMMA PrefixOfSameLength ==
    ASSUME NEW S, NEW p \in Seq(S), NEW q \in Seq(S), IsPrefix(p, q), Len(p) >= Len(q)
    PROVE  p = q
<1>1. Len(p) \in Nat /\ Len(q) \in Nat
    BY LenProperties
<1> QED BY <1>1, PrefixByToken, SeqEqual

\* The empty sequence.
LEMMA EmptyPrefix ==
    ASSUME NEW S, NEW e \in Seq(S), Len(e) = 0, NEW p \in Seq(S)
    PROVE  IsPrefix(e, p) /\ (IsPrefix(p, e) => Len(p) = 0)
<1>1. Len(p) \in Nat
    BY LenProperties
<1>2. IsPrefix(e, p)
    <2>1. Len(e) <= Len(p) /\ \A i \in 1 .. Len(e) : e[i] = p[i]
        BY <1>1
    <2> QED BY <2>1, PrefixByToken
<1>3. IsPrefix(p, e) => Len(p) <= Len(e)
    BY PrefixByToken
<1> QED BY <1>1, <1>2, <1>3

LEMMA RootPrefix ==
    ASSUME NEW S, NEW p \in Seq(S)
    PROVE  /\ Root \in Seq(S) /\ Len(Root) = 0 /\ IsPrefix(Root, p)
           /\ (p = Root <=> Len(p) = 0)
           /\ (IsPrefix(p, Root) <=> p = Root)
<1>1. Root \in Seq(S) /\ Len(Root) = 0
    BY EmptySeq DEF Root
<1>2. p # Root => Len(p) # 0
    BY EmptySeq DEF Root
<1>3. \A e \in Seq(S) : Len(e) = 0 => IsPrefix(e, p) /\ (IsPrefix(p, e) => Len(p) = 0)
    BY EmptyPrefix
<1>4. IsPrefix(Root, p) /\ (IsPrefix(p, Root) => Len(p) = 0)
    BY <1>1, <1>3
<1> QED BY <1>1, <1>2, <1>4

\* What a parent's name and a node's key make.
LEMMA ConcatPrefix ==
    ASSUME NEW S, NEW p \in Seq(S), NEW k \in Seq(S)
    PROVE  /\ p \o k \in Seq(S) /\ Len(p \o k) = Len(p) + Len(k)
           /\ IsPrefix(p, p \o k)
           /\ \A i \in 1 .. Len(k) : (p \o k)[Len(p) + i] = k[i]
<1>1. Len(p) \in Nat /\ Len(k) \in Nat
    BY LenProperties
<1>2. /\ p \o k \in Seq(S) /\ Len(p \o k) = Len(p) + Len(k)
      /\ \A i \in 1 .. Len(p) + Len(k) : (p \o k)[i] =
              IF i <= Len(p) THEN p[i] ELSE k[i - Len(p)]
    BY ConcatProperties
<1>3. IsPrefix(p, p \o k)
    <2>1. \A i \in 1 .. Len(p) : p[i] = (p \o k)[i]
        BY <1>1, <1>2
    <2>2. Len(p) <= Len(p \o k)
        BY <1>1, <1>2
    <2> QED BY <1>2, <2>1, <2>2, PrefixByToken
<1>4. \A i \in 1 .. Len(k) : (p \o k)[Len(p) + i] = k[i]
    <2> TAKE i \in 1 .. Len(k)
    <2>1. Len(p) + i \in 1 .. Len(p) + Len(k) /\ ~ (Len(p) + i <= Len(p))
          /\ (Len(p) + i) - Len(p) = i
        BY <1>1
    <2> QED BY <1>2, <2>1
<1> QED BY <1>2, <1>3, <1>4

\* s[n:]
LEMMA DropProperties ==
    ASSUME NEW S, NEW q \in Seq(S), NEW n \in 0 .. Len(q)
    PROVE  /\ Drop(q, n) \in Seq(S) /\ Len(Drop(q, n)) = Len(q) - n
           /\ \A i \in 1 .. Len(q) - n : Drop(q, n)[i] = q[n + i]
<1>1. Len(q) \in Nat /\ n + 1 \in Int
    BY LenProperties
<1>2. \A i \in n + 1 .. Len(q) : q[i] \in S
    <2> TAKE i \in n + 1 .. Len(q)
    <2>1. i \in 1 .. Len(q)
        BY <1>1
    <2> QED BY <2>1, ElementOfSeq
<1>3. /\ Drop(q, n) \in Seq(S)
      /\ Len(Drop(q, n)) = IF n + 1 <= Len(q) THEN (Len(q) - (n + 1)) + 1 ELSE 0
      /\ \A i \in 1 .. (Len(q) - (n + 1)) + 1 : Drop(q, n)[i] = q[((n + 1) + i) - 1]
    BY <1>1, <1>2, SubSeqProperties DEF Drop
<1>4. ASSUME NEW i \in 1 .. Len(q) - n PROVE Drop(q, n)[i] = q[n + i]
    <2>1. i \in 1 .. (Len(q) - (n + 1)) + 1 /\ ((n + 1) + i) - 1 = n + i
        BY <1>1
    <2> QED BY <1>3, <2>1
<1>5. Len(Drop(q, n)) = Len(q) - n
    BY <1>1, <1>3
<1> QED BY <1>3, <1>4, <1>5

\* Two keys agree for KeyMatch tokens and not for one more.
LEMMA KeyMatchProperties ==
    ASSUME NEW S, NEW a \in Seq(S), NEW b \in Seq(S)
    PROVE  LET n == KeyMatch(a, b)
           IN  /\ n \in 0 .. Len(a) /\ n <= Len(b)
               /\ \A i \in 1 .. n : a[i] = b[i]
               /\ n < Len(a) /\ n < Len(b) => a[n + 1] # b[n + 1]
<1> DEFINE match(n) == n <= Len(b) /\ Take(a, n) = Take(b, n)
           T == {n \in 0 .. Len(a) : match(n)}
<1>1. Len(a) \in Nat /\ Len(b) \in Nat
    BY LenProperties
<1>2. ASSUME NEW n \in 0 .. Len(a), n <= Len(b)
      PROVE  Take(a, n) = Take(b, n) <=> \A i \in 1 .. n : a[i] = b[i]
    <2>1. n \in 0 .. Len(b)
        BY <1>1, <1>2
    <2>2. /\ Take(a, n) \in Seq(S) /\ Len(Take(a, n)) = n
          /\ \A i \in 1 .. n : Take(a, n)[i] = a[i]
        BY TakeProperties
    <2>3. /\ Take(b, n) \in Seq(S) /\ Len(Take(b, n)) = n
          /\ \A i \in 1 .. n : Take(b, n)[i] = b[i]
        BY <2>1, TakeProperties
    <2>4. ASSUME \A i \in 1 .. n : a[i] = b[i] PROVE Take(a, n) = Take(b, n)
        <3>1. \A i \in 1 .. Len(Take(a, n)) : Take(a, n)[i] = Take(b, n)[i]
            BY <2>2, <2>3, <2>4
        <3> QED BY <2>2, <2>3, <3>1, SeqEqual
    <2>5. ASSUME Take(a, n) = Take(b, n) PROVE \A i \in 1 .. n : a[i] = b[i]
        <3> TAKE i \in 1 .. n
        <3> QED BY <2>2, <2>3, <2>5
    <2> QED BY <2>4, <2>5
<1>3. 0 \in T
    <2>1. 0 \in 0 .. Len(a) /\ 0 <= Len(b) /\ \A i \in 1 .. 0 : a[i] = b[i]
        BY <1>1
    <2> QED BY <1>2, <2>1
<1>4. T \in SUBSET (0 .. Len(a)) /\ T # {}
    BY <1>3
<1>5. Max(T) \in T /\ \A y \in T : Max(T) >= y
    <2> HIDE DEF T
    <2> QED BY <1>1, <1>4, MaxOfBoundedSet
<1>6. KeyMatch(a, b) = Max(T)
    BY DEF KeyMatch
<1> DEFINE n == KeyMatch(a, b)
<1>7. n \in 0 .. Len(a) /\ n <= Len(b) /\ Take(a, n) = Take(b, n)
    BY <1>5, <1>6
<1>8. \A i \in 1 .. n : a[i] = b[i]
    BY <1>2, <1>7
<1>9. ASSUME n < Len(a), n < Len(b), a[n + 1] = b[n + 1] PROVE FALSE
    <2> HIDE DEF n
    <2>1. n + 1 \in 0 .. Len(a) /\ n + 1 <= Len(b)
        BY <1>1, <1>7, <1>9
    <2>2. \A i \in 1 .. n + 1 : a[i] = b[i]
        BY <1>7, <1>8, <1>9
    <2>3. n + 1 \in T
        BY <1>2, <2>1, <2>2
    <2>4. n >= n + 1
        BY <1>5, <1>6, <2>3 DEF n
    <2> QED BY <1>1, <1>7, <2>4
<1> QED BY <1>7, <1>8, <1>9

-----------------------------------------------------------------------------
(* Trees *)

Links == UNION {[D -> Seq(Token)] : D \in SUBSET Token}
NodeRec ==
    [parent : Seq(Token), key : Seq(Token), value : Seq(Slot), lock_ref : Nat,
     children : Links, priority : Int, last_access_time : Nat, creation_time : Nat]
Heaps == UNION {[D -> NodeRec] : D \in SUBSET Seq(Token)}
TreeRec ==
    [nodes : Heaps, evictable_leaves : SUBSET Seq(Token), evictable_size_ : Int,
     protected_size_ : Int]

Ids(s) == DOMAIN s.nodes
Inner(s) == Ids(s) \ {Root}
Par(s, id) == s.nodes[id].parent
Kids(s, id) == s.nodes[id].children

Typed(s) == s \in TreeRec /\ IsFiniteSet(Ids(s))

LEMMA TreeFacts ==
    ASSUME NEW s, Typed(s)
    PROVE  /\ Ids(s) \subseteq Seq(Token) /\ IsFiniteSet(Ids(s))
           /\ s.nodes \in [Ids(s) -> NodeRec]
           /\ s = [nodes |-> s.nodes, evictable_leaves |-> s.evictable_leaves,
                   evictable_size_ |-> s.evictable_size_,
                   protected_size_ |-> s.protected_size_]
           /\ s.evictable_size_ \in Int /\ s.protected_size_ \in Int
<1>1. s \in TreeRec /\ IsFiniteSet(Ids(s))
    BY DEF Typed
<1>2. s.nodes \in Heaps /\ s.evictable_size_ \in Int /\ s.protected_size_ \in Int
    BY <1>1 DEF TreeRec
<1>3. s = [nodes |-> s.nodes, evictable_leaves |-> s.evictable_leaves,
           evictable_size_ |-> s.evictable_size_, protected_size_ |-> s.protected_size_]
    BY <1>1 DEF TreeRec
<1>4. PICK D \in SUBSET Seq(Token) : s.nodes \in [D -> NodeRec]
    BY <1>2 DEF Heaps
<1>5. Ids(s) = D
    BY <1>4 DEF Ids
<1> QED BY <1>1, <1>2, <1>3, <1>4, <1>5

LEMMA NodeFields ==
    ASSUME NEW node \in NodeRec
    PROVE  /\ node.parent \in Seq(Token) /\ node.key \in Seq(Token)
           /\ node.value \in Seq(Slot) /\ node.lock_ref \in Nat /\ node.priority \in Int
           /\ node.last_access_time \in Nat /\ node.creation_time \in Nat
           /\ DOMAIN node.children \subseteq Token
           /\ node.children \in [DOMAIN node.children -> Seq(Token)]
           /\ node = [parent |-> node.parent, key |-> node.key, value |-> node.value,
                      lock_ref |-> node.lock_ref, children |-> node.children,
                      priority |-> node.priority,
                      last_access_time |-> node.last_access_time,
                      creation_time |-> node.creation_time]
<1>1. node.children \in Links
    BY DEF NodeRec
<1>2. PICK D \in SUBSET Token : node.children \in [D -> Seq(Token)]
    BY <1>1 DEF Links
<1>3. DOMAIN node.children = D
    BY <1>2
<1> QED BY <1>2, <1>3 DEF NodeRec

\* Parents and children of the nodes agree, and with their names.
Shape(s) ==
    /\ Root \in Ids(s)
    /\ \A id \in Inner(s) :
        /\ Par(s, id) \in Ids(s) /\ s.nodes[id].key # <<>>
        /\ Par(s, id) \o s.nodes[id].key = id
        /\ Len(s.nodes[id].value) = Len(s.nodes[id].key)
        /\ s.nodes[id].key[1] \in DOMAIN Kids(s, Par(s, id))
        /\ Kids(s, Par(s, id))[s.nodes[id].key[1]] = id
    /\ \A id \in Ids(s) : \A tok \in DOMAIN Kids(s, id) :
        /\ Kids(s, id)[tok] \in Inner(s) /\ Par(s, Kids(s, id)[tok]) = id
        /\ s.nodes[Kids(s, id)[tok]].key[1] = tok

\* A node's name extends its parent's by its key.
LEMMA NodeFacts ==
    ASSUME NEW s, Typed(s), Shape(s), NEW id \in Inner(s)
    PROVE  /\ id \in Seq(Token) /\ Len(id) \in Nat
           /\ Par(s, id) \in Ids(s) /\ Par(s, id) \in Seq(Token)
           /\ Len(Par(s, id)) \in Nat /\ Len(Par(s, id)) < Len(id)
           /\ IsPrefix(Par(s, id), id)
           /\ s.nodes[id].key \in Seq(Token)
           /\ Len(s.nodes[id].key) = Len(id) - Len(Par(s, id))
           /\ \A i \in 1 .. Len(id) - Len(Par(s, id)) :
                s.nodes[id].key[i] = id[Len(Par(s, id)) + i]
           /\ s.nodes[id].value \in Seq(Slot)
           /\ Len(s.nodes[id].value) = Len(id) - Len(Par(s, id))
           /\ id[Len(Par(s, id)) + 1] \in DOMAIN Kids(s, Par(s, id))
           /\ Kids(s, Par(s, id))[id[Len(Par(s, id)) + 1]] = id
<1> DEFINE p == Par(s, id)
           k == s.nodes[id].key
<1>1. /\ id \in Ids(s) /\ p \in Ids(s) /\ k # <<>> /\ p \o k = id
      /\ Len(s.nodes[id].value) = Len(k)
      /\ k[1] \in DOMAIN Kids(s, p) /\ Kids(s, p)[k[1]] = id
    BY DEF Shape, Inner
<1>2. Ids(s) \subseteq Seq(Token) /\ s.nodes[id] \in NodeRec
    BY <1>1, TreeFacts DEF Ids
<1>3. p \in Seq(Token) /\ id \in Seq(Token)
    BY <1>1, <1>2
<1>4. k \in Seq(Token) /\ s.nodes[id].value \in Seq(Slot)
    BY <1>2, NodeFields
<1>5. Len(p) \in Nat /\ Len(k) \in Nat \ {0} /\ Len(id) \in Nat
    BY <1>1, <1>3, <1>4, EmptySeq, LenProperties
<1>6. /\ Len(id) = Len(p) + Len(k) /\ IsPrefix(p, id)
      /\ \A i \in 1 .. Len(k) : id[Len(p) + i] = k[i]
    <2> HIDE DEF p, k
    <2>1. /\ Len(p \o k) = Len(p) + Len(k) /\ IsPrefix(p, p \o k)
          /\ \A i \in 1 .. Len(k) : (p \o k)[Len(p) + i] = k[i]
        BY <1>3, <1>4, ConcatPrefix
    <2> QED BY <1>1, <2>1
<1>7. Len(p) < Len(id) /\ Len(k) = Len(id) - Len(p)
    BY <1>5, <1>6
<1>8. k[1] = id[Len(p) + 1]
    BY <1>5, <1>6
<1> QED BY <1>1, <1>3, <1>4, <1>5, <1>6, <1>7, <1>8

\* The same, as one predicate.
Hangs(s, id, p, k) ==
    /\ id \in Seq(Token) /\ Len(id) \in Nat /\ p \in Ids(s) /\ p \in Seq(Token)
    /\ Len(p) \in Nat /\ Len(p) < Len(id) /\ IsPrefix(p, id) /\ k \in Seq(Token)
    /\ Len(k) = Len(id) - Len(p)
    /\ \A i \in 1 .. Len(id) - Len(p) : k[i] = id[Len(p) + i]

LEMMA NodeHangs ==
    ASSUME NEW s, Typed(s), Shape(s), NEW id \in Inner(s)
    PROVE  Hangs(s, id, Par(s, id), s.nodes[id].key)
BY NodeFacts DEF Hangs

\* No node lies between a node and its parent.
LEMMA NoGap ==
    ASSUME NEW s, Typed(s), Shape(s)
    PROVE  \A x \in Inner(s), y \in Ids(s) :
                IsPrefix(y, x) /\ y # x => Len(y) <= Len(Par(s, x))
<1> DEFINE Gap(x, y) == /\ IsPrefix(y, x) /\ y # x
                        /\ ~ (Len(y) <= Len(Par(s, x)))
           T == {n \in Nat : \E x \in Inner(s), y \in Ids(s) :
                    Gap(x, y) /\ n = Len(x) + Len(y)}
<1>1. SUFFICES ASSUME NEW u \in Inner(s), NEW v \in Ids(s), Gap(u, v) PROVE FALSE
    OBVIOUS
<1>2. Ids(s) \subseteq Seq(Token) /\ \A z \in Ids(s) : z \in Seq(Token) /\ Len(z) \in Nat
    BY TreeFacts, LenProperties
<1>3. T \in SUBSET Nat /\ T # {}
    <2>1. u \in Ids(s) /\ Len(u) + Len(v) \in Nat
        BY <1>2 DEF Inner
    <2>2. Len(u) + Len(v) \in T
        BY <1>1, <2>1
    <2> QED BY <2>2
<1>4. PICK m \in T : \A n \in T : m <= n
    <2> HIDE DEF T
    <2> QED BY <1>3, LeastNumber
<1>5. PICK x \in Inner(s), y \in Ids(s) : Gap(x, y) /\ m = Len(x) + Len(y)
    OBVIOUS
<1>6. \A a \in Inner(s), b \in Ids(s) : Gap(a, b) => Len(x) + Len(y) <= Len(a) + Len(b)
    <2> TAKE a \in Inner(s), b \in Ids(s)
    <2>1. Len(a) + Len(b) \in Nat
        BY <1>2 DEF Inner
    <2> QED BY <1>4, <1>5, <2>1
<1>7. y \in Inner(s)
    <2>1. x \in Seq(Token) /\ Len(Par(s, x)) \in Nat
        BY NodeFacts
    <2>2. Len(Root) = 0
        BY <2>1, RootPrefix
    <2>3. y # Root
        BY <1>5, <2>1, <2>2
    <2> QED BY <2>3 DEF Inner
<1> DEFINE p == Par(s, x)
           q == Par(s, y)
<1>8. /\ x \in Seq(Token) /\ Len(x) \in Nat /\ p \in Ids(s) /\ p \in Seq(Token)
      /\ Len(p) \in Nat /\ Len(p) < Len(x) /\ IsPrefix(p, x)
      /\ Kids(s, p)[x[Len(p) + 1]] = x
    BY NodeFacts
<1>9. /\ y \in Seq(Token) /\ Len(y) \in Nat /\ q \in Ids(s) /\ q \in Seq(Token)
      /\ Len(q) \in Nat /\ Len(q) < Len(y) /\ IsPrefix(q, y)
      /\ Kids(s, q)[y[Len(q) + 1]] = y
    BY <1>7, NodeFacts
<1>10. IsPrefix(y, x) /\ y # x /\ Len(p) < Len(y) /\ Len(y) <= Len(x)
    <2>1. Len(y) <= Len(x)
        BY <1>5, <1>8, <1>9, PrefixByToken
    <2> QED BY <1>5, <1>8, <1>9, <2>1
<1> HIDE DEF p, q
<1>11. IsPrefix(q, x) /\ IsPrefix(p, y)
    <2>1. IsPrefix(q, x)
        BY <1>8, <1>9, <1>10, PrefixTransitive
    <2>2. Len(p) <= Len(y)
        BY <1>8, <1>9, <1>10
    <2> QED BY <1>8, <1>9, <1>10, <2>1, <2>2, PrefixesComparable
<1>12. CASE Len(q) < Len(p)
    <2>1. p # y /\ ~ (Len(p) <= Len(Par(s, y)))
        BY <1>8, <1>9, <1>10, <1>12 DEF q
    <2>2. Gap(y, p)
        BY <1>11, <2>1
    <2>3. Len(x) + Len(y) <= Len(y) + Len(p)
        BY <1>6, <1>7, <1>8, <2>2
    <2> QED BY <1>8, <1>9, <2>3
<1>13. CASE Len(p) < Len(q)
    <2>1. q # x /\ ~ (Len(q) <= Len(Par(s, x)))
        BY <1>8, <1>9, <1>10, <1>13 DEF p
    <2>2. Gap(x, q)
        BY <1>11, <2>1
    <2>3. Len(x) + Len(y) <= Len(x) + Len(q)
        BY <1>6, <1>9, <2>2
    <2> QED BY <1>8, <1>9, <2>3
<1>14. CASE Len(p) = Len(q)
    <2>1. p = q
        <3>1. IsPrefix(p, q)
            BY <1>8, <1>9, <1>11, <1>14, PrefixesComparable
        <3> QED BY <1>8, <1>9, <1>14, <3>1, PrefixOfSameLength
    <2>2. x[Len(p) + 1] = y[Len(p) + 1]
        <3>1. Len(p) + 1 \in 1 .. Len(y)
            BY <1>8, <1>9, <1>10
        <3> QED BY <1>8, <1>9, <1>10, <3>1, PrefixByToken
    <2> QED BY <1>8, <1>9, <1>10, <2>1, <2>2
<1> QED BY <1>8, <1>9, <1>12, <1>13, <1>14

\* A node's proper prefixes among the nodes are those of its parent.
LEMMA OnPath ==
    ASSUME NEW s, Typed(s), Shape(s), NEW x \in Inner(s), NEW y \in Ids(s)
    PROVE  IsPrefix(y, x) /\ y # x <=> IsPrefix(y, Par(s, x))
<1> DEFINE p == Par(s, x)
<1>1. /\ x \in Seq(Token) /\ p \in Seq(Token) /\ y \in Seq(Token)
      /\ Len(x) \in Nat /\ Len(p) \in Nat /\ Len(p) < Len(x) /\ IsPrefix(p, x)
    BY NodeFacts, TreeFacts
<1>2. IsPrefix(y, x) /\ y # x => Len(y) <= Len(p)
    BY NoGap
<1> HIDE DEF p
<1>3. IsPrefix(y, x) /\ y # x => IsPrefix(y, p)
    BY <1>1, <1>2, PrefixesComparable
<1>4. ASSUME IsPrefix(y, p) PROVE IsPrefix(y, x) /\ y # x
    <2>1. IsPrefix(y, x)
        BY <1>1, <1>4, PrefixTransitive
    <2>2. Len(y) <= Len(p)
        BY <1>1, <1>4, PrefixByToken
    <2> QED BY <1>1, <2>1, <2>2
<1> QED BY <1>3, <1>4 DEF p

\* The entries of a node are the prefixes of its name longer than its parent's.
LEMMA EntryFacts ==
    ASSUME NEW s, Typed(s), Shape(s), NEW x \in Inner(s)
    PROVE  \A p : p \in EntriesOf(s, x) <=>
                /\ p \in Seq(Token) /\ IsPrefix(p, x)
                /\ Len(Par(s, x)) < Len(p)
<1>1. /\ x \in Seq(Token) /\ Len(x) \in Nat /\ Len(Par(s, x)) \in Nat
    BY NodeFacts
<1>2. ASSUME NEW p \in EntriesOf(s, x)
      PROVE  p \in Seq(Token) /\ IsPrefix(p, x) /\ Len(Par(s, x)) < Len(p)
    <2>1. PICK n \in (Len(Par(s, x)) + 1) .. Len(x) : p = Take(x, n)
        BY DEF EntriesOf, Par
    <2>2. n \in 0 .. Len(x) /\ Len(Par(s, x)) < n
        BY <1>1
    <2> QED BY <1>1, <2>1, <2>2, TakeIsPrefix
<1>3. ASSUME NEW p \in Seq(Token), IsPrefix(p, x), Len(Par(s, x)) < Len(p)
      PROVE  p \in EntriesOf(s, x)
    <2>1. Len(p) <= Len(x) /\ p = Take(x, Len(p)) /\ Len(p) \in Nat
        BY <1>1, <1>3, PrefixIsTake, LenProperties
    <2>2. Len(p) \in (Len(Par(s, x)) + 1) .. Len(x)
        BY <1>1, <1>3, <2>1
    <2> QED BY <2>1, <2>2 DEF EntriesOf, Par
<1> QED BY <1>2, <1>3

LEMMA RootHasNoEntry ==
    ASSUME NEW s, Typed(s), Shape(s)
    PROVE  EntriesOf(s, Root) = {}
<1>1. s.nodes[Root] \in NodeRec
    BY TreeFacts DEF Shape, Ids
<1>2. Len(s.nodes[Root].parent) \in Nat
    BY <1>1, NodeFields, LenProperties
<1>3. Len(Root) = 0
    BY EmptySeq DEF Root
<1>4. (Len(s.nodes[Root].parent) + 1) .. Len(Root) = {}
    BY <1>2, <1>3
<1> QED BY <1>4 DEF EntriesOf

\* No two nodes stand for the same entry.
LEMMA EntriesDisjoint ==
    ASSUME NEW s, Typed(s), Shape(s), NEW x \in Inner(s), NEW y \in Inner(s), NEW p,
           p \in EntriesOf(s, x), p \in EntriesOf(s, y)
    PROVE  x = y
<1>1. /\ p \in Seq(Token) /\ IsPrefix(p, x) /\ Len(Par(s, x)) < Len(p)
      /\ IsPrefix(p, y) /\ Len(Par(s, y)) < Len(p)
    BY EntryFacts
<1> DEFINE a == Par(s, x)
           b == Par(s, y)
<1>2. /\ x \in Seq(Token) /\ a \in Ids(s) /\ a \in Seq(Token) /\ IsPrefix(a, x)
      /\ Len(a) \in Nat /\ Len(x) \in Nat /\ Kids(s, a)[x[Len(a) + 1]] = x
    BY NodeFacts
<1>3. /\ y \in Seq(Token) /\ b \in Ids(s) /\ b \in Seq(Token) /\ IsPrefix(b, y)
      /\ Len(b) \in Nat /\ Len(y) \in Nat /\ Kids(s, b)[y[Len(b) + 1]] = y
    BY NodeFacts
<1>4. Len(p) \in Nat
    BY <1>1, LenProperties
<1>5. Len(b) < Len(p) /\ Len(a) < Len(p)
    BY <1>1
<1>6. (IsPrefix(b, x) /\ b # x => Len(b) <= Len(a)) /\ (IsPrefix(a, y) /\ a # y => Len(a) <= Len(b))
    BY <1>2, <1>3, NoGap
<1> HIDE DEF a, b
<1>7. IsPrefix(a, p) /\ IsPrefix(b, p) /\ Len(p) <= Len(x) /\ Len(p) <= Len(y)
    <2>1. IsPrefix(a, p)
        BY <1>1, <1>2, <1>4, <1>5, PrefixesComparable
    <2>2. IsPrefix(b, p)
        BY <1>1, <1>3, <1>4, <1>5, PrefixesComparable
    <2> QED BY <1>1, <1>2, <1>3, <2>1, <2>2, PrefixByToken
<1>8. IsPrefix(b, x) /\ IsPrefix(a, y)
    <2>1. IsPrefix(b, x)
        BY <1>1, <1>2, <1>3, <1>7, PrefixTransitive
    <2> QED BY <1>1, <1>2, <1>3, <1>7, <2>1, PrefixTransitive
<1>9. Len(a) = Len(b)
    <2>1. b # x /\ a # y
        BY <1>2, <1>3, <1>4, <1>5, <1>7
    <2> QED BY <1>2, <1>3, <1>6, <1>8, <2>1
<1>10. a = b
    <2>1. IsPrefix(a, b)
        BY <1>1, <1>2, <1>3, <1>7, <1>9, PrefixesComparable
    <2> QED BY <1>2, <1>3, <1>9, <2>1, PrefixOfSameLength
<1>11. x[Len(a) + 1] = y[Len(a) + 1]
    <2>1. Len(a) + 1 \in 1 .. Len(p)
        BY <1>2, <1>4, <1>5
    <2>2. p[Len(a) + 1] = x[Len(a) + 1]
        BY <1>1, <1>2, <2>1, PrefixByToken
    <2>3. p[Len(a) + 1] = y[Len(a) + 1]
        BY <1>1, <1>3, <2>1, PrefixByToken
    <2> QED BY <2>2, <2>3
<1> QED BY <1>2, <1>3, <1>10, <1>11

\* Every prefix of a node is an entry of a node on its path.
LEMMA EntryOnPath ==
    ASSUME NEW s, Typed(s), Shape(s), NEW x \in Ids(s), NEW p \in Seq(Token),
           p # Root, IsPrefix(p, x)
    PROVE  \E y \in Inner(s) : IsPrefix(y, x) /\ p \in EntriesOf(s, y)
<1> DEFINE T == {n \in Nat : \E y \in Ids(s) : /\ IsPrefix(p, y) /\ IsPrefix(y, x)
                                                /\ n = Len(y)}
<1>1. \A z \in Ids(s) : z \in Seq(Token) /\ Len(z) \in Nat
    BY TreeFacts, LenProperties
<1>2. T \in SUBSET Nat /\ T # {}
    <2>1. IsPrefix(x, x) /\ Len(x) \in Nat
        BY <1>1, PrefixReflexive
    <2>2. Len(x) \in T
        BY <2>1
    <2> QED BY <2>2
<1>3. PICK m \in T : \A n \in T : m <= n
    <2> HIDE DEF T
    <2> QED BY <1>2, LeastNumber
<1>4. PICK y \in Ids(s) : IsPrefix(p, y) /\ IsPrefix(y, x) /\ m = Len(y)
    OBVIOUS
<1>5. y \in Inner(s)
    <2>1. IsPrefix(p, Root) => p = Root
        BY RootPrefix
    <2> QED BY <1>4, <2>1 DEF Inner
<1> DEFINE q == Par(s, y)
<1>6. /\ y \in Seq(Token) /\ q \in Ids(s) /\ q \in Seq(Token) /\ Len(y) \in Nat
      /\ Len(q) \in Nat /\ Len(q) < Len(y) /\ IsPrefix(q, y) /\ x \in Seq(Token)
    BY <1>1, <1>5, NodeFacts
<1>7. \A z \in Ids(s) : IsPrefix(p, z) /\ IsPrefix(z, x) => m <= Len(z)
    <2> TAKE z \in Ids(s)
    <2>1. Len(z) \in Nat
        BY <1>1
    <2> QED BY <1>3, <2>1
<1> HIDE DEF q, T
<1>8. Len(q) < Len(p)
    <2>1. SUFFICES ASSUME ~ (Len(q) < Len(p)) PROVE FALSE
        OBVIOUS
    <2>2. Len(p) \in Nat /\ Len(p) <= Len(q)
        BY <1>6, <2>1, LenProperties
    <2>3. IsPrefix(p, q)
        BY <1>4, <1>6, <2>2, PrefixesComparable
    <2>4. IsPrefix(q, x)
        BY <1>4, <1>6, PrefixTransitive
    <2>5. m <= Len(q)
        BY <1>6, <1>7, <2>3, <2>4
    <2> QED BY <1>4, <1>6, <2>5
<1>9. p \in EntriesOf(s, y)
    BY <1>4, <1>5, <1>8, EntryFacts DEF q
<1> QED BY <1>4, <1>5, <1>9

\* A node stands for as many entries as its key has tokens.
LEMMA EntriesCount ==
    ASSUME NEW s, Typed(s), Shape(s), NEW x \in Inner(s)
    PROVE  /\ IsFiniteSet(EntriesOf(s, x))
           /\ Cardinality(EntriesOf(s, x)) = Len(x) - Len(Par(s, x))
<1> DEFINE I == (Len(Par(s, x)) + 1) .. Len(x)
           f == [n \in I |-> Take(x, n)]
<1>1. /\ x \in Seq(Token) /\ Len(x) \in Nat /\ Len(Par(s, x)) \in Nat
      /\ Len(Par(s, x)) < Len(x)
    BY NodeFacts
<1>2. EntriesOf(s, x) = {Take(x, n) : n \in I}
    BY DEF EntriesOf, Par
<1>3. \A n \in I : Len(Take(x, n)) = n
    <2> TAKE n \in I
    <2>1. n \in 0 .. Len(x)
        BY <1>1
    <2> QED BY <1>1, <2>1, TakeProperties
<1>4. f \in Bijection(I, EntriesOf(s, x))
    <2> HIDE DEF I
    <2>1. f \in [I -> EntriesOf(s, x)]
        BY <1>2
    <2>2. \A m, n \in I : f[m] = f[n] => m = n
        BY <1>3
    <2>3. \A e \in EntriesOf(s, x) : \E n \in I : f[n] = e
        BY <1>2
    <2> HIDE DEF f
    <2> QED BY <2>1, <2>2, <2>3 DEF Bijection, Injection, Surjection, IsInjective
<1>5. IsFiniteSet(I) /\ Cardinality(I) = Len(x) - Len(Par(s, x))
    <2>1. Len(Par(s, x)) + 1 \in Int /\ Len(x) \in Int
        BY <1>1
    <2> QED BY <1>1, <2>1, FS_Interval
<1>6. ExistsBijection(I, EntriesOf(s, x))
    BY <1>4 DEF ExistsBijection
<1> QED BY <1>5, <1>6, FS_Bijection

\* What one more node adds to the entries of some.
LEMMA EntriesOfOneMore ==
    ASSUME NEW s, Typed(s), Shape(s), NEW A \in SUBSET Inner(s), NEW x \in Inner(s)
    PROVE  /\ IsFiniteSet(EntriesOfAll(s, A))
           /\ x \notin A =>
                Cardinality(EntriesOfAll(s, A \union {x})) =
                    (Cardinality(EntriesOfAll(s, A)) + Len(x)) - Len(Par(s, x))
<1> DEFINE E == {EntriesOf(s, id) : id \in A}
           f == [id \in A |-> EntriesOf(s, id)]
<1>1. IsFiniteSet(A)
    BY TreeFacts, FS_Subset DEF Inner
<1>2. f \in Surjection(A, E)
    BY DEF Surjection
<1>3. IsFiniteSet(E)
    BY <1>1, <1>2, FS_Surjection
<1>4. \A T \in E : IsFiniteSet(T)
    BY EntriesCount
<1>5. IsFiniteSet(EntriesOfAll(s, A))
    <2> HIDE DEF E
    <2>1. IsFiniteSet(UNION E)
        BY <1>3, <1>4, FS_UNION
    <2> QED BY <2>1 DEF E, EntriesOfAll
<1>6. ASSUME x \notin A
      PROVE  Cardinality(EntriesOfAll(s, A \union {x})) =
                (Cardinality(EntriesOfAll(s, A)) + Len(x)) - Len(Par(s, x))
    <2>1. EntriesOfAll(s, A \union {x}) = EntriesOfAll(s, A) \union EntriesOf(s, x)
        BY DEF EntriesOfAll
    <2>2. EntriesOfAll(s, A) \cap EntriesOf(s, x) = {}
        BY <1>6, EntriesDisjoint DEF EntriesOfAll
    <2>3. IsFiniteSet(EntriesOf(s, x)) /\ Cardinality(EntriesOf(s, x)) = Len(x) - Len(Par(s, x))
        BY EntriesCount
    <2>4. /\ Cardinality(EntriesOfAll(s, A)) \in Nat
          /\ Len(x) \in Nat /\ Len(Par(s, x)) \in Nat
        BY <1>5, FS_CardinalityType, NodeFacts
    <2>5. Cardinality(EntriesOfAll(s, A) \cap EntriesOf(s, x)) = 0
        BY <2>2, FS_EmptySet
    <2> HIDE DEF E, f
    <2>6. Cardinality(EntriesOfAll(s, A) \union EntriesOf(s, x)) =
            Cardinality(EntriesOfAll(s, A)) + Cardinality(EntriesOf(s, x)) - 0
        BY <1>5, <2>3, <2>5, FS_Union
    <2>7. Cardinality(EntriesOf(s, x)) \in Int
        BY <2>3, <2>4
    <2>8. \A a, b, c \in Int : b = c => a + b - 0 = a + c
        OBVIOUS
    <2>9. \A a, l, m \in Int : a + (l - m) = (a + l) - m
        OBVIOUS
    <2>10. Cardinality(EntriesOfAll(s, A)) \in Int /\ Len(x) - Len(Par(s, x)) \in Int
        BY <2>4
    <2>11. Cardinality(EntriesOfAll(s, A \union {x})) =
                Cardinality(EntriesOfAll(s, A)) + (Len(x) - Len(Par(s, x)))
        BY <2>1, <2>3, <2>6, <2>7, <2>8, <2>10
    <2> QED BY <2>4, <2>9, <2>11
<1> QED BY <1>5, <1>6

\* A proper extension of a node hangs below one of the node's children.
LEMMA NextHop ==
    ASSUME NEW s, Typed(s), Shape(s), NEW id \in Ids(s), NEW x \in Ids(s),
           IsPrefix(id, x), id # x
    PROVE  /\ x[Len(id) + 1] \in DOMAIN Kids(s, id)
           /\ Kids(s, id)[x[Len(id) + 1]] \in Inner(s)
           /\ Par(s, Kids(s, id)[x[Len(id) + 1]]) = id
           /\ IsPrefix(Kids(s, id)[x[Len(id) + 1]], x)
<1> DEFINE T == {n \in Nat : \E y \in Inner(s) : /\ IsPrefix(id, y) /\ id # y
                                                  /\ IsPrefix(y, x) /\ n = Len(y)}
<1>1. \A z \in Ids(s) : z \in Seq(Token) /\ Len(z) \in Nat
    BY TreeFacts, LenProperties
<1>2. T \in SUBSET Nat /\ T # {}
    <2>1. x \in Inner(s)
        BY <1>1, RootPrefix DEF Inner
    <2>2. IsPrefix(x, x) /\ Len(x) \in Nat
        BY <1>1, PrefixReflexive
    <2>3. Len(x) \in T
        BY <2>1, <2>2
    <2> QED BY <2>3
<1>3. PICK m \in T : \A n \in T : m <= n
    <2> HIDE DEF T
    <2> QED BY <1>2, LeastNumber
<1>4. PICK y \in Inner(s) : IsPrefix(id, y) /\ id # y /\ IsPrefix(y, x) /\ m = Len(y)
    OBVIOUS
<1>5. \A z \in Inner(s) : IsPrefix(id, z) /\ id # z /\ IsPrefix(z, x) => m <= Len(z)
    <2> TAKE z \in Inner(s)
    <2>1. Len(z) \in Nat
        BY <1>1 DEF Inner
    <2> QED BY <1>3, <2>1
<1> HIDE DEF T
<1> DEFINE p == Par(s, y)
<1>6. /\ y \in Seq(Token) /\ p \in Ids(s) /\ p \in Seq(Token) /\ Len(y) \in Nat
      /\ Len(p) \in Nat /\ Len(p) < Len(y) /\ IsPrefix(p, y)
      /\ y[Len(p) + 1] \in DOMAIN Kids(s, p) /\ Kids(s, p)[y[Len(p) + 1]] = y
    BY NodeFacts
<1>7. IsPrefix(id, p)
    BY <1>4, OnPath
<1>8. p = id
    <2>1. SUFFICES ASSUME p # id PROVE FALSE
        OBVIOUS
    <2>2. p \in Inner(s)
        BY <1>1, <1>6, <1>7, <2>1, RootPrefix DEF Inner
    <2>3. IsPrefix(p, x)
        BY <1>1, <1>4, <1>6, PrefixTransitive
    <2>4. m <= Len(p)
        BY <1>5, <1>7, <2>1, <2>2, <2>3
    <2> QED BY <1>4, <1>6, <2>4
<1>9. y[Len(id) + 1] = x[Len(id) + 1]
    <2>1. Len(id) + 1 \in 1 .. Len(y)
        BY <1>6, <1>8
    <2> QED BY <1>1, <1>4, <1>6, <2>1, PrefixByToken
<1> QED BY <1>4, <1>6, <1>8, <1>9

-----------------------------------------------------------------------------
(* What the helpers do to a tree *)

Tree4(nodes, leaves, evictable, protected) ==
    [nodes |-> nodes, evictable_leaves |-> leaves, evictable_size_ |-> evictable,
     protected_size_ |-> protected]

LEMMA TreeOf4 ==
    ASSUME NEW nodes, DOMAIN nodes \in SUBSET Seq(Token), IsFiniteSet(DOMAIN nodes),
           nodes \in [DOMAIN nodes -> NodeRec],
           NEW leaves \in SUBSET Seq(Token), NEW e \in Int, NEW p \in Int
    PROVE  /\ Typed(Tree4(nodes, leaves, e, p))
           /\ Ids(Tree4(nodes, leaves, e, p)) = DOMAIN nodes
           /\ Tree4(nodes, leaves, e, p).nodes = nodes
           /\ Tree4(nodes, leaves, e, p).evictable_leaves = leaves
           /\ Tree4(nodes, leaves, e, p).evictable_size_ = e
           /\ Tree4(nodes, leaves, e, p).protected_size_ = p
<1>1. nodes \in Heaps
    BY DEF Heaps
<1> QED BY <1>1 DEF Typed, TreeRec, Tree4, Ids

LEMMA Is4 ==
    ASSUME NEW s, Typed(s)
    PROVE  /\ s = Tree4(s.nodes, s.evictable_leaves, s.evictable_size_, s.protected_size_)
           /\ s.evictable_leaves \in SUBSET Seq(Token)
<1>1. s \in TreeRec
    BY DEF Typed
<1> QED BY <1>1 DEF TreeRec, Tree4

\* evictable_leaves is right about all nodes but those of X.
IsLeaf(s, id) == ~ (s.nodes[id].lock_ref > 0) /\ DOMAIN s.nodes[id].children = {}
RightBut(s, X) ==
    \A id : id \notin X => (id \in s.evictable_leaves <=> id \in Ids(s) /\ IsLeaf(s, id))
Leaves(s) == RightBut(s, {})

LEMMA UpdateLeafStatusEffect ==
    ASSUME NEW s, Typed(s), NEW id \in Ids(s)
    PROVE  LET s2 == UpdateLeafStatus(s, id)
           IN  /\ Typed(s2) /\ s2.nodes = s.nodes /\ Ids(s2) = Ids(s)
               /\ s2.evictable_size_ = s.evictable_size_
               /\ s2.protected_size_ = s.protected_size_
               /\ \A X : RightBut(s, X) => RightBut(s2, X \ {id})
<1> DEFINE s2 == UpdateLeafStatus(s, id)
           L == IF s.nodes[id].lock_ref > 0 \/ DOMAIN s.nodes[id].children # {}
                THEN s.evictable_leaves \ {id} ELSE s.evictable_leaves \union {id}
<1>1. /\ s = Tree4(s.nodes, s.evictable_leaves, s.evictable_size_, s.protected_size_)
      /\ s.evictable_leaves \in SUBSET Seq(Token) /\ Ids(s) \in SUBSET Seq(Token)
      /\ IsFiniteSet(Ids(s)) /\ s.nodes \in [Ids(s) -> NodeRec]
      /\ s.evictable_size_ \in Int /\ s.protected_size_ \in Int
    BY Is4, TreeFacts
<1>2. L \in SUBSET Seq(Token)
    BY <1>1
<1>3. s2 = [s EXCEPT !.evictable_leaves = L]
    BY DEF UpdateLeafStatus
<1> HIDE DEF s2
<1>4. s2 = Tree4(s.nodes, L, s.evictable_size_, s.protected_size_)
    <2> HIDE DEF L
    <2> QED BY <1>1, <1>3 DEF Tree4
<1>5. /\ Typed(s2) /\ Ids(s2) = Ids(s) /\ s2.nodes = s.nodes /\ s2.evictable_leaves = L
      /\ s2.evictable_size_ = s.evictable_size_ /\ s2.protected_size_ = s.protected_size_
    <2> HIDE DEF L
    <2>1. DOMAIN s.nodes = Ids(s)
        BY DEF Ids
    <2> QED BY <1>1, <1>2, <1>4, <2>1, TreeOf4
<1>6. ASSUME NEW X, RightBut(s, X) PROVE RightBut(s2, X \ {id})
    <2>1. SUFFICES ASSUME NEW y, y \notin X \ {id}
                   PROVE  y \in L <=> y \in Ids(s) /\ IsLeaf(s, y)
        BY <1>5 DEF RightBut, IsLeaf
    <2>2. CASE y = id
        BY <2>2 DEF IsLeaf
    <2>3. CASE y # id
        BY <1>6, <2>1, <2>3 DEF RightBut
    <2> QED BY <2>2, <2>3
<1> QED BY <1>5, <1>6 DEF s2

\* Trees with the same nodes, links, keys and values; times too; and locks,
\* leaves and sizes too.
SameLinks(s, s2) ==
    /\ Ids(s2) = Ids(s)
    /\ \A id \in Ids(s) :
        /\ s2.nodes[id].parent = s.nodes[id].parent
        /\ s2.nodes[id].key = s.nodes[id].key
        /\ s2.nodes[id].value = s.nodes[id].value
        /\ s2.nodes[id].children = s.nodes[id].children
SameRanks(s, s2) ==
    \A id \in Ids(s) :
        /\ s2.nodes[id].priority = s.nodes[id].priority
        /\ s2.nodes[id].last_access_time = s.nodes[id].last_access_time
        /\ s2.nodes[id].creation_time = s.nodes[id].creation_time
SameLocks(s, s2) ==
    /\ \A id \in Ids(s) : s2.nodes[id].lock_ref = s.nodes[id].lock_ref
    /\ s2.evictable_leaves = s.evictable_leaves
    /\ s2.evictable_size_ = s.evictable_size_
    /\ s2.protected_size_ = s.protected_size_

\* One node replaced.
LEMMA SetNode ==
    ASSUME NEW s, Typed(s), NEW id \in Ids(s), NEW node \in NodeRec,
           NEW e \in Int, NEW p \in Int
    PROVE  LET s2 == Tree4([s.nodes EXCEPT ![id] = node], s.evictable_leaves, e, p)
           IN  /\ Typed(s2) /\ Ids(s2) = Ids(s)
               /\ \A x \in Ids(s) : s2.nodes[x] = IF x = id THEN node ELSE s.nodes[x]
               /\ s2.evictable_leaves = s.evictable_leaves
               /\ s2.evictable_size_ = e /\ s2.protected_size_ = p
<1> DEFINE nodes == [s.nodes EXCEPT ![id] = node]
           s2 == Tree4(nodes, s.evictable_leaves, e, p)
<1>1. /\ Ids(s) \in SUBSET Seq(Token) /\ IsFiniteSet(Ids(s))
      /\ s.nodes \in [Ids(s) -> NodeRec] /\ s.evictable_leaves \in SUBSET Seq(Token)
    BY TreeFacts, Is4
<1>2. nodes \in [Ids(s) -> NodeRec] /\ DOMAIN nodes = Ids(s)
    BY <1>1
<1>3. \A x \in Ids(s) : nodes[x] = IF x = id THEN node ELSE s.nodes[x]
    BY <1>1
<1> HIDE DEF nodes
<1>4. /\ Typed(s2) /\ Ids(s2) = Ids(s) /\ s2.nodes = nodes
      /\ s2.evictable_leaves = s.evictable_leaves
      /\ s2.evictable_size_ = e /\ s2.protected_size_ = p
    BY <1>1, <1>2, TreeOf4
<1> HIDE DEF s2
<1> QED BY <1>3, <1>4 DEF s2, nodes

LEMMA TouchEffect ==
    ASSUME NEW s, Typed(s), NEW id \in Ids(s), NEW t \in Nat
    PROVE  LET s2 == Touch(s, id, t)
           IN  /\ Typed(s2) /\ SameLinks(s, s2) /\ SameLocks(s, s2)
               /\ \A x \in Ids(s) :
                    /\ s2.nodes[x].priority = s.nodes[x].priority
                    /\ s2.nodes[x].creation_time = s.nodes[x].creation_time
                    /\ s2.nodes[x].last_access_time =
                            IF x = id THEN t ELSE s.nodes[x].last_access_time
<1> DEFINE s2 == Touch(s, id, t)
           node == [s.nodes[id] EXCEPT !.last_access_time = t]
<1>1. /\ s = Tree4(s.nodes, s.evictable_leaves, s.evictable_size_, s.protected_size_)
      /\ s.nodes[id] \in NodeRec
      /\ s.evictable_size_ \in Int /\ s.protected_size_ \in Int
    BY Is4, TreeFacts
<1>2. /\ node \in NodeRec /\ node.parent = s.nodes[id].parent
      /\ node.key = s.nodes[id].key /\ node.value = s.nodes[id].value
      /\ node.children = s.nodes[id].children /\ node.lock_ref = s.nodes[id].lock_ref
      /\ node.priority = s.nodes[id].priority
      /\ node.creation_time = s.nodes[id].creation_time /\ node.last_access_time = t
    BY <1>1 DEF NodeRec
<1>3. s2 = Tree4([s.nodes EXCEPT ![id] = node], s.evictable_leaves,
                 s.evictable_size_, s.protected_size_)
    <2>1. s2 = [s EXCEPT !.nodes = [s.nodes EXCEPT ![id] = node]]
        BY DEF Touch
    <2> HIDE DEF s2, node
    <2> QED BY <1>1, <2>1 DEF Tree4
<1> HIDE DEF s2, node
<1>4. /\ Typed(s2) /\ Ids(s2) = Ids(s)
      /\ \A x \in Ids(s) : s2.nodes[x] = IF x = id THEN node ELSE s.nodes[x]
      /\ s2.evictable_leaves = s.evictable_leaves
      /\ s2.evictable_size_ = s.evictable_size_ /\ s2.protected_size_ = s.protected_size_
    BY <1>1, <1>2, <1>3, SetNode
<1> QED BY <1>2, <1>4 DEF SameLinks, SameLocks, s2

LEMMA RaiseEffect ==
    ASSUME NEW s, Typed(s), NEW id \in Ids(s), NEW priority \in Int
    PROVE  LET s2 == RaisePriority(s, id, priority)
               old == s.nodes[id].priority
           IN  /\ Typed(s2) /\ SameLinks(s, s2) /\ SameLocks(s, s2)
               /\ \A x \in Ids(s) :
                    /\ s2.nodes[x].creation_time = s.nodes[x].creation_time
                    /\ s2.nodes[x].last_access_time = s.nodes[x].last_access_time
                    /\ s2.nodes[x].priority =
                            IF x = id THEN (IF old >= priority THEN old ELSE priority)
                            ELSE s.nodes[x].priority
<1> DEFINE s2 == RaisePriority(s, id, priority)
           old == s.nodes[id].priority
           new == Max({old, priority})
           node == [s.nodes[id] EXCEPT !.priority = new]
<1>1. /\ s = Tree4(s.nodes, s.evictable_leaves, s.evictable_size_, s.protected_size_)
      /\ s.nodes[id] \in NodeRec
      /\ s.evictable_size_ \in Int /\ s.protected_size_ \in Int
    BY Is4, TreeFacts
<1>2. old \in Int
    BY <1>1, NodeFields
<1>3. new = IF old >= priority THEN old ELSE priority
    BY <1>2, MaxOfPair
<1>4. new \in Int
    BY <1>2, <1>3
<1> HIDE DEF new
<1>5. /\ node \in NodeRec /\ node.parent = s.nodes[id].parent
      /\ node.key = s.nodes[id].key /\ node.value = s.nodes[id].value
      /\ node.children = s.nodes[id].children /\ node.lock_ref = s.nodes[id].lock_ref
      /\ node.priority = new
      /\ node.creation_time = s.nodes[id].creation_time
      /\ node.last_access_time = s.nodes[id].last_access_time
    BY <1>1, <1>4 DEF NodeRec
<1>6. s2 = Tree4([s.nodes EXCEPT ![id] = node], s.evictable_leaves,
                 s.evictable_size_, s.protected_size_)
    <2>1. s2 = [s EXCEPT !.nodes = [s.nodes EXCEPT ![id] = node]]
        BY DEF RaisePriority, new
    <2> HIDE DEF s2, node
    <2> QED BY <1>1, <2>1 DEF Tree4
<1> HIDE DEF s2, node
<1>7. /\ Typed(s2) /\ Ids(s2) = Ids(s)
      /\ \A x \in Ids(s) : s2.nodes[x] = IF x = id THEN node ELSE s.nodes[x]
      /\ s2.evictable_leaves = s.evictable_leaves
      /\ s2.evictable_size_ = s.evictable_size_ /\ s2.protected_size_ = s.protected_size_
    BY <1>1, <1>5, <1>6, SetNode
<1> HIDE DEF old
<1>8. SameLinks(s, s2) /\ SameLocks(s, s2)
    BY <1>5, <1>7 DEF SameLinks, SameLocks
<1> QED BY <1>3, <1>5, <1>7, <1>8 DEF s2, old

\* A lock count and the sizes set, and the leaf status updated.
Relocked(s, id, l, e, p) ==
    UpdateLeafStatus(
        Tree4([s.nodes EXCEPT ![id] = [s.nodes[id] EXCEPT !.lock_ref = l]],
              s.evictable_leaves, e, p), id)

LEMMA RelockEffect ==
    ASSUME NEW s, Typed(s), Leaves(s), NEW id \in Ids(s), NEW l \in Nat,
           NEW e \in Int, NEW p \in Int
    PROVE  LET s2 == Relocked(s, id, l, e, p)
           IN  /\ Typed(s2) /\ SameLinks(s, s2) /\ SameRanks(s, s2) /\ Leaves(s2)
               /\ \A x \in Ids(s) : s2.nodes[x].lock_ref =
                                        IF x = id THEN l ELSE s.nodes[x].lock_ref
               /\ s2.evictable_size_ = e /\ s2.protected_size_ = p
<1> DEFINE node == [s.nodes[id] EXCEPT !.lock_ref = l]
           s1 == Tree4([s.nodes EXCEPT ![id] = node], s.evictable_leaves, e, p)
           s2 == UpdateLeafStatus(s1, id)
<1>1. s.nodes[id] \in NodeRec
    BY TreeFacts
<1>2. /\ node \in NodeRec /\ node.parent = s.nodes[id].parent
      /\ node.key = s.nodes[id].key /\ node.value = s.nodes[id].value
      /\ node.children = s.nodes[id].children /\ node.lock_ref = l
      /\ node.priority = s.nodes[id].priority
      /\ node.creation_time = s.nodes[id].creation_time
      /\ node.last_access_time = s.nodes[id].last_access_time
    BY <1>1 DEF NodeRec
<1>3. Relocked(s, id, l, e, p) = s2
    BY DEF Relocked
<1> HIDE DEF node
<1>4. /\ Typed(s1) /\ Ids(s1) = Ids(s)
      /\ \A x \in Ids(s) : s1.nodes[x] = IF x = id THEN node ELSE s.nodes[x]
      /\ s1.evictable_leaves = s.evictable_leaves
      /\ s1.evictable_size_ = e /\ s1.protected_size_ = p
    BY <1>2, SetNode
<1> HIDE DEF s1
<1>5. RightBut(s1, {id})
    BY <1>4 DEF RightBut, Leaves, IsLeaf
<1>6. /\ Typed(s2) /\ s2.nodes = s1.nodes /\ Ids(s2) = Ids(s1)
      /\ s2.evictable_size_ = s1.evictable_size_ /\ s2.protected_size_ = s1.protected_size_
      /\ RightBut(s1, {id}) => RightBut(s2, {id} \ {id})
    BY <1>4, UpdateLeafStatusEffect
<1> HIDE DEF s2
<1>7. Leaves(s2)
    <2>1. {id} \ {id} = {}
        OBVIOUS
    <2> QED BY <1>5, <1>6, <2>1 DEF Leaves
<1>8. SameLinks(s, s2) /\ SameRanks(s, s2)
    BY <1>2, <1>4, <1>6 DEF SameLinks, SameRanks
<1>9. /\ \A x \in Ids(s) : s2.nodes[x].lock_ref = IF x = id THEN l ELSE s.nodes[x].lock_ref
      /\ s2.evictable_size_ = e /\ s2.protected_size_ = p
    BY <1>2, <1>4, <1>6
<1> QED BY <1>3, <1>6, <1>7, <1>8, <1>9

LEMMA LockEffect ==
    ASSUME NEW s, Typed(s), Leaves(s), NEW id \in Ids(s)
    PROVE  LET s2 == LockNode(s, id)
               n == LockGain(s.nodes[id])
           IN  /\ Typed(s2) /\ SameLinks(s, s2) /\ SameRanks(s, s2) /\ Leaves(s2)
               /\ \A x \in Ids(s) : s2.nodes[x].lock_ref =
                    IF x = id THEN s.nodes[id].lock_ref + 1 ELSE s.nodes[x].lock_ref
               /\ s2.evictable_size_ = s.evictable_size_ - n
               /\ s2.protected_size_ = s.protected_size_ + n
<1> DEFINE n == LockGain(s.nodes[id])
           e == s.evictable_size_ - n
           p == s.protected_size_ + n
           l == s.nodes[id].lock_ref + 1
           node == [s.nodes[id] EXCEPT !.lock_ref = l]
<1>1. /\ s = Tree4(s.nodes, s.evictable_leaves, s.evictable_size_, s.protected_size_)
      /\ s.nodes[id] \in NodeRec
      /\ s.evictable_size_ \in Int /\ s.protected_size_ \in Int
    BY Is4, TreeFacts
<1>2. s.nodes[id].key \in Seq(Token) /\ s.nodes[id].lock_ref \in Nat
    BY <1>1, NodeFields
<1>3. Len(s.nodes[id].key) \in Nat
    BY <1>2, LenProperties
<1>4. n \in Nat
    BY <1>3 DEF LockGain
<1> HIDE DEF n
<1>5. e \in Int /\ p \in Int /\ l \in Nat
    BY <1>1, <1>2, <1>4
<1>6. LockNode(s, id) = Relocked(s, id, l, e, p)
    <2> DEFINE s1 == [s EXCEPT !.evictable_size_ = @ - n, !.protected_size_ = @ + n,
                               !.nodes[id].lock_ref = @ + 1]
    <2>1. LockNode(s, id) = UpdateLeafStatus(s1, id)
        BY DEF LockNode, n
    <2>2. s1 = [s EXCEPT !.evictable_size_ = e, !.protected_size_ = p,
                         !.nodes = [s.nodes EXCEPT ![id] = node]]
        OBVIOUS
    <2> HIDE DEF s1, node, e, p
    <2>3. s1 = Tree4([s.nodes EXCEPT ![id] = node], s.evictable_leaves, e, p)
        BY <1>1, <2>2 DEF Tree4
    <2> QED BY <2>1, <2>3 DEF Relocked, node
<1> HIDE DEF e, p, l
<1> QED BY <1>5, <1>6, RelockEffect DEF e, p, l, n

LEMMA UnlockEffect ==
    ASSUME NEW s, Typed(s), Leaves(s), NEW id \in Ids(s), s.nodes[id].lock_ref > 0
    PROVE  LET s2 == UnlockNode(s, id)
               n == UnlockGain(s.nodes[id])
           IN  /\ Typed(s2) /\ SameLinks(s, s2) /\ SameRanks(s, s2) /\ Leaves(s2)
               /\ \A x \in Ids(s) : s2.nodes[x].lock_ref =
                    IF x = id THEN s.nodes[id].lock_ref - 1 ELSE s.nodes[x].lock_ref
               /\ s2.evictable_size_ = s.evictable_size_ + n
               /\ s2.protected_size_ = s.protected_size_ - n
<1> DEFINE n == UnlockGain(s.nodes[id])
           e == s.evictable_size_ + n
           p == s.protected_size_ - n
           l == s.nodes[id].lock_ref - 1
           node == [s.nodes[id] EXCEPT !.lock_ref = l]
<1>1. /\ s = Tree4(s.nodes, s.evictable_leaves, s.evictable_size_, s.protected_size_)
      /\ s.nodes[id] \in NodeRec
      /\ s.evictable_size_ \in Int /\ s.protected_size_ \in Int
    BY Is4, TreeFacts
<1>2. s.nodes[id].key \in Seq(Token) /\ s.nodes[id].lock_ref \in Nat
    BY <1>1, NodeFields
<1>3. Len(s.nodes[id].key) \in Nat
    BY <1>2, LenProperties
<1>4. n \in Nat
    BY <1>3 DEF UnlockGain
<1> HIDE DEF n
<1>5. e \in Int /\ p \in Int /\ l \in Nat
    <2>1. e \in Int /\ p \in Int
        BY <1>1, <1>4
    <2>2. \A m \in Nat : m > 0 => m - 1 \in Nat
        OBVIOUS
    <2> QED BY <1>2, <2>1, <2>2
<1>6. UnlockNode(s, id) = Relocked(s, id, l, e, p)
    <2> DEFINE s1 == [s EXCEPT !.evictable_size_ = @ + n, !.protected_size_ = @ - n,
                               !.nodes[id].lock_ref = @ - 1]
    <2>1. UnlockNode(s, id) = UpdateLeafStatus(s1, id)
        BY DEF UnlockNode, n
    <2>2. s1 = [s EXCEPT !.evictable_size_ = e, !.protected_size_ = p,
                         !.nodes = [s.nodes EXCEPT ![id] = node]]
        OBVIOUS
    <2> HIDE DEF s1, node, e, p
    <2>3. s1 = Tree4([s.nodes EXCEPT ![id] = node], s.evictable_leaves, e, p)
        BY <1>1, <2>2 DEF Tree4
    <2> QED BY <2>1, <2>3 DEF Relocked, node
<1> HIDE DEF e, p, l
<1> QED BY <1>5, <1>6, RelockEffect DEF e, p, l, n

\* A dict with one more entry, or another value for one.
LEMMA PutFacts ==
    ASSUME NEW D, NEW R, NEW f \in [D -> R], NEW a, NEW b \in R
    PROVE  /\ Put(f, a, b) \in [D \union {a} -> R]
           /\ DOMAIN Put(f, a, b) = D \union {a}
           /\ \A x \in D \union {a} : Put(f, a, b)[x] = IF x = a THEN b ELSE f[x]
BY DEF Put

LEMMA OnlyFacts ==
    /\ <<>> \in Links /\ DOMAIN <<>> = {}
    /\ \A tok \in Token, x \in Seq(Token) :
        /\ Only(tok, x) \in Links /\ DOMAIN Only(tok, x) = {tok} /\ Only(tok, x)[tok] = x
<1>1. <<>> \in [{} -> Seq(Token)]
    OBVIOUS
<1>2. <<>> \in Links
    BY <1>1 DEF Links
<1>3. ASSUME NEW tok \in Token, NEW x \in Seq(Token)
      PROVE  /\ Only(tok, x) \in Links /\ DOMAIN Only(tok, x) = {tok}
             /\ Only(tok, x)[tok] = x
    <2>1. Only(tok, x) \in [{tok} -> Seq(Token)] /\ {tok} \in SUBSET Token
        BY DEF Only
    <2> QED BY <2>1 DEF Links, Only
<1> QED BY <1>1, <1>2, <1>3

\* Two nodes alike but for their children.
SameBody(a, b) ==
    /\ b.parent = a.parent /\ b.key = a.key /\ b.value = a.value
    /\ b.lock_ref = a.lock_ref /\ b.priority = a.priority
    /\ b.last_access_time = a.last_access_time /\ b.creation_time = a.creation_time

\* An entry of a node's children set.
Linked(s, id, tok, x) == [s.nodes[id] EXCEPT !.children = Put(@, tok, x)]

IsLinked(node, old, tok, x) ==
    /\ node \in NodeRec /\ SameBody(old, node)
    /\ DOMAIN node.children = DOMAIN old.children \union {tok}
    /\ \A y \in DOMAIN old.children \union {tok} :
        node.children[y] = IF y = tok THEN x ELSE old.children[y]

LEMMA LinkedFacts ==
    ASSUME NEW s, Typed(s), NEW id \in Ids(s), NEW tok \in Token, NEW x \in Seq(Token)
    PROVE  IsLinked(Linked(s, id, tok, x), s.nodes[id], tok, x)
<1> DEFINE old == s.nodes[id]
           D == DOMAIN old.children
           kids == Put(old.children, tok, x)
           node == Linked(s, id, tok, x)
<1>1. old \in NodeRec /\ D \subseteq Token /\ old.children \in [D -> Seq(Token)]
    BY TreeFacts, NodeFields
<1>2. /\ kids \in [D \union {tok} -> Seq(Token)] /\ DOMAIN kids = D \union {tok}
      /\ \A y \in D \union {tok} : kids[y] = IF y = tok THEN x ELSE old.children[y]
    <2> HIDE DEF D, old
    <2> QED BY <1>1 DEF Put
<1>3. kids \in Links
    <2>1. D \union {tok} \in SUBSET Token
        BY <1>1
    <2> HIDE DEF D, kids
    <2> QED BY <1>2, <2>1 DEF Links
<1>4. node = [old EXCEPT !.children = kids]
    BY DEF Linked
<1> HIDE DEF kids, old, node
<1>5. /\ node \in NodeRec /\ node.children = kids
      /\ node.parent = old.parent /\ node.key = old.key /\ node.value = old.value
      /\ node.lock_ref = old.lock_ref /\ node.priority = old.priority
      /\ node.creation_time = old.creation_time
      /\ node.last_access_time = old.last_access_time
    BY <1>1, <1>3, <1>4 DEF NodeRec
<1> QED BY <1>2, <1>5 DEF old, node, IsLinked, SameBody

\* One node added, others perhaps replaced.
LEMMA PutNode ==
    ASSUME NEW s, Typed(s), NEW old \in [Ids(s) -> NodeRec], NEW new \in Seq(Token),
           NEW node \in NodeRec, NEW e \in Int
    PROVE  LET s2 == Tree4(Put(old, new, node), s.evictable_leaves, e, s.protected_size_)
           IN  /\ Typed(s2) /\ Ids(s2) = Ids(s) \union {new}
               /\ \A x \in Ids(s) \union {new} :
                    s2.nodes[x] = IF x = new THEN node ELSE old[x]
               /\ s2.evictable_leaves = s.evictable_leaves
               /\ s2.evictable_size_ = e /\ s2.protected_size_ = s.protected_size_
<1> DEFINE all == Put(old, new, node)
           I == Ids(s) \union {new}
           s2 == Tree4(all, s.evictable_leaves, e, s.protected_size_)
<1>1. /\ Ids(s) \in SUBSET Seq(Token) /\ IsFiniteSet(Ids(s))
      /\ s.evictable_leaves \in SUBSET Seq(Token) /\ s.protected_size_ \in Int
    BY Is4, TreeFacts
<1>2. /\ all \in [I -> NodeRec] /\ DOMAIN all = I
      /\ \A x \in I : all[x] = IF x = new THEN node ELSE old[x]
    BY DEF Put
<1>3. I \in SUBSET Seq(Token) /\ IsFiniteSet(I)
    BY <1>1, FS_AddElement
<1> HIDE DEF all, I
<1>4. /\ Typed(s2) /\ Ids(s2) = I /\ s2.nodes = all
      /\ s2.evictable_leaves = s.evictable_leaves
      /\ s2.evictable_size_ = e /\ s2.protected_size_ = s.protected_size_
    BY <1>1, <1>2, <1>3, TreeOf4
<1> HIDE DEF s2
<1> QED BY <1>2, <1>4 DEF s2, all, I

\* s2 is s with a leaf, new, that id has under tok.
Grown(s, s2, id, tok, new, leaf) ==
    /\ Ids(s2) = Ids(s) \union {new}
    /\ s2.nodes[new] = leaf
    /\ \A x \in Ids(s) : SameBody(s.nodes[x], s2.nodes[x])
    /\ \A x \in Ids(s) : x # id => Kids(s2, x) = Kids(s, x)
    /\ DOMAIN Kids(s2, id) = DOMAIN Kids(s, id) \union {tok}
    /\ \A y \in DOMAIN Kids(s, id) \union {tok} :
        Kids(s2, id)[y] = IF y = tok THEN new ELSE Kids(s, id)[y]

GrownTree(s, id, tok, new, leaf, e) ==
    Tree4(Put([s.nodes EXCEPT ![id] = Linked(s, id, tok, new)], new, leaf),
          s.evictable_leaves, e, s.protected_size_)

GrownWithSize(s, s2, id, tok, new, leaf, e) ==
    /\ Typed(s2) /\ Grown(s, s2, id, tok, new, leaf)
    /\ s2.evictable_leaves = s.evictable_leaves
    /\ s2.evictable_size_ = e /\ s2.protected_size_ = s.protected_size_

LEMMA GrownTreeIsGrown ==
    ASSUME NEW s, Typed(s), NEW id \in Ids(s), NEW tok \in Token, NEW new \in Seq(Token),
           new \notin Ids(s), NEW leaf \in NodeRec, NEW e \in Int
    PROVE  GrownWithSize(s, GrownTree(s, id, tok, new, leaf, e), id, tok, new, leaf, e)
<1> DEFINE node == Linked(s, id, tok, new)
           nodes == [s.nodes EXCEPT ![id] = node]
           s2 == GrownTree(s, id, tok, new, leaf, e)
<1>1. s.nodes \in [Ids(s) -> NodeRec]
    BY TreeFacts
<1>2. IsLinked(node, s.nodes[id], tok, new)
    BY LinkedFacts
<1> HIDE DEF node
<1>3. nodes \in [Ids(s) -> NodeRec] /\ \A x \in Ids(s) :
            nodes[x] = IF x = id THEN node ELSE s.nodes[x]
    BY <1>1, <1>2 DEF IsLinked
<1>4. s2 = Tree4(Put(nodes, new, leaf), s.evictable_leaves, e, s.protected_size_)
    BY DEF GrownTree, node
<1> HIDE DEF nodes, s2
<1>5. /\ Typed(s2) /\ Ids(s2) = Ids(s) \union {new}
      /\ \A x \in Ids(s) \union {new} :
            s2.nodes[x] = IF x = new THEN leaf ELSE nodes[x]
      /\ s2.evictable_leaves = s.evictable_leaves
      /\ s2.evictable_size_ = e /\ s2.protected_size_ = s.protected_size_
    BY <1>3, <1>4, PutNode
<1>6. s2.nodes[new] = leaf /\ s2.nodes[id] = node
      /\ \A x \in Ids(s) : x # id => s2.nodes[x] = s.nodes[x]
    BY <1>3, <1>5
<1>7. \A x \in Ids(s) : SameBody(s.nodes[x], s2.nodes[x])
    BY <1>2, <1>6 DEF SameBody, IsLinked
<1>8. /\ \A x \in Ids(s) : x # id => Kids(s2, x) = Kids(s, x)
      /\ Kids(s2, id) = node.children
    BY <1>6 DEF Kids
<1>9. /\ DOMAIN Kids(s2, id) = DOMAIN Kids(s, id) \union {tok}
      /\ \A y \in DOMAIN Kids(s, id) \union {tok} :
            Kids(s2, id)[y] = IF y = tok THEN new ELSE Kids(s, id)[y]
    BY <1>2, <1>8 DEF IsLinked, Kids
<1>10. Grown(s, s2, id, tok, new, leaf)
    BY <1>5, <1>6, <1>7, <1>8, <1>9 DEF Grown
<1> QED BY <1>5, <1>10 DEF s2, GrownWithSize

LeafAdded(s, s2, id, key, new, leaf) ==
    /\ new \in Seq(Token) /\ new \notin Ids(s) /\ IsPrefix(id, new)
    /\ Len(new) = Len(id) + Len(key) /\ new[Len(id) + 1] = key[1]
    /\ Typed(s2) /\ Grown(s, s2, id, key[1], new, leaf) /\ Leaves(s2)
    /\ s2.evictable_size_ = s.evictable_size_ + Len(key)
    /\ s2.protected_size_ = s.protected_size_

LEMMA AddLeafEffect ==
    ASSUME NEW s, Typed(s), Shape(s), Leaves(s), NEW id \in Ids(s),
           NEW key \in Seq(Token), key # <<>>, key[1] \notin DOMAIN Kids(s, id),
           NEW value \in Seq(Slot), NEW priority \in Int, NEW u \in Nat,
           NEW new, new = id \o key
    PROVE  LET s2 == AddLeaf(s, id, key, value, priority, u)
               leaf == TreeNode(id, key, value, 0, <<>>, priority, u)
           IN  LeafAdded(s, s2, id, key, new, leaf)
<1>1. id \in Seq(Token) /\ Len(id) \in Nat /\ Len(key) \in Nat \ {0}
    BY TreeFacts, LenProperties, EmptySeq
<1>2. /\ new \in Seq(Token) /\ Len(new) = Len(id) + Len(key) /\ IsPrefix(id, new)
      /\ \A i \in 1 .. Len(key) : new[Len(id) + i] = key[i]
    BY <1>1, ConcatPrefix
<1>3. new # id /\ new[Len(id) + 1] = key[1]
    BY <1>1, <1>2
<1>4. new \notin Ids(s)
    BY <1>2, <1>3, NextHop
<1> DEFINE s1 == LinkLeaf(s, id, key, value, priority, u)
           sm == UpdateLeafStatus(s1, id)
           s2 == UpdateLeafStatus(sm, new)
           leaf == TreeNode(id, key, value, 0, <<>>, priority, u)
           e == s.evictable_size_ + Len(key)
<1>5. /\ Typed(s1) /\ Grown(s, s1, id, key[1], new, leaf)
      /\ s1.evictable_leaves = s.evictable_leaves
      /\ s1.evictable_size_ = e /\ s1.protected_size_ = s.protected_size_
    <2>1. key[1] \in Token /\ leaf \in NodeRec /\ e \in Int
        <3>1. key[1] \in Token
            BY <1>1, ElementOfSeq
        <3>2. leaf \in NodeRec
            BY <1>1, OnlyFacts DEF TreeNode, NodeRec
        <3> QED BY <1>1, <3>1, <3>2, TreeFacts
    <2>2. s = Tree4(s.nodes, s.evictable_leaves, s.evictable_size_, s.protected_size_)
        BY Is4
    <2> DEFINE nodes == Put([s.nodes EXCEPT ![id] = Linked(s, id, key[1], new)], new, leaf)
    <2>3. s1 = [s EXCEPT !.nodes = nodes, !.evictable_size_ = e]
        BY DEF LinkLeaf, Linked
    <2> HIDE DEF s1, leaf, e
    <2>4. s1 = GrownTree(s, id, key[1], new, leaf, e)
        <3> HIDE DEF nodes
        <3>1. s1 = Tree4(nodes, s.evictable_leaves, e, s.protected_size_)
            BY <2>2, <2>3 DEF Tree4
        <3> QED BY <3>1 DEF GrownTree, nodes
    <2> HIDE DEF nodes
    <2>5. GrownWithSize(s, s1, id, key[1], new, leaf, e)
        BY <1>2, <1>4, <2>1, <2>4, GrownTreeIsGrown
    <2> QED BY <2>5 DEF GrownWithSize
<1>6. AddLeaf(s, id, key, value, priority, u) = s2
    BY DEF AddLeaf
<1> HIDE DEF s1, leaf, e
<1>7. RightBut(s1, {id, new})
    BY <1>5 DEF Grown, RightBut, Leaves, IsLeaf, SameBody, Kids
<1>8. /\ Typed(sm) /\ sm.nodes = s1.nodes /\ Ids(sm) = Ids(s1)
      /\ sm.evictable_size_ = s1.evictable_size_ /\ sm.protected_size_ = s1.protected_size_
      /\ RightBut(s1, {id, new}) => RightBut(sm, {id, new} \ {id})
    <2>1. id \in Ids(s1)
        BY <1>5 DEF Grown
    <2> QED BY <1>5, <2>1, UpdateLeafStatusEffect
<1> HIDE DEF sm
<1>9. /\ Typed(s2) /\ s2.nodes = sm.nodes /\ Ids(s2) = Ids(sm)
      /\ s2.evictable_size_ = sm.evictable_size_ /\ s2.protected_size_ = sm.protected_size_
      /\ RightBut(sm, {id, new} \ {id}) => RightBut(s2, ({id, new} \ {id}) \ {new})
    <2>1. new \in Ids(sm)
        BY <1>5, <1>8 DEF Grown
    <2> QED BY <1>8, <2>1, UpdateLeafStatusEffect
<1> HIDE DEF s2
<1>10. Leaves(s2)
    <2>1. ({id, new} \ {id}) \ {new} = {}
        OBVIOUS
    <2> QED BY <1>7, <1>8, <1>9, <2>1 DEF Leaves
<1>11. Grown(s, s2, id, key[1], new, leaf)
    BY <1>5, <1>8, <1>9 DEF Grown, Kids
<1> QED BY <1>2, <1>3, <1>4, <1>5, <1>6, <1>8, <1>9, <1>10, <1>11 DEF leaf, e, LeafAdded

\* s2 is s without id, which p had under tok.
Pruned(s, s2, id, p, tok) ==
    /\ Ids(s2) = Ids(s) \ {id}
    /\ \A x \in Ids(s) \ {id} : SameBody(s.nodes[x], s2.nodes[x])
    /\ \A x \in Ids(s) \ {id} : x # p => Kids(s2, x) = Kids(s, x)
    /\ DOMAIN Kids(s2, p) = DOMAIN Kids(s, p) \ {tok}
    /\ \A y \in DOMAIN Kids(s, p) \ {tok} : Kids(s2, p)[y] = Kids(s, p)[y]

Unlinked(s, p, tok) == [s.nodes[p] EXCEPT !.children = Restrict(@, DOMAIN @ \ {tok})]
PrunedTree(s, id, p, tok, e) ==
    Tree4([Restrict(s.nodes, Ids(s) \ {id}) EXCEPT ![p] = Unlinked(s, p, tok)],
          s.evictable_leaves \ {id}, e, s.protected_size_)
PrunedWithSize(s, s2, id, p, tok, e) ==
    /\ Typed(s2) /\ Pruned(s, s2, id, p, tok)
    /\ s2.evictable_leaves = s.evictable_leaves \ {id}
    /\ s2.evictable_size_ = e /\ s2.protected_size_ = s.protected_size_

LEMMA PrunedTreeIsPruned ==
    ASSUME NEW s, Typed(s), NEW id \in Ids(s), NEW p \in Ids(s), p # id, NEW tok,
           NEW e \in Int
    PROVE  PrunedWithSize(s, PrunedTree(s, id, p, tok, e), id, p, tok, e)
<1> DEFINE node == Unlinked(s, p, tok)
           I == Ids(s) \ {id}
           D == DOMAIN s.nodes[p].children
           kids == Restrict(s.nodes[p].children, D \ {tok})
           nodes == [Restrict(s.nodes, I) EXCEPT ![p] = node]
           L == s.evictable_leaves \ {id}
           s2 == Tree4(nodes, L, e, s.protected_size_)
<1>1. /\ s.nodes \in [Ids(s) -> NodeRec] /\ s.protected_size_ \in Int
      /\ Ids(s) \in SUBSET Seq(Token) /\ IsFiniteSet(Ids(s))
      /\ s.evictable_leaves \in SUBSET Seq(Token)
    BY TreeFacts, Is4
<1>2. /\ s.nodes[p] \in NodeRec /\ D \in SUBSET Token
      /\ s.nodes[p].children \in [D -> Seq(Token)]
    BY <1>1, NodeFields
<1>3. kids \in Links /\ DOMAIN kids = D \ {tok}
      /\ \A y \in D \ {tok} : kids[y] = s.nodes[p].children[y]
    <2>1. kids \in [D \ {tok} -> Seq(Token)] /\ D \ {tok} \in SUBSET Token
        BY <1>2 DEF Restrict
    <2> QED BY <2>1 DEF Links, Restrict
<1>4. node = [s.nodes[p] EXCEPT !.children = kids]
    BY DEF Unlinked
<1> HIDE DEF kids, node
<1>5. node \in NodeRec /\ SameBody(s.nodes[p], node) /\ node.children = kids
    BY <1>2, <1>3, <1>4 DEF NodeRec, SameBody
<1>6. Restrict(s.nodes, I) \in [I -> NodeRec]
      /\ \A x \in I : Restrict(s.nodes, I)[x] = s.nodes[x]
    BY <1>1 DEF Restrict
<1>7. /\ nodes \in [I -> NodeRec] /\ DOMAIN nodes = I
      /\ \A x \in I : nodes[x] = IF x = p THEN node ELSE s.nodes[x]
    <2> HIDE DEF I
    <2> QED BY <1>5, <1>6
<1>8. I \in SUBSET Seq(Token) /\ IsFiniteSet(I) /\ L \in SUBSET Seq(Token)
    BY <1>1, FS_RemoveElement
<1>9. PrunedTree(s, id, p, tok, e) = s2
    BY DEF PrunedTree, node
<1> HIDE DEF nodes, I, L
<1>10. /\ Typed(s2) /\ Ids(s2) = I /\ s2.nodes = nodes /\ s2.evictable_leaves = L
       /\ s2.evictable_size_ = e /\ s2.protected_size_ = s.protected_size_
    BY <1>1, <1>7, <1>8, TreeOf4
<1> HIDE DEF s2
<1>11. s2.nodes[p] = node /\ \A x \in I : x # p => s2.nodes[x] = s.nodes[x]
    BY <1>7, <1>10 DEF I
<1>12. Pruned(s, s2, id, p, tok)
    <2>1. \A x \in I : SameBody(s.nodes[x], s2.nodes[x])
        BY <1>5, <1>11 DEF SameBody
    <2>2. Kids(s2, p) = kids /\ \A x \in I : x # p => Kids(s2, x) = Kids(s, x)
        BY <1>5, <1>11 DEF Kids
    <2> QED BY <1>3, <1>10, <2>1, <2>2 DEF Pruned, I, Kids
<1> QED BY <1>9, <1>10, <1>12 DEF PrunedWithSize, L

LEMMA DeleteLeafEffect ==
    ASSUME NEW s, Typed(s), Shape(s), Leaves(s), NEW id \in Inner(s),
           DOMAIN Kids(s, id) = {}, ~ (s.nodes[id].lock_ref > 0)
    PROVE  LET s2 == DeleteLeaf(s, id)
               p == Par(s, id)
           IN  /\ Typed(s2) /\ Leaves(s2)
               /\ Pruned(s, s2, id, p, s.nodes[id].key[1])
               /\ s2.evictable_size_ = s.evictable_size_ - Len(s.nodes[id].key)
               /\ s2.protected_size_ = s.protected_size_
<1> DEFINE p == Par(s, id)
           tok == s.nodes[id].key[1]
           e == s.evictable_size_ - Len(s.nodes[id].key)
           cut == PrunedTree(s, id, p, tok, e)
           s2 == UpdateLeafStatus(cut, p)
<1>1. /\ id \in Ids(s) /\ p \in Ids(s) /\ p # id
    BY NodeFacts DEF Inner
<1>2. e \in Int
    BY NodeFacts, TreeFacts
<1>3. DeleteLeaf(s, id) = s2
    <2> DEFINE nodes == [Restrict(s.nodes, Ids(s) \ {id}) EXCEPT ![p] = Unlinked(s, p, tok)]
               code == [s EXCEPT !.nodes = NodesWithout(s, id), !.evictable_size_ = e,
                                 !.evictable_leaves = @ \ {id}]
    <2>1. DeleteLeaf(s, id) = UpdateLeafStatus(code, p)
        BY DEF DeleteLeaf, Par
    <2>2. NodesWithout(s, id) = nodes
        <3>1. Restrict(s.nodes, Ids(s) \ {id})[p] = s.nodes[p]
            BY <1>1 DEF Restrict
        <3> QED BY <3>1 DEF NodesWithout, Unlinked, Par, Ids
    <2>3. s = Tree4(s.nodes, s.evictable_leaves, s.evictable_size_, s.protected_size_)
        BY Is4
    <2>4. code = [s EXCEPT !.nodes = nodes, !.evictable_size_ = e,
                           !.evictable_leaves = s.evictable_leaves \ {id}]
        BY <2>2, Zenon
    <2> HIDE DEF nodes, code, e
    <2>5. code = Tree4(nodes, s.evictable_leaves \ {id}, e, s.protected_size_)
        BY <2>3, <2>4 DEF Tree4
    <2> QED BY <2>1, <2>5 DEF PrunedTree, nodes
<1> HIDE DEF e, tok, p
<1>4. PrunedWithSize(s, cut, id, p, tok, e)
    BY <1>1, <1>2, PrunedTreeIsPruned
<1> HIDE DEF cut
<1>5. /\ Typed(cut) /\ Pruned(s, cut, id, p, tok)
      /\ cut.evictable_leaves = s.evictable_leaves \ {id}
      /\ cut.evictable_size_ = e /\ cut.protected_size_ = s.protected_size_
    BY <1>4 DEF PrunedWithSize
<1>6. RightBut(cut, {p})
    BY <1>5 DEF Pruned, RightBut, Leaves, IsLeaf, SameBody, Kids
<1>7. /\ Typed(s2) /\ s2.nodes = cut.nodes /\ Ids(s2) = Ids(cut)
      /\ s2.evictable_size_ = cut.evictable_size_ /\ s2.protected_size_ = cut.protected_size_
      /\ RightBut(cut, {p}) => RightBut(s2, {p} \ {p})
    <2>1. p \in Ids(cut)
        BY <1>1, <1>5 DEF Pruned
    <2> QED BY <1>5, <2>1, UpdateLeafStatusEffect
<1> HIDE DEF s2
<1>8. Leaves(s2)
    <2>1. {p} \ {p} = {}
        OBVIOUS
    <2> QED BY <1>6, <1>7, <2>1 DEF Leaves
<1>9. Pruned(s, s2, id, p, tok)
    BY <1>5, <1>7 DEF Pruned, Kids
<1> QED BY <1>3, <1>5, <1>7, <1>8, <1>9 DEF p, tok, e

\* s2 is s with new, up, between child, now low, and p, which had child under tok.
IsSplit(s, s2, child, p, tok, new, low, up) ==
    /\ Ids(s2) = Ids(s) \union {new}
    /\ s2.nodes[new] = up /\ s2.nodes[child] = low
    /\ \A x \in Ids(s) \ {child} : SameBody(s.nodes[x], s2.nodes[x])
    /\ \A x \in Ids(s) \ {child, p} : Kids(s2, x) = Kids(s, x)
    /\ DOMAIN Kids(s2, p) = DOMAIN Kids(s, p) \union {tok}
    /\ \A y \in DOMAIN Kids(s, p) \union {tok} :
        Kids(s2, p)[y] = IF y = tok THEN new ELSE Kids(s, p)[y]
    /\ s2.evictable_leaves = s.evictable_leaves
    /\ s2.evictable_size_ = s.evictable_size_ /\ s2.protected_size_ = s.protected_size_

SplitTree(s, child, p, tok, new, low, up) ==
    Tree4(Put([s.nodes EXCEPT ![child] = low, ![p] = Linked(s, p, tok, new)], new, up),
          s.evictable_leaves, s.evictable_size_, s.protected_size_)

LEMMA SplitTreeIsSplit ==
    ASSUME NEW s, Typed(s), NEW child \in Ids(s), NEW p \in Ids(s), p # child,
           NEW tok \in Token, NEW new \in Seq(Token), new \notin Ids(s),
           NEW low \in NodeRec, NEW up \in NodeRec
    PROVE  LET s2 == SplitTree(s, child, p, tok, new, low, up)
           IN  Typed(s2) /\ IsSplit(s, s2, child, p, tok, new, low, up)
<1> DEFINE node == Linked(s, p, tok, new)
           nodes == [s.nodes EXCEPT ![child] = low, ![p] = node]
           s2 == SplitTree(s, child, p, tok, new, low, up)
<1>1. s.nodes \in [Ids(s) -> NodeRec] /\ s.evictable_size_ \in Int
    BY TreeFacts
<1>2. IsLinked(node, s.nodes[p], tok, new)
    BY LinkedFacts
<1> HIDE DEF node
<1>3. nodes \in [Ids(s) -> NodeRec] /\ \A x \in Ids(s) :
            nodes[x] = IF x = p THEN node ELSE IF x = child THEN low ELSE s.nodes[x]
    BY <1>1, <1>2 DEF IsLinked
<1>4. s2 = Tree4(Put(nodes, new, up), s.evictable_leaves, s.evictable_size_,
                 s.protected_size_)
    BY DEF SplitTree, node
<1> HIDE DEF nodes, s2
<1>5. /\ Typed(s2) /\ Ids(s2) = Ids(s) \union {new}
      /\ \A x \in Ids(s) \union {new} :
            s2.nodes[x] = IF x = new THEN up ELSE nodes[x]
      /\ s2.evictable_leaves = s.evictable_leaves
      /\ s2.evictable_size_ = s.evictable_size_ /\ s2.protected_size_ = s.protected_size_
    BY <1>1, <1>3, <1>4, PutNode
<1>6. s2.nodes[new] = up /\ s2.nodes[child] = low /\ s2.nodes[p] = node
      /\ \A x \in Ids(s) \ {child, p} : s2.nodes[x] = s.nodes[x]
    BY <1>3, <1>5
<1>7. \A x \in Ids(s) \ {child} : SameBody(s.nodes[x], s2.nodes[x])
    BY <1>2, <1>6 DEF SameBody, IsLinked
<1>8. /\ \A x \in Ids(s) \ {child, p} : Kids(s2, x) = Kids(s, x)
      /\ Kids(s2, p) = node.children
    BY <1>6 DEF Kids
<1>9. /\ DOMAIN Kids(s2, p) = DOMAIN Kids(s, p) \union {tok}
      /\ \A y \in DOMAIN Kids(s, p) \union {tok} :
            Kids(s2, p)[y] = IF y = tok THEN new ELSE Kids(s, p)[y]
    BY <1>2, <1>8 DEF IsLinked, Kids
<1>10. IsSplit(s, s2, child, p, tok, new, low, up)
    BY <1>5, <1>6, <1>7, <1>8, <1>9 DEF IsSplit
<1> QED BY <1>5, <1>10 DEF s2

\* Where a node is cut, and the two nodes it becomes.
LEMMA SplitParts ==
    ASSUME NEW s, Typed(s), Shape(s), NEW child \in Inner(s), NEW u \in Nat,
           NEW n \in Nat, 0 < n, n < Len(s.nodes[child].key)
    PROVE  LET old == s.nodes[child]
               p == Par(s, child)
               new == SplitName(s, child, n)
               low == LowerNode(old, new, n)
               up == UpperNode(old, child, n, u)
           IN  /\ p \in Ids(s) /\ p # child
               /\ old.key[1] \in DOMAIN Kids(s, p) /\ Kids(s, p)[old.key[1]] = child
               /\ new \in Seq(Token) /\ new \notin Ids(s)
               /\ IsPrefix(p, new) /\ IsPrefix(new, child) /\ Len(new) = Len(p) + n
               /\ p \o Take(old.key, n) = new /\ new \o Drop(old.key, n) = child
               /\ Take(old.key, n) # <<>> /\ Drop(old.key, n) # <<>>
               /\ Take(old.key, n)[1] = old.key[1] /\ Drop(old.key, n)[1] = old.key[n + 1]
               /\ Len(Take(old.value, n)) = n /\ Len(Take(old.key, n)) = n
               /\ Len(Drop(old.value, n)) = Len(Drop(old.key, n))
               /\ Len(Drop(old.key, n)) = Len(old.key) - n
               /\ old.key[n + 1] \in Token
               /\ low \in NodeRec /\ up \in NodeRec
<1>0. /\ child \in Seq(Token) /\ Len(child) \in Nat
      /\ Par(s, child) \in Ids(s) /\ Par(s, child) \in Seq(Token)
      /\ Len(Par(s, child)) \in Nat /\ Len(Par(s, child)) < Len(child)
      /\ IsPrefix(Par(s, child), child)
      /\ s.nodes[child].key \in Seq(Token)
      /\ Len(s.nodes[child].key) = Len(child) - Len(Par(s, child))
      /\ \A i \in 1 .. Len(child) - Len(Par(s, child)) :
            s.nodes[child].key[i] = child[Len(Par(s, child)) + i]
      /\ s.nodes[child].value \in Seq(Slot)
      /\ Len(s.nodes[child].value) = Len(child) - Len(Par(s, child))
    BY NodeFacts
<1> DEFINE old == s.nodes[child]
           p == Par(s, child)
           k == old.key
           v == old.value
           new == SplitName(s, child, n)
<1>1. /\ child \in Seq(Token) /\ Len(child) \in Nat /\ p \in Ids(s) /\ p \in Seq(Token)
      /\ Len(p) \in Nat /\ Len(p) < Len(child) /\ IsPrefix(p, child)
      /\ k \in Seq(Token) /\ Len(k) = Len(child) - Len(p)
      /\ \A i \in 1 .. Len(child) - Len(p) : k[i] = child[Len(p) + i]
      /\ v \in Seq(Slot) /\ Len(v) = Len(k)
    BY <1>0
<1>2. k[1] \in DOMAIN Kids(s, p) /\ Kids(s, p)[k[1]] = child /\ p \o k = child
    BY DEF Shape
<1>3. old \in NodeRec
    BY TreeFacts DEF Inner
<1> HIDE DEF old, p, k, v
<1>4. Len(k) \in Nat /\ n \in 0 .. Len(k) /\ n \in 0 .. Len(v) /\ n + 1 \in 1 .. Len(k)
      /\ n < Len(k)
    BY <1>1 DEF k, old
<1>5. /\ Take(k, n) \in Seq(Token) /\ Len(Take(k, n)) = n
      /\ \A i \in 1 .. n : Take(k, n)[i] = k[i]
      /\ Take(v, n) \in Seq(Slot) /\ Len(Take(v, n)) = n
    BY <1>1, <1>4, TakeProperties
<1>6. /\ Drop(k, n) \in Seq(Token) /\ Len(Drop(k, n)) = Len(k) - n
      /\ \A i \in 1 .. Len(k) - n : Drop(k, n)[i] = k[n + i]
      /\ Drop(v, n) \in Seq(Slot) /\ Len(Drop(v, n)) = Len(v) - n
    BY <1>1, <1>4, DropProperties
<1>7. new = p \o Take(k, n)
    BY DEF SplitName, p, k, old, Par
<1> HIDE DEF new
<1>8. /\ new \in Seq(Token) /\ Len(new) = Len(p) + n /\ IsPrefix(p, new)
    BY <1>1, <1>5, <1>7, ConcatPrefix
<1>9. Take(k, n) \o Drop(k, n) = k
    <2>1. 1 \in 1 .. Len(k) + 1 /\ n \in 1 - 1 .. Len(k) /\ Len(k) \in n .. Len(k)
        BY <1>4
    <2>2. SubSeq(k, 1, n) \o SubSeq(k, n + 1, Len(k)) = SubSeq(k, 1, Len(k))
        BY <1>1, <2>1, ConcatAdjacentSubSeq
    <2>3. SubSeq(k, 1, Len(k)) = k
        BY <1>1, SubSeqFull
    <2> QED BY <2>2, <2>3 DEF Take, Drop
<1>10. new \o Drop(k, n) = child
    <2>1. (p \o Take(k, n)) \o Drop(k, n) = p \o (Take(k, n) \o Drop(k, n))
        <3>1. \A x, y, z \in Seq(Token) : (x \o y) \o z = x \o (y \o z)
            BY ConcatAssociative
        <3> QED BY <1>1, <1>5, <1>6, <3>1, Zenon
    <2> QED BY <1>2, <1>7, <1>9, <2>1
<1>11. IsPrefix(new, child)
    BY <1>6, <1>8, <1>10, ConcatPrefix
<1>12. new \notin Ids(s)
    <2>1. IsPrefix(new, child) /\ new # child /\ ~ (Len(new) <= Len(p))
        BY <1>1, <1>4, <1>8, <1>11
    <2> QED BY <2>1, NoGap DEF p
<1>13. /\ Take(k, n) # <<>> /\ Drop(k, n) # <<>>
       /\ Take(k, n)[1] = k[1] /\ Drop(k, n)[1] = k[n + 1]
    <2>1. Len(Take(k, n)) # 0 /\ Len(Drop(k, n)) # 0
        BY <1>4, <1>5, <1>6
    <2>2. 1 \in 1 .. n /\ 1 \in 1 .. Len(k) - n
        BY <1>4
    <2> QED BY <1>5, <1>6, <2>1, <2>2, EmptySeq
<1>14. k[n + 1] \in Token
    BY <1>1, <1>4, ElementOfSeq
<1>15. LowerNode(old, new, n) \in NodeRec
    BY <1>3, <1>6, <1>8 DEF LowerNode, NodeRec, k, v
<1>16. UpperNode(old, child, n, u) \in NodeRec
    <2>1. Only(k[n + 1], child) \in Links
        BY <1>1, <1>14, OnlyFacts
    <2>2. old.parent \in Seq(Token) /\ old.lock_ref \in Nat /\ old.priority \in Int
        BY <1>3, NodeFields
    <2> QED BY <1>5, <2>1, <2>2 DEF UpperNode, TreeNode, NodeRec, k, v
<1>17. p # child
    BY <1>1
<1> HIDE <1>3
<1> QED BY <1>1, <1>2, <1>4, <1>5, <1>6, <1>7, <1>8, <1>10, <1>11, <1>12, <1>13, <1>14,
           <1>15, <1>16, <1>17 DEF new, old, p, k, v

LEMMA SplitNodeIsSplitTree ==
    ASSUME NEW s, Typed(s), NEW child \in Ids(s), NEW p \in Ids(s), p # child,
           p = s.nodes[child].parent, NEW n, NEW u
    PROVE  LET old == s.nodes[child]
               new == SplitName(s, child, n)
           IN  SplitNode(s, child, n, u) =
                    SplitTree(s, child, p, old.key[1], new, LowerNode(old, new, n),
                              UpperNode(old, child, n, u))
<1> DEFINE old == s.nodes[child]
           new == SplitName(s, child, n)
           low == LowerNode(old, new, n)
           up == UpperNode(old, child, n, u)
           tok == old.key[1]
           a == [s.nodes EXCEPT ![child] = low, ![p].children = Put(@, tok, new)]
           b == [s.nodes EXCEPT ![child] = low, ![p] = Linked(s, p, tok, new)]
<1>1. SplitNode(s, child, n, u) = [s EXCEPT !.nodes = Put(a, new, up)]
    BY DEF SplitNode
<1> HIDE DEF low, up, new, tok
<1>2. s.nodes \in [Ids(s) -> NodeRec]
    BY TreeFacts
<1>3. a = b
    <2>1. [s.nodes EXCEPT ![child] = low][p] = s.nodes[p]
        BY <1>2
    <2> QED BY <1>2, <2>1 DEF Linked
<1> HIDE DEF a, b
<1>4. [s EXCEPT !.nodes = Put(b, new, up)] =
            Tree4(Put(b, new, up), s.evictable_leaves, s.evictable_size_,
                  s.protected_size_)
    BY Is4 DEF Tree4
<1> QED BY <1>1, <1>3, <1>4 DEF SplitTree, b, old, new, low, up, tok

\* A split, seen as one.
SplitAt(s, s2, child, n, u) ==
    LET old == s.nodes[child]
        new == SplitName(s, child, n)
    IN  IsSplit(s, s2, child, Par(s, child), old.key[1], new, LowerNode(old, new, n),
                UpperNode(old, child, n, u))

LEMMA SplitEffect ==
    ASSUME NEW s, Typed(s), Shape(s), Leaves(s), NEW child \in Inner(s), NEW u \in Nat,
           NEW n \in Nat, 0 < n, n < Len(s.nodes[child].key)
    PROVE  LET s2 == SplitNode(s, child, n, u)
           IN  Typed(s2) /\ SplitAt(s, s2, child, n, u) /\ Leaves(s2)
<1> DEFINE old == s.nodes[child]
           p == Par(s, child)
           new == SplitName(s, child, n)
           low == LowerNode(old, new, n)
           up == UpperNode(old, child, n, u)
           tok == old.key[1]
           s2 == SplitNode(s, child, n, u)
<1>1. /\ p \in Ids(s) /\ p # child /\ tok \in DOMAIN Kids(s, p)
      /\ new \in Seq(Token) /\ new \notin Ids(s) /\ low \in NodeRec /\ up \in NodeRec
    BY SplitParts
<1>2. child \in Ids(s) /\ p = s.nodes[child].parent
    BY DEF Inner, Par
<1>3. tok \in Token
    <2>1. s.nodes[p] \in NodeRec
        BY <1>1, TreeFacts
    <2> QED BY <1>1, <2>1, NodeFields DEF Kids
<1>4. s2 = SplitTree(s, child, p, tok, new, low, up)
    BY <1>1, <1>2, SplitNodeIsSplitTree
<1> HIDE DEF p, new, low, up, tok, s2
<1>5. Typed(s2) /\ IsSplit(s, s2, child, p, tok, new, low, up)
    BY <1>1, <1>2, <1>3, <1>4, SplitTreeIsSplit
<1>6. low.lock_ref = old.lock_ref /\ low.children = old.children
    <2>1. old \in NodeRec
        BY <1>2, TreeFacts
    <2> QED BY <2>1 DEF low, LowerNode, NodeRec
<1>7. DOMAIN up.children # {}
    <2>1. up.children = Only(old.key[n + 1], child)
        BY DEF up, UpperNode, TreeNode
    <2> QED BY <2>1 DEF Only
<1>8. \A x \in Ids(s) : IsLeaf(s2, x) <=> IsLeaf(s, x)
    <2> TAKE x \in Ids(s)
    <2>1. CASE x = child
        BY <1>5, <1>6, <2>1 DEF IsLeaf, IsSplit
    <2>2. CASE x = p
        BY <1>1, <1>5, <2>2 DEF IsLeaf, IsSplit, SameBody, Kids
    <2>3. CASE x # p /\ x # child
        BY <1>5, <2>3 DEF IsLeaf, IsSplit, SameBody, Kids
    <2> QED BY <2>1, <2>2, <2>3
<1>9. ~ IsLeaf(s2, new)
    BY <1>5, <1>7 DEF IsLeaf, IsSplit
<1>10. Leaves(s2)
    BY <1>5, <1>8, <1>9 DEF Leaves, RightBut, IsSplit
<1> QED BY <1>5, <1>10 DEF SplitAt, p, new, low, up, tok, s2

-----------------------------------------------------------------------------
(* The tree stays one *)

\* The parts of Shape: a node's name, how it is reached, what it has below it.
Named(s, x) ==
    /\ s.nodes[x].key # <<>> /\ Par(s, x) \o s.nodes[x].key = x
    /\ Len(s.nodes[x].value) = Len(s.nodes[x].key)
ReachedBy(s, x, p, tok) ==
    p \in Ids(s) /\ tok \in DOMAIN Kids(s, p) /\ Kids(s, p)[tok] = x
Reached(s, x) == ReachedBy(s, x, Par(s, x), s.nodes[x].key[1])
Owns(s, x) ==
    \A tok \in DOMAIN Kids(s, x) :
        /\ Kids(s, x)[tok] \in Inner(s) /\ Par(s, Kids(s, x)[tok]) = x
        /\ s.nodes[Kids(s, x)[tok]].key[1] = tok

LEMMA ShapeParts ==
    ASSUME NEW s
    PROVE  Shape(s) <=> /\ Root \in Ids(s)
                        /\ \A x \in Inner(s) : Named(s, x) /\ Reached(s, x)
                        /\ \A x \in Ids(s) : Owns(s, x)
<1>1. Shape(s) => /\ Root \in Ids(s)
                  /\ \A x \in Inner(s) : Named(s, x) /\ Reached(s, x)
                  /\ \A x \in Ids(s) : Owns(s, x)
    BY DEF Shape, Named, Reached, ReachedBy, Owns
<1>2. ASSUME Root \in Ids(s), \A x \in Inner(s) : Named(s, x) /\ Reached(s, x),
             \A x \in Ids(s) : Owns(s, x)
      PROVE  Shape(s)
    BY <1>2 DEF Shape, Named, Reached, ReachedBy, Owns
<1> QED BY <1>1, <1>2

\* The same link.
SameLink(s, s2, x) ==
    /\ Par(s2, x) = Par(s, x) /\ s2.nodes[x].key = s.nodes[x].key
    /\ s2.nodes[x].value = s.nodes[x].value

LEMMA SameName ==
    ASSUME NEW s, NEW s2, NEW x, SameLink(s, s2, x), Named(s, x)
    PROVE  Named(s2, x)
BY DEF SameLink, Named

LEMMA SameLinksShape ==
    ASSUME NEW s, NEW s2, SameLinks(s, s2), Shape(s)
    PROVE  Shape(s2)
<1>1. /\ Ids(s2) = Ids(s) /\ Inner(s2) = Inner(s)
      /\ \A id \in Ids(s) : SameLink(s, s2, id) /\ Kids(s2, id) = Kids(s, id)
    BY DEF SameLinks, SameLink, Par, Kids, Inner
<1>2. /\ Root \in Ids(s) /\ \A x \in Inner(s) : Named(s, x) /\ Reached(s, x)
      /\ \A x \in Ids(s) : Owns(s, x)
    BY ShapeParts
<1>3. ASSUME NEW x \in Inner(s2) PROVE Named(s2, x) /\ Reached(s2, x)
    <2>1. x \in Ids(s)
        BY <1>1 DEF Inner
    <2> QED BY <1>1, <1>2, <2>1, SameName DEF SameLink, Reached, ReachedBy
<1>4. ASSUME NEW x \in Ids(s2) PROVE Owns(s2, x)
    BY <1>1, <1>2 DEF SameLink, Owns, Inner
<1> QED BY <1>1, <1>2, <1>3, <1>4, ShapeParts

LEMMA GrownShape ==
    ASSUME NEW s, NEW s2, NEW id \in Ids(s), NEW tok, NEW new, NEW leaf, Shape(s),
           Grown(s, s2, id, tok, new, leaf), tok \notin DOMAIN Kids(s, id),
           new \notin Ids(s), leaf.parent = id, leaf.key # <<>>, id \o leaf.key = new,
           leaf.key[1] = tok, Len(leaf.value) = Len(leaf.key), leaf.children = <<>>
    PROVE  Shape(s2)
<1>1. /\ Root \in Ids(s) /\ \A x \in Inner(s) : Named(s, x) /\ Reached(s, x)
      /\ \A x \in Ids(s) : Owns(s, x)
    BY ShapeParts
<1>2. new # Root /\ Inner(s2) = Inner(s) \union {new} /\ Ids(s2) = Ids(s) \union {new}
    BY <1>1 DEF Grown, Inner
<1>3. /\ Par(s2, new) = id /\ Kids(s2, new) = <<>>
      /\ s2.nodes[new].key = leaf.key /\ s2.nodes[new].key[1] = tok
    BY DEF Grown, Par, Kids
<1>4. \A x \in Ids(s) : SameLink(s, s2, x)
    BY DEF Grown, SameBody, Par, SameLink
<1>5. /\ \A x \in Ids(s) : x # id => Kids(s2, x) = Kids(s, x)
      /\ DOMAIN Kids(s2, id) = DOMAIN Kids(s, id) \union {tok}
      /\ Kids(s2, id)[tok] = new
      /\ \A y \in DOMAIN Kids(s, id) : y # tok /\ Kids(s2, id)[y] = Kids(s, id)[y]
    BY DEF Grown
<1>6. Named(s2, new)
    BY <1>3 DEF Named, Grown
<1>7. Reached(s2, new)
    BY <1>2, <1>3, <1>5 DEF Reached, ReachedBy
<1>8. ASSUME NEW x \in Inner(s) PROVE Named(s2, x) /\ Reached(s2, x)
    <2>1. x \in Ids(s) /\ Named(s, x) /\ ReachedBy(s, x, Par(s, x), s.nodes[x].key[1])
        BY <1>1 DEF Inner, Reached
    <2>2. ReachedBy(s2, x, Par(s, x), s.nodes[x].key[1])
        BY <1>2, <1>5, <2>1 DEF ReachedBy
    <2> QED BY <1>4, <2>1, <2>2, SameName DEF SameLink, Reached
<1>9. ASSUME NEW x \in Ids(s2) PROVE Owns(s2, x)
    <2>1. CASE x = new
        <3>1. DOMAIN Kids(s2, new) = {}
            BY <1>3
        <3> QED BY <2>1, <3>1 DEF Owns
    <2>2. CASE x \in Ids(s)
        <3>1. \A y \in DOMAIN Kids(s, x) :
                /\ Kids(s, x)[y] \in Inner(s) /\ Kids(s, x)[y] \in Ids(s)
                /\ Par(s, Kids(s, x)[y]) = x /\ s.nodes[Kids(s, x)[y]].key[1] = y
            BY <1>1, <2>2 DEF Owns, Inner
        <3>2. ASSUME NEW y \in DOMAIN Kids(s, x), Kids(s2, x)[y] = Kids(s, x)[y]
              PROVE  /\ Kids(s2, x)[y] \in Inner(s2) /\ Par(s2, Kids(s2, x)[y]) = x
                     /\ s2.nodes[Kids(s2, x)[y]].key[1] = y
            BY <1>2, <1>4, <3>1, <3>2 DEF SameLink
        <3>3. CASE x = id
            BY <1>2, <1>3, <1>5, <3>2, <3>3 DEF Owns
        <3>4. CASE x # id
            BY <1>5, <2>2, <3>2, <3>4 DEF Owns
        <3> QED BY <3>3, <3>4
    <2> QED BY <1>2, <2>1, <2>2
<1> QED BY <1>1, <1>2, <1>6, <1>7, <1>8, <1>9, ShapeParts

LEMMA PrunedShape ==
    ASSUME NEW s, NEW s2, NEW id \in Inner(s), Shape(s), DOMAIN Kids(s, id) = {},
           Pruned(s, s2, id, Par(s, id), s.nodes[id].key[1])
    PROVE  Shape(s2)
<1> DEFINE p == Par(s, id)
           tok == s.nodes[id].key[1]
<1>1. /\ Root \in Ids(s) /\ \A x \in Inner(s) : Named(s, x) /\ Reached(s, x)
      /\ \A x \in Ids(s) : Owns(s, x)
    BY ShapeParts
<1>2. ReachedBy(s, id, p, tok)
    BY <1>1 DEF Reached
<1> HIDE DEF p, tok
<1>3. Pruned(s, s2, id, p, tok)
    BY DEF p, tok
<1>4. p # id
    BY <1>2 DEF ReachedBy
<1>5. /\ Ids(s2) = Ids(s) \ {id} /\ Inner(s2) = Inner(s) \ {id} /\ Root \in Ids(s2)
    BY <1>1, <1>3 DEF Pruned, Inner
<1>6. \A x \in Ids(s2) : SameLink(s, s2, x)
    BY <1>3, <1>5 DEF Pruned, SameBody, Par, SameLink
<1>7. /\ \A x \in Ids(s2) : x # p => Kids(s2, x) = Kids(s, x)
      /\ DOMAIN Kids(s2, p) = DOMAIN Kids(s, p) \ {tok}
      /\ \A y \in DOMAIN Kids(s2, p) : Kids(s2, p)[y] = Kids(s, p)[y]
    BY <1>3, <1>5 DEF Pruned
<1>8. ASSUME NEW x \in Inner(s2) PROVE Named(s2, x) /\ Reached(s2, x)
    <2> DEFINE q == Par(s, x)
               k == s.nodes[x].key[1]
    <2>1. x \in Inner(s) /\ x \in Ids(s2) /\ x # id /\ Named(s, x)
        BY <1>1, <1>5, <1>8 DEF Inner
    <2>2. ReachedBy(s, x, q, k)
        BY <1>1, <2>1 DEF Reached
    <2> HIDE DEF q, k
    <2>3. q # id
        BY <2>2 DEF ReachedBy
    <2>4. CASE q # p
        <3>1. ReachedBy(s2, x, q, k)
            BY <1>5, <1>7, <2>2, <2>3, <2>4 DEF ReachedBy
        <3> QED BY <1>6, <2>1, <3>1, SameName DEF SameLink, Reached, q, k
    <2>5. CASE q = p
        <3>1. k # tok
            BY <1>2, <2>1, <2>2, <2>5 DEF ReachedBy
        <3>2. ReachedBy(s2, x, q, k)
            BY <1>5, <1>7, <2>2, <2>3, <2>5, <3>1 DEF ReachedBy
        <3> QED BY <1>6, <2>1, <3>2, SameName DEF SameLink, Reached, q, k
    <2> QED BY <2>4, <2>5
<1>9. ASSUME NEW x \in Ids(s2) PROVE Owns(s2, x)
    <2>1. ASSUME NEW y \in DOMAIN Kids(s2, x)
          PROVE  /\ Kids(s2, x)[y] \in Inner(s2) /\ Par(s2, Kids(s2, x)[y]) = x
                 /\ s2.nodes[Kids(s2, x)[y]].key[1] = y
        <3>1. x \in Ids(s) /\ y \in DOMAIN Kids(s, x) /\ Kids(s2, x)[y] = Kids(s, x)[y]
            BY <1>5, <1>7, <2>1
        <3> DEFINE z == Kids(s, x)[y]
        <3>2. z \in Inner(s) /\ Par(s, z) = x /\ s.nodes[z].key[1] = y
            BY <1>1, <3>1 DEF Owns
        <3> HIDE DEF z
        <3>3. z # id
            <4>1. z = id => x = p /\ y = tok
                BY <3>2 DEF p, tok
            <4> QED BY <1>7, <2>1, <4>1
        <3>4. z \in Inner(s2) /\ z \in Ids(s2)
            BY <1>5, <3>2, <3>3 DEF Inner
        <3> QED BY <1>6, <3>1, <3>2, <3>4 DEF SameLink, z
    <2> QED BY <2>1 DEF Owns
<1> QED BY <1>5, <1>8, <1>9, ShapeParts

\* Links after a split, and the ranks and locks.
SplitLinks(s, s2, child, p, new) ==
    /\ Ids(s2) = Ids(s) \union {new} /\ Inner(s2) = Inner(s) \union {new}
    /\ new \notin Ids(s) /\ new # Root /\ p \in Ids(s) /\ p # child /\ child \in Inner(s)
    /\ Par(s, child) = p /\ Par(s2, new) = p /\ Par(s2, child) = new
    /\ \A x \in Ids(s) \ {child} : SameLink(s, s2, x)
    /\ \A x \in Ids(s) \ {p} : Kids(s2, x) = Kids(s, x)
SameState(a, b) ==
    b.lock_ref = a.lock_ref /\ b.priority = a.priority
SplitRanks(s, s2, child, new, u) ==
    /\ \A x \in Ids(s) :
        /\ SameState(s.nodes[x], s2.nodes[x])
        /\ s2.nodes[x].last_access_time = s.nodes[x].last_access_time
        /\ s2.nodes[x].creation_time = s.nodes[x].creation_time
    /\ SameState(s.nodes[child], s2.nodes[new])
    /\ s2.nodes[new].last_access_time = u /\ s2.nodes[new].creation_time = u
    /\ s2.evictable_leaves = s.evictable_leaves
    /\ s2.evictable_size_ = s.evictable_size_ /\ s2.protected_size_ = s.protected_size_

LEMMA SplitDigest ==
    ASSUME NEW s, Typed(s), Shape(s), NEW child \in Inner(s), NEW u \in Nat,
           NEW n \in Nat, 0 < n, n < Len(s.nodes[child].key), NEW s2,
           SplitAt(s, s2, child, n, u)
    PROVE  /\ SplitLinks(s, s2, child, Par(s, child), SplitName(s, child, n))
           /\ SplitRanks(s, s2, child, SplitName(s, child, n), u)
<1> DEFINE old == s.nodes[child]
           p == Par(s, child)
           new == SplitName(s, child, n)
           low == LowerNode(old, new, n)
           up == UpperNode(old, child, n, u)
           tok == old.key[1]
<1>1. IsSplit(s, s2, child, p, tok, new, low, up)
    BY DEF SplitAt
<1>2. p \in Ids(s) /\ p # child /\ new \notin Ids(s)
    BY SplitParts
<1>3. child \in Ids(s) /\ old \in NodeRec /\ Root \in Ids(s)
    BY TreeFacts DEF Inner, Shape
<1>4. /\ low.parent = new /\ low.children = old.children /\ SameState(old, low)
      /\ low.last_access_time = old.last_access_time
      /\ low.creation_time = old.creation_time
    BY <1>3 DEF LowerNode, NodeRec, SameState
<1>5. /\ up.parent = p /\ SameState(old, up) /\ up.last_access_time = u
      /\ up.creation_time = u
    BY DEF UpperNode, TreeNode, SameState, Par
<1> HIDE DEF low, up, new, tok
<1>6. s2.nodes[new] = up /\ s2.nodes[child] = low
    BY <1>1 DEF IsSplit
<1>7. \A x \in Ids(s) \ {child} : SameLink(s, s2, x)
    BY <1>1 DEF IsSplit, SameBody, SameLink, Par
<1>8. \A x \in Ids(s) \ {p} : Kids(s2, x) = Kids(s, x)
    BY <1>1, <1>4, <1>6 DEF IsSplit, Kids
<1>9. Par(s2, new) = p /\ Par(s2, child) = new
    BY <1>4, <1>5, <1>6 DEF Par
<1>10. SplitLinks(s, s2, child, p, new)
    BY <1>1, <1>2, <1>3, <1>7, <1>8, <1>9 DEF SplitLinks, IsSplit, Inner
<1>11. SplitRanks(s, s2, child, new, u)
    BY <1>1, <1>4, <1>5, <1>6 DEF SplitRanks, IsSplit, SameBody, SameState
<1> QED BY <1>10, <1>11 DEF new

LEMMA SplitShape ==
    ASSUME NEW s, Typed(s), Shape(s), NEW child \in Inner(s), NEW u \in Nat,
           NEW n \in Nat, 0 < n, n < Len(s.nodes[child].key), NEW s2,
           SplitAt(s, s2, child, n, u)
    PROVE  Shape(s2)
<1> DEFINE old == s.nodes[child]
           p == Par(s, child)
           new == SplitName(s, child, n)
           tok == old.key[1]
           mid == old.key[n + 1]
<1>1. SplitLinks(s, s2, child, p, new)
    BY SplitDigest
<1>2. /\ s2.nodes[new].key = Take(old.key, n) /\ s2.nodes[new].value = Take(old.value, n)
      /\ s2.nodes[child].key = Drop(old.key, n)
      /\ s2.nodes[child].value = Drop(old.value, n)
      /\ Kids(s2, new) = Only(mid, child)
    <2>1. old \in NodeRec
        BY TreeFacts DEF Inner
    <2>2. /\ s2.nodes[new] = UpperNode(old, child, n, u)
          /\ s2.nodes[child] = LowerNode(old, new, n)
        BY DEF SplitAt, IsSplit
    <2> HIDE DEF old, new
    <2>3. /\ LowerNode(old, new, n).key = Drop(old.key, n)
          /\ LowerNode(old, new, n).value = Drop(old.value, n)
        BY <2>1 DEF LowerNode, NodeRec
    <2> QED BY <2>2, <2>3 DEF UpperNode, TreeNode, Kids
<1>3. /\ DOMAIN Kids(s2, p) = DOMAIN Kids(s, p) \union {tok}
      /\ \A y \in DOMAIN Kids(s, p) \union {tok} :
            Kids(s2, p)[y] = IF y = tok THEN new ELSE Kids(s, p)[y]
    BY DEF SplitAt, IsSplit
<1>4. /\ p \o Take(old.key, n) = new /\ new \o Drop(old.key, n) = child
      /\ Take(old.key, n) # <<>> /\ Drop(old.key, n) # <<>>
      /\ Take(old.key, n)[1] = tok /\ Drop(old.key, n)[1] = mid
      /\ Len(Take(old.value, n)) = Len(Take(old.key, n))
      /\ Len(Drop(old.value, n)) = Len(Drop(old.key, n))
      /\ tok \in DOMAIN Kids(s, p) /\ Kids(s, p)[tok] = child
    BY SplitParts
<1>5. /\ Root \in Ids(s) /\ \A x \in Inner(s) : Named(s, x) /\ Reached(s, x)
      /\ \A x \in Ids(s) : Owns(s, x)
    BY ShapeParts
<1> HIDE DEF old, p, new, tok, mid
<1>6. Named(s2, new) /\ Named(s2, child)
    BY <1>1, <1>2, <1>4 DEF Named, SplitLinks
<1>7. s2.nodes[new].key[1] = tok /\ s2.nodes[child].key[1] = mid
    BY <1>2, <1>4
<1>8. DOMAIN Kids(s2, new) = {mid} /\ Kids(s2, new)[mid] = child
    BY <1>2 DEF Only
<1>9. Reached(s2, new) /\ Reached(s2, child)
    BY <1>1, <1>3, <1>7, <1>8 DEF Reached, ReachedBy, SplitLinks
<1>10. ASSUME NEW x \in Inner(s) \ {child} PROVE Named(s2, x) /\ Reached(s2, x)
    <2> DEFINE q == Par(s, x)
               k == s.nodes[x].key[1]
    <2>1. x \in Ids(s) \ {child} /\ Named(s, x) /\ ReachedBy(s, x, q, k)
        BY <1>5 DEF Inner, Reached
    <2>2. SameLink(s, s2, x)
        BY <1>1, <2>1 DEF SplitLinks
    <2> HIDE DEF q, k
    <2>3. ReachedBy(s2, x, q, k)
        <3>1. CASE q = p
            <4>1. k # tok
                BY <1>4, <1>10, <2>1, <3>1 DEF ReachedBy
            <4> QED BY <1>1, <1>3, <2>1, <3>1, <4>1 DEF ReachedBy, SplitLinks
        <3>2. CASE q # p
            BY <1>1, <2>1, <3>2 DEF ReachedBy, SplitLinks
        <3> QED BY <3>1, <3>2
    <2> QED BY <2>1, <2>2, <2>3, SameName DEF SameLink, Reached, q, k
<1>11. ASSUME NEW x \in Ids(s2) PROVE Owns(s2, x)
    <2>1. CASE x = new
        BY <1>1, <1>7, <1>8, <2>1 DEF Owns, SplitLinks
    <2>2. CASE x \in Ids(s)
        <3>1. \A y \in DOMAIN Kids(s, x) :
                /\ Kids(s, x)[y] \in Inner(s) /\ Kids(s, x)[y] \in Ids(s)
                /\ Par(s, Kids(s, x)[y]) = x /\ s.nodes[Kids(s, x)[y]].key[1] = y
            BY <1>5, <2>2 DEF Owns, Inner
        <3>2. ASSUME NEW y \in DOMAIN Kids(s2, x)
              PROVE  /\ Kids(s2, x)[y] \in Inner(s2) /\ Par(s2, Kids(s2, x)[y]) = x
                     /\ s2.nodes[Kids(s2, x)[y]].key[1] = y
            <4>1. CASE x = p /\ y = tok
                BY <1>1, <1>3, <1>7, <4>1 DEF SplitLinks
            <4>2. CASE ~ (x = p /\ y = tok)
                <5>1. y \in DOMAIN Kids(s, x) /\ Kids(s2, x)[y] = Kids(s, x)[y]
                    BY <1>1, <1>3, <2>2, <3>2, <4>2 DEF SplitLinks
                <5>2. Kids(s, x)[y] # child
                    <6>1. Kids(s, x)[y] = child => x = p /\ y = tok
                        BY <3>1, <5>1 DEF p, tok, old
                    <6> QED BY <4>2, <6>1
                <5> QED BY <1>1, <3>1, <5>1, <5>2 DEF SplitLinks, SameLink
            <4> QED BY <4>1, <4>2
        <3> QED BY <3>2 DEF Owns
    <2> QED BY <1>1, <2>1, <2>2 DEF SplitLinks
<1>12. Root \in Ids(s2)
    BY <1>1, <1>5 DEF SplitLinks
<1>13. \A x \in Inner(s2) : Named(s2, x) /\ Reached(s2, x)
    BY <1>1, <1>6, <1>9, <1>10 DEF SplitLinks
<1> QED BY <1>11, <1>12, <1>13, ShapeParts

-----------------------------------------------------------------------------
(* The sizes stay exact *)

Unlocked(s) == {id \in Inner(s) : ~ (s.nodes[id].lock_ref > 0)}
LockedIn(s) == {id \in Inner(s) : s.nodes[id].lock_ref > 0}
Sizes(s) ==
    /\ s.evictable_size_ = Cardinality(EntriesOfAll(s, Unlocked(s)))
    /\ s.protected_size_ = Cardinality(EntriesOfAll(s, LockedIn(s)))

LEMMA SameEntries ==
    ASSUME NEW s, NEW s2, NEW A, \A x \in A : Par(s2, x) = Par(s, x)
    PROVE  /\ \A x \in A : EntriesOf(s2, x) = EntriesOf(s, x)
           /\ EntriesOfAll(s2, A) = EntriesOfAll(s, A)
<1>1. \A x \in A : EntriesOf(s2, x) = EntriesOf(s, x)
    BY DEF EntriesOf, Par
<1> QED BY <1>1 DEF EntriesOfAll

LEMMA SameSizes ==
    ASSUME NEW s, NEW s2, SameLinks(s, s2), SameLocks(s, s2), Sizes(s)
    PROVE  Sizes(s2)
<1>1. Unlocked(s2) = Unlocked(s) /\ LockedIn(s2) = LockedIn(s)
    BY DEF Unlocked, LockedIn, Inner, SameLinks, SameLocks
<1>2. \A x \in Ids(s) : Par(s2, x) = Par(s, x)
    BY DEF SameLinks, Par
<1>3. EntriesOfAll(s2, Unlocked(s)) = EntriesOfAll(s, Unlocked(s))
    BY <1>2, SameEntries DEF Unlocked, Inner
<1>4. EntriesOfAll(s2, LockedIn(s)) = EntriesOfAll(s, LockedIn(s))
    BY <1>2, SameEntries DEF LockedIn, Inner
<1> QED BY <1>1, <1>3, <1>4 DEF Sizes, SameLocks

\* A node goes from one side to the other.
LEMMA EntriesMove ==
    ASSUME NEW s, Typed(s), Shape(s), NEW A \in SUBSET Inner(s), NEW id \in A
    PROVE  Cardinality(EntriesOfAll(s, A \ {id})) =
                Cardinality(EntriesOfAll(s, A)) - Len(s.nodes[id].key)
<1> DEFINE B == A \ {id}
<1>1. B \in SUBSET Inner(s) /\ id \notin B /\ B \union {id} = A /\ id \in Inner(s)
    OBVIOUS
<1>2. Len(s.nodes[id].key) = Len(id) - Len(Par(s, id)) /\ Len(id) \in Nat
      /\ Len(Par(s, id)) \in Nat
    BY <1>1, NodeFacts
<1> HIDE DEF B
<1>3. /\ IsFiniteSet(EntriesOfAll(s, B))
      /\ Cardinality(EntriesOfAll(s, B \union {id})) =
            (Cardinality(EntriesOfAll(s, B)) + Len(id)) - Len(Par(s, id))
    BY <1>1, EntriesOfOneMore
<1>4. Cardinality(EntriesOfAll(s, B)) \in Nat
    BY <1>3, FS_CardinalityType
<1>5. Cardinality(EntriesOfAll(s, A)) =
            (Cardinality(EntriesOfAll(s, B)) + Len(id)) - Len(Par(s, id))
    BY <1>1, <1>3
<1>6. Cardinality(EntriesOfAll(s, B)) =
            Cardinality(EntriesOfAll(s, A)) - Len(s.nodes[id].key)
    BY <1>2, <1>4, <1>5
<1> QED BY <1>6 DEF B

LEMMA RelockSizes ==
    ASSUME NEW s, Typed(s), Shape(s), Sizes(s), NEW s2, SameLinks(s, s2),
           NEW id \in Inner(s), NEW d \in Int,
           \A x \in Ids(s) \ {id} : s2.nodes[x].lock_ref = s.nodes[x].lock_ref,
           s2.evictable_size_ = s.evictable_size_ - d,
           s2.protected_size_ = s.protected_size_ + d,
           LET k == Len(s.nodes[id].key)
               was == s.nodes[id].lock_ref > 0
               is == s2.nodes[id].lock_ref > 0
           IN  \/ (was <=> is) /\ d = 0
               \/ ~ was /\ is /\ d = k
               \/ was /\ ~ is /\ d = 0 - k
    PROVE  Sizes(s2)
<1> DEFINE k == Len(s.nodes[id].key)
           U == Unlocked(s)
           L == LockedIn(s)
<1>1. \A x \in Inner(s) : Par(s2, x) = Par(s, x)
    BY DEF SameLinks, Par, Inner
<1>2. id \in Ids(s) /\ Inner(s2) = Inner(s) /\ \A x \in Inner(s) : x \in Ids(s)
    BY DEF Inner, SameLinks
<1>3. U \in SUBSET Inner(s) /\ L \in SUBSET Inner(s)
    BY DEF Unlocked, LockedIn
<1>4. Unlocked(s2) \in SUBSET Inner(s) /\ LockedIn(s2) \in SUBSET Inner(s)
    BY <1>2 DEF Unlocked, LockedIn
<1>5. /\ EntriesOfAll(s2, Unlocked(s2)) = EntriesOfAll(s, Unlocked(s2))
      /\ EntriesOfAll(s2, LockedIn(s2)) = EntriesOfAll(s, LockedIn(s2))
    BY <1>1, <1>4, SameEntries
<1>6. \A x \in Inner(s) \ {id} : /\ x \in Unlocked(s2) <=> x \in U
                                 /\ x \in LockedIn(s2) <=> x \in L
    BY <1>2 DEF Unlocked, LockedIn
<1>7. /\ id \in U <=> ~ (s.nodes[id].lock_ref > 0)
      /\ id \in L <=> s.nodes[id].lock_ref > 0
      /\ id \in Unlocked(s2) <=> ~ (s2.nodes[id].lock_ref > 0)
      /\ id \in LockedIn(s2) <=> s2.nodes[id].lock_ref > 0
    BY <1>2 DEF Unlocked, LockedIn
<1> HIDE DEF U, L
<1>8. /\ k \in Nat /\ Cardinality(EntriesOfAll(s, U)) \in Nat
      /\ Cardinality(EntriesOfAll(s, L)) \in Nat
      /\ Cardinality(EntriesOfAll(s, Unlocked(s2))) \in Nat
      /\ Cardinality(EntriesOfAll(s, LockedIn(s2))) \in Nat
      /\ s.evictable_size_ = Cardinality(EntriesOfAll(s, U))
      /\ s.protected_size_ = Cardinality(EntriesOfAll(s, L))
    <2>1. \A A \in SUBSET Inner(s) : Cardinality(EntriesOfAll(s, A)) \in Nat
        BY EntriesOfOneMore, FS_CardinalityType
    <2>2. k \in Nat
        BY NodeFacts
    <2> QED BY <1>3, <1>4, <2>1, <2>2 DEF Sizes, U, L
<1>9. CASE s.nodes[id].lock_ref > 0 <=> s2.nodes[id].lock_ref > 0
    <2>1. Unlocked(s2) = U /\ LockedIn(s2) = L
        <3>1. \A x \in Inner(s) : /\ x \in Unlocked(s2) <=> x \in U
                                  /\ x \in LockedIn(s2) <=> x \in L
            BY <1>6, <1>7, <1>9
        <3> QED BY <1>3, <1>4, <3>1
    <2>2. d = 0
        BY <1>9
    <2> QED BY <1>5, <1>8, <2>1, <2>2 DEF Sizes
<1>10. CASE ~ (s.nodes[id].lock_ref > 0) /\ s2.nodes[id].lock_ref > 0
    <2>1. Unlocked(s2) = U \ {id} /\ L = LockedIn(s2) \ {id} /\ d = k
          /\ id \in U /\ id \in LockedIn(s2)
        BY <1>3, <1>4, <1>6, <1>7, <1>10
    <2>2. Cardinality(EntriesOfAll(s, U \ {id})) = Cardinality(EntriesOfAll(s, U)) - k
        BY <1>3, <2>1, EntriesMove
    <2>3. Cardinality(EntriesOfAll(s, LockedIn(s2) \ {id})) =
            Cardinality(EntriesOfAll(s, LockedIn(s2))) - k
        BY <1>4, <2>1, EntriesMove
    <2> HIDE DEF k
    <2>4. /\ Cardinality(EntriesOfAll(s, Unlocked(s2))) = s2.evictable_size_
          /\ Cardinality(EntriesOfAll(s, LockedIn(s2))) = s2.protected_size_
        BY <1>8, <2>1, <2>2, <2>3
    <2> QED BY <1>5, <2>4 DEF Sizes
<1>11. CASE s.nodes[id].lock_ref > 0 /\ ~ (s2.nodes[id].lock_ref > 0)
    <2>1. LockedIn(s2) = L \ {id} /\ U = Unlocked(s2) \ {id} /\ d = 0 - k
          /\ id \in L /\ id \in Unlocked(s2)
        BY <1>3, <1>4, <1>6, <1>7, <1>11
    <2>2. Cardinality(EntriesOfAll(s, L \ {id})) = Cardinality(EntriesOfAll(s, L)) - k
        BY <1>3, <2>1, EntriesMove
    <2>3. Cardinality(EntriesOfAll(s, Unlocked(s2) \ {id})) =
            Cardinality(EntriesOfAll(s, Unlocked(s2))) - k
        BY <1>4, <2>1, EntriesMove
    <2> HIDE DEF k
    <2>4. /\ Cardinality(EntriesOfAll(s, Unlocked(s2))) = s2.evictable_size_
          /\ Cardinality(EntriesOfAll(s, LockedIn(s2))) = s2.protected_size_
        BY <1>8, <2>1, <2>2, <2>3
    <2> QED BY <1>5, <2>4 DEF Sizes
<1> QED BY <1>9, <1>10, <1>11

LEMMA GrownSizes ==
    ASSUME NEW s, Typed(s), Shape(s), Sizes(s), NEW s2, Typed(s2), Shape(s2),
           NEW id, NEW tok, NEW new, NEW leaf, Grown(s, s2, id, tok, new, leaf),
           new \notin Ids(s), leaf.lock_ref = 0,
           s2.evictable_size_ = s.evictable_size_ + Len(s2.nodes[new].key),
           s2.protected_size_ = s.protected_size_
    PROVE  Sizes(s2)
<1>1. new # Root /\ Inner(s2) = Inner(s) \union {new}
    BY DEF Shape, Grown, Inner
<1>2. /\ Unlocked(s2) = Unlocked(s) \union {new} /\ LockedIn(s2) = LockedIn(s)
      /\ \A x \in Inner(s) : Par(s2, x) = Par(s, x)
    BY <1>1 DEF Unlocked, LockedIn, Inner, Grown, SameBody, Par
<1>3. Unlocked(s2) \ {new} = Unlocked(s)
    BY <1>2 DEF Unlocked, Inner
<1>4. /\ EntriesOfAll(s2, Unlocked(s)) = EntriesOfAll(s, Unlocked(s))
      /\ EntriesOfAll(s2, LockedIn(s)) = EntriesOfAll(s, LockedIn(s))
    BY <1>2, SameEntries DEF Unlocked, LockedIn
<1>5. Unlocked(s2) \in SUBSET Inner(s2) /\ new \in Unlocked(s2) /\ new \in Inner(s2)
    BY <1>1, <1>2 DEF Unlocked
<1> DEFINE n == Len(s2.nodes[new].key)
<1>6. Cardinality(EntriesOfAll(s2, Unlocked(s2) \ {new})) =
            Cardinality(EntriesOfAll(s2, Unlocked(s2))) - n
    BY <1>5, EntriesMove
<1>7. Cardinality(EntriesOfAll(s2, Unlocked(s2))) \in Nat /\ n \in Nat
    <2>1. IsFiniteSet(EntriesOfAll(s2, Unlocked(s2)))
        BY <1>5, EntriesOfOneMore
    <2>2. s2.nodes[new].key \in Seq(Token)
        BY <1>5, NodeFacts
    <2> QED BY <2>1, <2>2, FS_CardinalityType, LenProperties
<1> HIDE DEF n
<1>8. Cardinality(EntriesOfAll(s2, Unlocked(s2))) =
            Cardinality(EntriesOfAll(s, Unlocked(s))) + n
    <2> DEFINE now == Cardinality(EntriesOfAll(s2, Unlocked(s2)))
               was == Cardinality(EntriesOfAll(s, Unlocked(s)))
    <2>1. was = now - n
        BY <1>3, <1>4, <1>6
    <2> HIDE DEF now, was
    <2>2. now \in Nat
        BY <1>7 DEF now
    <2>3. now = was + n
        BY <1>7, <2>1, <2>2
    <2> QED BY <2>3 DEF now, was
<1> QED BY <1>2, <1>4, <1>8 DEF Sizes, n

LEMMA PrunedSizes ==
    ASSUME NEW s, Typed(s), Shape(s), Sizes(s), NEW s2, NEW id \in Inner(s), NEW p,
           NEW tok, Pruned(s, s2, id, p, tok), ~ (s.nodes[id].lock_ref > 0),
           s2.evictable_size_ = s.evictable_size_ - Len(s.nodes[id].key),
           s2.protected_size_ = s.protected_size_
    PROVE  Sizes(s2)
<1>1. Inner(s2) = Inner(s) \ {id}
    BY DEF Pruned, Inner
<1>2. /\ Unlocked(s2) = Unlocked(s) \ {id} /\ LockedIn(s2) = LockedIn(s)
      /\ \A x \in Inner(s) \ {id} : Par(s2, x) = Par(s, x)
    BY <1>1 DEF Unlocked, LockedIn, Inner, Pruned, SameBody, Par
<1>3. id \in Unlocked(s) /\ id \notin LockedIn(s) /\ Unlocked(s) \in SUBSET Inner(s)
      /\ LockedIn(s) \in SUBSET Inner(s)
    BY DEF Unlocked, LockedIn
<1>4. EntriesOfAll(s2, Unlocked(s2)) = EntriesOfAll(s, Unlocked(s) \ {id})
    BY <1>2, <1>3, SameEntries
<1>5. EntriesOfAll(s2, LockedIn(s2)) = EntriesOfAll(s, LockedIn(s))
    BY <1>2, <1>3, SameEntries
<1>6. Cardinality(EntriesOfAll(s, Unlocked(s) \ {id})) =
            Cardinality(EntriesOfAll(s, Unlocked(s))) - Len(s.nodes[id].key)
    BY <1>3, EntriesMove
<1> QED BY <1>4, <1>5, <1>6 DEF Sizes

\* A node that is split stands for the same entries, in two parts.
LEMMA SplitEntries ==
    ASSUME NEW s, Typed(s), Shape(s), NEW s2, Typed(s2), Shape(s2), NEW child, NEW p,
           NEW new, SplitLinks(s, s2, child, p, new)
    PROVE  /\ EntriesOf(s, child) = EntriesOf(s2, new) \union EntriesOf(s2, child)
           /\ \A x \in Inner(s) \ {child} : EntriesOf(s2, x) = EntriesOf(s, x)
<1>1. /\ child \in Inner(s) /\ child \in Inner(s2) /\ new \in Inner(s2)
      /\ Par(s, child) = p /\ Par(s2, new) = p /\ Par(s2, child) = new
      /\ \A x \in Inner(s) \ {child} : Par(s2, x) = Par(s, x)
    BY DEF SplitLinks, Inner, SameLink
<1>2. /\ child \in Seq(Token) /\ Len(child) \in Nat /\ Len(p) \in Nat /\ p \in Seq(Token)
      /\ new \in Seq(Token) /\ Len(new) \in Nat /\ Len(p) < Len(new)
      /\ IsPrefix(new, child)
    <2>1. /\ child \in Seq(Token) /\ Len(child) \in Nat /\ Len(new) \in Nat
          /\ new \in Seq(Token) /\ IsPrefix(new, child)
        BY <1>1, NodeFacts
    <2>2. Len(p) \in Nat /\ p \in Seq(Token) /\ Len(p) < Len(new)
        BY <1>1, NodeFacts
    <2> QED BY <2>1, <2>2
<1>3. \A q : q \in EntriesOf(s, child) <=>
                q \in Seq(Token) /\ IsPrefix(q, child) /\ Len(p) < Len(q)
    BY <1>1, EntryFacts
<1>4. \A q : q \in EntriesOf(s2, child) <=>
                q \in Seq(Token) /\ IsPrefix(q, child) /\ Len(new) < Len(q)
    BY <1>1, EntryFacts
<1>5. \A q : q \in EntriesOf(s2, new) <=>
                q \in Seq(Token) /\ IsPrefix(q, new) /\ Len(p) < Len(q)
    BY <1>1, EntryFacts
<1>6. ASSUME NEW q
      PROVE  q \in EntriesOf(s, child) <=>
                q \in EntriesOf(s2, new) \/ q \in EntriesOf(s2, child)
    <2>1. CASE q \in Seq(Token)
        <3>1. Len(q) \in Nat
            BY <2>1, LenProperties
        <3>2. IsPrefix(q, child) /\ Len(q) <= Len(new) => IsPrefix(q, new)
            BY <1>2, <2>1, PrefixesComparable
        <3>3. IsPrefix(q, new) => IsPrefix(q, child)
            BY <1>2, <2>1, PrefixTransitive
        <3> QED BY <1>2, <1>3, <1>4, <1>5, <2>1, <3>1, <3>2, <3>3
    <2>2. CASE q \notin Seq(Token)
        BY <1>3, <1>4, <1>5, <2>2
    <2> QED BY <2>1, <2>2
<1>7. \A x \in Inner(s) \ {child} : EntriesOf(s2, x) = EntriesOf(s, x)
    BY <1>1, SameEntries
<1> QED BY <1>6, <1>7

LEMMA SplitEntriesOfAll ==
    ASSUME NEW s, Typed(s), Shape(s), NEW s2, Typed(s2), Shape(s2), NEW child, NEW p,
           NEW new, SplitLinks(s, s2, child, p, new), NEW A \in SUBSET Inner(s)
    PROVE  EntriesOfAll(s2, IF child \in A THEN A \union {new} ELSE A) = EntriesOfAll(s, A)
<1>1. /\ EntriesOf(s, child) = EntriesOf(s2, new) \union EntriesOf(s2, child)
      /\ \A x \in Inner(s) \ {child} : EntriesOf(s2, x) = EntriesOf(s, x)
    BY SplitEntries
<1>2. CASE child \notin A
    BY <1>1, <1>2 DEF EntriesOfAll
<1>3. CASE child \in A
    <2>1. ASSUME NEW q
          PROVE  (\E x \in A \union {new} : q \in EntriesOf(s2, x)) <=>
                    \E x \in A : q \in EntriesOf(s, x)
        <3>1. q \in EntriesOf(s, child) <=>
                q \in EntriesOf(s2, new) \/ q \in EntriesOf(s2, child)
            BY <1>1
        <3>2. \A x \in A \ {child} : EntriesOf(s2, x) = EntriesOf(s, x)
            BY <1>1
        <3> QED BY <1>3, <3>1, <3>2
    <2> QED BY <1>3, <2>1 DEF EntriesOfAll
<1> QED BY <1>2, <1>3

LEMMA SplitSizes ==
    ASSUME NEW s, Typed(s), Shape(s), Sizes(s), NEW s2, Typed(s2), Shape(s2), NEW child,
           NEW p, NEW new, NEW u, SplitLinks(s, s2, child, p, new),
           SplitRanks(s, s2, child, new, u)
    PROVE  Sizes(s2)
<1> DEFINE With(A) == IF child \in A THEN A \union {new} ELSE A
<1>1. Unlocked(s2) = With(Unlocked(s)) /\ LockedIn(s2) = With(LockedIn(s))
    <2>1. /\ Inner(s2) = Inner(s) \union {new} /\ child \in Inner(s)
          /\ \A x \in Inner(s) : s2.nodes[x].lock_ref = s.nodes[x].lock_ref
          /\ s2.nodes[new].lock_ref = s.nodes[child].lock_ref
        BY DEF SplitLinks, SplitRanks, SameState, Inner
    <2> QED BY <2>1 DEF Unlocked, LockedIn
<1>2. Unlocked(s) \in SUBSET Inner(s) /\ LockedIn(s) \in SUBSET Inner(s)
    BY DEF Unlocked, LockedIn
<1>3. EntriesOfAll(s2, Unlocked(s2)) = EntriesOfAll(s, Unlocked(s))
    BY <1>1, <1>2, SplitEntriesOfAll
<1>4. EntriesOfAll(s2, LockedIn(s2)) = EntriesOfAll(s, LockedIn(s))
    BY <1>1, <1>2, SplitEntriesOfAll
<1> QED BY <1>3, <1>4 DEF Sizes, SplitRanks

-----------------------------------------------------------------------------
(* The inductive invariant *)

TreeOK(s) == Typed(s) /\ Shape(s) /\ Leaves(s) /\ Sizes(s)

\* Priorities callers gave and times the clock has shown, the priorities
\* falling from the root down.
Ranks(s, P, now) ==
    \A x \in Ids(s) : /\ s.nodes[x].priority \in P \union {MinPriority}
                      /\ s.nodes[x].last_access_time <= now
Monotone(s) ==
    \A x \in Inner(s) : s.nodes[x].priority <= s.nodes[Par(s, x)].priority

\* No node was used more than one tick later than a node above it.
Recent(s) ==
    \A x \in Ids(s), y \in Ids(s) :
        IsPrefix(y, x) => s.nodes[x].last_access_time <= s.nodes[y].last_access_time + 1

\* A tree as a call finds it, and one whose path to a node was used at t.
TreeAt(s, P, now) == TreeOK(s) /\ Ranks(s, P, now) /\ Monotone(s) /\ Recent(s)
PathAt(s, node, t) ==
    \A y \in Ids(s) : IsPrefix(y, node) => t <= s.nodes[y].last_access_time

\* Between locks and unlocks, lock_ref counts the holders.
LockOn(s, h) ==
    /\ h \in [Client -> Ids(s)]
    /\ s.nodes[Root].lock_ref = 1
    /\ \A id \in Inner(s) :
        s.nodes[id].lock_ref = Cardinality({c \in Client : IsPrefix(id, h[c])})

\* A client holds the nodes on the path it locked: while it locks, those the
\* walk has passed, while it unlocks, those it has still to pass.
HeldBy(c, id) ==
    IF call.op = "lock" /\ call.client = c
    THEN IsPrefix(id, reply.last_node) /\ ~ IsPrefix(id, call.node)
    ELSE IF call.op = "unlock" /\ call.client = c THEN IsPrefix(id, call.node)
    ELSE IsPrefix(id, hold[c])
Holders(id) == {c \in Client : HeldBy(c, id)}
LockInv ==
    /\ hold \in [Client -> Ids(tree)]
    /\ tree.nodes[Root].lock_ref = 1
    /\ \A id \in Inner(tree) : tree.nodes[id].lock_ref = Cardinality(Holders(id))

\* The local variables of the call under way.
MatchCalls ==
    [op : {"match"}, key : Seq(Token), node : Seq(Token), len : Nat,
     value : Seq(Slot), t : Nat]
InsertCalls ==
    [op : {"insert"}, key : Seq(Token), node : Seq(Token), len : Nat,
     value : Seq(Slot), priority : Nat, t : Nat]
LockCalls(op) == [op : {op}, client : Client, node : Seq(Token), delta : Int]
EvictCalls ==
    [op : {"evict"}, n : Nat, heap : SUBSET Seq(Token), num : Int, freed : SUBSET Slot,
     before : TreeRec]

Walking ==
    /\ call.node \in Ids(tree) /\ IsPrefix(call.node, call.key)
    /\ call.len = Len(call.node)
    /\ call.t <= clock /\ clock <= call.t + 1
    /\ PathAt(tree, call.node, call.t)

CallInv ==
    /\ call.op \in {"none", "match", "insert", "lock", "unlock", "evict"}
    /\ call.op = "none" => call = NoCall
    /\ call.op = "match" => call \in MatchCalls /\ call.key \in setup.keys /\ Walking
    /\ call.op = "insert" =>
        /\ call \in InsertCalls /\ <<call.key, call.value>> \in setup.inserts
        /\ call.priority \in setup.priorities /\ Walking
        /\ call.priority <= tree.nodes[call.node].priority
    /\ call.op = "lock" =>
        /\ call \in LockCalls("lock") /\ call.node \in Ids(tree)
        /\ hold[call.client] = Root /\ reply.op = "match"
        /\ IsPrefix(call.node, reply.last_node)
    /\ call.op = "unlock" =>
        /\ call \in LockCalls("unlock") /\ call.node \in Ids(tree)
        /\ IsPrefix(call.node, hold[call.client])
    /\ call.op = "evict" => call \in EvictCalls /\ call.heap = tree.evictable_leaves

\* The node a match returned is there for the caller to lock.
ReplyInv ==
    call.op \in {"none", "lock"} /\ reply.op = "match" => reply.last_node \in Ids(tree)

TreeInv ==
    /\ setup \in Setups /\ clock \in 0 .. setup.max_time
    /\ TreeAt(tree, setup.priorities, clock)
Inv == TreeInv /\ LockInv /\ CallInv /\ ReplyInv

\* What each helper leaves is such a tree.
LEMMA SameOK ==
    ASSUME NEW s, TreeOK(s), NEW s2, Typed(s2), SameLinks(s, s2), SameLocks(s, s2)
    PROVE  TreeOK(s2)
<1>1. Shape(s2)
    BY SameLinksShape DEF TreeOK
<1>2. Leaves(s2)
    BY DEF TreeOK, Leaves, RightBut, IsLeaf, SameLinks, SameLocks, Kids
<1>3. Sizes(s2)
    BY SameSizes DEF TreeOK
<1> QED BY <1>1, <1>2, <1>3 DEF TreeOK

LEMMA LockOK ==
    ASSUME NEW s, TreeOK(s), NEW id \in Inner(s)
    PROVE  TreeOK(LockNode(s, id))
<1> DEFINE s2 == LockNode(s, id)
           d == LockGain(s.nodes[id])
           k == Len(s.nodes[id].key)
<1>1. id \in Ids(s) /\ Typed(s) /\ Shape(s) /\ Leaves(s) /\ Sizes(s)
    BY DEF TreeOK, Inner
<1>2. s.nodes[id].lock_ref \in Nat /\ k \in Nat
    BY <1>1, TreeFacts, NodeFields, LenProperties
<1>3. /\ Typed(s2) /\ SameLinks(s, s2) /\ SameRanks(s, s2) /\ Leaves(s2)
      /\ \A x \in Ids(s) : s2.nodes[x].lock_ref =
            IF x = id THEN s.nodes[id].lock_ref + 1 ELSE s.nodes[x].lock_ref
      /\ s2.evictable_size_ = s.evictable_size_ - d
      /\ s2.protected_size_ = s.protected_size_ + d
    BY <1>1, LockEffect
<1>4. d = IF s.nodes[id].lock_ref = 0 THEN k ELSE 0
    BY DEF LockGain
<1> HIDE DEF s2, d, k
<1>5. s2.nodes[id].lock_ref > 0 /\ d \in Int
      /\ \/ s.nodes[id].lock_ref > 0 /\ d = 0
         \/ ~ (s.nodes[id].lock_ref > 0) /\ d = k
    BY <1>1, <1>2, <1>3, <1>4
<1>6. \A x \in Ids(s) \ {id} : s2.nodes[x].lock_ref = s.nodes[x].lock_ref
    BY <1>3
<1>7. Sizes(s2)
    BY <1>1, <1>3, <1>5, <1>6, RelockSizes DEF k
<1> QED BY <1>1, <1>3, <1>7, SameLinksShape DEF TreeOK, s2

LEMMA UnlockOK ==
    ASSUME NEW s, TreeOK(s), NEW id \in Inner(s), s.nodes[id].lock_ref > 0
    PROVE  TreeOK(UnlockNode(s, id))
<1> DEFINE s2 == UnlockNode(s, id)
           d == UnlockGain(s.nodes[id])
           k == Len(s.nodes[id].key)
<1>1. id \in Ids(s) /\ Typed(s) /\ Shape(s) /\ Leaves(s) /\ Sizes(s)
    BY DEF TreeOK, Inner
<1>2. s.nodes[id].lock_ref \in Nat /\ k \in Nat
      /\ s.evictable_size_ \in Int /\ s.protected_size_ \in Int
    BY <1>1, TreeFacts, NodeFields, LenProperties
<1>3. /\ Typed(s2) /\ SameLinks(s, s2) /\ SameRanks(s, s2) /\ Leaves(s2)
      /\ \A x \in Ids(s) : s2.nodes[x].lock_ref =
            IF x = id THEN s.nodes[id].lock_ref - 1 ELSE s.nodes[x].lock_ref
      /\ s2.evictable_size_ = s.evictable_size_ + d
      /\ s2.protected_size_ = s.protected_size_ - d
    BY <1>1, UnlockEffect
<1>4. d = IF s.nodes[id].lock_ref = 1 THEN k ELSE 0
    BY DEF UnlockGain
<1> HIDE DEF s2, d, k
<1>5. d \in Int /\ s2.nodes[id].lock_ref = s.nodes[id].lock_ref - 1
    BY <1>1, <1>2, <1>3, <1>4
<1>6. /\ s2.evictable_size_ = s.evictable_size_ - (0 - d)
      /\ s2.protected_size_ = s.protected_size_ + (0 - d)
    BY <1>2, <1>3, <1>5
<1>7. \/ s2.nodes[id].lock_ref > 0 /\ 0 - d = 0
      \/ ~ (s2.nodes[id].lock_ref > 0) /\ 0 - d = 0 - k
    <2>1. CASE s.nodes[id].lock_ref = 1
        BY <1>4, <1>5, <2>1
    <2>2. CASE s.nodes[id].lock_ref # 1
        <3>1. s2.nodes[id].lock_ref > 0 /\ d = 0
            BY <1>2, <1>4, <1>5, <2>2
        <3> QED BY <3>1
    <2> QED BY <2>1, <2>2
<1>8. \A x \in Ids(s) \ {id} : s2.nodes[x].lock_ref = s.nodes[x].lock_ref
    BY <1>3
<1> DEFINE e == 0 - d
<1>9. e \in Int
    BY <1>5
<1>10. s2.evictable_size_ = s.evictable_size_ - e /\ s2.protected_size_ = s.protected_size_ + e
       /\ \/ s2.nodes[id].lock_ref > 0 /\ e = 0
          \/ ~ (s2.nodes[id].lock_ref > 0) /\ e = 0 - k
    BY <1>6, <1>7
<1> HIDE DEF e
<1>11. Sizes(s2)
    BY <1>1, <1>3, <1>8, <1>9, <1>10, RelockSizes DEF k
<1> QED BY <1>1, <1>3, <1>11, SameLinksShape DEF TreeOK, s2

LEMMA AddLeafOK ==
    ASSUME NEW s, TreeOK(s), NEW id \in Ids(s), NEW key \in Seq(Token), key # <<>>,
           key[1] \notin DOMAIN Kids(s, id), NEW value \in Seq(Slot),
           Len(value) = Len(key), NEW priority \in Int, NEW u \in Nat
    PROVE  TreeOK(AddLeaf(s, id, key, value, priority, u))
<1> DEFINE s2 == AddLeaf(s, id, key, value, priority, u)
           leaf == TreeNode(id, key, value, 0, <<>>, priority, u)
           new == id \o key
<1>1. Typed(s) /\ Shape(s) /\ Leaves(s) /\ Sizes(s)
    BY DEF TreeOK
<1>2. new = id \o key
    OBVIOUS
<1>3. /\ leaf.parent = id /\ leaf.key = key /\ leaf.value = value
      /\ leaf.lock_ref = 0 /\ leaf.children = <<>>
    BY DEF TreeNode
<1> HIDE DEF s2, leaf, new
<1>4. /\ new \notin Ids(s) /\ Typed(s2) /\ Grown(s, s2, id, key[1], new, leaf)
      /\ Leaves(s2) /\ s2.evictable_size_ = s.evictable_size_ + Len(key)
      /\ s2.protected_size_ = s.protected_size_
    <2>1. LeafAdded(s, s2, id, key, new, leaf)
        BY <1>1, <1>2, AddLeafEffect DEF s2, leaf
    <2> QED BY <2>1 DEF LeafAdded
<1>5. Shape(s2)
    BY <1>1, <1>2, <1>3, <1>4, GrownShape
<1>6. s2.nodes[new].key = key
    BY <1>3, <1>4 DEF Grown
<1>7. Sizes(s2)
    BY <1>1, <1>3, <1>4, <1>5, <1>6, GrownSizes
<1> QED BY <1>4, <1>5, <1>7 DEF TreeOK, s2

LEMMA SplitOK ==
    ASSUME NEW s, TreeOK(s), NEW child \in Inner(s), NEW u \in Nat, NEW n \in Nat,
           0 < n, n < Len(s.nodes[child].key)
    PROVE  LET s2 == SplitNode(s, child, n, u)
               new == SplitName(s, child, n)
           IN  /\ TreeOK(s2) /\ SplitAt(s, s2, child, n, u)
               /\ SplitLinks(s, s2, child, Par(s, child), new)
               /\ SplitRanks(s, s2, child, new, u)
<1> DEFINE s2 == SplitNode(s, child, n, u)
           new == SplitName(s, child, n)
<1>1. Typed(s) /\ Shape(s) /\ Leaves(s) /\ Sizes(s)
    BY DEF TreeOK
<1>2. Typed(s2) /\ SplitAt(s, s2, child, n, u) /\ Leaves(s2)
    BY <1>1, SplitEffect
<1> HIDE DEF s2
<1>3. /\ SplitLinks(s, s2, child, Par(s, child), new)
      /\ SplitRanks(s, s2, child, new, u)
    BY <1>1, <1>2, SplitDigest
<1>4. Shape(s2)
    BY <1>1, <1>2, SplitShape
<1> HIDE DEF new
<1>5. Sizes(s2)
    BY <1>1, <1>2, <1>3, <1>4, SplitSizes
<1> QED BY <1>2, <1>3, <1>4, <1>5 DEF TreeOK, s2, new

LEMMA DeleteOK ==
    ASSUME NEW s, TreeOK(s), NEW id \in s.evictable_leaves, s.nodes[Root].lock_ref > 0
    PROVE  LET s2 == DeleteLeaf(s, id)
           IN  /\ TreeOK(s2) /\ id \in Inner(s) /\ ~ (s.nodes[id].lock_ref > 0)
               /\ DOMAIN Kids(s, id) = {}
               /\ Pruned(s, s2, id, Par(s, id), s.nodes[id].key[1])
<1> DEFINE s2 == DeleteLeaf(s, id)
<1>1. Typed(s) /\ Shape(s) /\ Leaves(s) /\ Sizes(s)
    BY DEF TreeOK
<1>2. id \in Inner(s) /\ ~ (s.nodes[id].lock_ref > 0) /\ DOMAIN Kids(s, id) = {}
    BY <1>1 DEF Leaves, RightBut, IsLeaf, Inner, Kids
<1>3. /\ Typed(s2) /\ Leaves(s2)
      /\ Pruned(s, s2, id, Par(s, id), s.nodes[id].key[1])
      /\ s2.evictable_size_ = s.evictable_size_ - Len(s.nodes[id].key)
      /\ s2.protected_size_ = s.protected_size_
    BY <1>1, <1>2, DeleteLeafEffect
<1> HIDE DEF s2
<1>4. Shape(s2)
    BY <1>1, <1>2, <1>3, PrunedShape
<1>5. Sizes(s2)
    BY <1>1, <1>2, <1>3, PrunedSizes
<1> QED BY <1>2, <1>3, <1>4, <1>5 DEF TreeOK, s2

LEMMA EmptyOK ==
    ASSUME NEW t \in Nat
    PROVE  LET s == EmptyTree(t)
               node == TreeNode(Root, <<>>, <<>>, 1, <<>>, MinPriority, t)
           IN  TreeOK(s) /\ Ids(s) = {Root} /\ Inner(s) = {} /\ s.nodes[Root] = node
<1> DEFINE node == TreeNode(Root, <<>>, <<>>, 1, <<>>, MinPriority, t)
           s == EmptyTree(t)
<1>1. Root \in Seq(Token) /\ <<>> \in Seq(Token) /\ <<>> \in Seq(Slot) /\ <<>> \in Links
    BY OnlyFacts, EmptySeq DEF Root
<1>2. node \in NodeRec
    BY <1>1 DEF node, TreeNode, NodeRec, MinPriority
<1>3. s = Tree4(Only(Root, node), {}, 0, 0)
    BY DEF EmptyTree, Tree4
<1>4. DOMAIN node.children = {} /\ node.lock_ref = 1
    BY DEF node, TreeNode
<1> HIDE DEF node, s
<1>5. /\ DOMAIN Only(Root, node) = {Root} /\ Only(Root, node)[Root] = node
      /\ Only(Root, node) \in [{Root} -> NodeRec]
    BY <1>2 DEF Only
<1>6. IsFiniteSet({Root}) /\ {Root} \in SUBSET Seq(Token)
    BY <1>1, FS_Singleton
<1>7. /\ Typed(s) /\ Ids(s) = {Root} /\ s.nodes = Only(Root, node)
      /\ s.evictable_leaves = {} /\ s.evictable_size_ = 0 /\ s.protected_size_ = 0
    BY <1>3, <1>5, <1>6, TreeOf4
<1>8. Inner(s) = {} /\ s.nodes[Root] = node
    BY <1>5, <1>7 DEF Inner
<1>9. Shape(s)
    BY <1>4, <1>7, <1>8 DEF Shape, Kids
<1>10. Leaves(s)
    BY <1>4, <1>7, <1>8 DEF Leaves, RightBut, IsLeaf
<1>11. Sizes(s)
    <2>1. Unlocked(s) = {} /\ LockedIn(s) = {}
        BY <1>8 DEF Unlocked, LockedIn
    <2>2. EntriesOfAll(s, {}) = {}
        BY DEF EntriesOfAll
    <2> QED BY <1>7, <2>1, <2>2, FS_EmptySet DEF Sizes
<1> QED BY <1>7, <1>8, <1>9, <1>10, <1>11 DEF TreeOK, node, s

-----------------------------------------------------------------------------
(* Ranks, times and locks through each helper *)

LEMMA RankTypes ==
    ASSUME NEW s, Typed(s), NEW x \in Ids(s)
    PROVE  /\ x \in Seq(Token) /\ s.nodes[x].last_access_time \in Nat
           /\ s.nodes[x].priority \in Int /\ s.nodes[x].lock_ref \in Nat
<1>1. x \in Seq(Token) /\ s.nodes[x] \in NodeRec
    BY TreeFacts
<1> QED BY <1>1, NodeFields

\* A node is used at t, when all above it were, or the root at a new time.
LEMMA TouchAt ==
    ASSUME NEW s, NEW P, NEW now \in Nat, TreeAt(s, P, now), NEW x \in Ids(s),
           NEW t \in Nat, NEW now2 \in Nat,
           \/ x = Root /\ now <= t /\ now2 = t
           \/ /\ x \in Inner(s) /\ PathAt(s, Par(s, x), t)
              /\ t <= now /\ now <= t + 1 /\ now2 = now
    PROVE  LET s2 == Touch(s, x, t)
           IN  /\ TreeAt(s2, P, now2) /\ PathAt(s2, x, t)
               /\ SameLinks(s, s2) /\ SameLocks(s, s2)
               /\ \A y \in Ids(s) : s2.nodes[y].priority = s.nodes[y].priority
<1> DEFINE s2 == Touch(s, x, t)
<1>1. TreeOK(s) /\ Typed(s) /\ Shape(s)
    BY DEF TreeAt, TreeOK
<1>2. /\ Typed(s2) /\ SameLinks(s, s2) /\ SameLocks(s, s2)
      /\ \A y \in Ids(s) :
            /\ s2.nodes[y].priority = s.nodes[y].priority
            /\ s2.nodes[y].last_access_time =
                    IF y = x THEN t ELSE s.nodes[y].last_access_time
    BY <1>1, TouchEffect
<1> HIDE DEF s2
<1>3. TreeOK(s2)
    BY <1>1, <1>2, SameOK
<1>4. /\ Ids(s2) = Ids(s) /\ Inner(s2) = Inner(s)
      /\ \A y \in Ids(s) : Par(s2, y) = Par(s, y)
    BY <1>2 DEF SameLinks, Inner, Par
<1>5. \A y \in Ids(s) : /\ y \in Seq(Token) /\ s.nodes[y].last_access_time \in Nat
                        /\ s.nodes[y].last_access_time <= now
    BY <1>1, RankTypes DEF TreeAt, Ranks
<1>6. t <= now2 /\ now <= now2 /\ now <= t + 1
    OBVIOUS
<1>7. Ranks(s2, P, now2)
    BY <1>2, <1>4, <1>5, <1>6 DEF TreeAt, Ranks
<1>8. Monotone(s2)
    <2>1. \A y \in Inner(s) : y \in Ids(s) /\ Par(s, y) \in Ids(s)
        BY <1>1, NodeFacts DEF Inner
    <2> QED BY <1>2, <1>4, <2>1 DEF TreeAt, Monotone
\* Below the nodes above x nothing is later than t + 1.
<1>9. \A y \in Ids(s) : IsPrefix(y, x) /\ y # x => t <= s.nodes[y].last_access_time
    <2>1. CASE x = Root
        BY <1>5, <2>1, RootPrefix
    <2>2. CASE x \in Inner(s)
        BY <1>1, <2>2, OnPath DEF PathAt, Inner
    <2> QED BY <2>1, <2>2
<1>10. Recent(s2)
    <2>1. ASSUME NEW a \in Ids(s), NEW b \in Ids(s), IsPrefix(b, a)
          PROVE  s2.nodes[a].last_access_time <= s2.nodes[b].last_access_time + 1
        <3>1. s.nodes[a].last_access_time <= s.nodes[b].last_access_time + 1
            BY <2>1 DEF TreeAt, Recent
        <3>2. CASE a = x /\ b = x
            BY <1>2, <3>2
        <3>3. CASE a = x /\ b # x
            BY <1>2, <1>5, <1>9, <2>1, <3>3
        <3>4. CASE a # x /\ b = x
            BY <1>2, <1>5, <1>6, <3>4
        <3>5. CASE a # x /\ b # x
            BY <1>2, <3>1, <3>5
        <3> QED BY <3>2, <3>3, <3>4, <3>5
    <2> QED BY <1>4, <2>1 DEF Recent
<1>11. PathAt(s2, x, t)
    BY <1>2, <1>4, <1>9 DEF PathAt
<1> QED BY <1>2, <1>3, <1>7, <1>8, <1>10, <1>11 DEF TreeAt, s2

\* A priority is raised, when that above it is high enough.
LEMMA RaiseAt ==
    ASSUME NEW s, NEW P, NEW now \in Nat, TreeAt(s, P, now), P \subseteq Nat,
           NEW x \in Ids(s), NEW p \in P,
           x \in Inner(s) => p <= s.nodes[Par(s, x)].priority
    PROVE  LET s2 == RaisePriority(s, x, p)
           IN  /\ TreeAt(s2, P, now) /\ p <= s2.nodes[x].priority
               /\ SameLinks(s, s2) /\ SameLocks(s, s2)
               /\ \A node, t : PathAt(s, node, t) => PathAt(s2, node, t)
<1> DEFINE s2 == RaisePriority(s, x, p)
           old == s.nodes[x].priority
           top == IF old >= p THEN old ELSE p
<1>1. TreeOK(s) /\ Typed(s) /\ Shape(s) /\ p \in Int /\ p \in Nat
    BY DEF TreeAt, TreeOK
<1>2. /\ Typed(s2) /\ SameLinks(s, s2) /\ SameLocks(s, s2)
      /\ \A y \in Ids(s) :
            /\ s2.nodes[y].last_access_time = s.nodes[y].last_access_time
            /\ s2.nodes[y].priority = IF y = x THEN top ELSE s.nodes[y].priority
    BY <1>1, RaiseEffect
<1> HIDE DEF s2
<1>3. TreeOK(s2)
    BY <1>1, <1>2, SameOK
<1>4. /\ Ids(s2) = Ids(s) /\ Inner(s2) = Inner(s)
      /\ \A y \in Ids(s) : Par(s2, y) = Par(s, y)
    BY <1>2 DEF SameLinks, Inner, Par
<1>5. \A y \in Ids(s) : s.nodes[y].priority \in Int
    BY <1>1, RankTypes
<1>6. top \in P \union {MinPriority} /\ p <= top /\ old <= top /\ top \in Int
    BY <1>1, <1>5 DEF TreeAt, Ranks
<1>7. Ranks(s2, P, now)
    BY <1>2, <1>4, <1>6 DEF TreeAt, Ranks
<1>8. Monotone(s2)
    <2>1. ASSUME NEW y \in Inner(s)
          PROVE  s2.nodes[y].priority <= s2.nodes[Par(s, y)].priority
        <3>1. y \in Ids(s) /\ Par(s, y) \in Ids(s) /\ Par(s, y) # y
            BY <1>1, NodeFacts DEF Inner
        <3>2. s.nodes[y].priority <= s.nodes[Par(s, y)].priority
            BY DEF TreeAt, Monotone
        <3>3. CASE y = x
            <4>1. /\ s2.nodes[x].priority = top
                  /\ s2.nodes[Par(s, x)].priority = s.nodes[Par(s, x)].priority
                BY <1>2, <3>1, <3>3
            <4>2. top <= s.nodes[Par(s, x)].priority
                BY <3>2, <3>3
            <4> QED BY <3>3, <4>1, <4>2
        <3>4. CASE y # x /\ Par(s, y) = x
            BY <1>2, <1>5, <1>6, <3>1, <3>2, <3>4
        <3>5. CASE y # x /\ Par(s, y) # x
            BY <1>2, <3>1, <3>2, <3>5
        <3> QED BY <3>3, <3>4, <3>5
    <2>2. \A y \in Inner(s) : Par(s2, y) = Par(s, y)
        BY <1>4 DEF Inner
    <2> QED BY <1>4, <2>1, <2>2 DEF Monotone
<1>9. Recent(s2)
    BY <1>2, <1>4 DEF TreeAt, Recent
<1>10. \A node, t : PathAt(s, node, t) => PathAt(s2, node, t)
    BY <1>2, <1>4 DEF PathAt
<1>11. p <= s2.nodes[x].priority
    BY <1>2, <1>6
<1> QED BY <1>2, <1>3, <1>7, <1>8, <1>9, <1>10, <1>11 DEF TreeAt, s2

\* Locks change no rank.
LEMMA RelockAt ==
    ASSUME NEW s, NEW P, NEW now, TreeAt(s, P, now), NEW s2, TreeOK(s2),
           SameLinks(s, s2), SameRanks(s, s2)
    PROVE  TreeAt(s2, P, now)
<1>1. /\ Ids(s2) = Ids(s) /\ Inner(s2) = Inner(s)
      /\ \A y \in Ids(s) :
            /\ Par(s2, y) = Par(s, y) /\ s2.nodes[y].priority = s.nodes[y].priority
            /\ s2.nodes[y].last_access_time = s.nodes[y].last_access_time
    BY DEF SameLinks, SameRanks, Inner, Par
<1>2. \A y \in Inner(s) : y \in Ids(s) /\ Par(s, y) \in Ids(s)
    BY NodeFacts DEF TreeAt, TreeOK, Inner
<1>3. Ranks(s2, P, now)
    BY <1>1 DEF TreeAt, Ranks
<1>4. Monotone(s2)
    BY <1>1, <1>2 DEF TreeAt, Monotone
<1>5. Recent(s2)
    BY <1>1 DEF TreeAt, Recent
<1> QED BY <1>3, <1>4, <1>5 DEF TreeAt

LEMMA SplitRanksAt ==
    ASSUME NEW s, NEW P, NEW now \in Nat, TreeAt(s, P, now), NEW s2, TreeOK(s2),
           NEW child, NEW p, NEW new, NEW u \in Nat, NEW t \in Nat,
           SplitLinks(s, s2, child, p, new), SplitRanks(s, s2, child, new, u),
           now <= u, u <= t + 1, t <= now, PathAt(s, child, t)
    PROVE  /\ TreeAt(s2, P, u) /\ PathAt(s2, new, t)
           /\ s2.nodes[new].priority = s.nodes[child].priority
<1>1. /\ Ids(s2) = Ids(s) \union {new} /\ Inner(s2) = Inner(s) \union {new}
      /\ new \notin Ids(s) /\ p \in Ids(s) /\ child \in Inner(s) /\ child \in Ids(s)
      /\ Par(s, child) = p /\ Par(s2, new) = p /\ Par(s2, child) = new
      /\ \A x \in Inner(s) \ {child} : x \in Ids(s) /\ Par(s2, x) = Par(s, x)
    BY DEF SplitLinks, SameLink, Inner
<1>2. /\ \A x \in Ids(s) : /\ s2.nodes[x].priority = s.nodes[x].priority
                           /\ s2.nodes[x].last_access_time = s.nodes[x].last_access_time
      /\ s2.nodes[new].priority = s.nodes[child].priority
      /\ s2.nodes[new].last_access_time = u
    BY DEF SplitRanks, SameState
<1>3. /\ Typed(s) /\ Shape(s) /\ Typed(s2) /\ Shape(s2)
    BY DEF TreeAt, TreeOK
<1>4. \A x \in Ids(s) :
        /\ x \in Seq(Token) /\ s.nodes[x].last_access_time \in Nat
        /\ s.nodes[x].priority \in P \union {MinPriority} /\ s.nodes[x].priority \in Int
        /\ s.nodes[x].last_access_time <= now
    BY <1>3, RankTypes DEF TreeAt, Ranks
<1>5. Ranks(s2, P, u)
    <2>1. /\ s2.nodes[new].priority \in P \union {MinPriority}
          /\ s2.nodes[new].last_access_time <= u
        BY <1>1, <1>2, <1>4
    <2>2. ASSUME NEW x \in Ids(s)
          PROVE  /\ s2.nodes[x].priority \in P \union {MinPriority}
                 /\ s2.nodes[x].last_access_time <= u
        BY <1>2, <1>4
    <2> QED BY <1>1, <2>1, <2>2 DEF Ranks
<1>6. Monotone(s2)
    <2>1. \A x \in Inner(s) : x \in Ids(s) /\ Par(s, x) \in Ids(s)
                              /\ s.nodes[x].priority <= s.nodes[Par(s, x)].priority
        BY <1>3, NodeFacts DEF TreeAt, Monotone, Inner
    <2>2. \A x \in Inner(s) \ {child} :
            s2.nodes[x].priority <= s2.nodes[Par(s2, x)].priority
        BY <1>1, <1>2, <2>1
    <2>3. s2.nodes[new].priority <= s2.nodes[Par(s2, new)].priority
        BY <1>1, <1>2, <2>1
    <2>4. s2.nodes[child].priority <= s2.nodes[Par(s2, child)].priority
        BY <1>1, <1>2, <1>4
    <2> QED BY <1>1, <2>2, <2>3, <2>4 DEF Monotone
<1>7. \A y \in Ids(s) : IsPrefix(y, new) => t <= s.nodes[y].last_access_time
    <2>1. child \in Inner(s2)
        BY <1>1
    <2>2. new \in Seq(Token) /\ child \in Seq(Token) /\ IsPrefix(new, child)
        BY <1>1, <1>3, <2>1, NodeFacts
    <2>3. \A y \in Ids(s) : IsPrefix(y, new) => IsPrefix(y, child)
        BY <1>4, <2>2, PrefixTransitive
    <2> QED BY <2>3 DEF PathAt
<1>8. Recent(s2)
    <2>1. ASSUME NEW a \in Ids(s2), NEW b \in Ids(s2), IsPrefix(b, a)
          PROVE  s2.nodes[a].last_access_time <= s2.nodes[b].last_access_time + 1
        <3>1. CASE a = new /\ b = new
            BY <1>2, <3>1
        <3>2. CASE a = new /\ b # new
            <4>1. b \in Ids(s) /\ t <= s.nodes[b].last_access_time
                BY <1>1, <1>7, <2>1, <3>2
            <4>2. s.nodes[b].last_access_time \in Nat
                BY <1>4, <4>1
            <4>3. u <= s.nodes[b].last_access_time + 1
                BY <4>1, <4>2
            <4> QED BY <1>2, <3>2, <4>1, <4>3
        <3>3. CASE a # new /\ b = new
            <4>1. a \in Ids(s)
                BY <1>1, <3>3
            <4>2. s.nodes[a].last_access_time \in Nat /\ s.nodes[a].last_access_time <= now
                BY <1>4, <4>1
            <4>3. s2.nodes[a].last_access_time = s.nodes[a].last_access_time
                BY <1>2, <4>1
            <4>4. s2.nodes[b].last_access_time = u
                BY <1>2, <3>3
            <4>5. s.nodes[a].last_access_time <= u + 1
                BY <4>2
            <4> QED BY <4>3, <4>4, <4>5
        <3>4. CASE a # new /\ b # new
            BY <1>1, <1>2, <2>1, <3>4 DEF TreeAt, Recent
        <3> QED BY <3>1, <3>2, <3>3, <3>4
    <2> QED BY <2>1 DEF Recent
<1>9. PathAt(s2, new, t)
    BY <1>1, <1>2, <1>7 DEF PathAt
<1> QED BY <1>2, <1>5, <1>6, <1>8, <1>9 DEF TreeAt

LEMMA GrownRanksAt ==
    ASSUME NEW s, NEW P, NEW now \in Nat, TreeAt(s, P, now), NEW s2, TreeOK(s2),
           NEW id \in Ids(s), NEW tok, NEW new, NEW leaf, NEW u \in Nat, NEW t \in Nat,
           Grown(s, s2, id, tok, new, leaf), new \notin Ids(s), leaf.parent = id,
           leaf.last_access_time = u, leaf.priority \in P, P \subseteq Nat,
           leaf.priority <= s.nodes[id].priority,
           now <= u, u <= t + 1, t <= now, PathAt(s, id, t)
    PROVE  TreeAt(s2, P, u)
<1>1. /\ Typed(s) /\ Shape(s) /\ Typed(s2) /\ Shape(s2) /\ Root \in Ids(s)
    BY DEF TreeAt, TreeOK, Shape
<1>2. /\ Ids(s2) = Ids(s) \union {new} /\ Inner(s2) = Inner(s) \union {new}
      /\ Par(s2, new) = id /\ s2.nodes[new] = leaf
      /\ \A x \in Ids(s) : /\ Par(s2, x) = Par(s, x)
                           /\ s2.nodes[x].priority = s.nodes[x].priority
                           /\ s2.nodes[x].last_access_time = s.nodes[x].last_access_time
    BY <1>1 DEF Grown, Inner, SameBody, Par
<1>3. \A x \in Ids(s) :
        /\ s.nodes[x].last_access_time \in Nat
        /\ s.nodes[x].priority \in P \union {MinPriority} /\ s.nodes[x].priority \in Int
        /\ s.nodes[x].last_access_time <= now
    BY <1>1, RankTypes DEF TreeAt, Ranks
<1>4. Ranks(s2, P, u)
    BY <1>2, <1>3 DEF Ranks
<1>5. Monotone(s2)
    <2>1. \A x \in Inner(s) : x \in Ids(s) /\ Par(s, x) \in Ids(s)
                              /\ s.nodes[x].priority <= s.nodes[Par(s, x)].priority
        BY <1>1, NodeFacts DEF TreeAt, Monotone, Inner
    <2>2. s2.nodes[new].priority <= s2.nodes[Par(s2, new)].priority
        BY <1>2
    <2> QED BY <1>2, <2>1, <2>2 DEF Monotone
<1>6. \A y \in Ids(s) : IsPrefix(y, new) => t <= s.nodes[y].last_access_time
    <2>1. new \in Inner(s2)
        BY <1>2
    <2>2. \A y \in Ids(s2) : IsPrefix(y, new) /\ y # new => IsPrefix(y, id)
        BY <1>1, <1>2, <2>1, OnPath
    <2> QED BY <1>2, <2>2 DEF PathAt
<1>7. Recent(s2)
    <2>1. ASSUME NEW a \in Ids(s2), NEW b \in Ids(s2), IsPrefix(b, a)
          PROVE  s2.nodes[a].last_access_time <= s2.nodes[b].last_access_time + 1
        <3>1. CASE a = new /\ b = new
            BY <1>2, <3>1
        <3>2. CASE a = new /\ b # new
            BY <1>2, <1>3, <1>6, <2>1, <3>2
        <3>3. CASE a # new /\ b = new
            BY <1>2, <1>3, <3>3
        <3>4. CASE a # new /\ b # new
            BY <1>2, <2>1, <3>4 DEF TreeAt, Recent
        <3> QED BY <3>1, <3>2, <3>3, <3>4
    <2> QED BY <2>1 DEF Recent
<1> QED BY <1>4, <1>5, <1>7 DEF TreeAt

LEMMA PrunedRanksAt ==
    ASSUME NEW s, NEW P, NEW now, TreeAt(s, P, now), NEW s2, TreeOK(s2),
           NEW id, NEW p, NEW tok, Pruned(s, s2, id, p, tok)
    PROVE  TreeAt(s2, P, now)
<1>1. /\ Ids(s2) = Ids(s) \ {id} /\ \A x \in Inner(s2) : x \in Inner(s) /\ x \in Ids(s2)
      /\ \A x \in Ids(s2) : /\ Par(s2, x) = Par(s, x) /\ x \in Ids(s)
                            /\ s2.nodes[x].priority = s.nodes[x].priority
                            /\ s2.nodes[x].last_access_time = s.nodes[x].last_access_time
    BY DEF Pruned, Inner, SameBody, Par
<1>2. \A x \in Inner(s2) : Par(s2, x) \in Ids(s2)
    BY NodeFacts DEF TreeOK
<1>3. Ranks(s2, P, now)
    BY <1>1 DEF TreeAt, Ranks
<1>4. Monotone(s2)
    BY <1>1, <1>2 DEF TreeAt, Monotone
<1>5. Recent(s2)
    BY <1>1 DEF TreeAt, Recent
<1> QED BY <1>3, <1>4, <1>5 DEF TreeAt

LEMMA EmptyAt ==
    ASSUME NEW P, NEW t \in Nat
    PROVE  /\ TreeAt(EmptyTree(t), P, t) /\ Ids(EmptyTree(t)) = {Root}
           /\ EmptyTree(t).nodes[Root].lock_ref = 1
<1> DEFINE s == EmptyTree(t)
           node == TreeNode(Root, <<>>, <<>>, 1, <<>>, MinPriority, t)
<1>1. TreeOK(s) /\ Ids(s) = {Root} /\ Inner(s) = {} /\ s.nodes[Root] = node
    BY EmptyOK
<1>2. node.lock_ref = 1 /\ node.priority = MinPriority /\ node.last_access_time = t
    BY DEF TreeNode
<1> HIDE DEF s, node
<1>3. Ranks(s, P, t) /\ Monotone(s) /\ Recent(s)
    BY <1>1, <1>2 DEF Ranks, Monotone, Recent
<1> QED BY <1>1, <1>2, <1>3 DEF TreeAt, s

\* The holders of a node are counted on it through every change of the tree.
LEMMA LockOnSame ==
    ASSUME NEW s, NEW s2, NEW h, LockOn(s, h), Root \in Ids(s), Ids(s2) = Ids(s),
           \A x \in Ids(s) : s2.nodes[x].lock_ref = s.nodes[x].lock_ref
    PROVE  LockOn(s2, h)
BY DEF LockOn, Inner

LEMMA LockOnGrown ==
    ASSUME NEW s, NEW s2, NEW h, LockOn(s, h), TreeOK(s), NEW id \in Ids(s), NEW key,
           NEW new, NEW leaf, LeafAdded(s, s2, id, key, new, leaf),
           key[1] \notin DOMAIN Kids(s, id), leaf.lock_ref = 0
    PROVE  LockOn(s2, h)
<1>1. /\ Typed(s) /\ Shape(s) /\ Root \in Ids(s)
    BY DEF TreeOK, Shape
<1>2. /\ new \in Seq(Token) /\ new \notin Ids(s) /\ IsPrefix(id, new)
      /\ new[Len(id) + 1] = key[1] /\ Len(new) = Len(id) + Len(key)
      /\ Ids(s2) = Ids(s) \union {new} /\ Inner(s2) = Inner(s) \union {new}
      /\ s2.nodes[new] = leaf
      /\ \A x \in Ids(s) : s2.nodes[x].lock_ref = s.nodes[x].lock_ref
    BY <1>1 DEF LeafAdded, Grown, Inner, SameBody
<1>3. ASSUME NEW x \in Ids(s), IsPrefix(new, x) PROVE FALSE
    <2>1. x \in Seq(Token) /\ id \in Seq(Token) /\ Len(id) \in Nat
        BY <1>1, TreeFacts, LenProperties
    <2>2. IsPrefix(id, x) /\ id # x /\ Len(id) < Len(new)
        <3>1. IsPrefix(id, x)
            BY <1>2, <1>3, <2>1, PrefixTransitive
        <3>2. id # new /\ Len(new) \in Nat /\ Len(id) <= Len(new)
            BY <1>2, <2>1, PrefixByToken, LenProperties
        <3>3. Len(id) < Len(new)
            BY <1>2, <2>1, <3>2, PrefixOfSameLength
        <3>4. Len(new) <= Len(x)
            BY <1>2, <1>3, <2>1, PrefixByToken
        <3> QED BY <2>1, <3>1, <3>2, <3>3, <3>4
    <2>3. x[Len(id) + 1] \in DOMAIN Kids(s, id)
        BY <1>1, <2>2, NextHop
    <2>4. x[Len(id) + 1] = new[Len(id) + 1]
        <3>1. Len(id) + 1 \in 1 .. Len(new)
            BY <1>2, <2>1, <2>2, LenProperties
        <3>2. \A i \in 1 .. Len(new) : new[i] = x[i]
            BY <1>2, <1>3, <2>1, PrefixByToken
        <3> QED BY <3>1, <3>2
    <2> QED BY <1>2, <2>3, <2>4
<1>4. {c \in Client : IsPrefix(new, h[c])} = {}
    BY <1>3 DEF LockOn
<1>5. s2.nodes[new].lock_ref = Cardinality({c \in Client : IsPrefix(new, h[c])})
    BY <1>2, <1>4, FS_EmptySet
<1>6. h \in [Client -> Ids(s2)]
    BY <1>2 DEF LockOn
<1> QED BY <1>1, <1>2, <1>5, <1>6 DEF LockOn, Inner

LEMMA LockOnSplit ==
    ASSUME NEW s, NEW s2, NEW h, LockOn(s, h), TreeOK(s), TreeOK(s2), NEW child, NEW p,
           NEW n, NEW u, SplitAt(s, s2, child, n, u),
           SplitLinks(s, s2, child, p, SplitName(s, child, n)),
           SplitRanks(s, s2, child, SplitName(s, child, n), u)
    PROVE  LockOn(s2, h)
<1> DEFINE new == SplitName(s, child, n)
<1>1. /\ Typed(s2) /\ Shape(s2) /\ Root \in Ids(s)
    BY DEF TreeOK, Shape
<1>2. Kids(s2, new) = Only(s.nodes[child].key[n + 1], child)
    BY DEF SplitAt, IsSplit, UpperNode, TreeNode, Kids
<1> HIDE DEF new
<1>3. /\ Ids(s2) = Ids(s) \union {new} /\ Inner(s2) = Inner(s) \union {new}
      /\ new \notin Ids(s) /\ child \in Inner(s) /\ Par(s2, child) = new
      /\ \A x \in Ids(s) : s2.nodes[x].lock_ref = s.nodes[x].lock_ref
      /\ s2.nodes[new].lock_ref = s.nodes[child].lock_ref
    BY DEF SplitLinks, SplitRanks, SameState, new
<1>4. ASSUME NEW x \in Ids(s) PROVE IsPrefix(new, x) <=> IsPrefix(child, x)
    <2>1. /\ child \in Inner(s2) /\ x \in Ids(s2) /\ new \in Ids(s2)
        BY <1>3
    <2>2. /\ x \in Seq(Token) /\ new \in Seq(Token) /\ child \in Seq(Token)
          /\ IsPrefix(new, child)
        BY <1>1, <1>3, <2>1, NodeFacts, TreeFacts
    <2>3. IsPrefix(child, x) => IsPrefix(new, x)
        BY <2>2, PrefixTransitive
    <2>4. ASSUME IsPrefix(new, x) PROVE IsPrefix(child, x)
        <3> DEFINE tok == x[Len(new) + 1]
        <3>1. tok \in DOMAIN Kids(s2, new) /\ IsPrefix(Kids(s2, new)[tok], x)
            BY <1>1, <1>3, <2>1, <2>4, NextHop
        <3> HIDE DEF tok
        <3>2. Kids(s2, new)[tok] = child
            BY <1>2, <3>1 DEF Only
        <3> QED BY <3>1, <3>2
    <2> QED BY <2>3, <2>4
<1>5. {c \in Client : IsPrefix(new, h[c])} = {c \in Client : IsPrefix(child, h[c])}
    BY <1>4 DEF LockOn
<1>6. s2.nodes[new].lock_ref = Cardinality({c \in Client : IsPrefix(new, h[c])})
    BY <1>3, <1>5 DEF LockOn
<1>7. h \in [Client -> Ids(s2)]
    BY <1>3 DEF LockOn
<1>8. ASSUME NEW x \in Inner(s)
      PROVE  s2.nodes[x].lock_ref = Cardinality({c \in Client : IsPrefix(x, h[c])})
    BY <1>3 DEF LockOn, Inner
<1>9. s2.nodes[Root].lock_ref = 1
    BY <1>1, <1>3 DEF LockOn
<1> QED BY <1>3, <1>6, <1>7, <1>8, <1>9 DEF LockOn

\* What no client holds on to can be pruned.
LEMMA LockOnPruned ==
    ASSUME NEW s, NEW s2, NEW h, LockOn(s, h), TreeOK(s), NEW id \in Inner(s), NEW p,
           NEW tok, Pruned(s, s2, id, p, tok), ~ (s.nodes[id].lock_ref > 0)
    PROVE  LockOn(s2, h) /\ \A c \in Client : ~ IsPrefix(id, h[c])
<1>1. /\ Typed(s) /\ Shape(s) /\ Root \in Ids(s) /\ id \in Ids(s)
    BY DEF TreeOK, Shape, Inner
<1>2. {c \in Client : IsPrefix(id, h[c])} = {}
    <2> DEFINE H == {c \in Client : IsPrefix(id, h[c])}
    <2>1. IsFiniteSet(H)
        BY ClientAssumption, FS_Subset
    <2>2. Cardinality(H) = 0
        <3>1. s.nodes[id].lock_ref \in Nat
            BY <1>1, RankTypes
        <3>2. s.nodes[id].lock_ref = Cardinality(H)
            BY DEF LockOn
        <3> QED BY <3>1, <3>2
    <2> HIDE DEF H
    <2>3. H = {}
        BY <2>1, <2>2, FS_EmptySet
    <2> QED BY <2>3 DEF H
<1>3. \A c \in Client : ~ IsPrefix(id, h[c])
    BY <1>2
<1>4. \A c \in Client : h[c] # id
    <2>1. IsPrefix(id, id)
        BY <1>1, TreeFacts, PrefixReflexive
    <2> QED BY <1>3, <2>1
<1>5. /\ Ids(s2) = Ids(s) \ {id} /\ Inner(s2) = Inner(s) \ {id}
      /\ \A x \in Ids(s2) : s2.nodes[x].lock_ref = s.nodes[x].lock_ref
      /\ Root \in Ids(s2)
    BY <1>1 DEF Pruned, Inner, SameBody
<1>6. h \in [Client -> Ids(s2)]
    BY <1>4, <1>5 DEF LockOn
<1> QED BY <1>3, <1>5, <1>6 DEF LockOn, Inner

-----------------------------------------------------------------------------
(* Where a walk stands *)

Matched(a, b, n) ==
    /\ n \in 0 .. Len(a) /\ n <= Len(b) /\ \A i \in 1 .. n : a[i] = b[i]
    /\ n < Len(a) /\ n < Len(b) => a[n + 1] # b[n + 1]

LEMMA KeyMatchMatched ==
    ASSUME NEW a \in Seq(Token), NEW b \in Seq(Token)
    PROVE  Matched(a, b, KeyMatch(a, b))
BY KeyMatchProperties DEF Matched

\* How far a key agrees with a path that has a node in common with it.
Agree(child, key, k, m, n) ==
    /\ n \in Nat /\ 0 < n /\ n <= Len(k) /\ m + n <= Len(key)
    /\ \A i \in 1 .. m + n : child[i] = key[i]
    /\ n < Len(k) /\ m + n < Len(key) => child[m + n + 1] # key[m + n + 1]
Extends(q, p, k) ==
    /\ Len(k) = Len(q) - Len(p) /\ \A i \in 1 .. Len(q) - Len(p) : k[i] = q[Len(p) + i]

LEMMA AgreeOnPath ==
    ASSUME NEW node \in Seq(Token), NEW child \in Seq(Token), NEW key \in Seq(Token),
           NEW k \in Seq(Token), NEW rest \in Seq(Token),
           IsPrefix(node, key), IsPrefix(node, child), Extends(child, node, k),
           Extends(key, node, rest), Len(k) > 0, Len(rest) > 0, k[1] = rest[1]
    PROVE  Agree(child, key, k, Len(node), KeyMatch(k, rest))
<1>a. PICK m : m = Len(node)
    OBVIOUS
<1>b. PICK n : n = KeyMatch(k, rest)
    OBVIOUS
<1>c. /\ m \in Nat /\ Len(k) = Len(child) - m
      /\ \A i \in 1 .. Len(child) - m : k[i] = child[m + i]
      /\ Len(rest) = Len(key) - m /\ \A i \in 1 .. Len(key) - m : rest[i] = key[m + i]
    BY <1>a, LenProperties DEF Extends
<1>1. /\ Len(key) \in Nat /\ Len(child) \in Nat /\ m <= Len(key) /\ m <= Len(child)
      /\ \A i \in 1 .. m : node[i] = key[i] /\ node[i] = child[i]
    BY <1>a, PrefixByToken, LenProperties
<1>2. Len(k) \in Nat /\ Len(k) > 0 /\ Len(rest) \in Nat /\ Len(rest) > 0
    BY LenProperties
<1>3. /\ n \in 0 .. Len(k) /\ n <= Len(rest) /\ \A i \in 1 .. n : k[i] = rest[i]
      /\ n < Len(k) /\ n < Len(rest) => k[n + 1] # rest[n + 1]
    <2>1. Matched(k, rest, n)
        BY <1>b, KeyMatchMatched
    <2> QED BY <2>1 DEF Matched
<1>4. n \in Nat /\ 0 < n
    <2>1. n = 0 => k[0 + 1] # rest[0 + 1]
        BY <1>2, <1>3
    <2> QED BY <1>2, <1>3, <2>1
<1>5. \A i \in 1 .. m + n : child[i] = key[i]
    <2> TAKE i \in 1 .. m + n
    <2>1. CASE i <= m
        BY <1>1, <1>c, <1>4, <2>1
    <2>2. CASE i > m
        <3> DEFINE j == i - m
        <3>1. j \in 1 .. n /\ j \in 1 .. Len(child) - m /\ j \in 1 .. Len(key) - m
              /\ m + j = i
            BY <1>1, <1>c, <1>3, <1>4, <2>2
        <3> HIDE DEF j
        <3>2. k[j] = child[m + j] /\ rest[j] = key[m + j] /\ k[j] = rest[j]
            BY <1>c, <1>3, <3>1
        <3> QED BY <3>1, <3>2
    <2> QED BY <1>c, <1>4, <2>1, <2>2
<1>6. n < Len(k) /\ m + n < Len(key) => child[m + n + 1] # key[m + n + 1]
    <2>1. SUFFICES ASSUME n < Len(k), m + n < Len(key)
                   PROVE  child[m + n + 1] # key[m + n + 1]
        OBVIOUS
    <2>2. n + 1 \in 1 .. Len(child) - m /\ n + 1 \in 1 .. Len(key) - m
          /\ m + n + 1 = m + (n + 1)
        BY <1>1, <1>c, <1>4, <2>1
    <2>3. k[n + 1] # rest[n + 1]
        BY <1>1, <1>c, <1>3, <1>4, <2>1
    <2>4. k[n + 1] = child[m + (n + 1)] /\ rest[n + 1] = key[m + (n + 1)]
        BY <1>c, <2>2
    <2> QED BY <2>2, <2>3, <2>4
<1>7. m + n <= Len(key)
    BY <1>1, <1>c, <1>3, <1>4
<1> QED BY <1>a, <1>b, <1>3, <1>4, <1>5, <1>6, <1>7 DEF Agree

\* How far a key agrees with the child of a node on its way.
StepFrom(s, node, key, child, n) ==
    /\ child \in Inner(s) /\ Par(s, child) = node
    /\ n \in Nat /\ 0 < n /\ n <= Len(s.nodes[child].key)
    /\ Len(node) \in Nat /\ Len(node) + n <= Len(key)
    /\ \A i \in 1 .. Len(node) + n : child[i] = key[i]
    /\ n < Len(s.nodes[child].key) /\ Len(node) + n < Len(key) =>
            child[Len(node) + n + 1] # key[Len(node) + n + 1]

LEMMA KeyStep ==
    ASSUME NEW s, Typed(s), Shape(s), NEW node \in Ids(s), NEW key \in Seq(Token),
           IsPrefix(node, key), NEW rest, rest = Drop(key, Len(node)), rest # <<>>,
           rest[1] \in DOMAIN Kids(s, node), NEW child, child = Kids(s, node)[rest[1]],
           NEW n, n = KeyMatch(s.nodes[child].key, rest)
    PROVE  StepFrom(s, node, key, child, n)
<1>1. PICK k : k = s.nodes[child].key
    OBVIOUS
<1>2. child \in Inner(s) /\ Par(s, child) = node /\ k[1] = rest[1]
    BY <1>1 DEF Shape
<1>3. Hangs(s, child, node, k)
    <2>1. Hangs(s, child, Par(s, child), s.nodes[child].key)
        BY <1>2, NodeHangs
    <2> QED BY <1>1, <1>2, <2>1
<1>4. /\ node \in Seq(Token) /\ child \in Seq(Token) /\ k \in Seq(Token)
      /\ IsPrefix(node, child) /\ Extends(child, node, k) /\ Len(node) \in Nat
      /\ Len(k) > 0
    <2>1. /\ node \in Seq(Token) /\ child \in Seq(Token) /\ k \in Seq(Token)
          /\ IsPrefix(node, child) /\ Len(node) \in Nat /\ Len(child) \in Nat
          /\ Len(node) < Len(child) /\ Len(k) = Len(child) - Len(node)
        BY <1>3 DEF Hangs
    <2>2. Len(k) > 0
        BY <2>1
    <2>3. Extends(child, node, k)
        BY <1>3 DEF Hangs, Extends
    <2> QED BY <2>1, <2>2, <2>3
<1>5. Len(node) \in 0 .. Len(key)
    <2>1. Len(node) <= Len(key) /\ Len(key) \in Nat
        BY <1>4, PrefixByToken, LenProperties
    <2> QED BY <1>4, <2>1
<1>6. rest \in Seq(Token) /\ Extends(key, node, rest)
    BY <1>5, DropProperties DEF Extends
<1>7. Len(rest) > 0
    BY <1>6, EmptySeq, LenProperties
<1>8. Agree(child, key, k, Len(node), n)
    <2>1. Agree(child, key, k, Len(node), KeyMatch(k, rest))
        BY <1>2, <1>4, <1>6, <1>7, AgreeOnPath
    <2> QED BY <1>1, <2>1
<1> QED BY <1>1, <1>2, <1>4, <1>8 DEF StepFrom, Agree

CutAt(child, new, n) ==
    /\ new \in Seq(Token) /\ Len(new) = n /\ new = Take(child, n)
    /\ \A i \in 1 .. n : new[i] = child[i]

\* The name of the node a split makes there is the part of the key matched.
LEMMA SplitNameIsTake ==
    ASSUME NEW s, Typed(s), Shape(s), NEW child \in Inner(s), NEW n \in Nat, 0 < n,
           n < Len(s.nodes[child].key)
    PROVE  CutAt(child, SplitName(s, child, n), Len(Par(s, child)) + n)
<1> DEFINE new == SplitName(s, child, n)
           p == Par(s, child)
<1>1. /\ new \in Seq(Token) /\ Len(new) = Len(p) + n /\ IsPrefix(new, child)
    <2>1. 0 \in Nat
        OBVIOUS
    <2> QED BY <2>1, SplitParts
<1>2. child \in Seq(Token)
    BY NodeFacts
<1> HIDE DEF new
<1>3. /\ new = Take(child, Len(new)) /\ \A i \in 1 .. Len(new) : new[i] = child[i]
    BY <1>1, <1>2, PrefixIsTake, PrefixByToken
<1> QED BY <1>1, <1>3 DEF new, CutAt

\* What the callers give.
LEMMA SetupFacts ==
    ASSUME TreeInv
    PROVE  /\ setup.keys \subseteq Seq(Token) /\ setup.priorities \subseteq Nat
           /\ setup.clients \subseteq Client /\ setup.max_time \in Nat
           /\ \A i \in setup.inserts : /\ i[1] \in Seq(Token) /\ i[2] \in Seq(Slot)
                                       /\ i = <<i[1], i[2]>> /\ Len(i[1]) = Len(i[2])
           /\ clock \in Nat /\ clock <= setup.max_time
<1>1. setup \in Setups /\ clock \in 0 .. setup.max_time
    BY DEF TreeInv
<1>2. /\ setup.keys \subseteq Seq(Token) /\ setup.priorities \subseteq Nat
      /\ setup.clients \subseteq Client /\ setup.max_time \in Nat
      /\ \A i \in setup.inserts : i \in Seq(Token) \X Seq(Slot) /\ Len(i[1]) = Len(i[2])
    BY <1>1, SetupsAssumption
<1>3. clock \in Nat /\ clock <= setup.max_time
    BY <1>1, <1>2
<1> QED BY <1>2, <1>3

\* Where the walk of a match or an insert stands.
WalkStep(child, n, m, matches) ==
    /\ child \in Inner(tree) /\ Par(tree, child) = call.node
    /\ n \in Nat /\ 0 < n /\ n <= Len(tree.nodes[child].key)
    /\ m \in Nat /\ m + n <= Len(call.key)
    /\ \A i \in 1 .. m + n : child[i] = call.key[i]
    /\ IF matches THEN IsPrefix(child, call.key) /\ Len(child) = m + n
       ELSE /\ n < Len(tree.nodes[child].key)
            /\ SplitName(tree, child, n) \in Seq(Token)
            /\ IsPrefix(SplitName(tree, child, n), call.key)
            /\ Len(SplitName(tree, child, n)) = m + n
            /\ SplitName(tree, child, n) = Take(child, m + n)
            /\ m + n < Len(call.key) => child[m + n + 1] # call.key[m + n + 1]

LEMMA WalkFacts ==
    ASSUME TreeInv, Walking, call.key \in Seq(Token), CanDescend
    PROVE  WalkStep(Child, Common, call.len, ChildMatches)
<1>1. /\ Typed(tree) /\ Shape(tree) /\ call.node \in Ids(tree)
      /\ IsPrefix(call.node, call.key) /\ call.len = Len(call.node)
    BY DEF TreeInv, TreeAt, TreeOK, Walking
<1>2. PICK child : child = Child
    OBVIOUS
<1>3. PICK rest : rest = Rest
    OBVIOUS
<1>4. PICK n : n = Common
    OBVIOUS
<1>5. PICK m : m = call.len
    OBVIOUS
<1>6. PICK key : key = call.key
    OBVIOUS
<1>7. PICK node : node = call.node
    OBVIOUS
<1>8. /\ rest = Drop(key, Len(node)) /\ rest # <<>>
      /\ rest[1] \in DOMAIN Kids(tree, node) /\ child = Kids(tree, node)[rest[1]]
      /\ n = KeyMatch(tree.nodes[child].key, rest)
    BY <1>1, <1>2, <1>3, <1>4, <1>6, <1>7 DEF CanDescend, Rest, Child, Common, Kids
<1>9. StepFrom(tree, node, key, child, n)
    BY <1>1, <1>6, <1>7, <1>8, KeyStep
<1>10. /\ child \in Inner(tree) /\ Par(tree, child) = node
       /\ n \in Nat /\ 0 < n /\ n <= Len(tree.nodes[child].key)
       /\ m = Len(node) /\ m \in Nat /\ m + n <= Len(key)
       /\ \A i \in 1 .. m + n : child[i] = key[i]
       /\ n < Len(tree.nodes[child].key) /\ m + n < Len(key) =>
                child[m + n + 1] # key[m + n + 1]
    BY <1>1, <1>5, <1>7, <1>9 DEF StepFrom
<1>11. /\ child \in Seq(Token) /\ Len(child) \in Nat
       /\ Len(tree.nodes[child].key) = Len(child) - Len(Par(tree, child))
    <2>1. Hangs(tree, child, Par(tree, child), tree.nodes[child].key)
        BY <1>1, <1>10, NodeHangs
    <2> QED BY <2>1 DEF Hangs
<1>12. Len(tree.nodes[child].key) = Len(child) - m
    BY <1>10, <1>11
<1>13. ChildMatches <=> n = Len(tree.nodes[child].key)
    BY <1>2, <1>4 DEF ChildMatches
<1>14. ASSUME ChildMatches PROVE IsPrefix(child, key) /\ Len(child) = m + n
    <2>1. Len(child) = m + n
        BY <1>10, <1>11, <1>12, <1>13, <1>14
    <2> QED BY <1>6, <1>10, <1>11, <2>1, PrefixByToken
<1>15. ASSUME ~ ChildMatches
       PROVE  /\ n < Len(tree.nodes[child].key)
              /\ SplitName(tree, child, n) \in Seq(Token)
              /\ IsPrefix(SplitName(tree, child, n), key)
              /\ Len(SplitName(tree, child, n)) = m + n
              /\ SplitName(tree, child, n) = Take(child, m + n)
    <2>1. n < Len(tree.nodes[child].key)
        BY <1>10, <1>11, <1>12, <1>13, <1>15
    <2>2. PICK new : new = SplitName(tree, child, n)
        OBVIOUS
    <2>3. CutAt(child, new, Len(Par(tree, child)) + n)
        BY <1>1, <1>10, <2>1, <2>2, SplitNameIsTake
    <2>4. /\ new \in Seq(Token) /\ Len(new) = m + n /\ new = Take(child, m + n)
          /\ \A i \in 1 .. m + n : new[i] = child[i]
        BY <1>10, <2>3 DEF CutAt
    <2>5. IsPrefix(new, key)
        BY <1>6, <1>10, <2>4, PrefixByToken
    <2> QED BY <2>1, <2>2, <2>4, <2>5
<1> QED BY <1>2, <1>4, <1>5, <1>6, <1>7, <1>10, <1>14, <1>15 DEF WalkStep

-----------------------------------------------------------------------------
(* The steps of the calls *)

LEMMA InvFacts ==
    ASSUME Inv
    PROVE  /\ TreeInv /\ TreeAt(tree, setup.priorities, clock) /\ TreeOK(tree)
           /\ Typed(tree) /\ Shape(tree) /\ Leaves(tree) /\ Root \in Ids(tree)
           /\ setup.keys \subseteq Seq(Token) /\ setup.priorities \subseteq Nat
           /\ setup.clients \subseteq Client /\ setup.max_time \in Nat
           /\ clock \in Nat /\ clock <= setup.max_time
BY SetupFacts DEF Inv, TreeInv, TreeAt, TreeOK, Shape

LEMMA LockInvIdle ==
    call.op \notin {"lock", "unlock"} => (LockInv <=> LockOn(tree, hold))
<1>1. ASSUME call.op \notin {"lock", "unlock"}
      PROVE  \A id : Holders(id) = {c \in Client : IsPrefix(id, hold[c])}
    BY <1>1 DEF Holders, HeldBy
<1> QED BY <1>1 DEF LockInv, LockOn

LEMMA LockInvIdleNext ==
    call'.op \notin {"lock", "unlock"} => (LockInv' <=> LockOn(tree', hold'))
<1>1. ASSUME call'.op \notin {"lock", "unlock"}
      PROVE  \A id : Holders(id)' = {c \in Client : IsPrefix(id, hold'[c])}
    BY <1>1 DEF Holders, HeldBy
<1>2. ASSUME NEW id, call'.op \notin {"lock", "unlock"}
      PROVE  Cardinality(Holders(id)') = Cardinality({c \in Client : IsPrefix(id, hold'[c])})
    BY <1>1, <1>2
<1> QED BY <1>2 DEF LockInv, LockOn

\* A step to a state in which no lock is under way.
LEMMA InvAfter ==
    ASSUME TreeInv, setup' = setup, TreeAt(tree', setup.priorities, clock'),
           clock' \in Nat, clock' <= setup.max_time,
           call'.op \notin {"lock", "unlock"}, LockOn(tree', hold'), CallInv', ReplyInv'
    PROVE  Inv'
<1>1. setup.max_time \in Nat
    BY SetupFacts
<1>2. TreeInv'
    BY <1>1 DEF TreeInv
<1>3. LockInv'
    BY LockInvIdleNext
<1> QED BY <1>2, <1>3 DEF Inv

\* And one that returns.
LEMMA InvAfterReturn ==
    ASSUME TreeInv, setup' = setup, TreeAt(tree', setup.priorities, clock'),
           clock' \in Nat, clock' <= setup.max_time, LockOn(tree', hold'),
           call' = NoCall, reply'.op = "match" => reply'.last_node \in Ids(tree')
    PROVE  Inv'
<1>1. call'.op = "none"
    BY DEF NoCall
<1>2. CallInv'
    BY <1>1 DEF CallInv
<1>3. ReplyInv'
    BY DEF ReplyInv
<1> QED BY <1>1, <1>2, <1>3, InvAfter

\* And one that starts a call which walks down, or goes on with it.
LEMMA InvAfterWalk ==
    ASSUME TreeInv, setup' = setup, TreeAt(tree', setup.priorities, clock'),
           clock' \in Nat, clock' <= setup.max_time, LockOn(tree', hold'),
           Walking',
           \/ /\ call' \in MatchCalls /\ call'.key \in setup.keys
           \/ /\ call' \in InsertCalls /\ <<call'.key, call'.value>> \in setup.inserts
              /\ call'.priority \in setup.priorities
              /\ call'.priority <= tree'.nodes[call'.node].priority
    PROVE  Inv'
<1>1. /\ call' \in MatchCalls => call'.op = "match"
      /\ call' \in InsertCalls => call'.op = "insert"
    BY DEF MatchCalls, InsertCalls
<1>2. CallInv'
    BY <1>1 DEF CallInv
<1>3. ReplyInv'
    BY <1>1 DEF ReplyInv
<1> QED BY <1>1, <1>2, <1>3, InvAfter

LEMMA NowFacts ==
    ASSUME Inv, NEW t \in Now
    PROVE  t \in Nat /\ clock <= t /\ t <= clock + 1 /\ t <= setup.max_time
BY InvFacts DEF Now

LEMMA MatchPrefixInv ==
    ASSUME Inv, NEW key \in setup.keys, MatchPrefix(key), setup' = setup
    PROVE  Inv'
<1>1. call.op = "none" /\ hold' = hold
    BY DEF MatchPrefix, Idle, NoCall
<1>2. LockOn(tree, hold)
    BY <1>1, LockInvIdle DEF Inv
<1>3. CASE key = <<>>
    <2>1. /\ tree' = tree /\ clock' = clock /\ call' = NoCall
          /\ reply' = MatchReply(<<>>, <<>>, Root)
        BY <1>3 DEF MatchPrefix, Return
    <2>2. reply'.last_node = Root
        BY <2>1 DEF MatchReply
    <2>3. reply'.last_node \in Ids(tree')
        BY <2>1, <2>2, InvFacts
    <2> QED BY <1>1, <1>2, <2>1, <2>3, InvFacts, InvAfterReturn
<1>4. CASE key # <<>>
    <2>1. PICK t \in Now :
            /\ tree' = Touch(tree, Root, t) /\ clock' = t
            /\ call' = [op |-> "match", key |-> key, node |-> Root, len |-> 0,
                        value |-> <<>>, t |-> t]
        BY <1>4 DEF MatchPrefix
    <2>2. t \in Nat /\ clock <= t /\ t <= clock + 1 /\ t <= setup.max_time /\ clock \in Nat
        BY NowFacts, InvFacts
    <2>3. /\ TreeAt(tree', setup.priorities, t) /\ PathAt(tree', Root, t)
          /\ SameLinks(tree, tree') /\ SameLocks(tree, tree')
        BY <2>1, <2>2, InvFacts, TouchAt
    <2>4. LockOn(tree', hold') /\ Root \in Ids(tree')
        BY <1>1, <1>2, <2>3, InvFacts, LockOnSame DEF SameLinks, SameLocks
    <2>5. key \in Seq(Token) /\ Root \in Seq(Token) /\ Len(Root) = 0 /\ IsPrefix(Root, key)
          /\ <<>> \in Seq(Slot)
        BY InvFacts, RootPrefix, EmptySeq
    <2>6. call' \in MatchCalls
        BY <2>1, <2>2, <2>5 DEF MatchCalls
    <2>7. /\ call'.key = key /\ call'.node = Root /\ call'.len = 0 /\ call'.t = t
        BY <2>1
    <2>8. Walking'
        BY <2>1, <2>2, <2>3, <2>4, <2>5, <2>7 DEF Walking
    <2> QED BY <2>1, <2>2, <2>3, <2>4, <2>6, <2>7, <2>8, InvFacts, InvAfterWalk
<1> QED BY <1>3, <1>4

\* The iteration of either walk over a child that is matched wholly or in part.
LEMMA WalkInv ==
    ASSUME Inv, call.op \in {"match", "insert"}
    PROVE  /\ Walking /\ call.key \in Seq(Token) /\ call.t \in Nat /\ call.len \in Nat
           /\ call.t <= clock /\ clock <= call.t + 1 /\ call.node \in Ids(tree)
           /\ PathAt(tree, call.node, call.t) /\ LockOn(tree, hold)
           /\ call.op = "match" => call \in MatchCalls /\ call.key \in setup.keys
           /\ call.op = "insert" =>
                /\ call \in InsertCalls /\ <<call.key, call.value>> \in setup.inserts
                /\ call.priority \in setup.priorities
                /\ call.priority <= tree.nodes[call.node].priority
<1>1. /\ Walking
      /\ call.op = "match" => call \in MatchCalls /\ call.key \in setup.keys
      /\ call.op = "insert" =>
            /\ call \in InsertCalls /\ <<call.key, call.value>> \in setup.inserts
            /\ call.priority \in setup.priorities
            /\ call.priority <= tree.nodes[call.node].priority
    BY DEF Inv, CallInv
<1>2. call.key \in Seq(Token) /\ call.t \in Nat /\ call.len \in Nat
    BY <1>1 DEF MatchCalls, InsertCalls
<1>3. LockOn(tree, hold)
    BY LockInvIdle DEF Inv
<1> QED BY <1>1, <1>2, <1>3 DEF Walking

\* What touching the child does.
LEMMA TouchedFacts ==
    ASSUME Inv, call.op \in {"match", "insert"}, CanDescend
    PROVE  /\ TreeAt(Touched, setup.priorities, clock) /\ PathAt(Touched, Child, call.t)
           /\ SameLinks(tree, Touched) /\ SameLocks(tree, Touched)
           /\ LockOn(Touched, hold) /\ WalkStep(Child, Common, call.len, ChildMatches)
           /\ \A y \in Ids(tree) : Touched.nodes[y].priority = tree.nodes[y].priority
<1>1. WalkStep(Child, Common, call.len, ChildMatches)
    BY WalkInv, WalkFacts, InvFacts
<1>2. Child \in Inner(tree) /\ Child \in Ids(tree) /\ Par(tree, Child) = call.node
    BY <1>1 DEF WalkStep, Inner
<1>3. PICK c : c = Child
    OBVIOUS
<1>4. PICK t : t = call.t
    OBVIOUS
<1>5. /\ c \in Inner(tree) /\ c \in Ids(tree) /\ PathAt(tree, Par(tree, c), t)
      /\ t \in Nat /\ clock \in Nat /\ t <= clock /\ clock <= t + 1
    BY <1>2, <1>3, <1>4, WalkInv, InvFacts
<1>6. /\ TreeAt(Touch(tree, c, t), setup.priorities, clock)
      /\ PathAt(Touch(tree, c, t), c, t)
      /\ SameLinks(tree, Touch(tree, c, t)) /\ SameLocks(tree, Touch(tree, c, t))
      /\ \A y \in Ids(tree) : Touch(tree, c, t).nodes[y].priority = tree.nodes[y].priority
    BY <1>5, InvFacts, TouchAt
<1>7. Touched = Touch(tree, c, t)
    BY <1>3, <1>4 DEF Touched
<1>8. LockOn(Touched, hold)
    BY <1>6, <1>7, WalkInv, InvFacts, LockOnSame DEF SameLinks, SameLocks
<1> QED BY <1>1, <1>3, <1>4, <1>6, <1>7, <1>8

LEMMA LaterFacts ==
    ASSUME Inv, NEW u \in Later
    PROVE  u \in Nat /\ clock <= u /\ u <= call.t + 1 /\ u <= setup.max_time
BY NowFacts DEF Later

\* The walk goes on to the child, all of which it has matched.
LEMMA DescentFacts ==
    ASSUME Inv, call.op \in {"match", "insert"}, CanDescend, ChildMatches
    PROVE  /\ Child \in Ids(tree) /\ Child \in Seq(Token) /\ IsPrefix(Child, call.key)
           /\ Common \in Nat /\ call.len + Common = Len(Child)
           /\ call.len + Common \in Nat /\ tree.nodes[Child].value \in Seq(Slot)
<1>1. WalkStep(Child, Common, call.len, ChildMatches)
    BY TouchedFacts
<1>2. PICK c : c = Child
    OBVIOUS
<1>3. PICK n : n = Common
    OBVIOUS
<1>4. PICK m : m = call.len
    OBVIOUS
<1>5. /\ c \in Inner(tree) /\ n \in Nat /\ m \in Nat /\ IsPrefix(c, call.key)
      /\ Len(c) = m + n
    BY <1>1, <1>2, <1>3, <1>4 DEF WalkStep
<1>6. c \in Seq(Token) /\ tree.nodes[c].value \in Seq(Slot) /\ c \in Ids(tree)
    BY <1>5, InvFacts, NodeFacts DEF Inner
<1> QED BY <1>2, <1>3, <1>4, <1>5, <1>6

LEMMA MatchDescendInv ==
    ASSUME Inv, MatchDescend, setup' = setup
    PROVE  Inv'
<1>1. /\ call.op = "match" /\ CanDescend /\ ChildMatches /\ tree' = Touched
      /\ hold' = hold /\ clock' = clock
    BY DEF MatchDescend
<1>2. PICK c : c = Child
    OBVIOUS
<1>3. PICK n : n = Common
    OBVIOUS
<1>4. PICK v : v = tree.nodes[c].value
    OBVIOUS
<1>5. call' = [call EXCEPT !.node = c, !.len = call.len + n, !.value = call.value \o v]
    BY <1>2, <1>3, <1>4 DEF MatchDescend
<1>6. /\ c \in Ids(tree) /\ c \in Seq(Token) /\ IsPrefix(c, call.key)
      /\ n \in Nat /\ call.len + n = Len(c) /\ call.len + n \in Nat /\ v \in Seq(Slot)
    BY <1>1, <1>2, <1>3, <1>4, DescentFacts
<1>7. call \in MatchCalls /\ call.key \in setup.keys /\ call.t <= clock
      /\ clock <= call.t + 1
    BY <1>1, WalkInv
<1>8. call.value \o v \in Seq(Slot)
    <2>1. call.value \in Seq(Slot)
        BY <1>7 DEF MatchCalls
    <2> QED BY <1>6, <2>1, ConcatProperties
<1>9. /\ call' \in MatchCalls /\ call'.key = call.key /\ call'.node = c
      /\ call'.len = Len(c) /\ call'.t = call.t
    <2>1. PICK w \in Seq(Slot) : w = call.value \o v
        BY <1>8
    <2>2. PICK l \in Nat : l = call.len + n
        BY <1>6
    <2>3. call' = [call EXCEPT !.node = c, !.len = l, !.value = w]
        BY <1>5, <2>1, <2>2
    <2> QED BY <1>6, <1>7, <2>2, <2>3 DEF MatchCalls
<1>10. /\ TreeAt(tree', setup.priorities, clock) /\ PathAt(tree', c, call.t)
       /\ Ids(tree') = Ids(tree) /\ LockOn(tree', hold)
    BY <1>1, <1>2, TouchedFacts DEF SameLinks
<1>11. Walking'
    BY <1>1, <1>6, <1>7, <1>9, <1>10 DEF Walking
<1> QED BY <1>1, <1>7, <1>9, <1>10, <1>11, InvFacts, InvAfterWalk

\* The node the child is split at takes its place on the walk.
CutOn(s, node, new, len, t, u, pri) ==
    /\ TreeAt(s, setup.priorities, u) /\ PathAt(s, new, t) /\ LockOn(s, hold)
    /\ new \in Inner(s) /\ new \in Ids(s) /\ Par(s, new) = node
    /\ s.nodes[node].priority = pri
    /\ new \in Seq(Token) /\ IsPrefix(new, call.key) /\ Len(new) = len

LEMMA SplitTouched ==
    ASSUME Inv, call.op \in {"match", "insert"}, CanDescend, ~ ChildMatches, NEW u \in Later
    PROVE  CutOn(SplitNode(Touched, Child, Common, u), call.node,
                 SplitName(tree, Child, Common), call.len + Common, call.t, u,
                 tree.nodes[call.node].priority)
<1>1. PICK c : c = Child
    OBVIOUS
<1>2. PICK n : n = Common
    OBVIOUS
<1>3. PICK s : s = Touched
    OBVIOUS
<1>4. PICK m : m = call.len
    OBVIOUS
<1>5. PICK new : new = SplitName(tree, c, n)
    OBVIOUS
<1>6. PICK s2 : s2 = SplitNode(s, c, n, u)
    OBVIOUS
<1>7. PICK t : t = call.t
    OBVIOUS
<1>8. PICK node : node = call.node
    OBVIOUS
<1>9. /\ TreeAt(s, setup.priorities, clock) /\ PathAt(s, c, t)
      /\ SameLinks(tree, s) /\ LockOn(s, hold)
      /\ \A y \in Ids(tree) : s.nodes[y].priority = tree.nodes[y].priority
    BY <1>1, <1>3, <1>7, TouchedFacts
<1>10. /\ c \in Inner(tree) /\ Par(tree, c) = node /\ n \in Nat /\ 0 < n /\ m \in Nat
       /\ n < Len(tree.nodes[c].key) /\ new \in Seq(Token) /\ IsPrefix(new, call.key)
       /\ Len(new) = m + n
    <2>1. WalkStep(Child, Common, call.len, ChildMatches)
        BY TouchedFacts
    <2> QED BY <1>1, <1>2, <1>4, <1>5, <1>8, <2>1 DEF WalkStep
<1>11. /\ c \in Inner(s) /\ Par(s, c) = node /\ s.nodes[c].key = tree.nodes[c].key
       /\ node \in Ids(tree)
    BY <1>8, <1>9, <1>10, WalkInv DEF SameLinks, Inner, Par
<1>12. SplitName(s, c, n) = new
    BY <1>5, <1>8, <1>10, <1>11 DEF SplitName, Par
<1>13. u \in Nat /\ clock <= u /\ u <= t + 1 /\ t \in Nat /\ t <= clock /\ clock \in Nat
    BY <1>7, LaterFacts, WalkInv, InvFacts
<1>14. /\ TreeOK(s2) /\ SplitAt(s, s2, c, n, u)
       /\ SplitLinks(s, s2, c, Par(s, c), SplitName(s, c, n))
       /\ SplitRanks(s, s2, c, SplitName(s, c, n), u)
    <2>1. TreeOK(s) /\ n < Len(s.nodes[c].key)
        BY <1>9, <1>10, <1>11 DEF TreeAt
    <2> QED BY <1>6, <1>10, <1>11, <1>13, <2>1, SplitOK
<1>15. TreeAt(s2, setup.priorities, u) /\ PathAt(s2, new, t)
    BY <1>9, <1>11, <1>12, <1>13, <1>14, SplitRanksAt
<1>16. LockOn(s2, hold)
    BY <1>9, <1>14, LockOnSplit DEF TreeAt
<1>17. new \in Inner(s2) /\ new \in Ids(s2) /\ Par(s2, new) = node
    BY <1>11, <1>12, <1>14 DEF SplitLinks
<1>18. s2.nodes[node].priority = tree.nodes[node].priority
    <2>1. node \in Ids(s) /\ s.nodes[node].priority = tree.nodes[node].priority
        BY <1>9, <1>11 DEF SameLinks
    <2> QED BY <1>14, <2>1 DEF SplitRanks, SameState
<1>19. CutOn(s2, node, new, m + n, t, u, tree.nodes[node].priority)
    BY <1>10, <1>15, <1>16, <1>17, <1>18 DEF CutOn
<1> QED BY <1>1, <1>2, <1>3, <1>4, <1>5, <1>6, <1>7, <1>8, <1>19

LEMMA MatchSplitInv ==
    ASSUME Inv, MatchSplit, setup' = setup
    PROVE  Inv'
<1>1. /\ call.op = "match" /\ CanDescend /\ ~ ChildMatches /\ hold' = hold
      /\ call' = NoCall
    BY DEF MatchSplit, Return
<1>2. PICK u \in Later : tree' = SplitNode(Touched, Child, Common, u) /\ clock' = u
    BY DEF MatchSplit
<1>3. PICK new : new = SplitName(tree, Child, Common)
    OBVIOUS
<1>4. CutOn(tree', call.node, new, call.len + Common, call.t, u,
            tree.nodes[call.node].priority)
    BY <1>1, <1>2, <1>3, SplitTouched
<1>5. reply'.last_node = new
    BY <1>3 DEF MatchSplit, Return, MatchReply
<1>6. u \in Nat /\ u <= setup.max_time
    BY LaterFacts
<1>7. TreeAt(tree', setup.priorities, clock') /\ LockOn(tree', hold')
      /\ reply'.last_node \in Ids(tree')
    BY <1>1, <1>2, <1>4, <1>5 DEF CutOn
<1> QED BY <1>1, <1>2, <1>6, <1>7, InvFacts, InvAfterReturn

LEMMA MatchReturnInv ==
    ASSUME Inv, MatchReturn, setup' = setup
    PROVE  Inv'
<1>1. /\ call.op = "match" /\ tree' = tree /\ hold' = hold /\ clock' = clock
      /\ call' = NoCall /\ reply' = MatchReply(call.key, call.value, call.node)
    BY DEF MatchReturn, Return
<1>2. reply'.last_node \in Ids(tree')
    BY <1>1, WalkInv DEF MatchReply
<1> QED BY <1>1, <1>2, WalkInv, InvFacts, InvAfterReturn

LEMMA InsertInv ==
    ASSUME Inv, NEW i \in setup.inserts, NEW p \in setup.priorities,
           Insert(i[1], i[2], p), setup' = setup
    PROVE  Inv'
<1>1. call.op = "none" /\ hold' = hold
    BY DEF Insert, Idle, NoCall
<1>2. LockOn(tree, hold)
    BY <1>1, LockInvIdle DEF Inv
<1>3. PICK key : key = i[1]
    OBVIOUS
<1>4. PICK value : value = i[2]
    OBVIOUS
<1>5. /\ key \in Seq(Token) /\ value \in Seq(Slot) /\ <<key, value>> \in setup.inserts
      /\ p \in Nat
    BY <1>3, <1>4, InvFacts, SetupFacts
<1>6. PICK t \in Now :
        /\ tree' = RaisePriority(Touch(tree, Root, t), Root, p) /\ clock' = t
        /\ IF key = <<>> THEN call' = NoCall /\ reply' = InsertReply(0)
           ELSE call' = [op |-> "insert", key |-> key, node |-> Root, len |-> 0,
                         value |-> value, priority |-> p, t |-> t]
    BY <1>3, <1>4 DEF Insert, Return
<1>7. t \in Nat /\ clock <= t /\ t <= clock + 1 /\ t <= setup.max_time /\ clock \in Nat
    BY NowFacts, InvFacts
<1>8. PICK s : s = Touch(tree, Root, t)
    OBVIOUS
<1>9. /\ TreeAt(s, setup.priorities, t) /\ PathAt(s, Root, t)
      /\ SameLinks(tree, s) /\ SameLocks(tree, s)
    BY <1>7, <1>8, InvFacts, TouchAt
<1>10. Root \in Ids(s) /\ LockOn(s, hold) /\ ~ (Root \in Inner(s))
    BY <1>2, <1>9, InvFacts, LockOnSame DEF SameLinks, SameLocks, Inner
<1>11. /\ TreeAt(tree', setup.priorities, t) /\ p <= tree'.nodes[Root].priority
       /\ SameLinks(s, tree') /\ SameLocks(s, tree') /\ PathAt(tree', Root, t)
    BY <1>6, <1>7, <1>8, <1>9, <1>10, InvFacts, RaiseAt
<1>12. LockOn(tree', hold') /\ Root \in Ids(tree')
    BY <1>1, <1>10, <1>11, LockOnSame DEF SameLinks, SameLocks
<1>13. CASE key = <<>>
    <2>1. call' = NoCall /\ reply'.op # "match"
        BY <1>6, <1>13 DEF InsertReply
    <2> QED BY <1>6, <1>7, <1>11, <1>12, <2>1, InvFacts, InvAfterReturn
<1>14. CASE key # <<>>
    <2>1. call' = [op |-> "insert", key |-> key, node |-> Root, len |-> 0,
                   value |-> value, priority |-> p, t |-> t]
        BY <1>6, <1>14
    <2>2. Root \in Seq(Token) /\ Len(Root) = 0 /\ IsPrefix(Root, key)
        BY <1>5, RootPrefix, EmptySeq
    <2>3. call' \in InsertCalls
        BY <1>5, <1>7, <2>1, <2>2 DEF InsertCalls
    <2>4. /\ call'.key = key /\ call'.node = Root /\ call'.len = 0 /\ call'.t = t
          /\ call'.value = value /\ call'.priority = p
        BY <2>1
    <2>5. Walking'
        BY <1>6, <1>7, <1>11, <1>12, <2>2, <2>4 DEF Walking
    <2> QED BY <1>5, <1>6, <1>7, <1>11, <1>12, <2>3, <2>4, <2>5, InvFacts, InvAfterWalk
<1> QED BY <1>13, <1>14

\* Both iterations of an insert: the priority of the node gone to is raised.
LEMMA InsertGoesOn ==
    ASSUME Inv, call.op = "insert", setup' = setup, hold' = hold, NEW s, NEW x, NEW l \in Nat,
           NEW u \in Nat, clock <= u, u <= call.t + 1, u <= setup.max_time,
           CutOn(s, call.node, x, l, call.t, u, tree.nodes[call.node].priority),
           tree' = RaisePriority(s, x, call.priority), clock' = u,
           call' = [call EXCEPT !.node = x, !.len = l]
    PROVE  Inv'
<1>1. /\ call \in InsertCalls /\ <<call.key, call.value>> \in setup.inserts
      /\ call.priority \in setup.priorities /\ call.t \in Nat /\ call.t <= clock
      /\ clock \in Nat
      /\ call.priority <= tree.nodes[call.node].priority
    BY WalkInv, InvFacts
<1>2. /\ TreeAt(s, setup.priorities, u) /\ PathAt(s, x, call.t) /\ LockOn(s, hold)
      /\ x \in Inner(s) /\ x \in Ids(s) /\ Par(s, x) = call.node
      /\ s.nodes[call.node].priority = tree.nodes[call.node].priority
      /\ x \in Seq(Token) /\ IsPrefix(x, call.key) /\ Len(x) = l
    BY DEF CutOn
<1>3. call.priority <= s.nodes[Par(s, x)].priority
    BY <1>1, <1>2
<1>4. /\ TreeAt(tree', setup.priorities, u) /\ call.priority <= tree'.nodes[x].priority
      /\ SameLinks(s, tree') /\ SameLocks(s, tree') /\ PathAt(tree', x, call.t)
    BY <1>1, <1>2, <1>3, InvFacts, RaiseAt
<1>5. LockOn(tree', hold') /\ x \in Ids(tree')
    <2>1. Root \in Ids(s)
        BY <1>2 DEF TreeAt, TreeOK, Shape
    <2> QED BY <1>2, <1>4, <2>1, LockOnSame DEF SameLinks, SameLocks
<1>6. /\ call' \in InsertCalls /\ call'.key = call.key /\ call'.value = call.value
      /\ call'.priority = call.priority /\ call'.node = x /\ call'.len = l
      /\ call'.t = call.t
    BY <1>1, <1>2 DEF InsertCalls
<1>7. call.t <= clock' /\ clock' <= call.t + 1
    BY <1>1
<1>8. Walking'
    BY <1>2, <1>4, <1>5, <1>6, <1>7 DEF Walking
<1> QED BY <1>1, <1>4, <1>5, <1>6, <1>8, InvFacts, InvAfterWalk

LEMMA InsertDescendInv ==
    ASSUME Inv, InsertDescend, setup' = setup
    PROVE  Inv'
<1>1. /\ call.op = "insert" /\ CanDescend /\ ChildMatches /\ hold' = hold /\ clock' = clock
      /\ tree' = RaisePriority(Touched, Child, call.priority)
      /\ call' = [call EXCEPT !.node = Child, !.len = call.len + Common]
    BY DEF InsertDescend
<1>2. /\ Child \in Ids(tree) /\ Child \in Seq(Token) /\ IsPrefix(Child, call.key)
      /\ call.len + Common = Len(Child) /\ call.len + Common \in Nat
    BY <1>1, DescentFacts
<1>3. /\ TreeAt(Touched, setup.priorities, clock) /\ PathAt(Touched, Child, call.t)
      /\ SameLinks(tree, Touched) /\ LockOn(Touched, hold)
      /\ WalkStep(Child, Common, call.len, ChildMatches)
      /\ \A y \in Ids(tree) : Touched.nodes[y].priority = tree.nodes[y].priority
    BY <1>1, TouchedFacts
<1>4. Child \in Inner(tree) /\ Par(tree, Child) = call.node
    BY <1>3 DEF WalkStep
<1>5. /\ Child \in Inner(Touched) /\ Child \in Ids(Touched)
      /\ Par(Touched, Child) = call.node
    BY <1>2, <1>3, <1>4 DEF SameLinks, Inner, Par
<1>6. call.node \in Ids(tree) /\ clock <= call.t + 1
    BY <1>1, WalkInv
<1>7. CutOn(Touched, call.node, Child, call.len + Common, call.t, clock,
            tree.nodes[call.node].priority)
    BY <1>2, <1>3, <1>5, <1>6 DEF CutOn
<1>8. PICK c : c = Child
    OBVIOUS
<1>9. PICK s : s = Touched
    OBVIOUS
<1>10. PICK l \in Nat : l = call.len + Common
    BY <1>2
<1>11. /\ CutOn(s, call.node, c, l, call.t, clock, tree.nodes[call.node].priority)
       /\ tree' = RaisePriority(s, c, call.priority)
       /\ call' = [call EXCEPT !.node = c, !.len = l]
    BY <1>1, <1>7, <1>8, <1>9, <1>10
<1>12. PICK u : u = clock
    OBVIOUS
<1>13. /\ u \in Nat /\ clock <= u /\ u <= call.t + 1 /\ u <= setup.max_time
       /\ clock' = u /\ CutOn(s, call.node, c, l, call.t, u, tree.nodes[call.node].priority)
    BY <1>1, <1>6, <1>11, <1>12, InvFacts
<1>14. /\ call.op = "insert" /\ hold' = hold
       /\ tree' = RaisePriority(s, c, call.priority)
       /\ call' = [call EXCEPT !.node = c, !.len = l]
    BY <1>1, <1>11
<1> QED BY <1>10, <1>13, <1>14, InsertGoesOn

LEMMA InsertSplitInv ==
    ASSUME Inv, InsertSplit, setup' = setup
    PROVE  Inv'
<1>1. call.op = "insert" /\ CanDescend /\ ~ ChildMatches /\ hold' = hold
    BY DEF InsertSplit
<1>2. PICK new : new = SplitName(tree, Child, Common)
    OBVIOUS
<1>3. PICK u \in Later :
        tree' = RaisePriority(SplitNode(Touched, Child, Common, u), new, call.priority)
        /\ clock' = u
    BY <1>2 DEF InsertSplit
<1>4. PICK s : s = SplitNode(Touched, Child, Common, u)
    OBVIOUS
<1>5. call.len + Common \in Nat
    <2>1. WalkStep(Child, Common, call.len, ChildMatches)
        BY <1>1, TouchedFacts
    <2>2. Common \in Nat /\ call.len \in Nat
        BY <2>1 DEF WalkStep
    <2> QED BY <2>2
<1>6. PICK l \in Nat : l = call.len + Common
    BY <1>5
<1>7. CutOn(s, call.node, new, l, call.t, u, tree.nodes[call.node].priority)
    BY <1>1, <1>2, <1>4, <1>6, SplitTouched
<1>8. call' = [call EXCEPT !.node = new, !.len = l]
    BY <1>2, <1>6 DEF InsertSplit
<1>9. tree' = RaisePriority(s, new, call.priority)
    BY <1>3, <1>4
<1>10. u \in Nat /\ clock <= u /\ u <= call.t + 1 /\ u <= setup.max_time
    BY LaterFacts
<1> QED BY <1>1, <1>3, <1>7, <1>8, <1>9, <1>10, InsertGoesOn

\* What is left of a key, and its slots, fit below a node.
Fits(s, id, key, value) ==
    /\ key \in Seq(Token) /\ key # <<>> /\ key[1] \notin DOMAIN Kids(s, id)
    /\ value \in Seq(Slot) /\ Len(value) = Len(key)
Added(s, s2, id, key, value, p, u) ==
    TreeOK(s2) /\ \E new, leaf : /\ leaf = TreeNode(id, key, value, 0, <<>>, p, u)
                                 /\ LeafAdded(s, s2, id, key, new, leaf)

LEMMA AddLeafAdds ==
    ASSUME NEW s, TreeOK(s), NEW id \in Ids(s), NEW key, NEW value, NEW p \in Int,
           NEW u \in Nat, Fits(s, id, key, value)
    PROVE  Added(s, AddLeaf(s, id, key, value, p, u), id, key, value, p, u)
<1>1. /\ key \in Seq(Token) /\ key # <<>> /\ key[1] \notin DOMAIN Kids(s, id)
      /\ value \in Seq(Slot) /\ Len(value) = Len(key)
    BY DEF Fits
<1>2. TreeOK(AddLeaf(s, id, key, value, p, u))
    BY <1>1, AddLeafOK
<1>3. PICK new : new = id \o key
    OBVIOUS
<1>4. PICK leaf : leaf = TreeNode(id, key, value, 0, <<>>, p, u)
    OBVIOUS
<1>5. LeafAdded(s, AddLeaf(s, id, key, value, p, u), id, key, new,
                TreeNode(id, key, value, 0, <<>>, p, u))
    BY <1>1, <1>3, AddLeafEffect DEF TreeOK
<1> QED BY <1>2, <1>4, <1>5 DEF Added

LEMMA InsertLeafInv ==
    ASSUME Inv, InsertLeaf, setup' = setup
    PROVE  Inv'
<1>1. /\ call.op = "insert" /\ ~ CanDescend /\ Rest # <<>> /\ hold' = hold
      /\ call' = NoCall /\ reply' = InsertReply(call.len)
    BY DEF InsertLeaf, Return
<1>2. PICK u \in Later :
        /\ tree' = AddLeaf(tree, call.node, Rest, Drop(call.value, call.len),
                           call.priority, u)
        /\ clock' = u
    BY DEF InsertLeaf
<1>3. PICK rest : rest = Rest
    OBVIOUS
<1>4. PICK value : value = Drop(call.value, call.len)
    OBVIOUS
<1>5. PICK id : id = call.node
    OBVIOUS
<1>6. PICK p : p = call.priority
    OBVIOUS
<1>7. PICK t : t = call.t
    OBVIOUS
<1>8. /\ <<call.key, call.value>> \in setup.inserts /\ p \in setup.priorities
      /\ p \in Nat /\ p <= tree.nodes[id].priority /\ id \in Ids(tree)
      /\ PathAt(tree, id, t) /\ t \in Nat /\ t <= clock /\ clock \in Nat
      /\ LockOn(tree, hold) /\ call.len = Len(id) /\ IsPrefix(id, call.key)
    <2>1. Walking
        BY <1>1, WalkInv
    <2> QED BY <1>1, <1>5, <1>6, <1>7, <2>1, WalkInv, InvFacts DEF Walking
<1>9. u \in Nat /\ clock <= u /\ u <= t + 1 /\ u <= setup.max_time
    BY <1>7, LaterFacts
<1>10. /\ rest \in Seq(Token) /\ rest # <<>> /\ value \in Seq(Slot)
       /\ Len(value) = Len(rest)
    <2>1. PICK k : k = call.key
        OBVIOUS
    <2>2. PICK v : v = call.value
        OBVIOUS
    <2>3. k \in Seq(Token) /\ v \in Seq(Slot) /\ Len(k) = Len(v)
        <3>1. PICK i \in setup.inserts : i = <<k, v>>
            BY <1>8, <2>1, <2>2
        <3>2. i[1] = k /\ i[2] = v
            BY <3>1
        <3> QED BY <3>2, InvFacts, SetupFacts
    <2>4. id \in Seq(Token)
        BY <1>8, InvFacts, TreeFacts
    <2>5. Len(id) \in 0 .. Len(k)
        BY <1>8, <2>1, <2>3, <2>4, PrefixByToken, LenProperties
    <2>6. rest = Drop(k, Len(id)) /\ value = Drop(v, Len(id))
        BY <1>3, <1>4, <1>8, <2>1, <2>2 DEF Rest
    <2> QED BY <1>1, <1>3, <2>3, <2>5, <2>6, DropProperties
<1>11. rest[1] \notin DOMAIN Kids(tree, id)
    BY <1>1, <1>3, <1>5 DEF CanDescend, Kids
<1>12. tree' = AddLeaf(tree, id, rest, value, p, u)
    BY <1>2, <1>3, <1>4, <1>5, <1>6
<1>13. Fits(tree, id, rest, value)
    BY <1>10, <1>11 DEF Fits
<1>14. Added(tree, tree', id, rest, value, p, u)
    <2>1. TreeOK(tree) /\ p \in Int
        BY <1>8, InvFacts
    <2> QED BY <1>8, <1>9, <1>12, <1>13, <2>1, AddLeafAdds
<1>15. TreeOK(tree')
    BY <1>14 DEF Added
<1>16. PICK new, leaf : /\ leaf = TreeNode(id, rest, value, 0, <<>>, p, u)
                        /\ LeafAdded(tree, tree', id, rest, new, leaf)
    BY <1>14 DEF Added
<1>17. /\ leaf.parent = id /\ leaf.last_access_time = u /\ leaf.priority = p
       /\ leaf.lock_ref = 0
    BY <1>16 DEF TreeNode
<1>18. TreeAt(tree', setup.priorities, u)
    <2>1. Grown(tree, tree', id, rest[1], new, leaf) /\ new \notin Ids(tree)
        BY <1>16 DEF LeafAdded
    <2> QED BY <1>8, <1>9, <1>15, <1>17, <2>1, InvFacts, GrownRanksAt
<1>19. LockOn(tree', hold')
    BY <1>1, <1>8, <1>11, <1>16, <1>17, InvFacts, LockOnGrown
<1>20. reply'.op # "match"
    BY <1>1 DEF InsertReply
<1> QED BY <1>1, <1>2, <1>9, <1>18, <1>19, <1>20, InvFacts, InvAfterReturn

LEMMA InsertReturnInv ==
    ASSUME Inv, InsertReturn, setup' = setup
    PROVE  Inv'
<1>1. /\ call.op = "insert" /\ tree' = tree /\ hold' = hold /\ clock' = clock
      /\ call' = NoCall /\ reply' = InsertReply(call.len)
    BY DEF InsertReturn, Return
<1>2. reply'.op # "match"
    BY <1>1 DEF InsertReply
<1> QED BY <1>1, <1>2, WalkInv, InvFacts, InvAfterReturn

-----------------------------------------------------------------------------
(* The steps of lock and unlock *)

\* A client joins the holders of a node, or leaves them.
LEMMA OneMoreHolder ==
    ASSUME NEW H \in SUBSET Client, NEW c \in Client, c \notin H
    PROVE  Cardinality(H \union {c}) = Cardinality(H) + 1
<1>1. IsFiniteSet(H)
    BY ClientAssumption, FS_Subset
<1> QED BY <1>1, FS_AddElement

LEMMA OneHolderLess ==
    ASSUME NEW H \in SUBSET Client, NEW c \in H
    PROVE  Cardinality(H) \in Nat /\ Cardinality(H) > 0 /\
           Cardinality(H \ {c}) = Cardinality(H) - 1
<1>1. IsFiniteSet(H)
    BY ClientAssumption, FS_Subset
<1>2. Cardinality(H) \in Nat
    BY <1>1, FS_CardinalityType
<1>3. Cardinality(H) # 0
    BY <1>1, FS_EmptySet
<1>4. \A n \in Nat : n # 0 => n > 0
    OBVIOUS
<1>5. Cardinality(H \ {c}) = Cardinality(H) - 1
    BY <1>1, FS_RemoveElement
<1> QED BY <1>2, <1>3, <1>4, <1>5

LEMMA LockCallFacts ==
    ASSUME Inv, call.op = "lock"
    PROVE  /\ call \in LockCalls("lock") /\ call.client \in Client
           /\ call.node \in Ids(tree) /\ hold[call.client] = Root
           /\ reply.op = "match" /\ reply.last_node \in Ids(tree)
           /\ IsPrefix(call.node, reply.last_node)
           /\ hold \in [Client -> Ids(tree)] /\ tree.nodes[Root].lock_ref = 1
           /\ \A id \in Inner(tree) : tree.nodes[id].lock_ref = Cardinality(Holders(id))
           /\ Ids(tree) \subseteq Seq(Token)
<1>1. /\ call \in LockCalls("lock") /\ call.node \in Ids(tree)
      /\ hold[call.client] = Root /\ reply.op = "match"
      /\ IsPrefix(call.node, reply.last_node)
    BY DEF Inv, CallInv
<1>2. call.client \in Client
    BY <1>1 DEF LockCalls
<1>3. reply.last_node \in Ids(tree)
    BY <1>1 DEF Inv, ReplyInv
<1> QED BY <1>1, <1>2, <1>3, InvFacts, TreeFacts DEF Inv, LockInv

LEMMA UnlockCallFacts ==
    ASSUME Inv, call.op = "unlock"
    PROVE  /\ call \in LockCalls("unlock") /\ call.client \in Client
           /\ call.node \in Ids(tree) /\ IsPrefix(call.node, hold[call.client])
           /\ hold \in [Client -> Ids(tree)] /\ tree.nodes[Root].lock_ref = 1
           /\ \A id \in Inner(tree) : tree.nodes[id].lock_ref = Cardinality(Holders(id))
           /\ Ids(tree) \subseteq Seq(Token)
<1>1. /\ call \in LockCalls("unlock") /\ call.node \in Ids(tree)
      /\ IsPrefix(call.node, hold[call.client])
    BY DEF Inv, CallInv
<1>2. call.client \in Client
    BY <1>1 DEF LockCalls
<1> QED BY <1>1, <1>2, InvFacts, TreeFacts DEF Inv, LockInv

\* The steps that start and end the walk leave every node its holders.
LEMMA InvAfterSameHolders ==
    ASSUME Inv, setup' = setup, tree' = tree, clock' = clock, hold' \in [Client -> Ids(tree)],
           \A id \in Inner(tree) : Holders(id)' = Holders(id), CallInv', ReplyInv'
    PROVE  Inv'
<1>1. TreeInv'
    BY DEF Inv, TreeInv
<1>2. \A id \in Inner(tree) : Cardinality(Holders(id)') = Cardinality(Holders(id))
    OBVIOUS
<1>3. Inner(tree') = Inner(tree) /\ Ids(tree') = Ids(tree)
    OBVIOUS
<1>4. LockInv'
    BY <1>2, <1>3 DEF Inv, LockInv
<1> QED BY <1>1, <1>4 DEF Inv

LEMMA LockBegins ==
    ASSUME Inv, NEW c \in setup.clients, Lock(c), setup' = setup
    PROVE  Inv'
<1>1. /\ call.op = "none" /\ reply.op = "match" /\ hold[c] = Root /\ tree' = tree
      /\ hold' = hold /\ clock' = clock /\ reply' = reply
      /\ call' = [op |-> "lock", client |-> c, node |-> reply.last_node, delta |-> 0]
    BY DEF Lock, Idle, NoCall
<1>2. c \in Client /\ reply.last_node \in Ids(tree) /\ Ids(tree) \subseteq Seq(Token)
    BY <1>1, InvFacts, TreeFacts DEF Inv, ReplyInv
<1>3. IsPrefix(reply.last_node, reply.last_node)
    BY <1>2, PrefixReflexive
<1>4. /\ call'.op = "lock" /\ call'.client = c /\ call'.node = reply.last_node
      /\ call' \in LockCalls("lock")
    BY <1>1, <1>2 DEF LockCalls
<1>5. CallInv'
    BY <1>1, <1>2, <1>3, <1>4 DEF CallInv
<1>6. ReplyInv'
    BY <1>1, <1>2 DEF ReplyInv
<1>7. ASSUME NEW id \in Inner(tree) PROVE Holders(id)' = Holders(id)
    <2>1. ~ IsPrefix(id, Root)
        BY <1>2, RootPrefix DEF Inner
    <2>2. \A d \in Client : HeldBy(d, id)' <=> HeldBy(d, id)
        BY <1>1, <1>4, <2>1 DEF HeldBy
    <2> QED BY <2>2 DEF Holders
<1>8. hold' \in [Client -> Ids(tree)]
    BY <1>1 DEF Inv, LockInv
<1> QED BY <1>1, <1>5, <1>6, <1>7, <1>8, InvAfterSameHolders

LEMMA LockEnds ==
    ASSUME Inv, LockReturn, setup' = setup
    PROVE  Inv'
<1>1. /\ call.op = "lock" /\ call.node = Root /\ tree' = tree /\ clock' = clock
      /\ hold' = [hold EXCEPT ![call.client] = reply.last_node]
      /\ call' = NoCall /\ reply' = [op |-> "lock", delta |-> call.delta]
    BY DEF LockReturn, Return
<1>2. /\ call.client \in Client /\ reply.last_node \in Ids(tree)
      /\ hold \in [Client -> Ids(tree)] /\ Ids(tree) \subseteq Seq(Token)
    BY <1>1, LockCallFacts
<1>3. call'.op = "none" /\ reply'.op = "lock"
    BY <1>1 DEF NoCall
<1>4. CallInv' /\ ReplyInv'
    BY <1>1, <1>3 DEF CallInv, ReplyInv
<1>5. /\ hold' \in [Client -> Ids(tree)] /\ hold'[call.client] = reply.last_node
      /\ \A d \in Client : d # call.client => hold'[d] = hold[d]
    BY <1>1, <1>2
<1>6. ASSUME NEW id \in Inner(tree) PROVE Holders(id)' = Holders(id)
    <2>1. ~ IsPrefix(id, Root)
        BY <1>2, RootPrefix DEF Inner
    <2>2. \A d \in Client : HeldBy(d, id)' <=> HeldBy(d, id)
        BY <1>1, <1>3, <1>5, <2>1 DEF HeldBy
    <2> QED BY <2>2 DEF Holders
<1> QED BY <1>1, <1>4, <1>5, <1>6, InvAfterSameHolders

LEMMA UnlockBegins ==
    ASSUME Inv, NEW c \in setup.clients, Unlock(c), setup' = setup
    PROVE  Inv'
<1>1. /\ call.op = "none" /\ tree' = tree /\ hold' = hold /\ clock' = clock
      /\ call' = [op |-> "unlock", client |-> c, node |-> hold[c], delta |-> 0]
    BY DEF Unlock, Idle, NoCall
<1>2. /\ c \in Client /\ hold \in [Client -> Ids(tree)] /\ Ids(tree) \subseteq Seq(Token)
    BY InvFacts, TreeFacts DEF Inv, LockInv
<1>3. hold[c] \in Ids(tree) /\ hold[c] \in Seq(Token) /\ IsPrefix(hold[c], hold[c])
    BY <1>2, PrefixReflexive
<1>4. /\ call'.op = "unlock" /\ call'.client = c /\ call'.node = hold[c]
      /\ call' \in LockCalls("unlock")
    BY <1>1, <1>2, <1>3 DEF LockCalls
<1>5. CallInv' /\ ReplyInv'
    BY <1>1, <1>3, <1>4 DEF CallInv, ReplyInv
<1>6. ASSUME NEW id \in Inner(tree) PROVE Holders(id)' = Holders(id)
    <2>1. \A d \in Client : HeldBy(d, id)' <=> HeldBy(d, id)
        BY <1>1, <1>4 DEF HeldBy
    <2> QED BY <2>1 DEF Holders
<1> QED BY <1>1, <1>2, <1>5, <1>6, InvAfterSameHolders

LEMMA UnlockEnds ==
    ASSUME Inv, UnlockReturn, setup' = setup
    PROVE  Inv'
<1>1. /\ call.op = "unlock" /\ call.node = Root /\ tree' = tree /\ clock' = clock
      /\ hold' = [hold EXCEPT ![call.client] = Root]
      /\ call' = NoCall /\ reply' = [op |-> "unlock", delta |-> call.delta]
    BY DEF UnlockReturn, Return
<1>2. /\ call.client \in Client /\ Root \in Ids(tree)
      /\ hold \in [Client -> Ids(tree)] /\ Ids(tree) \subseteq Seq(Token)
    BY <1>1, UnlockCallFacts
<1>3. call'.op = "none" /\ reply'.op = "unlock"
    BY <1>1 DEF NoCall
<1>4. CallInv' /\ ReplyInv'
    BY <1>1, <1>3 DEF CallInv, ReplyInv
<1>5. /\ hold' \in [Client -> Ids(tree)] /\ hold'[call.client] = Root
      /\ \A d \in Client : d # call.client => hold'[d] = hold[d]
    BY <1>1, <1>2
<1>6. ASSUME NEW id \in Inner(tree) PROVE Holders(id)' = Holders(id)
    <2>1. \A d \in Client : HeldBy(d, id)' <=> HeldBy(d, id)
        BY <1>1, <1>3, <1>5 DEF HeldBy
    <2> QED BY <2>1 DEF Holders
<1> QED BY <1>1, <1>4, <1>5, <1>6, InvAfterSameHolders

\* An iteration of either walk.
LEMMA InvAfterRelock ==
    ASSUME Inv, setup' = setup, clock' = clock, hold' = hold, TreeOK(tree'),
           SameLinks(tree, tree'), SameRanks(tree, tree'), CallInv', ReplyInv',
           tree'.nodes[Root].lock_ref = 1,
           \A id \in Inner(tree) : tree'.nodes[id].lock_ref = Cardinality(Holders(id)')
    PROVE  Inv'
<1>1. TreeAt(tree', setup.priorities, clock)
    BY InvFacts, RelockAt
<1>2. TreeInv'
    BY <1>1 DEF Inv, TreeInv
<1>3. Inner(tree') = Inner(tree) /\ Ids(tree') = Ids(tree)
    BY DEF SameLinks, Inner
<1>4. LockInv'
    BY <1>3 DEF Inv, LockInv
<1> QED BY <1>2, <1>4 DEF Inv

LEMMA LockStepInv ==
    ASSUME Inv, LockStep, setup' = setup
    PROVE  Inv'
<1>1. PICK x : x = call.node
    OBVIOUS
<1>2. PICK p : p = Par(tree, x)
    OBVIOUS
<1>3. PICK d : d = LockGain(tree.nodes[x])
    OBVIOUS
<1>4. PICK c : c = call.client
    OBVIOUS
<1>5. /\ call.op = "lock" /\ x # Root /\ tree' = LockNode(tree, x)
      /\ hold' = hold /\ clock' = clock /\ reply' = reply
      /\ call' = [call EXCEPT !.delta = call.delta - d, !.node = p]
    BY <1>1, <1>2, <1>3 DEF LockStep, Above, Par
<1>6. /\ call \in LockCalls("lock") /\ c \in Client /\ x \in Ids(tree)
      /\ hold[c] = Root /\ reply.op = "match" /\ reply.last_node \in Ids(tree)
      /\ IsPrefix(x, reply.last_node) /\ tree.nodes[Root].lock_ref = 1
      /\ \A id \in Inner(tree) : tree.nodes[id].lock_ref = Cardinality(Holders(id))
      /\ Ids(tree) \subseteq Seq(Token)
    BY <1>1, <1>4, <1>5, LockCallFacts
<1>7. x \in Inner(tree)
    BY <1>5, <1>6 DEF Inner
<1>8. p \in Ids(tree) /\ IsPrefix(p, x) /\ IsPrefix(x, x)
    BY <1>2, <1>6, <1>7, InvFacts, NodeFacts, PrefixReflexive
<1>9. /\ TreeOK(tree') /\ SameLinks(tree, tree') /\ SameRanks(tree, tree')
      /\ \A y \in Ids(tree) : tree'.nodes[y].lock_ref =
            IF y = x THEN tree.nodes[x].lock_ref + 1 ELSE tree.nodes[y].lock_ref
    BY <1>5, <1>6, <1>7, InvFacts, LockOK, LockEffect
<1>10. d \in Int
    <2>1. Len(tree.nodes[x].key) \in Nat
        BY <1>7, InvFacts, NodeFacts, LenProperties
    <2> QED BY <1>3, <2>1 DEF LockGain
<1>11. /\ call'.op = "lock" /\ call'.client = c /\ call'.node = p
       /\ call' \in LockCalls("lock")
    <2>1. p \in Seq(Token) /\ call.delta - d \in Int
        BY <1>6, <1>8, <1>10 DEF LockCalls
    <2> QED BY <1>4, <1>5, <1>6, <2>1 DEF LockCalls
<1>12. IsPrefix(p, reply.last_node)
    BY <1>6, <1>8, PrefixTransitive
<1>13. CallInv' /\ ReplyInv'
    <2>1. Ids(tree') = Ids(tree)
        BY <1>9 DEF SameLinks
    <2> QED BY <1>5, <1>6, <1>8, <1>11, <1>12, <2>1 DEF CallInv, ReplyInv
<1>14. ASSUME NEW id \in Inner(tree)
       PROVE  /\ \A b \in Client : b # c => (HeldBy(b, id)' <=> HeldBy(b, id))
              /\ HeldBy(c, id)' <=> HeldBy(c, id) \/ id = x
    <2>1. IsPrefix(id, x) /\ id # x <=> IsPrefix(id, p)
        BY <1>2, <1>7, InvFacts, OnPath DEF Inner
    <2> QED BY <1>1, <1>4, <1>5, <1>6, <1>11, <2>1 DEF HeldBy
<1>15. ~ HeldBy(c, x)
    BY <1>1, <1>4, <1>5, <1>8 DEF HeldBy
<1>16. ASSUME NEW id \in Inner(tree)
       PROVE  tree'.nodes[id].lock_ref = Cardinality(Holders(id)')
    <2>1. id \in Ids(tree)
        BY DEF Inner
    <2>2. CASE id = x
        <3>1. Holders(id)' = Holders(id) \union {c} /\ c \notin Holders(id)
            BY <1>6, <1>14, <1>15, <2>2 DEF Holders
        <3>2. Cardinality(Holders(id)') = Cardinality(Holders(id)) + 1
            BY <1>6, <3>1, OneMoreHolder DEF Holders
        <3> QED BY <1>6, <1>9, <2>1, <2>2, <3>2
    <2>3. CASE id # x
        <3>1. Holders(id)' = Holders(id)
            BY <1>14, <2>3 DEF Holders
        <3> QED BY <1>6, <1>9, <2>1, <2>3, <3>1
    <2> QED BY <2>2, <2>3
<1>17. tree'.nodes[Root].lock_ref = 1
    BY <1>5, <1>6, <1>9, InvFacts
<1> QED BY <1>5, <1>9, <1>13, <1>16, <1>17, InvAfterRelock

LEMMA UnlockStepInv ==
    ASSUME Inv, UnlockStep, setup' = setup
    PROVE  Inv'
<1>1. PICK x : x = call.node
    OBVIOUS
<1>2. PICK p : p = Par(tree, x)
    OBVIOUS
<1>3. PICK d : d = UnlockGain(tree.nodes[x])
    OBVIOUS
<1>4. PICK c : c = call.client
    OBVIOUS
<1>5. /\ call.op = "unlock" /\ x # Root /\ tree' = UnlockNode(tree, x)
      /\ hold' = hold /\ clock' = clock /\ reply' = reply
      /\ call' = [call EXCEPT !.delta = call.delta + d, !.node = p]
    BY <1>1, <1>2, <1>3 DEF UnlockStep, Above, Par
<1>6. /\ call \in LockCalls("unlock") /\ c \in Client /\ x \in Ids(tree)
      /\ IsPrefix(x, hold[c]) /\ tree.nodes[Root].lock_ref = 1
      /\ hold[c] \in Ids(tree)
      /\ \A id \in Inner(tree) : tree.nodes[id].lock_ref = Cardinality(Holders(id))
      /\ Ids(tree) \subseteq Seq(Token)
    BY <1>1, <1>4, <1>5, UnlockCallFacts
<1>7. x \in Inner(tree)
    BY <1>5, <1>6 DEF Inner
<1>8. p \in Ids(tree) /\ IsPrefix(p, x) /\ IsPrefix(x, x)
    BY <1>2, <1>6, <1>7, InvFacts, NodeFacts, PrefixReflexive
<1>9. HeldBy(c, x)
    BY <1>1, <1>4, <1>5, <1>8 DEF HeldBy
<1>10. /\ tree.nodes[x].lock_ref > 0 /\ c \in Holders(x)
       /\ Cardinality(Holders(x) \ {c}) = tree.nodes[x].lock_ref - 1
    <2>1. c \in Holders(x) /\ Holders(x) \in SUBSET Client
        BY <1>6, <1>9 DEF Holders
    <2>2. tree.nodes[x].lock_ref = Cardinality(Holders(x))
        BY <1>6, <1>7
    <2> QED BY <2>1, <2>2, OneHolderLess
<1>11. /\ TreeOK(tree') /\ SameLinks(tree, tree') /\ SameRanks(tree, tree')
       /\ \A y \in Ids(tree) : tree'.nodes[y].lock_ref =
            IF y = x THEN tree.nodes[x].lock_ref - 1 ELSE tree.nodes[y].lock_ref
    BY <1>5, <1>6, <1>7, <1>10, InvFacts, UnlockOK, UnlockEffect
<1>12. d \in Int
    <2>1. Len(tree.nodes[x].key) \in Nat
        BY <1>7, InvFacts, NodeFacts, LenProperties
    <2> QED BY <1>3, <2>1 DEF UnlockGain
<1>13. /\ call'.op = "unlock" /\ call'.client = c /\ call'.node = p
       /\ call' \in LockCalls("unlock")
    <2>1. p \in Seq(Token) /\ call.delta + d \in Int
        BY <1>6, <1>8, <1>12 DEF LockCalls
    <2> QED BY <1>4, <1>5, <1>6, <2>1 DEF LockCalls
<1>14. IsPrefix(p, hold[c])
    BY <1>6, <1>8, PrefixTransitive
<1>15. CallInv' /\ ReplyInv'
    <2>1. Ids(tree') = Ids(tree)
        BY <1>11 DEF SameLinks
    <2> QED BY <1>5, <1>8, <1>13, <1>14, <2>1 DEF CallInv, ReplyInv
<1>16. ASSUME NEW id \in Inner(tree)
       PROVE  /\ \A b \in Client : b # c => (HeldBy(b, id)' <=> HeldBy(b, id))
              /\ HeldBy(c, id)' <=> HeldBy(c, id) /\ id # x
    <2>1. IsPrefix(id, x) /\ id # x <=> IsPrefix(id, p)
        BY <1>2, <1>7, InvFacts, OnPath DEF Inner
    <2> QED BY <1>1, <1>4, <1>5, <1>13, <2>1 DEF HeldBy
<1>17. ASSUME NEW id \in Inner(tree)
       PROVE  tree'.nodes[id].lock_ref = Cardinality(Holders(id)')
    <2>1. id \in Ids(tree)
        BY DEF Inner
    <2>2. CASE id = x
        <3>1. Holders(id)' = Holders(x) \ {c}
            BY <1>6, <1>16, <2>2 DEF Holders
        <3> QED BY <1>10, <1>11, <2>1, <2>2, <3>1
    <2>3. CASE id # x
        <3>1. Holders(id)' = Holders(id)
            BY <1>16, <2>3 DEF Holders
        <3> QED BY <1>6, <1>11, <2>1, <2>3, <3>1
    <2> QED BY <2>2, <2>3
<1>18. tree'.nodes[Root].lock_ref = 1
    BY <1>5, <1>6, <1>11, InvFacts
<1> QED BY <1>5, <1>11, <1>15, <1>17, <1>18, InvAfterRelock

-----------------------------------------------------------------------------
(* The steps of evict and reset *)

LEMMA EvictBegins ==
    ASSUME Inv, NEW n \in EvictSizes, Evict(n), setup' = setup
    PROVE  Inv'
<1>1. /\ call.op = "none" /\ tree' = tree /\ hold' = hold /\ clock' = clock
      /\ call' = [op |-> "evict", n |-> n, heap |-> tree.evictable_leaves, num |-> 0,
                  freed |-> {}, before |-> tree]
    BY DEF Evict, Idle, NoCall
<1>2. LockOn(tree, hold)
    BY <1>1, LockInvIdle DEF Inv
<1>3. /\ tree \in TreeRec /\ tree.evictable_leaves \in SUBSET Seq(Token) /\ n \in Nat
    BY InvFacts, Is4, SizesAssumption DEF Typed
<1>4. /\ call' \in EvictCalls /\ call'.op = "evict" /\ call'.heap = tree.evictable_leaves
    BY <1>1, <1>3 DEF EvictCalls
<1>5. CallInv' /\ ReplyInv'
    BY <1>1, <1>4 DEF CallInv, ReplyInv
<1> QED BY <1>1, <1>2, <1>4, <1>5, InvFacts, InvAfter

\* What the loop pushes back is what makes its heap the evictable leaves again.
LEMMA HeapFollows ==
    ASSUME NEW s, TreeOK(s), NEW x \in s.evictable_leaves, s.nodes[Root].lock_ref > 0
    PROVE  DeleteLeaf(s, x).evictable_leaves =
                (s.evictable_leaves \ {x}) \union PushedBy(s, x)
<1>1. PICK s2 : s2 = DeleteLeaf(s, x)
    OBVIOUS
<1>2. PICK p : p = Par(s, x)
    OBVIOUS
<1>3. PICK tok : tok = s.nodes[x].key[1]
    OBVIOUS
<1>4. /\ TreeOK(s2) /\ x \in Inner(s) /\ ~ (s.nodes[x].lock_ref > 0)
      /\ DOMAIN Kids(s, x) = {} /\ Pruned(s, s2, x, p, tok)
    BY <1>1, <1>2, <1>3, DeleteOK
<1>5. Typed(s) /\ Shape(s) /\ Leaves(s) /\ Leaves(s2)
    BY <1>4 DEF TreeOK
<1>6. /\ p \in Ids(s) /\ p # x /\ DOMAIN Kids(s, p) # {} /\ x \in Ids(s)
    <2>1. p \in Ids(s) /\ p # x
        BY <1>2, <1>4, <1>5, NodeFacts
    <2>2. tok \in DOMAIN Kids(s, p)
        BY <1>2, <1>3, <1>4, <1>5 DEF Shape
    <2> QED BY <1>4, <2>1, <2>2 DEF Inner
<1>7. /\ Ids(s2) = Ids(s) \ {x}
      /\ \A y \in Ids(s2) : s2.nodes[y].lock_ref = s.nodes[y].lock_ref
      /\ \A y \in Ids(s2) : y # p => Kids(s2, y) = Kids(s, y)
    BY <1>4 DEF Pruned, SameBody
<1>8. s.nodes[p].lock_ref \in Nat
    BY <1>5, <1>6, RankTypes
<1>9. p \notin s.evictable_leaves
    BY <1>5, <1>6 DEF Leaves, RightBut, IsLeaf, Kids
<1>10. PushedBy(s, x) = IF IsLeaf(s2, p) THEN {p} ELSE {}
    <2>1. s2.nodes[p].lock_ref = s.nodes[p].lock_ref
        BY <1>6, <1>7
    <2>2. IsLeaf(s2, p) <=> DOMAIN s2.nodes[p].children = {} /\ s.nodes[p].lock_ref = 0
        BY <1>8, <2>1 DEF IsLeaf
    <2> QED BY <1>1, <1>2, <2>2 DEF PushedBy, Par
<1>11. ASSUME NEW y
       PROVE  y \in s2.evictable_leaves <=>
                    y \in (s.evictable_leaves \ {x}) \union PushedBy(s, x)
    <2>1. /\ y \in s2.evictable_leaves <=> y \in Ids(s2) /\ IsLeaf(s2, y)
          /\ y \in s.evictable_leaves <=> y \in Ids(s) /\ IsLeaf(s, y)
        BY <1>5 DEF Leaves, RightBut
    <2>2. CASE y = p
        BY <1>6, <1>7, <1>9, <1>10, <2>1, <2>2
    <2>3. CASE y # p
        <3>1. y \in Ids(s2) => (IsLeaf(s2, y) <=> IsLeaf(s, y))
            BY <1>7, <2>3 DEF IsLeaf, Kids
        <3>2. y \notin PushedBy(s, x)
            BY <1>10, <2>3
        <3> QED BY <1>7, <2>1, <3>1, <3>2
    <2> QED BY <2>2, <2>3
<1>12. s2.evictable_leaves = (s.evictable_leaves \ {x}) \union PushedBy(s, x)
    BY <1>11
<1> QED BY <1>1, <1>12

LEMMA EvictStepInv ==
    ASSUME Inv, EvictStep, setup' = setup
    PROVE  Inv'
<1>1. call.op = "evict" /\ hold' = hold /\ clock' = clock
    BY DEF EvictStep
<1>2. PICK x \in Poppable(tree, call.heap) :
        /\ tree' = DeleteLeaf(tree, x)
        /\ call' = [call EXCEPT !.heap = (call.heap \ {x}) \union PushedBy(tree, x),
                                !.num = call.num + Len(tree.nodes[x].value),
                                !.freed = call.freed \union ToSet(tree.nodes[x].value)]
    BY DEF EvictStep
<1>3. /\ call \in EvictCalls /\ call.heap = tree.evictable_leaves /\ LockOn(tree, hold)
    BY <1>1, LockInvIdle DEF Inv, CallInv
<1>4. x \in tree.evictable_leaves /\ tree.nodes[Root].lock_ref > 0
    BY <1>3 DEF Poppable, LockOn
<1>5. /\ TreeOK(tree') /\ x \in Inner(tree) /\ ~ (tree.nodes[x].lock_ref > 0)
      /\ Pruned(tree, tree', x, Par(tree, x), tree.nodes[x].key[1])
    BY <1>2, <1>4, InvFacts, DeleteOK
<1>6. TreeAt(tree', setup.priorities, clock)
    BY <1>5, InvFacts, PrunedRanksAt
<1>7. LockOn(tree', hold)
    BY <1>3, <1>5, InvFacts, LockOnPruned
<1>8. tree'.evictable_leaves = (call.heap \ {x}) \union PushedBy(tree, x)
    BY <1>2, <1>3, <1>4, InvFacts, HeapFollows
<1>9. PICK h : h = tree'.evictable_leaves
    OBVIOUS
<1>10. PICK v : v = tree.nodes[x].value
    OBVIOUS
<1>11. /\ v \in Seq(Slot) /\ h \in SUBSET Seq(Token)
    <2>1. Typed(tree')
        BY <1>5 DEF TreeOK
    <2> QED BY <1>5, <1>9, <1>10, <2>1, InvFacts, NodeFacts, Is4
<1>12. Len(v) \in Nat /\ ToSet(v) \in SUBSET Slot
    BY <1>11, LenProperties, ElementOfSeq DEF ToSet
<1>13. PICK m : m = call.num + Len(v)
    OBVIOUS
<1>14. PICK f : f = call.freed \union ToSet(v)
    OBVIOUS
<1>15. m \in Int /\ f \in SUBSET Slot
    BY <1>3, <1>12, <1>13, <1>14 DEF EvictCalls
<1>16. call' = [call EXCEPT !.heap = h, !.num = m, !.freed = f]
    BY <1>2, <1>8, <1>9, <1>10, <1>13, <1>14
<1>17. call' \in EvictCalls /\ call'.op = "evict" /\ call'.heap = tree'.evictable_leaves
    BY <1>3, <1>9, <1>11, <1>15, <1>16 DEF EvictCalls
<1>18. CallInv' /\ ReplyInv'
    BY <1>17 DEF CallInv, ReplyInv
<1> QED BY <1>1, <1>6, <1>7, <1>17, <1>18, InvFacts, InvAfter

LEMMA EvictEnds ==
    ASSUME Inv, EvictReturn, setup' = setup
    PROVE  Inv'
<1>1. /\ call.op = "evict" /\ tree' = tree /\ hold' = hold /\ clock' = clock
      /\ call' = NoCall /\ reply'.op = "evict"
    BY DEF EvictReturn, Return
<1>2. LockOn(tree, hold)
    BY <1>1, LockInvIdle DEF Inv
<1> QED BY <1>1, <1>2, InvFacts, InvAfterReturn

LEMMA ResetInv ==
    ASSUME Inv, Reset, setup' = setup
    PROVE  Inv'
<1>1. /\ call.op = "none" /\ hold' = hold /\ call' = NoCall /\ reply' = NoReply
      /\ \A c \in Client : hold[c] = Root
    BY DEF Reset, Return, Idle, NoCall
<1>2. PICK t \in Now : tree' = EmptyTree(t) /\ clock' = t
    BY DEF Reset
<1>3. t \in Nat /\ t <= setup.max_time
    BY NowFacts
<1>4. /\ TreeAt(tree', setup.priorities, t) /\ Ids(tree') = {Root}
      /\ tree'.nodes[Root].lock_ref = 1
    BY <1>2, <1>3, EmptyAt
<1>5. LockOn(tree', hold')
    <2>1. hold \in [Client -> Ids(tree)]
        BY DEF Inv, LockInv
    <2>2. hold' \in [Client -> {Root}]
        BY <1>1, <2>1
    <2> QED BY <1>4, <2>2 DEF LockOn, Inner
<1>6. reply'.op # "match"
    BY <1>1 DEF NoReply
<1> QED BY <1>1, <1>2, <1>3, <1>4, <1>5, <1>6, InvFacts, InvAfterReturn

-----------------------------------------------------------------------------
(* The theorems *)

LEMMA InitInv == Init => Inv
<1>1. SUFFICES ASSUME Init PROVE Inv
    OBVIOUS
<1>2. /\ setup \in Setups /\ clock = 0 /\ tree = EmptyTree(clock)
      /\ hold = [c \in Client |-> Root] /\ reply = NoReply /\ call = NoCall
    BY <1>1 DEF Init
<1>3. setup.max_time \in Nat
    BY <1>2, SetupsAssumption
<1>4. /\ TreeAt(tree, setup.priorities, clock) /\ Ids(tree) = {Root}
      /\ tree.nodes[Root].lock_ref = 1
    <2>1. PICK t \in Nat : t = clock
        BY <1>2
    <2>2. tree = EmptyTree(t)
        BY <1>2, <2>1
    <2> QED BY <2>1, <2>2, EmptyAt
<1>5. TreeInv
    BY <1>2, <1>3, <1>4 DEF TreeInv
<1>6. call.op = "none" /\ reply.op = "none"
    BY <1>2 DEF NoCall, NoReply
<1>7. LockOn(tree, hold)
    BY <1>2, <1>4 DEF LockOn, Inner
<1>8. CallInv /\ ReplyInv
    BY <1>2, <1>6 DEF CallInv, ReplyInv
<1> QED BY <1>5, <1>6, <1>7, <1>8, LockInvIdle DEF Inv

LEMMA StutterInv ==
    ASSUME Inv, UNCHANGED vars
    PROVE  Inv'
<1>1. /\ setup' = setup /\ tree' = tree /\ hold' = hold /\ clock' = clock
      /\ reply' = reply /\ call' = call
    BY DEF vars
<1>2. TreeInv' /\ ReplyInv'
    BY <1>1 DEF Inv, TreeInv, ReplyInv
<1>3. CallInv'
    BY <1>1 DEF Inv, CallInv, Walking
<1>4. LockInv'
    <2>1. \A id \in Inner(tree) : Holders(id)' = Holders(id)
        BY <1>1 DEF Holders, HeldBy
    <2>2. \A id \in Inner(tree) : Cardinality(Holders(id)') = Cardinality(Holders(id))
        BY <2>1
    <2>3. Inner(tree') = Inner(tree) /\ Ids(tree') = Ids(tree)
        BY <1>1
    <2> QED BY <1>1, <2>2, <2>3 DEF Inv, LockInv
<1> QED BY <1>2, <1>3, <1>4 DEF Inv

LEMMA NextInv == Inv /\ [Next]_vars => Inv'
<1>1. SUFFICES ASSUME Inv, Next \/ UNCHANGED vars PROVE Inv'
    OBVIOUS
<1>2. CASE UNCHANGED vars
    BY <1>1, <1>2, StutterInv
<1>3. CASE Next
    <2>1. setup' = setup
        BY <1>3 DEF Next
    <2>2. CASE \E key \in setup.keys : MatchPrefix(key)
        BY <1>1, <2>1, <2>2, MatchPrefixInv
    <2>3. CASE MatchDescend \/ MatchSplit \/ MatchReturn
        BY <1>1, <2>1, <2>3, MatchDescendInv, MatchSplitInv, MatchReturnInv
    <2>4. CASE \E i \in setup.inserts, p \in setup.priorities : Insert(i[1], i[2], p)
        BY <1>1, <2>1, <2>4, InsertInv
    <2>5. CASE InsertDescend \/ InsertSplit \/ InsertLeaf \/ InsertReturn
        BY <1>1, <2>1, <2>5, InsertDescendInv, InsertSplitInv, InsertLeafInv,
           InsertReturnInv
    <2>6. CASE \E c \in setup.clients : Lock(c)
        BY <1>1, <2>1, <2>6, LockBegins
    <2>7. CASE LockStep \/ LockReturn
        BY <1>1, <2>1, <2>7, LockStepInv, LockEnds
    <2>8. CASE \E c \in setup.clients : Unlock(c)
        BY <1>1, <2>1, <2>8, UnlockBegins
    <2>9. CASE UnlockStep \/ UnlockReturn
        BY <1>1, <2>1, <2>9, UnlockStepInv, UnlockEnds
    <2>10. CASE \E n \in EvictSizes : Evict(n)
        BY <1>1, <2>1, <2>10, EvictBegins
    <2>11. CASE EvictStep \/ EvictReturn
        BY <1>1, <2>1, <2>11, EvictStepInv, EvictEnds
    <2>12. CASE Reset
        BY <1>1, <2>1, <2>12, ResetInv
    <2> QED BY <1>3, <2>2, <2>3, <2>4, <2>5, <2>6, <2>7, <2>8, <2>9, <2>10, <2>11, <2>12
            DEF Next
<1> QED BY <1>1, <1>2, <1>3

\* The tree, its lock counts, leaves, sizes, priorities and times, and the local
\* variables of the call under way, stay as the code of every call expects them.
THEOREM Invariance == Spec => []Inv
<1>1. Init => Inv
    BY InitInv
<1>2. Inv /\ [Next]_vars => Inv'
    BY NextInv
<1> QED BY <1>1, <1>2, PTL DEF Spec

\* Keys, values, lock counts, priorities and times of every node, and the nodes
\* clients hold, are of the types the code gives them.
THEOREM TypeCorrect == Spec => []TypeOK
<1>1. Inv => TypeOK
    <2>1. SUFFICES ASSUME Inv PROVE TypeOK
        OBVIOUS
    <2>2. \A id \in Ids(tree) :
            /\ tree.nodes[id].key \in Seq(Token) /\ tree.nodes[id].value \in Seq(Slot)
            /\ tree.nodes[id].lock_ref \in Nat /\ tree.nodes[id].last_access_time \in Nat
        <3>1. \A id \in Ids(tree) : tree.nodes[id] \in NodeRec
            BY <2>1, InvFacts, TreeFacts
        <3> QED BY <3>1, NodeFields
    <2>3. \A id \in Ids(tree) :
            /\ tree.nodes[id].priority \in setup.priorities \union {MinPriority}
            /\ tree.nodes[id].last_access_time <= clock
        BY <2>1, InvFacts DEF TreeAt, Ranks
    <2>4. \A id \in Ids(tree) : tree.nodes[id].last_access_time \in 0 .. clock
        BY <2>1, <2>2, <2>3, InvFacts
    <2>5. hold \in [Client -> Ids(tree)] /\ clock \in 0 .. setup.max_time
        BY <2>1 DEF Inv, LockInv, TreeInv
    <2> QED BY <2>2, <2>3, <2>4, <2>5 DEF TypeOK, Nodes, Ids
<1> QED BY <1>1, Invariance, PTL

\* Parent and child pointers always form one tree whose paths are the names of
\* its nodes, also while a call is under way.
THEOREM WellFormed == Spec => []TreeWellFormed
<1>1. Inv => TreeWellFormed
    <2>1. SUFFICES ASSUME Inv PROVE TreeWellFormed
        OBVIOUS
    <2>2. Shape(tree)
        BY <2>1, InvFacts
    <2> QED BY <2>2 DEF Shape, TreeWellFormed, Nodes, NonRoot, Ids, Inner, Par, Kids
<1> QED BY <1>1, Invariance, PTL

\* Between calls the lock_ref of a node is the number of clients that hold it or
\* a node below it, whatever was split, inserted or evicted since they locked it.
THEOREM LocksCounted == Spec => []LockRefCounts
<1>1. Inv => LockRefCounts
    <2>1. SUFFICES ASSUME Inv, Idle PROVE LockRefCounts
        BY DEF LockRefCounts
    <2>2. LockOn(tree, hold)
        BY <2>1, LockInvIdle DEF Inv, Idle, NoCall
    <2> QED BY <2>2 DEF LockOn, LockRefCounts, Nodes, Ids, Inner
<1> QED BY <1>1, Invariance, PTL

\* evictable_leaves, kept up to date node by node, is always what a scan of the
\* tree for unlocked leaves would find.
THEOREM LeavesCorrect == Spec => []LeavesExact
<1>1. Inv => LeavesExact
    <2>1. SUFFICES ASSUME Inv PROVE LeavesExact
        OBVIOUS
    <2>2. \A id : id \in tree.evictable_leaves <=> id \in Ids(tree) /\ IsLeaf(tree, id)
        BY <2>1, InvFacts DEF Leaves, RightBut
    <2> QED BY <2>2 DEF LeavesExact, Locked, Nodes, Ids, IsLeaf
<1> QED BY <1>1, Invariance, PTL

\* evictable_size_ and protected_size_ always are the numbers of cached tokens
\* under unlocked and under locked nodes.
THEOREM SizesCorrect == Spec => []SizesExact
<1>1. Inv => SizesExact
    <2>1. SUFFICES ASSUME Inv PROVE SizesExact
        OBVIOUS
    <2>2. Sizes(tree)
        BY <2>1, InvFacts DEF TreeOK
    <2>3. /\ {id \in NonRoot : ~ Locked(id)} = Unlocked(tree)
          /\ {id \in NonRoot : Locked(id)} = LockedIn(tree)
        BY DEF Unlocked, LockedIn, NonRoot, Nodes, Ids, Inner, Locked
    <2> QED BY <2>2, <2>3 DEF Sizes, SizesExact
<1> QED BY <1>1, Invariance, PTL

\* No node ever has a higher priority than its parent.
THEOREM PriorityMonotoneAlways == Spec => []PriorityMonotone
<1>1. Inv => PriorityMonotone
    <2>1. SUFFICES ASSUME Inv PROVE PriorityMonotone
        OBVIOUS
    <2>2. Monotone(tree)
        BY <2>1, InvFacts DEF TreeAt
    <2> QED BY <2>2 DEF Monotone, PriorityMonotone, NonRoot, Nodes, Ids, Inner, Par
<1> QED BY <1>1, Invariance, PTL

-----------------------------------------------------------------------------
(* The order of evictions *)

\* Below every node hangs one without children.
LEMMA LeafBelow ==
    ASSUME NEW s, Typed(s), Shape(s), NEW y \in Ids(s)
    PROVE  \E z \in Ids(s) : IsPrefix(y, z) /\ DOMAIN Kids(s, z) = {}
<1> DEFINE D(x) == {w \in Ids(s) : IsPrefix(x, w)}
           T == {n \in Nat : \E x \in D(y) : n = Cardinality(D(x))}
<1>1. /\ \A x \in Ids(s) : x \in Seq(Token) /\ IsPrefix(x, x)
      /\ IsFiniteSet(Ids(s))
    BY TreeFacts, PrefixReflexive
<1>2. \A x : IsFiniteSet(D(x)) /\ Cardinality(D(x)) \in Nat
    <2> TAKE x
    <2>1. D(x) \in SUBSET Ids(s)
        OBVIOUS
    <2>2. IsFiniteSet(D(x))
        BY <1>1, <2>1, FS_Subset
    <2> QED BY <2>2, FS_CardinalityType
<1>3. y \in D(y)
    BY <1>1
<1>4. T \in SUBSET Nat /\ T # {}
    BY <1>2, <1>3
<1>5. PICK m \in T : \A k \in T : m <= k
    BY <1>4, LeastNumber
<1>6. PICK z \in D(y) : m = Cardinality(D(z))
    BY <1>5
<1>7. ASSUME NEW tok \in DOMAIN Kids(s, z) PROVE FALSE
    <2>1. PICK w : w = Kids(s, z)[tok]
        OBVIOUS
    <2>2. w \in Inner(s) /\ Par(s, w) = z
        BY <1>6, <2>1 DEF Shape
    <2>3. Hangs(s, w, z, s.nodes[w].key)
        BY <2>2, NodeHangs
    <2>4. /\ w \in Ids(s) /\ w \in Seq(Token) /\ z \in Seq(Token) /\ IsPrefix(z, w)
          /\ Len(z) < Len(w) /\ Len(z) \in Nat /\ Len(w) \in Nat
        BY <2>2, <2>3 DEF Hangs, Inner
    <2>5. w \in D(y)
        <3>1. IsPrefix(y, w)
            BY <1>1, <1>6, <2>4, PrefixTransitive
        <3> QED BY <2>4, <3>1
    <2>6. D(w) \in SUBSET D(z)
        <3>1. ASSUME NEW v \in Ids(s), IsPrefix(w, v) PROVE IsPrefix(z, v)
            BY <1>1, <2>4, <3>1, PrefixTransitive
        <3> QED BY <3>1
    <2>7. z \in D(z) /\ z \notin D(w)
        <3>1. ~ IsPrefix(w, z)
            <4>1. IsPrefix(w, z) => Len(w) <= Len(z)
                BY <2>4, PrefixByToken
            <4> QED BY <2>4, <4>1
        <3> QED BY <1>1, <1>6, <3>1
    <2>8. Cardinality(D(w)) <= m /\ Cardinality(D(w)) # m
        BY <1>2, <1>6, <2>6, <2>7, FS_Subset
    <2>9. Cardinality(D(w)) \in T
        BY <1>2, <2>5
    <2>10. m <= Cardinality(D(w)) /\ m \in Nat /\ Cardinality(D(w)) \in Nat
        BY <1>2, <1>4, <1>5, <2>9
    <2> HIDE DEF D
    <2> QED BY <2>8, <2>10
<1> QED BY <1>6, <1>7

\* Priorities do not rise on the way down.
LEMMA PathMonotone ==
    ASSUME NEW s, Typed(s), Shape(s), Monotone(s)
    PROVE  \A y \in Ids(s), z \in Ids(s) :
                IsPrefix(y, z) => s.nodes[z].priority <= s.nodes[y].priority
<1> DEFINE Rises(y, z) == /\ IsPrefix(y, z)
                          /\ ~ (s.nodes[z].priority <= s.nodes[y].priority)
           T == {n \in Nat : \E y \in Ids(s), z \in Ids(s) : Rises(y, z) /\ n = Len(z)}
<1>1. SUFFICES ASSUME NEW u \in Ids(s), NEW v \in Ids(s), Rises(u, v) PROVE FALSE
    OBVIOUS
<1>2. \A x \in Ids(s) : /\ x \in Seq(Token) /\ Len(x) \in Nat
                        /\ s.nodes[x].priority \in Int
    BY RankTypes, LenProperties
<1>3. T \in SUBSET Nat /\ T # {}
    BY <1>1, <1>2
<1>4. PICK m \in T : \A k \in T : m <= k
    BY <1>3, LeastNumber
<1>5. PICK y \in Ids(s), z \in Ids(s) : Rises(y, z) /\ m = Len(z)
    BY <1>4
<1>6. y # z
    BY <1>2, <1>5
<1>7. z \in Inner(s)
    <2>1. IsPrefix(y, Root) => y = Root
        BY <1>2, RootPrefix
    <2> QED BY <1>5, <1>6, <2>1 DEF Inner
<1>8. PICK p : p = Par(s, z)
    OBVIOUS
<1>9. Hangs(s, z, p, s.nodes[z].key)
    BY <1>7, <1>8, NodeHangs
<1>10. p \in Ids(s) /\ Len(p) \in Nat /\ Len(p) < Len(z) /\ IsPrefix(p, z)
    BY <1>9 DEF Hangs
<1>11. Len(y) <= Len(p)
    BY <1>5, <1>6, <1>7, <1>8, NoGap
<1>12. IsPrefix(y, p)
    BY <1>2, <1>5, <1>10, <1>11, PrefixesComparable
<1>13. ~ Rises(y, p)
    <2>1. Rises(y, p) => Len(p) \in T
        BY <1>2, <1>10
    <2>2. Len(p) \in T => m <= Len(p)
        BY <1>4
    <2> HIDE DEF T, Rises
    <2> QED BY <1>2, <1>5, <1>10, <2>1, <2>2
<1>14. s.nodes[p].priority <= s.nodes[y].priority
    BY <1>12, <1>13
<1>15. s.nodes[z].priority <= s.nodes[p].priority
    BY <1>7, <1>8 DEF Monotone
<1>16. s.nodes[z].priority <= s.nodes[y].priority
    BY <1>2, <1>10, <1>14, <1>15
<1> QED BY <1>5, <1>16

\* Nothing that hangs below an unlocked node is locked.
LEMMA UnlockedBelow ==
    ASSUME NEW s, NEW h, TreeOK(s), LockOn(s, h), NEW y \in Inner(s), NEW z \in Ids(s),
           IsPrefix(y, z), ~ (s.nodes[y].lock_ref > 0)
    PROVE  z \in Inner(s) /\ ~ (s.nodes[z].lock_ref > 0)
<1> DEFINE H(x) == {c \in Client : IsPrefix(x, h[c])}
<1>1. Typed(s) /\ y \in Ids(s)
    BY DEF TreeOK, Inner
<1>2. /\ y \in Seq(Token) /\ z \in Seq(Token) /\ s.nodes[y].lock_ref \in Nat
      /\ \A c \in Client : h[c] \in Seq(Token)
    BY <1>1, RankTypes DEF LockOn
<1>3. z \in Inner(s)
    <2>1. IsPrefix(y, Root) => y = Root
        BY <1>2, RootPrefix
    <2> QED BY <2>1 DEF Inner
<1>4. \A x : IsFiniteSet(H(x)) /\ Cardinality(H(x)) \in Nat
    <2> TAKE x
    <2>1. H(x) \in SUBSET Client
        OBVIOUS
    <2>2. IsFiniteSet(H(x))
        BY <2>1, ClientAssumption, FS_Subset
    <2> QED BY <2>2, FS_CardinalityType
<1>5. s.nodes[y].lock_ref = Cardinality(H(y)) /\ s.nodes[z].lock_ref = Cardinality(H(z))
    BY <1>3 DEF LockOn
<1>6. H(z) \in SUBSET H(y)
    <2>1. ASSUME NEW c \in Client, IsPrefix(z, h[c]) PROVE IsPrefix(y, h[c])
        BY <1>2, <2>1, PrefixTransitive
    <2> QED BY <2>1
<1>7. Cardinality(H(z)) <= Cardinality(H(y))
    BY <1>4, <1>6, FS_Subset
<1> HIDE DEF H
<1> QED BY <1>2, <1>3, <1>4, <1>5, <1>7

\* What evict must observe between a node it drops and one it keeps: leaf says
\* whether the latter was a leaf from the start.
InOrder(dropped, kept, leaf) ==
    /\ setup.policy = "priority" => dropped.priority <= kept.priority
    /\ setup.policy \in {"lru", "lfu"} =>
            dropped.last_access_time <= kept.last_access_time + 1
    /\ leaf =>
        /\ setup.policy = "fifo" => dropped.creation_time <= kept.creation_time
        /\ setup.policy = "filo" => dropped.creation_time >= kept.creation_time
        /\ setup.policy = "mru" => dropped.last_access_time >= kept.last_access_time

\* A node that heappop may return is in order with every leaf of the heap.
LEMMA PoppedBeforeLeaves ==
    ASSUME NEW s, Typed(s), NEW heap \in SUBSET Ids(s), NEW x \in Poppable(s, heap),
           NEW z \in heap
    PROVE  /\ setup.policy = "priority" => s.nodes[x].priority <= s.nodes[z].priority
           /\ setup.policy \in {"lru", "lfu"} =>
                    s.nodes[x].last_access_time <= s.nodes[z].last_access_time
           /\ InOrder(s.nodes[x], s.nodes[z], TRUE)
<1>1. PICK a : a = s.nodes[x]
    OBVIOUS
<1>2. PICK b : b = s.nodes[z]
    OBVIOUS
<1>3. /\ a.last_access_time \in Nat /\ a.creation_time \in Nat /\ a.priority \in Int
      /\ b.last_access_time \in Nat /\ b.creation_time \in Nat /\ b.priority \in Int
    <2>1. a \in NodeRec /\ b \in NodeRec
        BY <1>1, <1>2, TreeFacts DEF Poppable
    <2> QED BY <2>1, NodeFields
<1>4. ~ Before(HeapKey(b), HeapKey(a))
    BY <1>1, <1>2 DEF Poppable
<1>5. CASE setup.policy = "priority"
    <2>1. /\ HeapKey(a) = <<a.priority, a.last_access_time>>
          /\ HeapKey(b) = <<b.priority, b.last_access_time>>
        BY <1>5 DEF HeapKey
    <2>2. a.priority <= b.priority
        BY <1>3, <1>4, <2>1 DEF Before
    <2> QED BY <1>1, <1>2, <1>5, <2>2 DEF InOrder
<1>6. CASE setup.policy = "lru"
    <2>1. /\ HeapKey(a) = <<a.last_access_time, a.last_access_time>>
          /\ HeapKey(b) = <<b.last_access_time, b.last_access_time>>
        BY <1>6 DEF HeapKey
    <2>2. a.last_access_time <= b.last_access_time
        BY <1>3, <1>4, <2>1 DEF Before
    <2>3. a.last_access_time <= b.last_access_time + 1
        BY <1>3, <2>2
    <2> QED BY <1>1, <1>2, <1>6, <2>2, <2>3 DEF InOrder
<1>7. CASE setup.policy = "lfu"
    <2>1. /\ HeapKey(a) = <<0, a.last_access_time>>
          /\ HeapKey(b) = <<0, b.last_access_time>>
        BY <1>7 DEF HeapKey
    <2>2. a.last_access_time <= b.last_access_time
        BY <1>3, <1>4, <2>1 DEF Before
    <2>3. a.last_access_time <= b.last_access_time + 1
        BY <1>3, <2>2
    <2> QED BY <1>1, <1>2, <1>7, <2>2, <2>3 DEF InOrder
<1>8. CASE setup.policy = "fifo"
    <2>1. /\ HeapKey(a) = <<a.creation_time, a.last_access_time>>
          /\ HeapKey(b) = <<b.creation_time, b.last_access_time>>
        BY <1>8 DEF HeapKey
    <2>2. a.creation_time <= b.creation_time
        BY <1>3, <1>4, <2>1 DEF Before
    <2> QED BY <1>1, <1>2, <1>8, <2>2 DEF InOrder
<1>9. CASE setup.policy = "filo"
    <2>1. /\ HeapKey(a) = <<-a.creation_time, a.last_access_time>>
          /\ HeapKey(b) = <<-b.creation_time, b.last_access_time>>
        BY <1>9 DEF HeapKey
    <2>2. a.creation_time >= b.creation_time
        BY <1>3, <1>4, <2>1 DEF Before
    <2> QED BY <1>1, <1>2, <1>9, <2>2 DEF InOrder
<1>10. CASE setup.policy = "mru"
    <2>1. /\ HeapKey(a) = <<-a.last_access_time, a.last_access_time>>
          /\ HeapKey(b) = <<-b.last_access_time, b.last_access_time>>
        BY <1>10 DEF HeapKey
    <2>2. a.last_access_time >= b.last_access_time
        BY <1>3, <1>4, <2>1 DEF Before
    <2> QED BY <1>1, <1>2, <1>10, <2>2 DEF InOrder
<1>11. CASE setup.policy \notin {"priority", "lru", "lfu", "fifo", "filo", "mru"}
    BY <1>11 DEF InOrder
<1> QED BY <1>5, <1>6, <1>7, <1>8, <1>9, <1>10, <1>11

\* And with every node that is not locked: the leaves below it are not either,
\* and are no more important, and used no earlier, than the node.
LEMMA PoppedInOrder ==
    ASSUME NEW s, NEW P, NEW now, TreeAt(s, P, now), NEW h, LockOn(s, h),
           NEW x \in Poppable(s, s.evictable_leaves), NEW y \in Inner(s),
           ~ (s.nodes[y].lock_ref > 0)
    PROVE  InOrder(s.nodes[x], s.nodes[y], DOMAIN Kids(s, y) = {})
<1>1. TreeOK(s) /\ Typed(s) /\ Shape(s) /\ Leaves(s) /\ Monotone(s) /\ Recent(s)
    BY DEF TreeAt, TreeOK
<1>2. \A w : w \in s.evictable_leaves <=> w \in Ids(s) /\ IsLeaf(s, w)
    BY <1>1 DEF Leaves, RightBut
<1>3. s.evictable_leaves \in SUBSET Ids(s) /\ x \in Ids(s) /\ y \in Ids(s)
    BY <1>2 DEF Poppable, Inner
<1>4. PICK z \in Ids(s) : IsPrefix(y, z) /\ DOMAIN Kids(s, z) = {}
    BY <1>1, <1>3, LeafBelow
<1>5. z \in s.evictable_leaves
    BY <1>1, <1>2, <1>4, UnlockedBelow DEF IsLeaf, Kids
<1>6. /\ setup.policy = "priority" => s.nodes[x].priority <= s.nodes[z].priority
      /\ setup.policy \in {"lru", "lfu"} =>
            s.nodes[x].last_access_time <= s.nodes[z].last_access_time
    BY <1>1, <1>3, <1>5, PoppedBeforeLeaves
<1>7. /\ s.nodes[z].priority <= s.nodes[y].priority
      /\ s.nodes[z].last_access_time <= s.nodes[y].last_access_time + 1
    BY <1>1, <1>3, <1>4, PathMonotone DEF Recent
<1>8. /\ setup.policy = "priority" => s.nodes[x].priority <= s.nodes[y].priority
      /\ setup.policy \in {"lru", "lfu"} =>
            s.nodes[x].last_access_time <= s.nodes[y].last_access_time + 1
    <2>1. \A w \in Ids(s) : /\ s.nodes[w].priority \in Int
                            /\ s.nodes[w].last_access_time \in Nat
        BY <1>1, RankTypes
    <2> QED BY <1>3, <1>6, <1>7, <2>1
<1>9. DOMAIN Kids(s, y) = {} => y \in s.evictable_leaves
    BY <1>2, <1>3 DEF IsLeaf, Kids
<1>10. DOMAIN Kids(s, y) = {} => InOrder(s.nodes[x], s.nodes[y], TRUE)
    BY <1>1, <1>3, <1>9, PoppedBeforeLeaves
<1> QED BY <1>8, <1>10 DEF InOrder

\* s is what evictions have left of b.
Thinned(b, s) ==
    /\ Ids(s) \subseteq Ids(b)
    /\ \A y \in Ids(s) : /\ SameBody(b.nodes[y], s.nodes[y])
                         /\ DOMAIN Kids(s, y) \subseteq DOMAIN Kids(b, y)

EvictInv ==
    call.op = "evict" =>
        /\ Thinned(call.before, tree)
        /\ \A x \in Ids(call.before) \ Ids(tree), y \in Inner(tree) :
            ~ (tree.nodes[y].lock_ref > 0) =>
                InOrder(call.before.nodes[x], tree.nodes[y],
                        DOMAIN Kids(call.before, y) = {})

\* No other step leads into an eviction.
LEMMA OnlyEvict ==
    ASSUME Inv, Next
    PROVE  call'.op = "evict" => (\E n \in EvictSizes : Evict(n)) \/ EvictStep
<1>1. CASE \/ \E key \in setup.keys : MatchPrefix(key)
           \/ \E i \in setup.inserts, p \in setup.priorities : Insert(i[1], i[2], p)
           \/ \E c \in setup.clients : Lock(c)
           \/ \E c \in setup.clients : Unlock(c)
           \/ Reset
    BY <1>1 DEF MatchPrefix, Insert, Lock, Unlock, Reset, Return, NoCall
<1>2. CASE MatchSplit \/ MatchReturn \/ InsertLeaf \/ InsertReturn \/ LockReturn
           \/ UnlockReturn \/ EvictReturn
    BY <1>2 DEF MatchSplit, MatchReturn, InsertLeaf, InsertReturn, LockReturn,
                UnlockReturn, EvictReturn, Return, NoCall
<1>3. CASE MatchDescend
    <2>1. call \in MatchCalls
        BY <1>3 DEF MatchDescend, Inv, CallInv
    <2>2. call'.op = call.op
        BY <1>3, <2>1 DEF MatchDescend, MatchCalls
    <2> QED BY <1>3, <2>2 DEF MatchDescend
<1>4. CASE InsertDescend \/ InsertSplit
    <2>1. call \in InsertCalls
        BY <1>4 DEF InsertDescend, InsertSplit, Inv, CallInv
    <2>2. call'.op = call.op
        BY <1>4, <2>1 DEF InsertDescend, InsertSplit, InsertCalls
    <2> QED BY <1>4, <2>2 DEF InsertDescend, InsertSplit
<1>5. CASE LockStep \/ UnlockStep
    <2>1. call \in LockCalls("lock") \/ call \in LockCalls("unlock")
        BY <1>5 DEF LockStep, UnlockStep, Inv, CallInv
    <2>2. call'.op = call.op
        BY <1>5, <2>1 DEF LockStep, UnlockStep, LockCalls
    <2> QED BY <1>5, <2>2 DEF LockStep, UnlockStep
<1>6. CASE (\E n \in EvictSizes : Evict(n)) \/ EvictStep
    BY <1>6
<1> QED BY <1>1, <1>2, <1>3, <1>4, <1>5, <1>6 DEF Next

LEMMA EvictStepInOrder ==
    ASSUME Inv, EvictInv, EvictStep, setup' = setup
    PROVE  EvictInv'
<1>1. call.op = "evict"
    BY DEF EvictStep
<1>2. PICK x \in Poppable(tree, call.heap) :
        /\ tree' = DeleteLeaf(tree, x)
        /\ call' = [call EXCEPT !.heap = (call.heap \ {x}) \union PushedBy(tree, x),
                                !.num = call.num + Len(tree.nodes[x].value),
                                !.freed = call.freed \union ToSet(tree.nodes[x].value)]
    BY DEF EvictStep
<1>3. /\ call \in EvictCalls /\ call.heap = tree.evictable_leaves /\ LockOn(tree, hold)
    BY <1>1, LockInvIdle DEF Inv, CallInv
<1>4. PICK b : b = call.before
    OBVIOUS
<1>5. call'.before = b
    BY <1>2, <1>3, <1>4 DEF EvictCalls
<1>6. x \in Poppable(tree, tree.evictable_leaves) /\ x \in tree.evictable_leaves
      /\ tree.nodes[Root].lock_ref > 0
    BY <1>2, <1>3 DEF Poppable, LockOn
<1>7. PICK s2 : s2 = tree'
    OBVIOUS
<1>8. PICK p : p = Par(tree, x)
    OBVIOUS
<1>9. PICK tok : tok = tree.nodes[x].key[1]
    OBVIOUS
<1>10. /\ x \in Inner(tree) /\ Pruned(tree, s2, x, p, tok)
    BY <1>2, <1>6, <1>7, <1>8, <1>9, InvFacts, DeleteOK
<1>11. Thinned(b, tree)
    BY <1>1, <1>4 DEF EvictInv
<1>12. x \in Ids(tree) /\ Ids(s2) = Ids(tree) \ {x}
    BY <1>10 DEF Pruned, Inner
<1>13. \A y \in Ids(s2) : /\ y \in Ids(tree) /\ SameBody(tree.nodes[y], s2.nodes[y])
                          /\ DOMAIN Kids(s2, y) \subseteq DOMAIN Kids(tree, y)
    <2> TAKE y \in Ids(s2)
    <2>1. y \in Ids(tree) /\ y # x /\ SameBody(tree.nodes[y], s2.nodes[y])
        BY <1>10, <1>12 DEF Pruned
    <2>2. DOMAIN Kids(s2, y) \subseteq DOMAIN Kids(tree, y)
        BY <1>10, <2>1 DEF Pruned
    <2> QED BY <2>1, <2>2
<1>14. Thinned(b, s2)
    BY <1>11, <1>13 DEF Thinned, SameBody
<1>15. ASSUME NEW w \in Ids(b) \ Ids(s2), NEW y \in Inner(s2),
              ~ (s2.nodes[y].lock_ref > 0)
       PROVE  InOrder(b.nodes[w], s2.nodes[y], DOMAIN Kids(b, y) = {})
    <2>1. y \in Ids(s2) /\ y \in Inner(tree) /\ ~ (tree.nodes[y].lock_ref > 0)
        BY <1>13, <1>15 DEF Inner, SameBody
    <2>2. InOrder(b.nodes[w], tree.nodes[y], DOMAIN Kids(b, y) = {})
        <3>1. CASE w = x
            <4>1. InOrder(tree.nodes[x], tree.nodes[y], DOMAIN Kids(tree, y) = {})
                BY <1>3, <1>6, <2>1, InvFacts, PoppedInOrder
            <4>2. SameBody(b.nodes[x], tree.nodes[x])
                BY <1>11, <1>12 DEF Thinned
            <4>3. DOMAIN Kids(b, y) = {} => DOMAIN Kids(tree, y) = {}
                BY <1>11, <1>13, <2>1 DEF Thinned
            <4> QED BY <3>1, <4>1, <4>2, <4>3 DEF InOrder, SameBody
        <3>2. CASE w # x
            <4>1. w \in Ids(b) \ Ids(tree)
                BY <1>12, <1>15, <3>2
            <4> QED BY <1>1, <1>4, <2>1, <4>1 DEF EvictInv
        <3> QED BY <3>1, <3>2
    <2>3. SameBody(tree.nodes[y], s2.nodes[y])
        BY <1>13, <2>1
    <2> QED BY <2>2, <2>3 DEF InOrder, SameBody
<1> QED BY <1>5, <1>7, <1>14, <1>15 DEF EvictInv, InOrder

LEMMA EvictInvNext == Inv /\ EvictInv /\ [Next]_vars => EvictInv'
<1>1. SUFFICES ASSUME Inv, EvictInv, Next \/ UNCHANGED vars PROVE EvictInv'
    OBVIOUS
<1>2. CASE UNCHANGED vars
    BY <1>1, <1>2 DEF vars, EvictInv, InOrder
<1>3. CASE Next /\ call'.op # "evict"
    BY <1>3 DEF EvictInv
<1>4. CASE Next /\ \E n \in EvictSizes : Evict(n)
    <2>1. call'.before = tree /\ tree' = tree
        BY <1>4 DEF Evict
    <2>2. Thinned(tree, tree)
        BY DEF Thinned, SameBody
    <2> QED BY <2>1, <2>2 DEF EvictInv
<1>5. CASE Next /\ EvictStep
    BY <1>1, <1>5, EvictStepInOrder DEF Next
<1> QED BY <1>1, <1>2, <1>3, <1>4, <1>5, OnlyEvict

\* Whatever an eviction has dropped comes before all it could still drop: under
\* priority, lru and lfu over the whole tree, though the heap holds leaves only,
\* under fifo, filo and mru over the leaves it started with.
THEOREM EvictionsFollowThePolicy == Spec => []EvictionOrder
<1>1. Init => EvictInv
    BY DEF Init, NoCall, EvictInv
<1>2. Inv /\ EvictInv => EvictionOrder
    <2>1. SUFFICES ASSUME Inv, EvictInv, call.op = "evict"
                   PROVE  PriorityOrder /\ LruOrder /\ LeafOrder
        BY DEF EvictionOrder
    <2>2. \A x \in Dropped, y \in Kept :
            /\ InOrder(call.before.nodes[x], tree.nodes[y],
                       DOMAIN call.before.nodes[y].children = {})
        BY <2>1 DEF EvictInv, Dropped, Kept, Nodes, NonRoot, Locked, Ids, Inner, Kids
    <2>3. PriorityOrder
        BY <2>2 DEF PriorityOrder, InOrder
    <2>4. LruOrder
        BY <2>2 DEF LruOrder, InOrder
    <2>5. LeafOrder
        BY <2>2 DEF LeafOrder, InOrder
    <2> QED BY <2>3, <2>4, <2>5
<1> QED BY <1>1, <1>2, InitInv, NextInv, EvictInvNext, PTL DEF Spec

-----------------------------------------------------------------------------
(* The map a tree stands for *)

\* f has an entry for every token of every node, with the slot the node gives it.
Represents(f, s) ==
    /\ f \in [EntriesOfAll(s, Inner(s)) -> Slot]
    /\ \A x \in Inner(s) : \A p \in EntriesOf(s, x) :
        f[p] = s.nodes[x].value[Len(p) - Len(Par(s, x))]

LEMMA RepresentsOnce ==
    ASSUME NEW s, NEW f, NEW g, Represents(f, s), Represents(g, s)
    PROVE  f = g
<1> DEFINE E == EntriesOfAll(s, Inner(s))
<1>1. f \in [E -> Slot] /\ g \in [E -> Slot]
    BY DEF Represents
<1>2. ASSUME NEW p \in E PROVE f[p] = g[p]
    <2>1. PICK x \in Inner(s) : p \in EntriesOf(s, x)
        BY DEF EntriesOfAll
    <2> QED BY <2>1 DEF Represents
<1> HIDE DEF E
<1> QED BY <1>1, <1>2

\* Where in its node's value an entry has its slot.
LEMMA EntrySlot ==
    ASSUME NEW s, Typed(s), Shape(s), NEW x \in Inner(s), NEW p \in EntriesOf(s, x)
    PROVE  /\ p \in Seq(Token) /\ Len(p) \in Nat /\ Len(Par(s, x)) \in Nat
           /\ Len(p) - Len(Par(s, x)) \in 1 .. Len(s.nodes[x].value)
           /\ s.nodes[x].value[Len(p) - Len(Par(s, x))] \in Slot
<1>1. /\ x \in Seq(Token) /\ Len(x) \in Nat /\ Len(Par(s, x)) \in Nat
      /\ s.nodes[x].value \in Seq(Slot)
      /\ Len(s.nodes[x].value) = Len(x) - Len(Par(s, x))
    BY NodeFacts
<1>2. p \in Seq(Token) /\ IsPrefix(p, x) /\ Len(Par(s, x)) < Len(p)
    BY EntryFacts
<1>3. Len(p) \in Nat /\ Len(p) <= Len(x)
    BY <1>1, <1>2, PrefixByToken, LenProperties
<1>4. Len(p) - Len(Par(s, x)) \in 1 .. Len(s.nodes[x].value)
    BY <1>1, <1>2, <1>3
<1> QED BY <1>1, <1>2, <1>3, <1>4, ElementOfSeq

LEMMA MapRepresents ==
    ASSUME NEW s, Typed(s), Shape(s)
    PROVE  Represents(MapOf(s), s)
<1>1. EntriesOfAll(s, DOMAIN s.nodes) = EntriesOfAll(s, Inner(s))
    BY RootHasNoEntry DEF EntriesOfAll, Inner, Ids
<1>2. ASSUME NEW x \in Inner(s), NEW p \in EntriesOf(s, x) PROVE Holder(s, p) = x
    <2>1. x \in DOMAIN s.nodes
        BY DEF Inner, Ids
    <2>2. Holder(s, p) \in DOMAIN s.nodes /\ p \in EntriesOf(s, Holder(s, p))
        BY <2>1 DEF Holder
    <2>3. Holder(s, p) \in Inner(s)
        BY <2>2, RootHasNoEntry DEF Inner, Ids
    <2> QED BY <2>2, <2>3, EntriesDisjoint
<1>3. ASSUME NEW x \in Inner(s), NEW p \in EntriesOf(s, x)
      PROVE  /\ p \in EntriesOfAll(s, Inner(s))
             /\ MapOf(s)[p] = s.nodes[x].value[Len(p) - Len(Par(s, x))]
    <2>1. p \in EntriesOfAll(s, Inner(s))
        BY DEF EntriesOfAll
    <2> QED BY <1>1, <1>2, <2>1 DEF MapOf, Par
<1>4. ASSUME NEW p \in EntriesOfAll(s, Inner(s)) PROVE MapOf(s)[p] \in Slot
    <2>1. PICK x \in Inner(s) : p \in EntriesOf(s, x)
        BY DEF EntriesOfAll
    <2> QED BY <1>3, <2>1, EntrySlot
<1>5. MapOf(s) = [p \in EntriesOfAll(s, Inner(s)) |-> MapOf(s)[p]]
    BY <1>1 DEF MapOf
<1>6. MapOf(s) \in [EntriesOfAll(s, Inner(s)) -> Slot]
    BY <1>4, <1>5
<1> QED BY <1>3, <1>6 DEF Represents

\* The entries are the prefixes of the nodes.
LEMMA EntriesArePrefixes ==
    ASSUME NEW s, Typed(s), Shape(s)
    PROVE  \A p : p \in EntriesOfAll(s, Inner(s)) <=>
                    p \in Seq(Token) /\ p # Root /\ \E x \in Ids(s) : IsPrefix(p, x)
<1> TAKE p
<1>1. ASSUME p \in EntriesOfAll(s, Inner(s))
      PROVE  p \in Seq(Token) /\ p # Root /\ \E x \in Ids(s) : IsPrefix(p, x)
    <2>1. PICK x \in Inner(s) : p \in EntriesOf(s, x)
        BY <1>1 DEF EntriesOfAll
    <2>2. p \in Seq(Token) /\ IsPrefix(p, x) /\ Len(Par(s, x)) < Len(p)
        BY <2>1, EntryFacts
    <2>3. Len(Par(s, x)) \in Nat /\ Len(p) \in Nat
        BY <2>2, NodeFacts, LenProperties
    <2>4. p # Root
        BY <2>2, <2>3, RootPrefix
    <2> QED BY <2>2, <2>4 DEF Inner
<1>2. ASSUME p \in Seq(Token), p # Root, NEW x \in Ids(s), IsPrefix(p, x)
      PROVE  p \in EntriesOfAll(s, Inner(s))
    BY <1>2, EntryOnPath DEF EntriesOfAll
<1> QED BY <1>1, <1>2

\* The map is one that PrefixMap's lemmas are about.
LEMMA MapFacts ==
    ASSUME NEW s, Typed(s), Shape(s)
    PROVE  /\ DOMAIN MapOf(s) = EntriesOfAll(s, Inner(s))
           /\ MapOf(s) \in [DOMAIN MapOf(s) -> Slot]
           /\ DOMAIN MapOf(s) \subseteq Seq(Token) \ {<<>>}
           /\ IsPrefixClosed(MapOf(s))
<1>1. MapOf(s) \in [EntriesOfAll(s, Inner(s)) -> Slot]
    BY MapRepresents DEF Represents
<1>2. DOMAIN MapOf(s) = EntriesOfAll(s, Inner(s))
    BY <1>1
<1>3. \A p \in DOMAIN MapOf(s) : p \in Seq(Token) /\ p # Root
    BY <1>2, EntriesArePrefixes
<1>4. ASSUME NEW p \in DOMAIN MapOf(s), NEW q \in PrefixesOf(p)
      PROVE  q \in DOMAIN MapOf(s)
    <2>1. p \in Seq(Token)
        BY <1>3
    <2>2. PICK x \in Ids(s) : IsPrefix(p, x)
        BY <1>2, EntriesArePrefixes
    <2>3. q \in Seq(Token) /\ q # <<>>
        BY <2>1, PrefixesOfType
    <2>4. IsPrefix(q, p)
        BY <2>1, <2>3, PrefixesOfIsPrefix
    <2>5. x \in Seq(Token)
        BY TreeFacts
    <2>6. IsPrefix(q, x)
        BY <2>1, <2>2, <2>3, <2>4, <2>5, PrefixTransitive
    <2> QED BY <1>2, <2>3, <2>6, EntriesArePrefixes DEF Root
<1>5. IsPrefixClosed(MapOf(s))
    BY <1>4 DEF IsPrefixClosed
<1> QED BY <1>1, <1>2, <1>3, <1>5 DEF Root
\* Times, priorities and locks are not in the map.
LEMMA SameLinksMap ==
    ASSUME NEW s, Typed(s), Shape(s), NEW s2, Typed(s2), SameLinks(s, s2)
    PROVE  MapOf(s2) = MapOf(s)
<1>1. Shape(s2)
    BY SameLinksShape
<1>2. Inner(s2) = Inner(s) /\ \A x \in Inner(s) : Par(s2, x) = Par(s, x)
    BY DEF SameLinks, Inner, Par
<1>3. /\ \A x \in Inner(s) : EntriesOf(s2, x) = EntriesOf(s, x)
      /\ EntriesOfAll(s2, Inner(s)) = EntriesOfAll(s, Inner(s))
    BY <1>2, SameEntries
<1>4. \A x \in Inner(s) : s2.nodes[x].value = s.nodes[x].value
    BY DEF SameLinks, Inner
<1>5. Represents(MapOf(s2), s2)
    BY <1>1, MapRepresents
<1>6. Represents(MapOf(s2), s)
    BY <1>2, <1>3, <1>4, <1>5 DEF Represents
<1> QED BY <1>6, MapRepresents, RepresentsOnce

\* The slots of a node that is split go to its two parts.
LEMMA SplitValues ==
    ASSUME NEW s, Typed(s), Shape(s), NEW child \in Inner(s), NEW u \in Nat,
           NEW n \in Nat, 0 < n, n < Len(s.nodes[child].key), NEW s2,
           SplitAt(s, s2, child, n, u)
    PROVE  LET new == SplitName(s, child, n)
           IN  /\ s2.nodes[new].value = Take(s.nodes[child].value, n)
               /\ s2.nodes[child].value = Drop(s.nodes[child].value, n)
               /\ Kids(s2, new) = Only(s.nodes[child].key[n + 1], child)
               /\ Len(new) = Len(Par(s, child)) + n
<1> DEFINE old == s.nodes[child]
           new == SplitName(s, child, n)
<1>1. old \in NodeRec
    BY TreeFacts DEF Inner
<1>2. /\ s2.nodes[new] = UpperNode(old, child, n, u)
      /\ s2.nodes[child] = LowerNode(old, new, n)
    BY DEF SplitAt, IsSplit
<1>3. Len(new) = Len(Par(s, child)) + n
    BY SplitParts
<1> HIDE DEF old, new
<1>4. LowerNode(old, new, n).value = Drop(old.value, n)
    BY <1>1 DEF LowerNode, NodeRec
<1>5. /\ s2.nodes[new].value = Take(old.value, n)
      /\ s2.nodes[child].value = Drop(old.value, n)
      /\ Kids(s2, new) = Only(old.key[n + 1], child)
    BY <1>2, <1>4 DEF UpperNode, TreeNode, Kids
<1> QED BY <1>3, <1>5 DEF old, new

LEMMA SplitMap ==
    ASSUME NEW s, Typed(s), Shape(s), NEW s2, Typed(s2), Shape(s2), NEW child \in Inner(s),
           NEW u \in Nat, NEW n \in Nat, 0 < n, n < Len(s.nodes[child].key),
           SplitAt(s, s2, child, n, u)
    PROVE  MapOf(s2) = MapOf(s)
<1>1. PICK new, p, value :
        new = SplitName(s, child, n) /\ p = Par(s, child) /\ value = s.nodes[child].value
    OBVIOUS
<1>2. SplitLinks(s, s2, child, p, new)
    BY <1>1, SplitDigest
<1>3. /\ s2.nodes[new].value = Take(value, n) /\ s2.nodes[child].value = Drop(value, n)
      /\ Len(new) = Len(p) + n
    BY <1>1, SplitValues
<1>4. /\ value \in Seq(Slot) /\ Len(value) = Len(s.nodes[child].key)
      /\ Len(p) \in Nat /\ Len(value) \in Nat /\ n \in 0 .. Len(value)
    <2>1. value \in Seq(Slot) /\ Len(p) \in Nat /\ Len(value) = Len(s.nodes[child].key)
        BY <1>1, NodeFacts
    <2>2. Len(value) \in Nat
        BY <2>1, LenProperties
    <2>3. n \in 0 .. Len(value)
        BY <2>1, <2>2
    <2> QED BY <2>1, <2>2, <2>3
<1>5. /\ EntriesOf(s, child) = EntriesOf(s2, new) \union EntriesOf(s2, child)
      /\ \A x \in Inner(s) \ {child} : EntriesOf(s2, x) = EntriesOf(s, x)
    BY <1>2, SplitEntries
<1>6. EntriesOfAll(s2, Inner(s2)) = EntriesOfAll(s, Inner(s))
    <2>1. Inner(s2) = Inner(s) \union {new}
        BY <1>2 DEF SplitLinks
    <2>2. ASSUME NEW q \in EntriesOfAll(s2, Inner(s2)) PROVE q \in EntriesOfAll(s, Inner(s))
        <3>1. PICK x \in Inner(s2) : q \in EntriesOf(s2, x)
            BY DEF EntriesOfAll
        <3>2. \E y \in Inner(s) : q \in EntriesOf(s, y)
            BY <1>5, <2>1, <3>1
        <3> QED BY <3>2 DEF EntriesOfAll
    <2>3. ASSUME NEW q \in EntriesOfAll(s, Inner(s)) PROVE q \in EntriesOfAll(s2, Inner(s2))
        <3>1. PICK x \in Inner(s) : q \in EntriesOf(s, x)
            BY DEF EntriesOfAll
        <3>2. \E y \in Inner(s2) : q \in EntriesOf(s2, y)
            BY <1>5, <2>1, <3>1
        <3> QED BY <3>2 DEF EntriesOfAll
    <2> QED BY <2>2, <2>3
<1>7. /\ child \in Inner(s2) /\ new \in Inner(s2) /\ Par(s2, new) = p /\ Par(s2, child) = new
      /\ \A x \in Inner(s) \ {child} :
            /\ x \in Inner(s2) /\ Par(s2, x) = Par(s, x)
            /\ s2.nodes[x].value = s.nodes[x].value
    BY <1>2 DEF SplitLinks, SameLink, Inner
<1>8. Represents(MapOf(s2), s2)
    BY MapRepresents
<1>9. ASSUME NEW q \in EntriesOf(s, child)
      PROVE  MapOf(s2)[q] = value[Len(q) - Len(p)]
    <2>1. CASE q \in EntriesOf(s2, new)
        <3>1. MapOf(s2)[q] = Take(value, n)[Len(q) - Len(p)]
            BY <1>3, <1>7, <1>8, <2>1 DEF Represents
        <3>2. Len(Take(value, n)) = n /\ \A i \in 1 .. n : Take(value, n)[i] = value[i]
            BY <1>4, TakeProperties
        <3>3. Len(q) - Len(p) \in 1 .. n
            <4>1. Len(q) - Len(Par(s2, new)) \in 1 .. Len(s2.nodes[new].value)
                BY <1>7, <2>1, EntrySlot
            <4> QED BY <1>3, <1>7, <3>2, <4>1
        <3> QED BY <3>1, <3>2, <3>3
    <2>2. CASE q \in EntriesOf(s2, child)
        <3>1. MapOf(s2)[q] = Drop(value, n)[Len(q) - Len(new)]
            BY <1>3, <1>7, <1>8, <2>2 DEF Represents
        <3>2. /\ Len(Drop(value, n)) = Len(value) - n
              /\ \A i \in 1 .. Len(value) - n : Drop(value, n)[i] = value[n + i]
            BY <1>4, DropProperties
        <3>3. Len(q) - Len(new) \in 1 .. Len(value) - n /\ Len(q) \in Nat
            <4>1. /\ Len(q) \in Nat
                  /\ Len(q) - Len(Par(s2, child)) \in 1 .. Len(s2.nodes[child].value)
                BY <1>7, <2>2, EntrySlot
            <4> QED BY <1>3, <1>7, <3>2, <4>1
        <3>4. Drop(value, n)[Len(q) - Len(new)] = value[n + (Len(q) - Len(new))]
            BY <3>2, <3>3
        <3>5. n + (Len(q) - Len(new)) = Len(q) - Len(p)
            BY <1>3, <1>4, <3>3
        <3> QED BY <3>1, <3>4, <3>5
    <2> QED BY <1>5, <2>1, <2>2
<1>10. ASSUME NEW x \in Inner(s), NEW q \in EntriesOf(s, x)
       PROVE  MapOf(s2)[q] = s.nodes[x].value[Len(q) - Len(Par(s, x))]
    <2>1. CASE x = child
        BY <1>1, <1>9, <2>1
    <2>2. CASE x # child
        BY <1>5, <1>7, <1>8, <2>2 DEF Represents
    <2> QED BY <2>1, <2>2
<1>11. Represents(MapOf(s2), s)
    BY <1>6, <1>8, <1>10 DEF Represents
<1> QED BY <1>11, MapRepresents, RepresentsOnce

\* Where a walk ends, the longest cached prefix ends.
LEMMA WalkEnds ==
    ASSUME NEW s, Typed(s), Shape(s), NEW node \in Ids(s), NEW key \in Seq(Token),
           IsPrefix(node, key),
           Len(node) < Len(key) => key[Len(node) + 1] \notin DOMAIN Kids(s, node)
    PROVE  MatchLen(MapOf(s), key) = Len(node) /\ MatchedKey(MapOf(s), key) = node
<1>1. PICK f : f = MapOf(s)
    OBVIOUS
<1>2. DOMAIN f = EntriesOfAll(s, Inner(s)) /\ IsPrefixClosed(f)
    BY <1>1, MapFacts
<1>3. PICK m : m = MatchLen(f, key)
    OBVIOUS
<1>4. PICK found : found = MatchedKey(f, key)
    OBVIOUS
<1>5. /\ m \in 0 .. Len(key) /\ found \in Seq(Token) /\ Len(found) = m
      /\ PrefixesOf(found) \subseteq DOMAIN f
      /\ \A n \in 1 .. Len(key) : Take(key, n) \in DOMAIN f => n <= m
      /\ found = Take(key, m)
    BY <1>2, <1>3, <1>4, MatchProperties DEF MatchedKey
<1>6. /\ node \in Seq(Token) /\ Len(node) \in Nat /\ Len(key) \in Nat
      /\ Len(node) <= Len(key) /\ node = Take(key, Len(node))
    BY TreeFacts, LenProperties, PrefixIsTake
<1>7. Len(node) <= m
    <2>1. CASE Len(node) = 0
        BY <1>5, <2>1
    <2>2. CASE Len(node) # 0
        <3>1. node # Root
            BY <1>6, <2>2, RootPrefix
        <3>2. IsPrefix(node, node)
            BY <1>6, PrefixReflexive
        <3>3. node \in DOMAIN f
            BY <1>2, <1>6, <3>1, <3>2, EntriesArePrefixes
        <3> QED BY <1>5, <1>6, <2>2, <3>3
    <2> QED BY <2>1, <2>2
<1>8. ~ (Len(node) < m)
    <2> SUFFICES ASSUME Len(node) < m PROVE FALSE
        OBVIOUS
    <2>1. found # <<>>
        BY <1>5, <1>6, RootPrefix DEF Root
    <2>2. found \in DOMAIN f
        BY <1>5, <2>1, KeyIsPrefixOfItself
    <2>3. PICK x \in Ids(s) : IsPrefix(found, x)
        BY <1>2, <2>2, EntriesArePrefixes
    <2>4. x \in Seq(Token) /\ Len(x) \in Nat
        BY TreeFacts, LenProperties
    <2>5. IsPrefix(found, key)
        BY <1>5, TakeIsPrefix
    <2>6. IsPrefix(node, found)
        BY <1>5, <1>6, <2>5, PrefixesComparable
    <2>7. IsPrefix(node, x)
        BY <1>5, <1>6, <2>3, <2>4, <2>6, PrefixTransitive
    <2>8. Len(found) <= Len(x) /\ \A i \in 1 .. Len(found) : found[i] = x[i]
        BY <1>5, <2>3, <2>4, PrefixByToken
    <2>9. \A i \in 1 .. Len(found) : found[i] = key[i]
        BY <1>5, <2>5, PrefixByToken
    <2>10. node # x
        BY <1>5, <1>6, <2>4, <2>8
    <2>11. x[Len(node) + 1] \in DOMAIN Kids(s, node)
        BY <2>7, <2>10, NextHop
    <2>12. Len(node) + 1 \in 1 .. Len(found) /\ Len(node) < Len(key)
        BY <1>5, <1>6
    <2>13. x[Len(node) + 1] = key[Len(node) + 1]
        BY <2>8, <2>9, <2>12
    <2> QED BY <2>11, <2>12, <2>13
<1>9. m = Len(node)
    BY <1>5, <1>6, <1>7, <1>8
<1>10. found = node
    BY <1>5, <1>6, <1>9
<1> QED BY <1>1, <1>3, <1>4, <1>9, <1>10
\* Where a walk to a whole key ends, all of the key is cached.
LEMMA NothingToInsert ==
    ASSUME NEW s, Typed(s), Shape(s), NEW key \in Ids(s), NEW value
    PROVE  MatchLen(MapOf(s), key) = Len(key) /\ Inserted(MapOf(s), key, value) = MapOf(s)
<1>1. PICK f : f = MapOf(s)
    OBVIOUS
<1>2. f \in [DOMAIN f -> Slot] /\ IsPrefixClosed(f)
    BY <1>1, MapFacts
<1>3. key \in Seq(Token) /\ Len(key) \in Nat /\ IsPrefix(key, key)
    BY TreeFacts, LenProperties, PrefixReflexive
<1>4. MatchLen(f, key) = Len(key) /\ MatchedKey(f, key) = key
    BY <1>1, <1>3, WalkEnds
<1>5. PrefixesOf(key) \subseteq DOMAIN f
    <2>1. PrefixesOf(MatchedKey(f, key)) \subseteq DOMAIN f
        BY <1>2, <1>3, MatchProperties
    <2> QED BY <1>4, <2>1
<1>6. DOMAIN f \union PrefixesOf(key) = DOMAIN f
    BY <1>5
<1>7. Inserted(f, key, value) = [p \in DOMAIN f |-> f[p]]
    BY <1>6 DEF Inserted
<1>8. Inserted(f, key, value) = f
    BY <1>2, <1>7
<1> QED BY <1>1, <1>4, <1>8

\* A new leaf for the rest of a key brings the entries the key lacks.
LEMMA GrownMap ==
    ASSUME NEW s, Typed(s), Shape(s), NEW s2, Typed(s2), Shape(s2), NEW id \in Ids(s),
           NEW key \in Seq(Token), NEW value \in Seq(Slot), Len(value) = Len(key),
           IsPrefix(id, key), Len(id) < Len(key),
           key[Len(id) + 1] \notin DOMAIN Kids(s, id), key \notin Ids(s), NEW tok, NEW leaf,
           Grown(s, s2, id, tok, key, leaf), leaf.parent = id,
           leaf.value = Drop(value, Len(id))
    PROVE  /\ MatchLen(MapOf(s), key) = Len(id)
           /\ MapOf(s2) = Inserted(MapOf(s), key, value)
<1>1. PICK f : f = MapOf(s)
    OBVIOUS
<1>2. PICK g : g = Inserted(f, key, value)
    OBVIOUS
<1>3. /\ DOMAIN f = EntriesOfAll(s, Inner(s)) /\ f \in [DOMAIN f -> Slot]
      /\ IsPrefixClosed(f) /\ Represents(f, s)
    BY <1>1, MapFacts, MapRepresents
<1>4. MatchLen(f, key) = Len(id)
    BY <1>1, WalkEnds
<1>5. \A n \in 1 .. Len(key) : Take(key, n) \in DOMAIN f => n <= Len(id)
    BY <1>3, <1>4, MatchProperties
<1>6. /\ id \in Seq(Token) /\ Len(id) \in Nat /\ Len(key) \in Nat /\ key # Root
      /\ Len(id) \in 0 .. Len(value)
    <2>1. id \in Seq(Token) /\ Len(id) \in Nat /\ Len(key) \in Nat
        BY TreeFacts, LenProperties
    <2> QED BY <2>1, RootPrefix
<1>7. /\ Ids(s2) = Ids(s) \union {key} /\ Inner(s2) = Inner(s) \union {key}
      /\ Par(s2, key) = id /\ s2.nodes[key].value = Drop(value, Len(id))
      /\ \A x \in Inner(s) : Par(s2, x) = Par(s, x) /\ s2.nodes[x].value = s.nodes[x].value
    <2>1. Ids(s2) = Ids(s) \union {key} /\ s2.nodes[key] = leaf
        BY DEF Grown
    <2>2. \A x \in Ids(s) : SameBody(s.nodes[x], s2.nodes[x])
        BY DEF Grown
    <2> QED BY <1>6, <2>1, <2>2 DEF Inner, SameBody, Par
<1>8. \A x \in Inner(s) : EntriesOf(s2, x) = EntriesOf(s, x)
    <2>1. \A x \in Inner(s) : Par(s2, x) = Par(s, x)
        BY <1>7
    <2> QED BY <2>1, SameEntries
<1>9. EntriesOfAll(s2, Inner(s2)) = DOMAIN f \union PrefixesOf(key)
    <2>1. ASSUME NEW p \in EntriesOfAll(s2, Inner(s2))
          PROVE  p \in DOMAIN f \/ p \in PrefixesOf(key)
        <3>1. PICK x \in Ids(s2) : p \in Seq(Token) /\ p # Root /\ IsPrefix(p, x)
            BY <2>1, EntriesArePrefixes
        <3>2. CASE x \in Ids(s)
            BY <1>3, <3>1, <3>2, EntriesArePrefixes
        <3>3. CASE x = key
            BY <3>1, <3>3, PrefixesOfIsPrefix DEF Root
        <3> QED BY <1>7, <3>2, <3>3
    <2>2. ASSUME NEW p \in DOMAIN f PROVE p \in EntriesOfAll(s2, Inner(s2))
        BY <1>3, <1>7, <2>2, EntriesArePrefixes
    <2>3. ASSUME NEW p \in PrefixesOf(key) PROVE p \in EntriesOfAll(s2, Inner(s2))
        <3>1. p \in Seq(Token) /\ p # <<>>
            BY PrefixesOfType
        <3>2. IsPrefix(p, key)
            BY <3>1, PrefixesOfIsPrefix
        <3> QED BY <1>7, <3>1, <3>2, EntriesArePrefixes DEF Root
    <2> QED BY <2>1, <2>2, <2>3
<1>10. /\ g = [p \in EntriesOfAll(s2, Inner(s2)) |->
                    IF p \in DOMAIN f THEN f[p] ELSE value[Len(p)]]
       /\ \A p \in EntriesOfAll(s2, Inner(s2)) :
            g[p] = IF p \in DOMAIN f THEN f[p] ELSE value[Len(p)]
    BY <1>2, <1>9 DEF Inserted
<1>11. ASSUME NEW x \in Inner(s), NEW p \in EntriesOf(s2, x)
       PROVE  g[p] = s2.nodes[x].value[Len(p) - Len(Par(s2, x))]
    <2>1. p \in EntriesOf(s, x) /\ p \in DOMAIN f
        BY <1>3, <1>8 DEF EntriesOfAll
    <2>2. f[p] = s.nodes[x].value[Len(p) - Len(Par(s, x))]
        BY <1>3, <2>1 DEF Represents
    <2> QED BY <1>7, <1>9, <1>10, <2>1, <2>2
<1>12. ASSUME NEW p \in EntriesOf(s2, key)
       PROVE  g[p] = s2.nodes[key].value[Len(p) - Len(Par(s2, key))]
    <2>1. key \in Inner(s2) /\ p \in EntriesOfAll(s2, Inner(s2))
        BY <1>7 DEF EntriesOfAll
    <2>2. p \in Seq(Token) /\ IsPrefix(p, key) /\ Len(id) < Len(p)
        BY <1>7, <2>1, EntryFacts
    <2>3. Len(p) \in Nat /\ Len(p) <= Len(key) /\ p = Take(key, Len(p))
        BY <2>2, LenProperties, PrefixIsTake
    <2>4. Len(p) \in 1 .. Len(key) /\ ~ (Len(p) <= Len(id))
        BY <1>6, <2>2, <2>3
    <2>5. p \notin DOMAIN f
        BY <1>5, <2>3, <2>4
    <2>6. g[p] = value[Len(p)]
        BY <1>10, <2>1, <2>5
    <2>7. Len(p) - Len(id) \in 1 .. Len(value) - Len(id)
        BY <1>6, <2>2, <2>3
    <2>8. Drop(value, Len(id))[Len(p) - Len(id)] = value[Len(id) + (Len(p) - Len(id))]
        BY <1>6, <2>7, DropProperties
    <2>9. Len(id) + (Len(p) - Len(id)) = Len(p)
        BY <1>6, <2>3
    <2> QED BY <1>7, <2>6, <2>8, <2>9
<1>13. ASSUME NEW p \in EntriesOfAll(s2, Inner(s2)) PROVE g[p] \in Slot
    <2>1. PICK x \in Inner(s2) : p \in EntriesOf(s2, x)
        BY DEF EntriesOfAll
    <2>2. g[p] = s2.nodes[x].value[Len(p) - Len(Par(s2, x))]
        BY <1>7, <1>11, <1>12, <2>1
    <2> QED BY <2>1, <2>2, EntrySlot
<1>14. g \in [EntriesOfAll(s2, Inner(s2)) -> Slot]
    BY <1>10, <1>13
<1>15. Represents(g, s2)
    BY <1>7, <1>11, <1>12, <1>14 DEF Represents
<1>16. MapOf(s2) = g
    BY <1>15, MapRepresents, RepresentsOnce
<1> QED BY <1>1, <1>2, <1>4, <1>16

LEMMA EmptyTreeMap ==
    ASSUME NEW t \in Nat
    PROVE  MapOf(EmptyTree(t)) = EmptyMap
<1>1. PICK s : s = EmptyTree(t)
    OBVIOUS
<1>2. Typed(s) /\ Shape(s) /\ Inner(s) = {}
    BY <1>1, EmptyOK DEF TreeOK
<1>3. MapOf(s) \in [{} -> Slot]
    <2>1. MapOf(s) \in [EntriesOfAll(s, Inner(s)) -> Slot]
        BY <1>2, MapRepresents DEF Represents
    <2>2. EntriesOfAll(s, Inner(s)) = {}
        BY <1>2 DEF EntriesOfAll
    <2> QED BY <2>1, <2>2
<1>4. EmptyMap \in [{} -> Slot]
    BY SMT DEF EmptyMap
<1> QED BY <1>1, <1>3, <1>4

-----------------------------------------------------------------------------
(* What clients hold, and what can be evicted *)

Held(h) == {h[c] : c \in Client}

\* The entries that can be evicted are those of the unlocked nodes.
LEMMA EvictableFacts ==
    ASSUME NEW s, TreeOK(s), NEW h, LockOn(s, h)
    PROVE  /\ EvictableEntries(MapOf(s), Held(h)) = EntriesOfAll(s, Unlocked(s))
           /\ Cardinality(EvictableEntries(MapOf(s), Held(h))) = s.evictable_size_
<1>1. /\ Typed(s) /\ Shape(s) /\ s.evictable_size_ = Cardinality(EntriesOfAll(s, Unlocked(s)))
      /\ Ids(s) \subseteq Seq(Token) /\ h \in [Client -> Ids(s)]
    BY TreeFacts DEF TreeOK, Sizes, LockOn
<1>2. DOMAIN MapOf(s) = EntriesOfAll(s, Inner(s))
    BY <1>1, MapFacts
<1>3. ASSUME NEW x \in Inner(s), NEW p \in EntriesOf(s, x)
      PROVE  (\E c \in Client : IsPrefix(p, h[c])) <=> s.nodes[x].lock_ref > 0
    <2> DEFINE H == {c \in Client : IsPrefix(x, h[c])}
    <2>1. s.nodes[x].lock_ref = Cardinality(H)
        BY DEF LockOn
    <2>2. IsFiniteSet(H)
        BY ClientAssumption, FS_Subset
    <2>3. Cardinality(H) \in Nat /\ (Cardinality(H) = 0 <=> H = {})
        BY <2>2, FS_CardinalityType, FS_EmptySet
    <2>4. x \in Seq(Token) /\ p \in Seq(Token) /\ IsPrefix(p, x)
        BY <1>1, EntryFacts DEF Inner
    <2>5. ASSUME NEW c \in Client, IsPrefix(x, h[c]) PROVE IsPrefix(p, h[c])
        BY <1>1, <2>4, <2>5, PrefixTransitive
    <2>6. ASSUME NEW c \in Client, IsPrefix(p, h[c]) PROVE IsPrefix(x, h[c])
        <3>1. h[c] \in Ids(s)
            BY <1>1
        <3>2. p # Root
            <4>1. p \in EntriesOfAll(s, Inner(s))
                BY DEF EntriesOfAll
            <4> QED BY <1>1, <4>1, EntriesArePrefixes
        <3>3. PICK y \in Inner(s) : IsPrefix(y, h[c]) /\ p \in EntriesOf(s, y)
            BY <1>1, <2>4, <2>6, <3>1, <3>2, EntryOnPath
        <3>4. y = x
            BY <1>1, <3>3, EntriesDisjoint
        <3> QED BY <3>3, <3>4
    <2>7. (\E c \in Client : IsPrefix(p, h[c])) <=> H # {}
        BY <2>5, <2>6
    <2> HIDE DEF H
    <2> QED BY <2>1, <2>3, <2>7
<1>4. ASSUME NEW p
      PROVE  p \in EvictableEntries(MapOf(s), Held(h)) <=> p \in EntriesOfAll(s, Unlocked(s))
    <2>1. p \in EvictableEntries(MapOf(s), Held(h)) <=>
            p \in EntriesOfAll(s, Inner(s)) /\ ~ \E c \in Client : IsPrefix(p, h[c])
        BY <1>2 DEF EvictableEntries, PinnedEntries, Held
    <2>2. ASSUME p \in EntriesOfAll(s, Inner(s)), ~ \E c \in Client : IsPrefix(p, h[c])
          PROVE  p \in EntriesOfAll(s, Unlocked(s))
        <3>1. PICK x \in Inner(s) : p \in EntriesOf(s, x)
            BY <2>2 DEF EntriesOfAll
        <3> QED BY <1>3, <2>2, <3>1 DEF EntriesOfAll, Unlocked
    <2>3. ASSUME p \in EntriesOfAll(s, Unlocked(s))
          PROVE  p \in EntriesOfAll(s, Inner(s)) /\ ~ \E c \in Client : IsPrefix(p, h[c])
        <3>1. PICK x \in Inner(s) : p \in EntriesOf(s, x) /\ ~ (s.nodes[x].lock_ref > 0)
            BY <2>3 DEF EntriesOfAll, Unlocked
        <3> QED BY <1>3, <3>1 DEF EntriesOfAll
    <2> QED BY <2>1, <2>2, <2>3
<1>5. EvictableEntries(MapOf(s), Held(h)) = EntriesOfAll(s, Unlocked(s))
    BY <1>4
<1> QED BY <1>1, <1>5
-----------------------------------------------------------------------------
(* The tree implements PrefixCache *)

\* The operators of PrefixMap are the same in the instance.
LEMMA SameMatch ==
    ASSUME NEW f, NEW key, NEW value
    PROVE  /\ Cache!MatchLen(f, key) = MatchLen(f, key)
           /\ Cache!MatchedKey(f, key) = MatchedKey(f, key)
           /\ Cache!MatchedSlots(f, key) = MatchedSlots(f, key)
           /\ Cache!Inserted(f, key, value) = Inserted(f, key, value)
           /\ Cache!EmptyMap = EmptyMap
BY DEF Cache!MatchLen, MatchLen, Cache!Take, Take, Cache!Max, Max, Cache!MatchedKey,
   MatchedKey, Cache!MatchedSlots, MatchedSlots, Cache!Inserted, Inserted,
   Cache!PrefixesOf, PrefixesOf, Cache!EmptyMap, EmptyMap

LEMMA SameEvict ==
    ASSUME NEW f, NEW pins, NEW n, NEW V
    PROVE  /\ Cache!EvictableEntries(f, pins) = EvictableEntries(f, pins)
           /\ Cache!EvictionSets(f, pins, n) = EvictionSets(f, pins, n)
           /\ Cache!Evicted(f, V) = Evicted(f, V)
           /\ Cache!Cardinality(V) = Cardinality(V)
<1>1. Cache!EvictableEntries(f, pins) = EvictableEntries(f, pins)
    BY DEF Cache!EvictableEntries, EvictableEntries, Cache!PinnedEntries, PinnedEntries,
       Cache!IsPrefix, IsPrefix
<1>2. \A W : Cache!Cardinality(W) = Cardinality(W)
    BY DEF Cache!Cardinality, Cardinality
<1>3. \A p, q : Cache!IsPrefix(p, q) = IsPrefix(p, q)
    BY DEF Cache!IsPrefix, IsPrefix
<1>4. Cache!EvictionSets(f, pins, n) = EvictionSets(f, pins, n)
    BY <1>1, <1>2, <1>3 DEF Cache!EvictionSets, EvictionSets
<1>5. Cache!Evicted(f, V) = Evicted(f, V)
    BY DEF Cache!Evicted, Evicted, Cache!Restrict, Restrict
<1> QED BY <1>1, <1>2, <1>4, <1>5

\* What a walk has gathered: the slots of the part of the key it has matched.
Gathered(s, key, len, value) ==
    /\ value \in Seq(Slot) /\ Len(value) = len
    /\ \A i \in 1 .. len : value[i] = MapOf(s)[Take(key, i)]

LEMMA GatheredAll ==
    ASSUME NEW s, NEW key, NEW value, Gathered(s, key, MatchLen(MapOf(s), key), value)
    PROVE  MatchedSlots(MapOf(s), key) = value
<1>1. PICK n : n = MatchLen(MapOf(s), key)
    OBVIOUS
<1>2. /\ value \in Seq(Slot) /\ Len(value) = n
      /\ \A i \in 1 .. n : value[i] = MapOf(s)[Take(key, i)]
    BY <1>1 DEF Gathered
<1>3. value = [i \in 1 .. n |-> value[i]]
    BY <1>2
<1>4. [i \in 1 .. n |-> value[i]] = [i \in 1 .. n |-> MapOf(s)[Take(key, i)]]
    BY <1>2
<1> QED BY <1>1, <1>3, <1>4 DEF MatchedSlots

\* A walk that goes n tokens down a node gathers the first n of its slots.
LEMMA GatherMore ==
    ASSUME NEW s, Typed(s), Shape(s), NEW child \in Inner(s), NEW key \in Seq(Token),
           NEW m, m = Len(Par(s, child)), NEW n \in Nat, n <= Len(s.nodes[child].key),
           m + n <= Len(key), \A i \in 1 .. m + n : child[i] = key[i],
           NEW value, Gathered(s, key, m, value)
    PROVE  Gathered(s, key, m + n, value \o Take(s.nodes[child].value, n))
<1>1. PICK v : v = s.nodes[child].value
    OBVIOUS
<1>2. PICK w : w = Take(v, n)
    OBVIOUS
<1>3. PICK f : f = MapOf(s)
    OBVIOUS
<1>4. /\ child \in Seq(Token) /\ Len(child) \in Nat /\ m \in Nat /\ v \in Seq(Slot)
      /\ Len(v) = Len(child) - m /\ n <= Len(v) /\ Len(key) \in Nat
    <2>1. /\ child \in Seq(Token) /\ Len(child) \in Nat /\ m \in Nat /\ v \in Seq(Slot)
          /\ Len(v) = Len(child) - m /\ Len(s.nodes[child].key) = Len(child) - m
        BY <1>1, NodeFacts
    <2> QED BY <2>1, LenProperties
<1>5. w \in Seq(Slot) /\ Len(w) = n /\ \A i \in 1 .. n : w[i] = v[i]
    <2>1. n \in 0 .. Len(v)
        BY <1>4
    <2> QED BY <1>2, <1>4, <2>1, TakeProperties
<1>6. /\ value \in Seq(Slot) /\ Len(value) = m
      /\ \A i \in 1 .. m : value[i] = f[Take(key, i)]
    BY <1>3 DEF Gathered
<1>7. PICK both : both = value \o w
    OBVIOUS
<1>8. /\ both \in Seq(Slot) /\ Len(both) = m + n
      /\ \A i \in 1 .. m + n : both[i] = IF i <= m THEN value[i] ELSE w[i - m]
    <2>1. both \in Seq(Slot) /\ Len(both) = Len(value) + Len(w)
        BY <1>5, <1>6, <1>7, ConcatProperties
    <2>2. \A i \in 1 .. Len(value) + Len(w) :
                both[i] = IF i <= Len(value) THEN value[i] ELSE w[i - Len(value)]
        BY <1>5, <1>6, <1>7, ConcatProperties
    <2>3. Len(value) = m /\ Len(w) = n
        BY <1>5, <1>6
    <2> QED BY <2>1, <2>2, <2>3
<1>9. ASSUME NEW i \in 1 .. m + n, ~ (i <= m) PROVE w[i - m] = f[Take(key, i)]
    <2>1. i \in 0 .. Len(key) /\ i \in 0 .. Len(child) /\ i - m \in 1 .. n /\ i \in Nat
        BY <1>4, <1>9
    <2>2. Take(key, i) \in Seq(Token) /\ Len(Take(key, i)) = i /\ IsPrefix(Take(key, i), key)
        BY <2>1, TakeIsPrefix
    <2>3. \A j \in 1 .. i : Take(key, i)[j] = key[j]
        BY <2>1, TakeProperties
    <2>4. PICK p : p = Take(key, i)
        OBVIOUS
    <2>5. \A j \in 1 .. Len(p) : p[j] = child[j]
        <3>1. TAKE j \in 1 .. Len(p)
        <3>2. Len(p) = i /\ j \in 1 .. i
            BY <2>2, <2>4, <3>1
        <3>3. j \in 1 .. m + n
            BY <1>4, <2>1, <3>2
        <3>4. p[j] = key[j]
            BY <2>3, <2>4, <3>2
        <3>5. child[j] = key[j]
            BY <3>3
        <3> QED BY <3>4, <3>5
    <2>6. IsPrefix(p, child)
        BY <1>4, <2>1, <2>2, <2>4, <2>5, PrefixByToken
    <2>7. p \in EntriesOf(s, child)
        BY <1>4, <1>9, <2>1, <2>2, <2>4, <2>6, EntryFacts
    <2>8. f[p] = v[Len(p) - m]
        BY <1>1, <1>3, <2>7, MapRepresents DEF Represents
    <2> QED BY <1>5, <2>1, <2>2, <2>4, <2>8
<1>10. ASSUME NEW i \in 1 .. m + n PROVE both[i] = f[Take(key, i)]
    <2>1. CASE i <= m
        <3>1. i \in 1 .. m
            BY <1>4, <2>1
        <3> QED BY <1>6, <1>8, <2>1, <3>1
    <2>2. CASE ~ (i <= m)
        BY <1>8, <1>9, <2>2
    <2> QED BY <2>1, <2>2
<1> QED BY <1>1, <1>2, <1>3, <1>7, <1>8, <1>10 DEF Gathered

-----------------------------------------------------------------------------
\* The invariant the refinement needs besides Inv: what a match has gathered
\* and returns, how far the delta of a lock or unlock has got, and what an
\* eviction has dropped of the tree it started from.
MatchRight == call.op = "match" => Gathered(tree, call.key, call.len, call.value)

ReplyRight ==
    call.op \in {"none", "lock"} /\ reply.op = "match" =>
        /\ reply.key \in Keys
        /\ reply.last_node = MatchedKey(MapOf(tree), reply.key)

Evictable(s) == Cardinality(EvictableEntries(MapOf(s), Held(hold)))
DeltaRight ==
    /\ call.op \in {"lock", "unlock"} =>
            tree.evictable_size_ - call.delta = Evictable(tree)
    /\ call.op = "unlock" => hold[call.client] # Root

Gone(b, s) == Ids(b) \ Ids(s)

\* n, num and freed are right for an eviction that has left s of b.
DropsOf(b, s, h, n, num, freed) ==
    LET gone == EntriesOfAll(b, Gone(b, s))
    IN  /\ TreeOK(b) /\ LockOn(b, h) /\ Gone(b, s) \subseteq Unlocked(b)
        /\ n \in EvictSizes /\ (n = 0 => Gone(b, s) = {})
        /\ num = Cardinality(gone) /\ freed = {MapOf(b)[p] : p \in gone}
DropsRight ==
    call.op = "evict" =>
        DropsOf(call.before, tree, hold, call.n, call.num, call.freed)

RefInv == EvictInv /\ MatchRight /\ ReplyRight /\ DeltaRight /\ DropsRight

\* A step that is one of PrefixCache, or is not seen there.
Seen == <<CachedMap, hold, reply>>
Implements == Cache!Next \/ UNCHANGED Seen
Simulates == MatchRight' /\ ReplyRight' /\ DeltaRight' /\ DropsRight' /\ Implements

LEMMA CachedMapIdle ==
    /\ call.op # "evict" => CachedMap = MapOf(tree)
    /\ call'.op # "evict" => CachedMap' = MapOf(tree')
    /\ call.op = "evict" => CachedMap = MapOf(call.before)
    /\ call'.op = "evict" => CachedMap' = MapOf(call'.before)
BY DEF CachedMap

\* Steps within a walk change nothing that is seen.
LEMMA UnseenStep ==
    ASSUME call.op # "evict", call'.op \in {"match", "insert"}, MapOf(tree') = MapOf(tree),
           hold' = hold, reply' = reply, MatchRight'
    PROVE  Simulates
<1>1. UNCHANGED Seen
    BY CachedMapIdle DEF Seen
<1> QED BY <1>1 DEF Simulates, Implements, ReplyRight, DeltaRight, DropsRight

\* And steps that return anything but a match.
LEMMA ReturnStep ==
    ASSUME call' = NoCall, reply'.op # "match", Cache!Next
    PROVE  Simulates
BY DEF Simulates, Implements, MatchRight, ReplyRight, DeltaRight, DropsRight, NoCall

LEMMA RootGathers ==
    ASSUME NEW s, NEW key
    PROVE  Gathered(s, key, 0, <<>>)
<1>1. <<>> \in Seq(Slot) /\ Len(<<>>) = 0
    BY EmptySeq
<1>2. 1 .. 0 = {}
    OBVIOUS
<1> QED BY <1>1, <1>2 DEF Gathered

\* A match that returns what its walk has gathered returns what is promised.
LEMMA MatchAnswers ==
    ASSUME NEW key \in Keys, NEW slots, NEW node, call.op # "evict", call' = NoCall,
           MapOf(tree') = MapOf(tree), hold' = hold, reply' = MatchReply(key, slots, node),
           MatchLen(MapOf(tree), key) = Len(node), MatchedKey(MapOf(tree), key) = node,
           Gathered(tree, key, Len(node), slots)
    PROVE  Simulates
<1>1. MatchedSlots(MapOf(tree), key) = slots
    BY GatheredAll
<1>2. /\ reply' = [op |-> "match", key |-> key, slots |-> slots, last_node |-> node]
      /\ reply'.op = "match" /\ reply'.key = key /\ reply'.last_node = node
    BY DEF MatchReply
<1>3. CachedMap = MapOf(tree) /\ CachedMap' = CachedMap
    BY CachedMapIdle DEF NoCall
<1>4. Cache!MatchPrefix(key)
    BY <1>1, <1>2, <1>3, SameMatch DEF Cache!MatchPrefix
<1>5. Cache!Next
    BY <1>4 DEF Cache!Next
<1>6. ReplyRight'
    BY <1>2 DEF ReplyRight
<1> QED BY <1>5, <1>6 DEF Simulates, Implements, MatchRight, DeltaRight, DropsRight, NoCall
-----------------------------------------------------------------------------
(* The steps of match and insert, seen from outside *)

LEMMA CallersFacts ==
    ASSUME TreeInv
    PROVE  setup.keys \subseteq Keys /\ setup.inserts \subseteq Inserts
BY DEF TreeInv, Keys, Inserts

\* Where a walk stands, and where it goes no further.
LEMMA WalkOver ==
    ASSUME Inv, call.op \in {"match", "insert"}
    PROVE  /\ call.node \in Ids(tree) /\ call.node \in Seq(Token)
           /\ call.key \in Seq(Token) /\ IsPrefix(call.node, call.key)
           /\ call.len = Len(call.node) /\ Len(call.node) \in Nat
           /\ Len(call.key) \in Nat /\ Len(call.node) <= Len(call.key)
           /\ (Rest = <<>> <=> Len(call.node) = Len(call.key))
           /\ ~ CanDescend /\ Len(call.node) < Len(call.key) =>
                call.key[Len(call.node) + 1] \notin DOMAIN Kids(tree, call.node)
<1>1. PICK node : node = call.node
    OBVIOUS
<1>2. PICK key : key = call.key
    OBVIOUS
<1>3. PICK rest : rest = Rest
    OBVIOUS
<1>4. node \in Ids(tree) /\ key \in Seq(Token) /\ IsPrefix(node, key) /\ call.len = Len(node)
    BY <1>1, <1>2, WalkInv DEF Walking
<1>5. node \in Seq(Token)
    BY <1>4, InvFacts, TreeFacts
<1>6. Len(node) \in Nat /\ Len(key) \in Nat /\ Len(node) <= Len(key)
    BY <1>4, <1>5, PrefixByToken, LenProperties
<1>7. PICK m \in 0 .. Len(key) : m = Len(node)
    BY <1>6
<1>8. rest = Drop(key, m)
    BY <1>2, <1>3, <1>4, <1>7 DEF Rest
<1>9. /\ rest \in Seq(Token) /\ Len(rest) = Len(key) - m
      /\ \A i \in 1 .. Len(key) - m : rest[i] = key[m + i]
    BY <1>4, <1>8, DropProperties
<1>10. rest = <<>> <=> Len(rest) = 0
    BY <1>9, RootPrefix DEF Root
<1>11. rest = <<>> <=> Len(node) = Len(key)
    BY <1>6, <1>7, <1>9, <1>10
<1>12. ASSUME ~ CanDescend, Len(node) < Len(key)
       PROVE  key[Len(node) + 1] \notin DOMAIN Kids(tree, node)
    <2>1. 1 \in 1 .. Len(key) - m /\ rest # <<>>
        BY <1>6, <1>7, <1>11, <1>12
    <2>2. rest[1] = key[m + 1]
        BY <1>9, <2>1
    <2>3. rest[1] \notin DOMAIN Kids(tree, node)
        BY <1>1, <1>3, <1>12, <2>1 DEF CanDescend, Kids
    <2> QED BY <1>7, <2>2, <2>3
<1> QED BY <1>1, <1>2, <1>3, <1>4, <1>5, <1>6, <1>11, <1>12

LEMMA MatchPrefixImplements ==
    ASSUME Inv, NEW key \in setup.keys, MatchPrefix(key), setup' = setup
    PROVE  Simulates
<1>1. call.op = "none" /\ hold' = hold
    BY DEF MatchPrefix, Idle, NoCall
<1>2. key \in Keys /\ key \in Seq(Token)
    BY CallersFacts, InvFacts
<1>3. CASE key = <<>>
    <2>1. /\ tree' = tree /\ call' = NoCall /\ reply' = MatchReply(key, <<>>, Root)
        BY <1>3 DEF MatchPrefix, Return
    <2>2. Len(Root) = 0 /\ key = Root /\ IsPrefix(Root, key) /\ ~ (Len(Root) < Len(key))
        <3>1. key = Root
            BY <1>3 DEF Root
        <3>2. Len(Root) = 0 /\ IsPrefix(Root, key)
            BY <1>2, RootPrefix
        <3> QED BY <3>1, <3>2
    <2>3. MatchLen(MapOf(tree), key) = Len(Root) /\ MatchedKey(MapOf(tree), key) = Root
        BY <1>2, <2>2, InvFacts, WalkEnds
    <2>4. Gathered(tree, key, Len(Root), <<>>)
        BY <2>2, RootGathers
    <2>5. MapOf(tree') = MapOf(tree) /\ call.op # "evict"
        BY <1>1, <2>1
    <2> QED BY <1>1, <1>2, <2>1, <2>3, <2>4, <2>5, MatchAnswers
<1>4. CASE key # <<>>
    <2>1. PICK t \in Now :
            /\ tree' = Touch(tree, Root, t)
            /\ call' = [op |-> "match", key |-> key, node |-> Root, len |-> 0,
                        value |-> <<>>, t |-> t]
        BY <1>4 DEF MatchPrefix
    <2>2. reply' = reply
        BY <1>4 DEF MatchPrefix
    <2>3. t \in Nat /\ clock <= t /\ t <= clock + 1 /\ t <= setup.max_time /\ clock \in Nat
        BY NowFacts, InvFacts
    <2>4. TreeAt(tree', setup.priorities, t) /\ SameLinks(tree, tree')
        BY <2>1, <2>3, InvFacts, TouchAt
    <2>5. MapOf(tree') = MapOf(tree)
        BY <2>4, InvFacts, SameLinksMap DEF TreeAt, TreeOK
    <2>6. call'.op = "match" /\ call'.key = key /\ call'.len = 0 /\ call'.value = <<>>
        BY <2>1
    <2>7. Gathered(tree', call'.key, call'.len, call'.value)
        BY <2>6, RootGathers
    <2>8. MatchRight'
        BY <2>7 DEF MatchRight
    <2> QED BY <1>1, <2>2, <2>5, <2>6, <2>8, UnseenStep
<1> QED BY <1>3, <1>4

\* Gathered depends on the map only.
LEMMA GatheredSame ==
    ASSUME NEW s, NEW s2, MapOf(s2) = MapOf(s), NEW key, NEW len, NEW value
    PROVE  Gathered(s2, key, len, value) <=> Gathered(s, key, len, value)
BY DEF Gathered

LEMMA MatchDescendImplements ==
    ASSUME Inv, RefInv, MatchDescend, setup' = setup
    PROVE  Simulates
<1>1. /\ call.op = "match" /\ CanDescend /\ ChildMatches /\ tree' = Touched
      /\ hold' = hold /\ reply' = reply
    BY DEF MatchDescend
<1>2. PICK c : c = Child
    OBVIOUS
<1>3. PICK n : n = Common
    OBVIOUS
<1>4. PICK v : v = tree.nodes[c].value
    OBVIOUS
<1>5. call' = [call EXCEPT !.node = c, !.len = call.len + n, !.value = call.value \o v]
    BY <1>2, <1>3, <1>4 DEF MatchDescend
<1>6. PICK m : m = call.len
    OBVIOUS
<1>7. PICK key : key = call.key
    OBVIOUS
<1>8. /\ c \in Inner(tree) /\ Par(tree, c) = call.node
      /\ n \in Nat /\ n <= Len(tree.nodes[c].key) /\ m + n <= Len(key)
      /\ \A i \in 1 .. m + n : c[i] = key[i]
    <2>1. WalkStep(Child, Common, call.len, ChildMatches)
        BY <1>1, TouchedFacts
    <2> QED BY <1>2, <1>3, <1>6, <1>7, <2>1 DEF WalkStep
<1>9. m = Len(Par(tree, c)) /\ key \in Seq(Token)
    BY <1>1, <1>6, <1>7, <1>8, WalkOver
<1>10. n = Len(v) /\ v \in Seq(Slot)
    <2>1. n = Len(tree.nodes[c].key)
        BY <1>1, <1>2, <1>3 DEF ChildMatches
    <2>2. Len(v) = Len(c) - Len(Par(tree, c)) /\ v \in Seq(Slot)
          /\ Len(tree.nodes[c].key) = Len(c) - Len(Par(tree, c))
        BY <1>4, <1>8, InvFacts, NodeFacts
    <2> QED BY <2>1, <2>2
<1>11. Take(v, n) = v
    BY <1>10, SubSeqProperties DEF Take
<1>12. Gathered(tree, key, m, call.value)
    BY <1>1, <1>6, <1>7 DEF RefInv, MatchRight
<1>13. Gathered(tree, key, m + n, call.value \o v)
    <2>1. PICK w : w = call.value
        OBVIOUS
    <2>2. Gathered(tree, key, m, w)
        BY <1>12, <2>1
    <2>3. Gathered(tree, key, m + n, w \o Take(tree.nodes[c].value, n))
        BY <1>8, <1>9, <2>2, InvFacts, GatherMore
    <2> QED BY <1>4, <1>11, <2>1, <2>3
<1>14. SameLinks(tree, tree') /\ TreeAt(tree', setup.priorities, clock)
    BY <1>1, TouchedFacts
<1>15. MapOf(tree') = MapOf(tree)
    BY <1>14, InvFacts, SameLinksMap DEF TreeAt, TreeOK
<1>16. /\ call'.op = "match" /\ call'.key = key /\ call'.len = m + n
       /\ call'.value = call.value \o v
    <2>1. call \in MatchCalls
        BY <1>1, WalkInv
    <2>2. PICK w : w = call.value \o v
        OBVIOUS
    <2>3. PICK l : l = call.len + n
        OBVIOUS
    <2>4. call' = [call EXCEPT !.node = c, !.len = l, !.value = w]
        BY <1>5, <2>2, <2>3
    <2> QED BY <1>1, <1>6, <1>7, <2>1, <2>2, <2>3, <2>4 DEF MatchCalls
<1>17. Gathered(tree', call'.key, call'.len, call'.value)
    <2>1. PICK w : w = call.value \o v
        OBVIOUS
    <2>2. Gathered(tree', key, m + n, w)
        BY <1>13, <1>15, <2>1, GatheredSame
    <2> QED BY <1>16, <2>1, <2>2
<1>18. MatchRight'
    BY <1>17 DEF MatchRight
<1> QED BY <1>1, <1>15, <1>16, <1>18, UnseenStep

LEMMA MatchReturnImplements ==
    ASSUME Inv, RefInv, MatchReturn, setup' = setup
    PROVE  Simulates
<1>1. /\ call.op = "match" /\ ~ CanDescend /\ tree' = tree /\ hold' = hold
      /\ call' = NoCall /\ reply' = MatchReply(call.key, call.value, call.node)
    BY DEF MatchReturn, Return
<1>2. PICK key : key = call.key
    OBVIOUS
<1>3. PICK node : node = call.node
    OBVIOUS
<1>4. PICK slots : slots = call.value
    OBVIOUS
<1>5. /\ node \in Ids(tree) /\ key \in Seq(Token) /\ IsPrefix(node, key)
      /\ call.len = Len(node)
      /\ Len(node) < Len(key) => key[Len(node) + 1] \notin DOMAIN Kids(tree, node)
    BY <1>1, <1>2, <1>3, WalkOver
<1>6. MatchLen(MapOf(tree), key) = Len(node) /\ MatchedKey(MapOf(tree), key) = node
    BY <1>5, InvFacts, WalkEnds
<1>7. Gathered(tree, key, Len(node), slots)
    BY <1>1, <1>2, <1>4, <1>5 DEF RefInv, MatchRight
<1>8. key \in Keys
    BY <1>1, <1>2, WalkInv, InvFacts, CallersFacts
<1>9. reply' = MatchReply(key, slots, node) /\ call.op # "evict" /\ MapOf(tree') = MapOf(tree)
    BY <1>1, <1>2, <1>3, <1>4
<1> QED BY <1>1, <1>6, <1>7, <1>8, <1>9, MatchAnswers

\* The node a split makes is where the walk ends, and the map is the same.
CutSeen(s2, c, n, m, new, key) ==
    /\ c \in Inner(tree) /\ Len(Par(tree, c)) = m /\ n \in Nat /\ m \in Nat
    /\ n <= Len(tree.nodes[c].key) /\ m + n <= Len(key)
    /\ \A i \in 1 .. m + n : c[i] = key[i]
    /\ TreeOK(s2) /\ MapOf(s2) = MapOf(tree) /\ new \in Ids(s2) /\ Len(new) = m + n
    /\ MatchLen(MapOf(tree), key) = Len(new) /\ MatchedKey(MapOf(tree), key) = new

LEMMA SplitSeen ==
    ASSUME Inv, call.op \in {"match", "insert"}, CanDescend, ~ ChildMatches, NEW u \in Later
    PROVE  CutSeen(SplitNode(Touched, Child, Common, u), Child, Common, call.len,
                   SplitName(tree, Child, Common), call.key)
<1>1. PICK c : c = Child
    OBVIOUS
<1>2. PICK n : n = Common
    OBVIOUS
<1>3. PICK s : s = Touched
    OBVIOUS
<1>4. PICK m : m = call.len
    OBVIOUS
<1>5. PICK new : new = SplitName(tree, c, n)
    OBVIOUS
<1>6. PICK s2 : s2 = SplitNode(s, c, n, u)
    OBVIOUS
<1>7. PICK key : key = call.key
    OBVIOUS
<1>8. /\ TreeAt(s, setup.priorities, clock) /\ SameLinks(tree, s)
    BY <1>1, <1>3, TouchedFacts
<1>9. /\ c \in Inner(tree) /\ Par(tree, c) = call.node /\ n \in Nat /\ 0 < n
      /\ n < Len(tree.nodes[c].key) /\ new \in Seq(Token) /\ IsPrefix(new, key)
      /\ Len(new) = m + n /\ m + n <= Len(key) /\ \A i \in 1 .. m + n : c[i] = key[i]
      /\ m + n < Len(key) => c[m + n + 1] # key[m + n + 1]
    <2>1. WalkStep(Child, Common, call.len, ChildMatches)
        BY TouchedFacts
    <2> QED BY <1>1, <1>2, <1>4, <1>5, <1>7, <2>1 DEF WalkStep
<1>10. m = Len(Par(tree, c)) /\ m \in Nat /\ key \in Seq(Token) /\ Len(key) \in Nat
    BY <1>4, <1>7, <1>9, WalkOver
<1>11. /\ c \in Inner(s) /\ Par(s, c) = Par(tree, c) /\ s.nodes[c].key = tree.nodes[c].key
    BY <1>8, <1>9 DEF SameLinks, Inner, Par
<1>12. SplitName(s, c, n) = new
    BY <1>5, <1>11 DEF SplitName, Par
<1>13. u \in Nat
    BY LaterFacts
<1>14. TreeOK(s) /\ n < Len(s.nodes[c].key)
    BY <1>8, <1>9, <1>11 DEF TreeAt
<1>15. /\ TreeOK(s2) /\ SplitAt(s, s2, c, n, u)
       /\ SplitLinks(s, s2, c, Par(s, c), SplitName(s, c, n))
    BY <1>6, <1>9, <1>11, <1>13, <1>14, SplitOK
<1>16. MapOf(s2) = MapOf(s)
    BY <1>9, <1>11, <1>13, <1>14, <1>15, SplitMap DEF TreeOK
<1>17. MapOf(s) = MapOf(tree)
    BY <1>8, <1>14, InvFacts, SameLinksMap DEF TreeOK
<1>18. new \in Ids(s2)
    BY <1>12, <1>15 DEF SplitLinks
<1>19. PICK tok : tok = s.nodes[c].key[n + 1]
    OBVIOUS
<1>20. Kids(s2, new) = Only(tok, c)
    BY <1>9, <1>11, <1>12, <1>13, <1>14, <1>15, <1>19, SplitValues DEF TreeOK
<1>21. DOMAIN Kids(s2, new) = {tok}
    BY <1>20 DEF Only
<1>22. tok = c[m + n + 1]
    <2>1. PICK k : k = tree.nodes[c].key
        OBVIOUS
    <2>2. PICK p : p = Par(tree, c)
        OBVIOUS
    <2>3. Hangs(tree, c, p, k)
        BY <1>9, <2>1, <2>2, InvFacts, NodeHangs
    <2>4. /\ Len(k) = Len(c) - Len(p) /\ Len(c) \in Nat
          /\ \A i \in 1 .. Len(c) - Len(p) : k[i] = c[Len(p) + i]
        BY <2>3 DEF Hangs
    <2>5. m = Len(p) /\ n < Len(k)
        BY <1>9, <1>10, <2>1, <2>2
    <2>6. n + 1 \in 1 .. Len(c) - Len(p)
        BY <1>9, <1>10, <2>4, <2>5
    <2>7. k[n + 1] = c[m + (n + 1)]
        BY <2>4, <2>5, <2>6
    <2>8. m + (n + 1) = m + n + 1
        <3>1. m \in Nat /\ n \in Nat
            BY <1>9, <1>10
        <3> QED BY <3>1
    <2> QED BY <1>11, <1>19, <2>1, <2>7, <2>8
<1>23. Len(new) < Len(key) => key[Len(new) + 1] \notin DOMAIN Kids(s2, new)
    BY <1>9, <1>21, <1>22
<1>24. MatchLen(MapOf(s2), key) = Len(new) /\ MatchedKey(MapOf(s2), key) = new
    BY <1>9, <1>10, <1>15, <1>18, <1>23, WalkEnds DEF TreeOK
<1>25. CutSeen(s2, c, n, m, new, key)
    BY <1>9, <1>10, <1>15, <1>16, <1>17, <1>18, <1>24 DEF CutSeen
<1> QED BY <1>1, <1>2, <1>3, <1>4, <1>5, <1>6, <1>7, <1>25

LEMMA MatchSplitImplements ==
    ASSUME Inv, RefInv, MatchSplit, setup' = setup
    PROVE  Simulates
<1>1. /\ call.op = "match" /\ CanDescend /\ ~ ChildMatches /\ hold' = hold
      /\ call' = NoCall
    BY DEF MatchSplit, Return
<1>2. PICK u \in Later : tree' = SplitNode(Touched, Child, Common, u)
    BY DEF MatchSplit
<1>3. PICK c : c = Child
    OBVIOUS
<1>4. PICK n : n = Common
    OBVIOUS
<1>5. PICK m : m = call.len
    OBVIOUS
<1>6. PICK new : new = SplitName(tree, c, n)
    OBVIOUS
<1>7. PICK key : key = call.key
    OBVIOUS
<1>8. PICK w : w = call.value
    OBVIOUS
<1>9. PICK slots : slots = w \o Take(tree.nodes[c].value, n)
    OBVIOUS
<1>10. reply' = MatchReply(key, slots, new)
    BY <1>3, <1>4, <1>6, <1>7, <1>8, <1>9 DEF MatchSplit, Return
<1>11. CutSeen(tree', c, n, m, new, key)
    BY <1>1, <1>2, <1>3, <1>4, <1>5, <1>6, <1>7, SplitSeen
<1>12. Gathered(tree, key, m, w)
    BY <1>1, <1>5, <1>7, <1>8 DEF RefInv, MatchRight
<1>13. Gathered(tree, key, m + n, slots)
    <2>1. /\ c \in Inner(tree) /\ m = Len(Par(tree, c)) /\ n \in Nat
          /\ n <= Len(tree.nodes[c].key) /\ m + n <= Len(key)
          /\ \A i \in 1 .. m + n : c[i] = key[i]
        BY <1>11 DEF CutSeen
    <2>2. key \in Seq(Token)
        BY <1>1, <1>7, WalkOver
    <2> QED BY <1>9, <1>12, <2>1, <2>2, InvFacts, GatherMore
<1>14. key \in Keys
    BY <1>1, <1>7, WalkInv, InvFacts, CallersFacts
<1>15. /\ MapOf(tree') = MapOf(tree) /\ Len(new) = m + n
       /\ MatchLen(MapOf(tree), key) = Len(new) /\ MatchedKey(MapOf(tree), key) = new
    BY <1>11 DEF CutSeen
<1>16. Gathered(tree, key, Len(new), slots) /\ call.op # "evict"
    BY <1>1, <1>13, <1>15
<1> QED BY <1>1, <1>10, <1>14, <1>15, <1>16, MatchAnswers

-----------------------------------------------------------------------------
\* An insert that returns.
LEMMA InsertAnswers ==
    ASSUME NEW key, NEW value, <<key, value>> \in Inserts, call.op # "evict",
           call' = NoCall, hold' = hold, NEW len, reply' = InsertReply(len),
           MatchLen(MapOf(tree), key) = len,
           MapOf(tree') = Inserted(MapOf(tree), key, value)
    PROVE  Simulates
<1>1. reply' = [op |-> "insert", len |-> len] /\ reply'.op # "match"
    BY DEF InsertReply
<1>2. CachedMap = MapOf(tree) /\ CachedMap' = MapOf(tree')
    BY CachedMapIdle DEF NoCall
<1>3. Cache!Insert(key, value)
    BY <1>1, <1>2, SameMatch DEF Cache!Insert
<1>4. PICK i \in Inserts : i[1] = key /\ i[2] = value
    OBVIOUS
<1>5. Cache!Insert(i[1], i[2])
    BY <1>3, <1>4
<1>6. Cache!Next
    BY <1>5 DEF Cache!Next
<1> QED BY <1>1, <1>6, ReturnStep

LEMMA InsertImplements ==
    ASSUME Inv, NEW i \in setup.inserts, NEW p \in setup.priorities,
           Insert(i[1], i[2], p), setup' = setup
    PROVE  Simulates
<1>1. call.op = "none" /\ hold' = hold
    BY DEF Insert, Idle, NoCall
<1>2. PICK key, value : key = i[1] /\ value = i[2]
    OBVIOUS
<1>3. key \in Seq(Token) /\ i = <<key, value>> /\ <<key, value>> \in Inserts
    BY <1>2, InvFacts, SetupFacts, CallersFacts
<1>4. PICK t \in Now :
        /\ tree' = RaisePriority(Touch(tree, Root, t), Root, p)
        /\ IF key = <<>> THEN Return(InsertReply(0))
           ELSE /\ call' = [op |-> "insert", key |-> key, node |-> Root, len |-> 0,
                            value |-> value, priority |-> p, t |-> t]
                /\ UNCHANGED reply
    BY <1>2 DEF Insert
<1>5. PICK s : s = Touch(tree, Root, t)
    OBVIOUS
<1>6. t \in Nat /\ clock <= t /\ t <= clock + 1 /\ t <= setup.max_time /\ clock \in Nat
    BY NowFacts, InvFacts
<1>7. TreeAt(s, setup.priorities, t) /\ SameLinks(tree, s)
    BY <1>5, <1>6, InvFacts, TouchAt
<1>8. TreeAt(tree', setup.priorities, t) /\ SameLinks(s, tree')
    <2>1. Root \in Ids(s) /\ Root \notin Inner(s)
        BY <1>7, InvFacts DEF SameLinks, Inner
    <2> QED BY <1>4, <1>5, <1>6, <1>7, <2>1, InvFacts, RaiseAt
<1>9. MapOf(tree') = MapOf(tree)
    <2>1. MapOf(s) = MapOf(tree)
        BY <1>7, InvFacts, SameLinksMap DEF TreeAt, TreeOK
    <2>2. MapOf(tree') = MapOf(s)
        BY <1>7, <1>8, SameLinksMap DEF TreeAt, TreeOK
    <2> QED BY <2>1, <2>2
<1>10. CASE key = <<>>
    <2>1. call' = NoCall /\ reply' = InsertReply(0)
        BY <1>4, <1>10 DEF Return
    <2>2. key = Root
        BY <1>10 DEF Root
    <2>3. key \in Ids(tree)
        BY <2>2, InvFacts
    <2>4. Len(key) = 0
        BY <1>3, <2>2, RootPrefix
    <2>5. MatchLen(MapOf(tree), key) = 0 /\ Inserted(MapOf(tree), key, value) = MapOf(tree)
        BY <2>3, <2>4, InvFacts, NothingToInsert
    <2> QED BY <1>1, <1>3, <1>9, <2>1, <2>5, InsertAnswers
<1>11. CASE key # <<>>
    <2>1. call'.op = "insert" /\ reply' = reply
        BY <1>4, <1>11
    <2>2. MatchRight'
        BY <2>1 DEF MatchRight
    <2> QED BY <1>1, <1>9, <2>1, <2>2, UnseenStep
<1> QED BY <1>10, <1>11

\* The iterations of an insert: raising a priority changes no link.
LEMMA InsertGoesOnUnseen ==
    ASSUME Inv, call.op = "insert", NEW s, TreeOK(s), MapOf(s) = MapOf(tree), NEW x \in Ids(s),
           tree' = RaisePriority(s, x, call.priority), hold' = hold, reply' = reply,
           call'.op = "insert"
    PROVE  Simulates
<1>1. call.priority \in Int
    BY WalkInv, InvFacts
<1>2. Typed(tree') /\ SameLinks(s, tree')
    BY <1>1, RaiseEffect DEF TreeOK
<1>3. MapOf(tree') = MapOf(tree)
    BY <1>2, SameLinksMap DEF TreeOK
<1>4. MatchRight'
    BY DEF MatchRight
<1> QED BY <1>3, <1>4, UnseenStep

LEMMA InsertDescendImplements ==
    ASSUME Inv, InsertDescend, setup' = setup
    PROVE  Simulates
<1>1. /\ call.op = "insert" /\ CanDescend /\ hold' = hold /\ reply' = reply
      /\ tree' = RaisePriority(Touched, Child, call.priority)
      /\ call' = [call EXCEPT !.node = Child, !.len = @ + Common]
    BY DEF InsertDescend
<1>2. PICK s : s = Touched
    OBVIOUS
<1>3. TreeOK(s) /\ SameLinks(tree, s) /\ Child \in Ids(tree)
    BY <1>1, <1>2, TouchedFacts DEF TreeAt, WalkStep, Inner
<1>4. MapOf(s) = MapOf(tree) /\ Child \in Ids(s)
    BY <1>3, InvFacts, SameLinksMap DEF TreeOK, SameLinks
<1>5. call'.op = "insert"
    <2>1. call \in InsertCalls
        BY <1>1, WalkInv
    <2> QED BY <1>1, <2>1 DEF InsertCalls
<1> QED BY <1>1, <1>2, <1>3, <1>4, <1>5, InsertGoesOnUnseen

LEMMA InsertSplitImplements ==
    ASSUME Inv, InsertSplit, setup' = setup
    PROVE  Simulates
<1>1. PICK new : new = SplitName(tree, Child, Common)
    OBVIOUS
<1>2. /\ call.op = "insert" /\ CanDescend /\ ~ ChildMatches /\ hold' = hold /\ reply' = reply
      /\ call' = [call EXCEPT !.node = new, !.len = @ + Common]
    BY <1>1 DEF InsertSplit
<1>3. PICK u \in Later : tree' = RaisePriority(SplitNode(Touched, Child, Common, u), new,
                                               call.priority)
    BY <1>1 DEF InsertSplit
<1>4. PICK s : s = SplitNode(Touched, Child, Common, u)
    OBVIOUS
<1>5. CutSeen(s, Child, Common, call.len, new, call.key)
    BY <1>1, <1>2, <1>4, SplitSeen
<1>6. TreeOK(s) /\ MapOf(s) = MapOf(tree) /\ new \in Ids(s)
    BY <1>5 DEF CutSeen
<1>7. call'.op = "insert"
    <2>1. call \in InsertCalls
        BY <1>2, WalkInv
    <2> QED BY <1>2, <2>1 DEF InsertCalls
<1> QED BY <1>2, <1>3, <1>4, <1>6, <1>7, InsertGoesOnUnseen

\* A key is what is matched of it and the rest.
LEMMA PrefixAndRest ==
    ASSUME NEW p \in Seq(Token), NEW q \in Seq(Token), IsPrefix(p, q)
    PROVE  p \o Drop(q, Len(p)) = q
<1>1. Len(p) \in Nat /\ Len(q) \in Nat /\ Len(p) <= Len(q)
      /\ \A i \in 1 .. Len(p) : p[i] = q[i]
    BY PrefixByToken, LenProperties
<1>2. PICK m \in 0 .. Len(q) : m = Len(p)
    BY <1>1
<1>3. PICK d : d = Drop(q, m)
    OBVIOUS
<1>4. d \in Seq(Token) /\ Len(d) = Len(q) - m /\ \A i \in 1 .. Len(q) - m : d[i] = q[m + i]
    BY <1>3, DropProperties
<1>5. PICK r : r = p \o d
    OBVIOUS
<1>6. /\ r \in Seq(Token) /\ Len(r) = Len(p) + Len(d)
      /\ \A i \in 1 .. Len(p) + Len(d) : r[i] = IF i <= Len(p) THEN p[i] ELSE d[i - Len(p)]
    <2>1. r \in Seq(Token) /\ Len(r) = Len(p) + Len(d)
        BY <1>4, <1>5, ConcatProperties
    <2>2. \A i \in 1 .. Len(p) + Len(d) : r[i] = IF i <= Len(p) THEN p[i] ELSE d[i - Len(p)]
        BY <1>4, <1>5, ConcatProperties
    <2> QED BY <2>1, <2>2
<1>7. Len(r) = Len(q)
    BY <1>1, <1>2, <1>4, <1>6
<1>8. ASSUME NEW i \in 1 .. Len(r) PROVE r[i] = q[i]
    <2>1. i \in 1 .. Len(p) + Len(d)
        BY <1>6
    <2>2. r[i] = IF i <= Len(p) THEN p[i] ELSE d[i - Len(p)]
        BY <1>6, <2>1
    <2>3. CASE i <= Len(p)
        <3>1. i \in 1 .. Len(p)
            BY <1>1, <1>7, <2>3
        <3> QED BY <1>1, <2>2, <2>3, <3>1
    <2>4. CASE ~ (i <= Len(p))
        <3>1. i - m \in 1 .. Len(q) - m /\ m + (i - m) = i
            BY <1>1, <1>2, <1>7, <2>4
        <3>2. d[i - m] = q[m + (i - m)]
            BY <1>4, <3>1
        <3> QED BY <1>2, <2>2, <2>4, <3>1, <3>2
    <2> QED BY <2>3, <2>4
<1>9. IsPrefix(r, q)
    BY <1>1, <1>6, <1>7, <1>8, PrefixByToken
<1>10. Len(r) >= Len(q)
    BY <1>1, <1>7
<1>11. r = q
    BY <1>6, <1>9, <1>10, PrefixOfSameLength
<1> QED BY <1>2, <1>3, <1>5, <1>11

LEMMA InsertLeafImplements ==
    ASSUME Inv, InsertLeaf, setup' = setup
    PROVE  Simulates
<1>1. /\ call.op = "insert" /\ ~ CanDescend /\ Rest # <<>> /\ hold' = hold
      /\ call' = NoCall /\ reply' = InsertReply(call.len)
    BY DEF InsertLeaf, Return
<1>2. PICK u \in Later :
        tree' = AddLeaf(tree, call.node, Rest, Drop(call.value, call.len), call.priority, u)
    BY DEF InsertLeaf
<1>3. PICK rest : rest = Rest
    OBVIOUS
<1>4. PICK v : v = call.value
    OBVIOUS
<1>5. PICK id : id = call.node
    OBVIOUS
<1>6. PICK p : p = call.priority
    OBVIOUS
<1>7. PICK key : key = call.key
    OBVIOUS
<1>8. PICK value : value = Drop(v, Len(id))
    OBVIOUS
<1>9. /\ id \in Ids(tree) /\ id \in Seq(Token) /\ key \in Seq(Token) /\ IsPrefix(id, key)
      /\ call.len = Len(id) /\ Len(id) \in 0 .. Len(key) /\ Len(id) < Len(key)
      /\ key[Len(id) + 1] \notin DOMAIN Kids(tree, id) /\ Len(key) \in Nat
    <2>1. /\ id \in Ids(tree) /\ id \in Seq(Token) /\ key \in Seq(Token) /\ IsPrefix(id, key)
          /\ call.len = Len(id) /\ Len(id) \in Nat /\ Len(key) \in Nat /\ Len(id) <= Len(key)
          /\ Len(id) # Len(key)
          /\ Len(id) < Len(key) => key[Len(id) + 1] \notin DOMAIN Kids(tree, id)
        BY <1>1, <1>5, <1>7, WalkOver
    <2>2. Len(id) < Len(key) /\ Len(id) \in 0 .. Len(key)
        BY <2>1
    <2> QED BY <2>1, <2>2
<1>10. /\ <<key, v>> \in Inserts /\ v \in Seq(Slot) /\ Len(v) = Len(key)
       /\ p \in Int
    <2>1. PICK i \in setup.inserts : i = <<key, v>>
        BY <1>1, <1>4, <1>7, WalkInv
    <2>2. i[1] = key /\ i[2] = v
        BY <2>1
    <2>3. v \in Seq(Slot) /\ Len(v) = Len(key)
        BY <2>2, InvFacts, SetupFacts
    <2>4. p \in Int
        BY <1>1, <1>6, WalkInv, InvFacts
    <2> QED BY <2>1, <2>3, <2>4, InvFacts, CallersFacts
<1>11. rest = Drop(key, Len(id)) /\ u \in Nat
    BY <1>3, <1>7, <1>9, LaterFacts DEF Rest
<1>12. tree' = AddLeaf(tree, id, rest, value, p, u)
    BY <1>2, <1>3, <1>4, <1>5, <1>6, <1>8, <1>9
<1>13. /\ rest \in Seq(Token) /\ Len(rest) = Len(key) - Len(id)
       /\ value \in Seq(Slot) /\ Len(value) = Len(rest)
       /\ rest[1] = key[Len(id) + 1]
    <2>1. rest \in Seq(Token) /\ Len(rest) = Len(key) - Len(id)
          /\ \A i \in 1 .. Len(key) - Len(id) : rest[i] = key[Len(id) + i]
        BY <1>9, <1>11, DropProperties
    <2>2. value \in Seq(Slot) /\ Len(value) = Len(v) - Len(id)
        <3>1. PICK l \in 0 .. Len(v) : l = Len(id)
            BY <1>9, <1>10
        <3>2. value = Drop(v, l)
            BY <1>8, <3>1
        <3> QED BY <1>10, <3>1, <3>2, DropProperties
    <2>3. 1 \in 1 .. Len(key) - Len(id)
        BY <1>9
    <2> QED BY <1>10, <2>1, <2>2, <2>3
<1>14. id \o rest = key
    BY <1>9, <1>11, PrefixAndRest
<1>15. PICK leaf : leaf = TreeNode(id, rest, value, 0, <<>>, p, u)
    OBVIOUS
<1>16. rest # <<>> /\ rest[1] \notin DOMAIN Kids(tree, id)
    BY <1>1, <1>3, <1>9, <1>13
<1>17. LeafAdded(tree, tree', id, rest, key, leaf)
    BY <1>9, <1>10, <1>11, <1>12, <1>13, <1>14, <1>15, <1>16, InvFacts, AddLeafEffect
<1>18. TreeOK(tree')
    BY <1>9, <1>10, <1>11, <1>12, <1>13, <1>16, InvFacts, AddLeafOK
<1>19. leaf.parent = id /\ leaf.value = value
    BY <1>15 DEF TreeNode
<1>20. Grown(tree, tree', id, rest[1], key, leaf) /\ key \notin Ids(tree)
    BY <1>17 DEF LeafAdded
<1>21. /\ MatchLen(MapOf(tree), key) = Len(id)
       /\ MapOf(tree') = Inserted(MapOf(tree), key, v)
    <2>1. PICK s2 : s2 = tree'
        OBVIOUS
    <2>2. PICK s : s = tree
        OBVIOUS
    <2>3. PICK tok : tok = rest[1]
        OBVIOUS
    <2>4. /\ Typed(s) /\ Shape(s) /\ Typed(s2) /\ Shape(s2)
        BY <1>18, <2>1, <2>2, InvFacts DEF TreeOK
    <2>5. Grown(s, s2, id, tok, key, leaf) /\ key \notin Ids(s) /\ id \in Ids(s)
        BY <1>9, <1>20, <2>1, <2>2, <2>3
    <2>6. leaf.parent = id /\ leaf.value = Drop(v, Len(id))
        BY <1>8, <1>19
    <2>7. key[Len(id) + 1] \notin DOMAIN Kids(s, id)
        BY <1>9, <2>2
    <2>8. MatchLen(MapOf(s), key) = Len(id) /\ MapOf(s2) = Inserted(MapOf(s), key, v)
        BY <1>9, <1>10, <2>4, <2>5, <2>6, <2>7, GrownMap
    <2> QED BY <2>1, <2>2, <2>8
<1> QED BY <1>1, <1>9, <1>10, <1>21, InsertAnswers

LEMMA InsertReturnImplements ==
    ASSUME Inv, InsertReturn, setup' = setup
    PROVE  Simulates
<1>1. /\ call.op = "insert" /\ Rest = <<>> /\ tree' = tree /\ hold' = hold
      /\ call' = NoCall /\ reply' = InsertReply(call.len)
    BY DEF InsertReturn, Return
<1>2. PICK key, value : key = call.key /\ value = call.value
    OBVIOUS
<1>3. PICK node : node = call.node
    OBVIOUS
<1>4. /\ node \in Ids(tree) /\ node \in Seq(Token) /\ key \in Seq(Token)
      /\ IsPrefix(node, key) /\ call.len = Len(node) /\ Len(node) = Len(key)
      /\ Len(key) \in Nat
    BY <1>1, <1>2, <1>3, WalkOver
<1>5. node = key
    <2>1. Len(node) >= Len(key)
        BY <1>4
    <2> QED BY <1>4, <2>1, PrefixOfSameLength
<1>6. <<key, value>> \in Inserts
    BY <1>1, <1>2, WalkInv, InvFacts, CallersFacts
<1>7. /\ MatchLen(MapOf(tree), key) = call.len
      /\ MapOf(tree') = Inserted(MapOf(tree), key, value)
    BY <1>1, <1>4, <1>5, InvFacts, NothingToInsert
<1> QED BY <1>1, <1>6, <1>7, InsertAnswers

-----------------------------------------------------------------------------
(* The steps of lock, unlock and reset, seen from outside *)

LEMMA UnseenLock ==
    ASSUME call.op # "evict", call'.op \in {"lock", "unlock"}, MapOf(tree') = MapOf(tree),
           hold' = hold, reply' = reply, DeltaRight', ReplyRight'
    PROVE  Simulates
<1>1. UNCHANGED Seen
    BY CachedMapIdle DEF Seen
<1> QED BY <1>1 DEF Simulates, Implements, MatchRight, DropsRight

\* Before the walk, what is evictable is what the tree counts as such.
LEMMA DeltaStarts ==
    ASSUME Inv, call.op \notin {"lock", "unlock"}, tree' = tree, hold' = hold,
           call'.delta = 0, call'.op = "unlock" => hold[call'.client] # Root
    PROVE  DeltaRight'
<1>1. LockOn(tree, hold) /\ TreeOK(tree)
    BY InvFacts, LockInvIdle DEF Inv
<1>2. Cardinality(EvictableEntries(MapOf(tree), Held(hold))) = tree.evictable_size_
    BY <1>1, EvictableFacts
<1>3. tree.evictable_size_ \in Int
    BY InvFacts, TreeFacts
<1>4. Evictable(tree)' = tree.evictable_size_
    BY <1>2 DEF Evictable
<1>5. tree'.evictable_size_ - call'.delta = Evictable(tree)'
    BY <1>3, <1>4
<1> QED BY <1>5 DEF DeltaRight

LEMMA LockImplements ==
    ASSUME Inv, RefInv, NEW c \in setup.clients, Lock(c), setup' = setup
    PROVE  Simulates
<1>1. /\ call.op = "none" /\ tree' = tree /\ hold' = hold /\ reply' = reply
      /\ call' = [op |-> "lock", client |-> c, node |-> reply.last_node, delta |-> 0]
    BY DEF Lock, Idle, NoCall
<1>2. call'.op = "lock" /\ call'.delta = 0
    BY <1>1
<1>3. DeltaRight'
    BY <1>1, <1>2, DeltaStarts
<1>4. ReplyRight'
    BY <1>1, <1>2 DEF RefInv, ReplyRight
<1> QED BY <1>1, <1>2, <1>3, <1>4, UnseenLock

LEMMA UnlockImplements ==
    ASSUME Inv, RefInv, NEW c \in setup.clients, Unlock(c), setup' = setup
    PROVE  Simulates
<1>1. /\ call.op = "none" /\ tree' = tree /\ hold' = hold /\ reply' = reply
      /\ hold[c] # Root
      /\ call' = [op |-> "unlock", client |-> c, node |-> hold[c], delta |-> 0]
    BY DEF Unlock, Idle, NoCall
<1>2. call'.op = "unlock" /\ call'.delta = 0 /\ call'.client = c
    BY <1>1
<1>3. DeltaRight'
    BY <1>1, <1>2, DeltaStarts
<1>4. ReplyRight'
    BY <1>2 DEF ReplyRight
<1> QED BY <1>1, <1>2, <1>3, <1>4, UnseenLock

\* On the way what the tree counts as evictable and the delta change alike.
LEMMA LockStepImplements ==
    ASSUME Inv, RefInv, LockStep, setup' = setup
    PROVE  Simulates
<1>1. PICK x : x = call.node
    OBVIOUS
<1>2. PICK n : n = LockGain(tree.nodes[x])
    OBVIOUS
<1>3. /\ call.op = "lock" /\ tree' = LockNode(tree, x) /\ hold' = hold /\ reply' = reply
      /\ call' = [call EXCEPT !.delta = @ - n, !.node = Above(x)]
    BY <1>1, <1>2 DEF LockStep
<1>4. call \in LockCalls("lock") /\ x \in Ids(tree) /\ x \in Seq(Token)
    BY <1>1, <1>3, LockCallFacts
<1>5. /\ Typed(tree') /\ SameLinks(tree, tree')
      /\ tree'.evictable_size_ = tree.evictable_size_ - n
    BY <1>2, <1>3, <1>4, InvFacts, LockEffect
<1>6. MapOf(tree') = MapOf(tree)
    BY <1>5, InvFacts, SameLinksMap
<1>7. PICK d : d = call.delta
    OBVIOUS
<1>8. d \in Int
    BY <1>4, <1>7 DEF LockCalls
<1>9. call'.op = "lock" /\ call'.delta = d - n
    <2>1. PICK a : a = Above(x)
        OBVIOUS
    <2>2. PICK e : e = d - n
        OBVIOUS
    <2>3. call' = [call EXCEPT !.delta = e, !.node = a]
        BY <1>3, <1>7, <2>1, <2>2
    <2> QED BY <1>3, <1>4, <2>2, <2>3 DEF LockCalls
<1>10. n \in Int
    <2>1. tree.nodes[x].key \in Seq(Token)
        BY <1>4, InvFacts, TreeFacts, NodeFields
    <2> QED BY <1>2, <2>1, LenProperties DEF LockGain
<1>11. tree.evictable_size_ \in Int
    BY InvFacts, TreeFacts
<1>12. tree'.evictable_size_ - call'.delta = tree.evictable_size_ - d
    <2>1. PICK e : e = tree.evictable_size_
        OBVIOUS
    <2>2. (e - n) - (d - n) = e - d
        BY <1>8, <1>10, <1>11, <2>1
    <2> QED BY <1>5, <1>9, <2>1, <2>2
<1>13. Evictable(tree)' = Evictable(tree)
    BY <1>3, <1>6 DEF Evictable
<1>14. DeltaRight'
    BY <1>3, <1>7, <1>9, <1>12, <1>13 DEF RefInv, DeltaRight
<1>15. ReplyRight'
    BY <1>3, <1>6, <1>9 DEF RefInv, ReplyRight
<1> QED BY <1>3, <1>6, <1>9, <1>14, <1>15, UnseenLock

LEMMA UnlockStepImplements ==
    ASSUME Inv, RefInv, UnlockStep, setup' = setup
    PROVE  Simulates
<1>1. PICK x : x = call.node
    OBVIOUS
<1>2. PICK n : n = UnlockGain(tree.nodes[x])
    OBVIOUS
<1>3. /\ call.op = "unlock" /\ tree' = UnlockNode(tree, x) /\ hold' = hold
      /\ reply' = reply /\ x # Root
      /\ call' = [call EXCEPT !.delta = @ + n, !.node = Above(x)]
    BY <1>1, <1>2 DEF UnlockStep
<1>4. /\ call \in LockCalls("unlock") /\ x \in Ids(tree) /\ x \in Seq(Token)
      /\ call.client \in Client
    BY <1>1, <1>3, UnlockCallFacts
<1>5. tree.nodes[x].lock_ref > 0
    <2>1. x \in Inner(tree) /\ IsPrefix(x, hold[call.client])
        BY <1>1, <1>3, <1>4, UnlockCallFacts DEF Inner
    <2>2. call.client \in Holders(x)
        BY <1>1, <1>3, <1>4, <2>1, PrefixReflexive DEF Holders, HeldBy
    <2>3. tree.nodes[x].lock_ref = Cardinality(Holders(x)) /\ Holders(x) \in SUBSET Client
        BY <1>3, <2>1, UnlockCallFacts DEF Holders
    <2>4. PICK H \in SUBSET Client : H = Holders(x)
        BY <2>3
    <2>5. PICK c \in H : c = call.client
        BY <2>2, <2>4
    <2> QED BY <2>3, <2>4, <2>5, OneHolderLess
<1>6. /\ Typed(tree') /\ SameLinks(tree, tree')
      /\ tree'.evictable_size_ = tree.evictable_size_ + n
    BY <1>2, <1>3, <1>4, <1>5, InvFacts, UnlockEffect
<1>7. MapOf(tree') = MapOf(tree)
    BY <1>6, InvFacts, SameLinksMap
<1>8. PICK d : d = call.delta
    OBVIOUS
<1>9. d \in Int
    BY <1>4, <1>8 DEF LockCalls
<1>10. call'.op = "unlock" /\ call'.delta = d + n /\ call'.client = call.client
    <2>1. PICK a : a = Above(x)
        OBVIOUS
    <2>2. PICK e : e = d + n
        OBVIOUS
    <2>3. call' = [call EXCEPT !.delta = e, !.node = a]
        BY <1>3, <1>8, <2>1, <2>2
    <2> QED BY <1>3, <1>4, <2>2, <2>3 DEF LockCalls
<1>11. n \in Int
    <2>1. tree.nodes[x].key \in Seq(Token)
        BY <1>4, InvFacts, TreeFacts, NodeFields
    <2> QED BY <1>2, <2>1, LenProperties DEF UnlockGain
<1>12. tree.evictable_size_ \in Int
    BY InvFacts, TreeFacts
<1>13. tree'.evictable_size_ - call'.delta = tree.evictable_size_ - d
    <2>1. PICK e : e = tree.evictable_size_
        OBVIOUS
    <2>2. (e + n) - (d + n) = e - d
        BY <1>9, <1>11, <1>12, <2>1
    <2> QED BY <1>6, <1>10, <2>1, <2>2
<1>14. Evictable(tree)' = Evictable(tree)
    BY <1>3, <1>7 DEF Evictable
<1>15. DeltaRight'
    BY <1>3, <1>8, <1>10, <1>13, <1>14 DEF RefInv, DeltaRight
<1>16. ReplyRight'
    BY <1>10 DEF ReplyRight
<1> QED BY <1>3, <1>7, <1>10, <1>15, <1>16, UnseenLock

\* When the walk is over, delta is what the pins have made evictable.
LEMMA DeltaIsGain ==
    ASSUME Inv, RefInv, Inv', call.op \in {"lock", "unlock"}, call' = NoCall, tree' = tree
    PROVE  Cache!EvictableGain = call.delta
<1>1. CachedMap = MapOf(tree) /\ Cache!Pins = Held(hold) /\ Cache!Pins' = Held(hold')
    BY CachedMapIdle DEF Cache!Pins, Held
<1>2. LockOn(tree, hold') /\ TreeOK(tree)
    <2>1. LockOn(tree', hold')
        BY LockInvIdleNext DEF NoCall, Inv
    <2> QED BY <2>1, InvFacts
<1>3. Cardinality(EvictableEntries(MapOf(tree), Held(hold'))) = tree.evictable_size_
    <2>1. PICK h : h = hold'
        OBVIOUS
    <2> QED BY <1>2, <2>1, EvictableFacts
<1>4. tree.evictable_size_ - call.delta =
            Cardinality(EvictableEntries(MapOf(tree), Held(hold)))
    BY DEF RefInv, DeltaRight, Evictable
<1>5. PICK e, d : e = tree.evictable_size_ /\ d = call.delta
    OBVIOUS
<1>6. e \in Int /\ d \in Int
    BY <1>5, InvFacts, TreeFacts, LockCallFacts, UnlockCallFacts DEF LockCalls
<1>7. e - (e - d) = d
    BY <1>6
<1>8. Cache!EvictableGain =
        Cardinality(EvictableEntries(MapOf(tree), Held(hold')))
            - Cardinality(EvictableEntries(MapOf(tree), Held(hold)))
    <2>1. PICK f : f = CachedMap
        OBVIOUS
    <2>2. \A P : Cache!EvictableEntries(f, P) = EvictableEntries(f, P)
        BY SameEvict
    <2>3. \A V : Cache!Cardinality(V) = Cardinality(V)
        BY SameEvict
    <2>4. Cache!EvictableGain =
            Cache!Cardinality(Cache!EvictableEntries(f, Cache!Pins'))
                - Cache!Cardinality(Cache!EvictableEntries(f, Cache!Pins))
        BY <2>1 DEF Cache!EvictableGain
    <2> QED BY <1>1, <2>1, <2>2, <2>3, <2>4
<1> QED BY <1>3, <1>4, <1>5, <1>7, <1>8

LEMMA LockReturnImplements ==
    ASSUME Inv, RefInv, LockReturn, setup' = setup
    PROVE  Simulates
<1>1. /\ call.op = "lock" /\ tree' = tree /\ call' = NoCall
      /\ hold' = [hold EXCEPT ![call.client] = reply.last_node]
      /\ reply' = [op |-> "lock", delta |-> call.delta]
    BY DEF LockReturn, Return
<1>2. Inv'
    BY LockEnds
<1>3. Cache!EvictableGain = call.delta
    BY <1>1, <1>2, DeltaIsGain
<1>4. call.client \in Client /\ hold[call.client] = <<>> /\ reply.op = "match"
    BY <1>1, LockCallFacts DEF Root
<1>5. reply.key \in Keys /\ reply.last_node = MatchedKey(MapOf(tree), reply.key)
    BY <1>1, <1>4 DEF RefInv, ReplyRight
<1>6. CachedMap = MapOf(tree) /\ CachedMap' = CachedMap
    BY <1>1, CachedMapIdle DEF NoCall
<1>7. Cache!Lock(call.client, reply.key)
    BY <1>1, <1>3, <1>4, <1>5, <1>6, SameMatch DEF Cache!Lock
<1>8. Cache!Next
    BY <1>4, <1>5, <1>7 DEF Cache!Next
<1>9. reply'.op # "match"
    BY <1>1
<1> QED BY <1>1, <1>8, <1>9, ReturnStep

LEMMA UnlockReturnImplements ==
    ASSUME Inv, RefInv, UnlockReturn, setup' = setup
    PROVE  Simulates
<1>1. /\ call.op = "unlock" /\ tree' = tree /\ call' = NoCall
      /\ hold' = [hold EXCEPT ![call.client] = Root]
      /\ reply' = [op |-> "unlock", delta |-> call.delta]
    BY DEF UnlockReturn, Return
<1>2. Inv'
    BY UnlockEnds
<1>3. Cache!EvictableGain = call.delta
    BY <1>1, <1>2, DeltaIsGain
<1>4. call.client \in Client /\ hold[call.client] # <<>>
    BY <1>1, UnlockCallFacts DEF Root, RefInv, DeltaRight
<1>5. CachedMap = MapOf(tree) /\ CachedMap' = CachedMap
    BY <1>1, CachedMapIdle DEF NoCall
<1>6. Cache!Unlock(call.client)
    BY <1>1, <1>3, <1>4, <1>5 DEF Cache!Unlock, Root
<1>7. Cache!Next
    BY <1>4, <1>6 DEF Cache!Next
<1>8. reply'.op # "match"
    BY <1>1
<1> QED BY <1>1, <1>7, <1>8, ReturnStep

LEMMA ResetImplements ==
    ASSUME Inv, Reset, setup' = setup
    PROVE  Simulates
<1>1. /\ call.op = "none" /\ call' = NoCall /\ reply' = NoReply /\ hold' = hold
      /\ \A c \in Client : hold[c] = <<>>
    BY DEF Reset, Idle, NoCall, Return, Root
<1>2. PICK t \in Now : tree' = EmptyTree(t)
    BY DEF Reset
<1>3. t \in Nat
    BY NowFacts
<1>4. MapOf(tree') = Cache!EmptyMap
    BY <1>2, <1>3, EmptyTreeMap, SameMatch
<1>5. CachedMap' = Cache!EmptyMap
    BY <1>1, <1>4, CachedMapIdle DEF NoCall
<1>6. reply' = Cache!NoReply /\ reply'.op # "match"
    BY <1>1 DEF NoReply, Cache!NoReply
<1>7. Cache!Reset
    BY <1>1, <1>5, <1>6 DEF Cache!Reset
<1>8. Cache!Next
    BY <1>7 DEF Cache!Next
<1> QED BY <1>1, <1>6, <1>8, ReturnStep

-----------------------------------------------------------------------------
(* The steps of evict, seen from outside *)

\* The slots of a node's value are those of its entries.
LEMMA SlotsFreed ==
    ASSUME NEW s, Typed(s), Shape(s), NEW x \in Inner(s)
    PROVE  ToSet(s.nodes[x].value) = {MapOf(s)[p] : p \in EntriesOf(s, x)}
<1>1. PICK v : v = s.nodes[x].value
    OBVIOUS
<1>2. PICK f : f = MapOf(s)
    OBVIOUS
<1>3. PICK m : m = Len(Par(s, x))
    OBVIOUS
<1>4. /\ x \in Seq(Token) /\ Len(x) \in Nat /\ m \in Nat /\ v \in Seq(Slot)
      /\ Len(v) = Len(x) - m
    <2>1. /\ x \in Seq(Token) /\ Len(x) \in Nat /\ Len(Par(s, x)) \in Nat
          /\ s.nodes[x].value \in Seq(Slot)
          /\ Len(s.nodes[x].value) = Len(x) - Len(Par(s, x))
        BY NodeFacts
    <2> QED BY <1>1, <1>3, <2>1
<1>5. \A p \in EntriesOf(s, x) : f[p] = v[Len(p) - m]
    BY <1>1, <1>2, <1>3, MapRepresents DEF Represents
<1>6. \A p \in EntriesOf(s, x) : Len(p) - m \in 1 .. Len(v)
    BY <1>1, <1>3, EntrySlot
<1>7. DOMAIN v = 1 .. Len(v) /\ Len(v) \in Nat
    BY <1>4, LenProperties
<1>8. ASSUME NEW i \in 1 .. Len(v) PROVE \E p \in EntriesOf(s, x) : f[p] = v[i]
    <2>1. m + i \in 0 .. Len(x) /\ m + i > m /\ (m + i) - m = i
        BY <1>4, <1>7, <1>8
    <2>2. PICK p : p = Take(x, m + i)
        OBVIOUS
    <2>3. p \in Seq(Token) /\ Len(p) = m + i /\ IsPrefix(p, x)
        BY <1>4, <2>1, <2>2, TakeIsPrefix
    <2>4. p \in EntriesOf(s, x)
        BY <1>3, <2>1, <2>3, EntryFacts
    <2> QED BY <1>5, <2>1, <2>3, <2>4
<1>9. ToSet(v) = {v[i] : i \in 1 .. Len(v)}
    BY <1>7 DEF ToSet
<1>10. {v[i] : i \in 1 .. Len(v)} = {f[p] : p \in EntriesOf(s, x)}
    <2>1. \A i \in 1 .. Len(v) : v[i] \in {f[p] : p \in EntriesOf(s, x)}
        BY <1>8
    <2>2. \A p \in EntriesOf(s, x) : f[p] \in {v[i] : i \in 1 .. Len(v)}
        BY <1>5, <1>6
    <2> QED BY <2>1, <2>2
<1> QED BY <1>1, <1>2, <1>9, <1>10

\* What Thinned says of the nodes that are left.
LEMMA ThinnedFacts ==
    ASSUME NEW b, NEW s, Thinned(b, s), Root \in Ids(s)
    PROVE  /\ Ids(s) \subseteq Ids(b) /\ Inner(s) \subseteq Inner(b)
           /\ Inner(b) = Inner(s) \union Gone(b, s) /\ Inner(s) \intersect Gone(b, s) = {}
           /\ Gone(b, s) \subseteq Inner(b)
           /\ \A y \in Ids(s) :
                /\ Par(s, y) = Par(b, y) /\ s.nodes[y].value = b.nodes[y].value
                /\ s.nodes[y].lock_ref = b.nodes[y].lock_ref
           /\ \A y \in Inner(s) : EntriesOf(s, y) = EntriesOf(b, y)
           /\ EntriesOfAll(s, Inner(s)) = EntriesOfAll(b, Inner(s))
<1>1. /\ Ids(s) \subseteq Ids(b) /\ Inner(s) \subseteq Inner(b)
      /\ Inner(b) = Inner(s) \union Gone(b, s) /\ Inner(s) \intersect Gone(b, s) = {}
      /\ Gone(b, s) \subseteq Inner(b)
    BY DEF Thinned, Inner, Gone
<1>2. \A y \in Ids(s) :
        /\ Par(s, y) = Par(b, y) /\ s.nodes[y].value = b.nodes[y].value
        /\ s.nodes[y].lock_ref = b.nodes[y].lock_ref
    BY DEF Thinned, SameBody, Par
<1>3. \A y \in Inner(s) : Par(s, y) = Par(b, y)
    BY <1>2 DEF Inner
<1>4. /\ \A y \in Inner(s) : EntriesOf(s, y) = EntriesOf(b, y)
      /\ EntriesOfAll(s, Inner(s)) = EntriesOfAll(b, Inner(s))
    BY <1>3, SameEntries
<1> QED BY <1>1, <1>2, <1>4

\* The map of what is left is the map less what was dropped.
LEMMA EvictedMap ==
    ASSUME NEW b, TreeOK(b), NEW s, TreeOK(s), Thinned(b, s)
    PROVE  MapOf(s) = Evicted(MapOf(b), EntriesOfAll(b, Gone(b, s)))
<1> DEFINE V == EntriesOfAll(b, Gone(b, s))
           E == EntriesOfAll(b, Inner(b)) \ V
           g == Evicted(MapOf(b), V)
<1>1. Typed(b) /\ Shape(b) /\ Typed(s) /\ Shape(s) /\ Root \in Ids(s)
    BY DEF TreeOK, Shape
<1>2. PICK f : f = MapOf(b)
    OBVIOUS
<1>3. /\ f \in [EntriesOfAll(b, Inner(b)) -> Slot]
      /\ \A x \in Inner(b) : \A p \in EntriesOf(b, x) :
            f[p] = b.nodes[x].value[Len(p) - Len(Par(b, x))]
    BY <1>1, <1>2, MapRepresents DEF Represents
<1>4. g = [p \in E |-> f[p]]
    BY <1>2, <1>3 DEF Evicted, Restrict
<1>5. EntriesOfAll(s, Inner(s)) = E
    <2>1. EntriesOfAll(s, Inner(s)) = EntriesOfAll(b, Inner(s))
        BY <1>1, ThinnedFacts
    <2>2. Inner(b) = Inner(s) \union Gone(b, s) /\ Inner(s) \intersect Gone(b, s) = {}
        BY <1>1, ThinnedFacts
    <2>3. ASSUME NEW p \in EntriesOfAll(b, Inner(s)) PROVE p \in E
        <3>1. PICK x \in Inner(s) : p \in EntriesOf(b, x)
            BY DEF EntriesOfAll
        <3>2. x \in Inner(b) /\ x \notin Gone(b, s)
            BY <2>2
        <3>3. p \in EntriesOfAll(b, Inner(b))
            BY <3>1, <3>2 DEF EntriesOfAll
        <3>4. ASSUME NEW y \in Gone(b, s), p \in EntriesOf(b, y) PROVE FALSE
            <4>1. y \in Inner(b)
                BY <2>2
            <4>2. x = y
                BY <1>1, <3>1, <3>2, <3>4, <4>1, EntriesDisjoint
            <4> QED BY <3>2, <4>2
        <3>5. p \notin V
            BY <3>4 DEF EntriesOfAll
        <3> QED BY <3>3, <3>5
    <2>4. ASSUME NEW p \in E PROVE p \in EntriesOfAll(b, Inner(s))
        <3>1. PICK x \in Inner(b) : p \in EntriesOf(b, x)
            BY DEF EntriesOfAll
        <3>2. x \notin Gone(b, s)
            BY <3>1 DEF EntriesOfAll
        <3> QED BY <2>2, <3>1, <3>2 DEF EntriesOfAll
    <2> QED BY <2>1, <2>3, <2>4
<1> HIDE DEF V, E, g
<1>6. g \in [EntriesOfAll(s, Inner(s)) -> Slot]
    <2>1. E \subseteq EntriesOfAll(b, Inner(b))
        BY DEF E
    <2> QED BY <1>3, <1>4, <1>5, <2>1
<1>7. ASSUME NEW x \in Inner(s), NEW p \in EntriesOf(s, x)
      PROVE  g[p] = s.nodes[x].value[Len(p) - Len(Par(s, x))]
    <2>1. x \in Ids(s)
        BY DEF Inner
    <2>2. Par(s, x) = Par(b, x) /\ s.nodes[x].value = b.nodes[x].value
        BY <1>1, <2>1, ThinnedFacts
    <2>3. x \in Inner(b) /\ p \in EntriesOf(b, x)
        BY <1>1, ThinnedFacts
    <2>4. p \in E
        BY <1>5 DEF EntriesOfAll
    <2> QED BY <1>3, <1>4, <2>2, <2>3, <2>4
<1>8. Represents(g, s)
    BY <1>6, <1>7 DEF Represents
<1>9. MapOf(s) = g
    BY <1>1, <1>8, MapRepresents, RepresentsOnce
<1> QED BY <1>9 DEF g, V

\* What has been dropped is one of the sets an eviction may drop.
LEMMA GoneIsEvictionSet ==
    ASSUME NEW b, TreeOK(b), NEW s, TreeOK(s), NEW h, LockOn(b, h), LockOn(s, h),
           Thinned(b, s), Gone(b, s) \subseteq Unlocked(b), NEW n \in Nat,
           n = 0 => Gone(b, s) = {},
           \/ Cardinality(EntriesOfAll(b, Gone(b, s))) >= n
           \/ s.evictable_leaves = {}
    PROVE  EntriesOfAll(b, Gone(b, s)) \in EvictionSets(MapOf(b), Held(h), n)
<1>1. /\ Typed(b) /\ Shape(b) /\ Typed(s) /\ Shape(s) /\ Root \in Ids(s) /\ Leaves(s)
    BY DEF TreeOK, Shape
<1>2. PICK G : G = Gone(b, s)
    OBVIOUS
<1>3. PICK V : V = EntriesOfAll(b, G)
    OBVIOUS
<1>4. PICK X : X = EvictableEntries(MapOf(b), Held(h))
    OBVIOUS
<1>5. X = EntriesOfAll(b, Unlocked(b))
    BY <1>4, EvictableFacts
<1>6. V \subseteq X
    BY <1>2, <1>3, <1>5 DEF EntriesOfAll
<1>7. /\ Inner(s) \subseteq Inner(b) /\ Inner(b) = Inner(s) \union G
      /\ Inner(s) \intersect G = {} /\ G \subseteq Inner(b)
      /\ \A y \in Inner(s) : EntriesOf(s, y) = EntriesOf(b, y)
    BY <1>1, <1>2, ThinnedFacts
<1>8. \A y \in Inner(s) : s.nodes[y].lock_ref = b.nodes[y].lock_ref
    <2>1. \A y \in Ids(s) : s.nodes[y].lock_ref = b.nodes[y].lock_ref
        BY <1>1, ThinnedFacts
    <2> QED BY <2>1 DEF Inner
<1>9. DOMAIN MapOf(b) = EntriesOfAll(b, Inner(b))
    BY <1>1, MapFacts
<1>10. ASSUME NEW p \in V, NEW q \in DOMAIN MapOf(b), IsPrefix(p, q) PROVE q \in V
    <2>1. PICK x \in G : p \in EntriesOf(b, x)
        BY <1>3 DEF EntriesOfAll
    <2>2. PICK y \in Inner(b) : q \in EntriesOf(b, y)
        BY <1>9 DEF EntriesOfAll
    <2>3. CASE y \in G
        BY <1>3, <2>2, <2>3 DEF EntriesOfAll
    <2>4. CASE y \notin G
        <3>1. y \in Inner(s) /\ y \in Ids(s) /\ x \in Inner(b)
            BY <1>7, <2>4 DEF Inner
        <3>2. /\ p \in Seq(Token) /\ q \in Seq(Token) /\ IsPrefix(q, y)
              /\ Len(Par(b, x)) < Len(p)
            BY <1>1, <2>1, <2>2, <3>1, EntryFacts
        <3>3. y \in Seq(Token)
            BY <1>1, <3>1, TreeFacts
        <3>4. IsPrefix(p, y)
            BY <1>10, <3>2, <3>3, PrefixTransitive
        <3>5. p # Root
            <4>1. Len(p) \in Nat /\ Len(Par(b, x)) \in Nat
                BY <1>1, <2>1, <3>1, EntrySlot
            <4>2. Len(Root) = 0
                BY <3>2, RootPrefix
            <4> QED BY <3>2, <4>1, <4>2
        <3>6. PICK z \in Inner(s) : p \in EntriesOf(s, z)
            BY <1>1, <3>1, <3>2, <3>4, <3>5, EntryOnPath
        <3>7. z \in Inner(b) /\ p \in EntriesOf(b, z)
            BY <1>7, <3>6
        <3>8. x = z
            BY <1>1, <2>1, <3>1, <3>7, EntriesDisjoint
        <3> QED BY <1>7, <2>1, <3>6, <3>8
    <2> QED BY <2>3, <2>4
<1>11. ASSUME s.evictable_leaves = {} PROVE V = X
    <2>1. ASSUME NEW y \in Inner(s), ~ (s.nodes[y].lock_ref > 0) PROVE FALSE
        <3>1. y \in Ids(s)
            BY DEF Inner
        <3>2. PICK z \in Ids(s) : IsPrefix(y, z) /\ DOMAIN Kids(s, z) = {}
            BY <1>1, <3>1, LeafBelow
        <3>3. ~ (s.nodes[z].lock_ref > 0)
            BY <2>1, <3>2, UnlockedBelow
        <3>4. IsLeaf(s, z)
            BY <3>2, <3>3 DEF IsLeaf, Kids
        <3>5. z \in s.evictable_leaves
            BY <1>1, <3>4 DEF Leaves, RightBut
        <3> QED BY <1>11, <3>5
    <2>2. Unlocked(b) \subseteq G
        BY <1>7, <1>8, <2>1 DEF Unlocked
    <2>3. Unlocked(b) = G
        BY <1>2, <2>2
    <2> QED BY <1>3, <1>5, <2>3
<1>12. n = 0 => V = {}
    BY <1>2, <1>3 DEF EntriesOfAll
<1>13. Cardinality(V) >= n \/ V = X
    BY <1>2, <1>3, <1>11
<1>14. V \in EvictionSets(MapOf(b), Held(h), n)
    BY <1>4, <1>6, <1>10, <1>12, <1>13 DEF EvictionSets
<1> QED BY <1>2, <1>3, <1>14

LEMMA UnseenEvict ==
    ASSUME call'.op = "evict", CachedMap' = CachedMap, hold' = hold, reply' = reply,
           DropsRight'
    PROVE  Simulates
<1>1. UNCHANGED Seen
    BY DEF Seen
<1> QED BY <1>1 DEF Simulates, Implements, MatchRight, ReplyRight, DeltaRight

LEMMA EvictImplements ==
    ASSUME Inv, NEW n \in EvictSizes, Evict(n), setup' = setup
    PROVE  Simulates
<1>1. /\ call.op = "none" /\ tree' = tree /\ hold' = hold /\ reply' = reply
      /\ call' = [op |-> "evict", n |-> n, heap |-> tree.evictable_leaves, num |-> 0,
                  freed |-> {}, before |-> tree]
    BY DEF Evict, Idle, NoCall
<1>2. /\ call'.op = "evict" /\ call'.n = n /\ call'.num = 0 /\ call'.freed = {}
      /\ call'.before = tree
    BY <1>1
<1>3. LockOn(tree, hold) /\ TreeOK(tree)
    BY <1>1, LockInvIdle, InvFacts DEF Inv
<1>4. Gone(tree, tree) = {}
    BY DEF Gone
<1>5. EntriesOfAll(tree, Gone(tree, tree)) = {}
    BY <1>4 DEF EntriesOfAll
<1>6. Cardinality({}) = 0
    BY FS_EmptySet
<1>7. DropsOf(tree, tree, hold, n, 0, {})
    <2>1. {MapOf(tree)[p] : p \in {}} = {}
        OBVIOUS
    <2> QED BY <1>3, <1>4, <1>5, <1>6, <2>1 DEF DropsOf
<1>8. DropsRight'
    BY <1>1, <1>2, <1>7 DEF DropsRight
<1>9. CachedMap' = CachedMap
    BY <1>1, <1>2, CachedMapIdle
<1> QED BY <1>1, <1>2, <1>8, <1>9, UnseenEvict

\* Each iteration drops the entries of one more node, and frees their slots.
LEMMA DropOneMore ==
    ASSUME NEW b, NEW s, NEW h, NEW n, NEW num, NEW freed, DropsOf(b, s, h, n, num, freed),
           Thinned(b, s), Root \in Ids(s), NEW x \in Inner(s), ~ (s.nodes[x].lock_ref > 0),
           num < n, NEW s2, Ids(s2) = Ids(s) \ {x}
    PROVE  DropsOf(b, s2, h, n, num + Len(s.nodes[x].value),
                   freed \union ToSet(s.nodes[x].value))
<1>1. PICK G : G = Gone(b, s)
    OBVIOUS
<1>2. PICK f : f = MapOf(b)
    OBVIOUS
<1>3. PICK v : v = s.nodes[x].value
    OBVIOUS
<1>4. /\ TreeOK(b) /\ LockOn(b, h) /\ G \subseteq Unlocked(b) /\ n \in EvictSizes
      /\ num = Cardinality(EntriesOfAll(b, G)) /\ freed = {f[p] : p \in EntriesOfAll(b, G)}
    BY <1>1, <1>2 DEF DropsOf
<1>5. Typed(b) /\ Shape(b)
    BY <1>4 DEF TreeOK
<1>6. /\ x \in Ids(s) /\ x \in Ids(b) /\ x \in Inner(b) /\ x \notin G
      /\ G \in SUBSET Inner(b)
    BY <1>1, ThinnedFacts DEF Inner
<1>7. v = b.nodes[x].value /\ s.nodes[x].lock_ref = b.nodes[x].lock_ref
    BY <1>3, <1>6, ThinnedFacts
<1>8. Gone(b, s2) = G \union {x}
    BY <1>1, <1>6 DEF Gone
<1>9. x \in Unlocked(b)
    BY <1>6, <1>7 DEF Unlocked
<1>10. /\ IsFiniteSet(EntriesOfAll(b, G))
       /\ Cardinality(EntriesOfAll(b, G \union {x})) =
            (Cardinality(EntriesOfAll(b, G)) + Len(x)) - Len(Par(b, x))
    BY <1>5, <1>6, EntriesOfOneMore
<1>11. Len(v) = Len(x) - Len(Par(b, x)) /\ Len(x) \in Nat /\ Len(Par(b, x)) \in Nat
    BY <1>5, <1>6, <1>7, NodeFacts
<1>12. num \in Nat
    BY <1>4, <1>10, FS_CardinalityType
<1>13. num + Len(v) = Cardinality(EntriesOfAll(b, G \union {x}))
    <2>1. Cardinality(EntriesOfAll(b, G \union {x})) = (num + Len(x)) - Len(Par(b, x))
        BY <1>4, <1>10
    <2>2. PICK l, m : l = Len(x) /\ m = Len(Par(b, x))
        OBVIOUS
    <2>3. (num + l) - m = num + (l - m)
        BY <1>11, <1>12, <2>2
    <2> QED BY <1>11, <2>1, <2>2, <2>3
<1>14. n # 0
    BY <1>12
<1>15. freed \union ToSet(v) = {f[p] : p \in EntriesOfAll(b, G \union {x})}
    <2>1. ToSet(v) = {f[p] : p \in EntriesOf(b, x)}
        BY <1>2, <1>5, <1>6, <1>7, SlotsFreed
    <2>2. EntriesOfAll(b, G \union {x}) = EntriesOfAll(b, G) \union EntriesOf(b, x)
        BY DEF EntriesOfAll
    <2> QED BY <1>4, <2>1, <2>2
<1>16. DropsOf(b, s2, h, n, num + Len(v), freed \union ToSet(v))
    <2>1. G \union {x} \subseteq Unlocked(b)
        BY <1>4, <1>9
    <2> QED BY <1>2, <1>4, <1>8, <1>13, <1>14, <1>15, <2>1 DEF DropsOf
<1> QED BY <1>3, <1>16

LEMMA EvictStepImplements ==
    ASSUME Inv, RefInv, EvictStep, setup' = setup
    PROVE  Simulates
<1>1. /\ call.op = "evict" /\ EvictsMore /\ hold' = hold /\ reply' = reply
    BY DEF EvictStep
<1>2. PICK x \in Poppable(tree, call.heap) :
        /\ tree' = DeleteLeaf(tree, x)
        /\ call' = [call EXCEPT !.heap = (call.heap \ {x}) \union PushedBy(tree, x),
                                !.num = call.num + Len(tree.nodes[x].value),
                                !.freed = call.freed \union ToSet(tree.nodes[x].value)]
    BY DEF EvictStep
<1>3. /\ call \in EvictCalls /\ call.heap = tree.evictable_leaves /\ LockOn(tree, hold)
    BY <1>1, LockInvIdle DEF Inv, CallInv
<1>4. x \in tree.evictable_leaves /\ tree.nodes[Root].lock_ref > 0
    BY <1>2, <1>3 DEF Poppable, LockOn
<1>5. PICK v : v = tree.nodes[x].value
    OBVIOUS
<1>6. PICK b : b = call.before
    OBVIOUS
<1>7. /\ call'.op = "evict" /\ call'.before = b /\ call'.n = call.n
      /\ call'.num = call.num + Len(v) /\ call'.freed = call.freed \union ToSet(v)
    <2>1. PICK i, j, k : /\ i = (call.heap \ {x}) \union PushedBy(tree, x)
                         /\ j = call.num + Len(v) /\ k = call.freed \union ToSet(v)
        OBVIOUS
    <2>2. call' = [call EXCEPT !.heap = i, !.num = j, !.freed = k]
        BY <1>2, <1>5, <2>1
    <2> QED BY <1>1, <1>3, <1>6, <2>1, <2>2 DEF EvictCalls
<1>8. /\ x \in Inner(tree) /\ ~ (tree.nodes[x].lock_ref > 0)
      /\ Ids(tree') = Ids(tree) \ {x}
    BY <1>2, <1>4, InvFacts, DeleteOK DEF Pruned
<1>9. Thinned(b, tree)
    BY <1>1, <1>6 DEF RefInv, EvictInv
<1>10. DropsOf(b, tree, hold, call.n, call.num, call.freed)
    BY <1>1, <1>6 DEF RefInv, DropsRight
<1>11. call.num < call.n
    BY <1>1 DEF EvictsMore
<1>12. DropsOf(b, tree', hold, call.n, call.num + Len(v), call.freed \union ToSet(v))
    <2>1. PICK s2 : s2 = tree'
        OBVIOUS
    <2>2. Root \in Ids(tree) /\ Ids(s2) = Ids(tree) \ {x}
        BY <1>8, <2>1, InvFacts
    <2> QED BY <1>5, <1>8, <1>9, <1>10, <1>11, <2>1, <2>2, DropOneMore
<1>13. DropsRight'
    BY <1>1, <1>7, <1>12 DEF DropsRight
<1>14. CachedMap' = CachedMap
    BY <1>1, <1>6, <1>7, CachedMapIdle
<1> QED BY <1>1, <1>7, <1>13, <1>14, UnseenEvict

LEMMA EvictReturnImplements ==
    ASSUME Inv, RefInv, EvictReturn, setup' = setup
    PROVE  Simulates
<1>1. /\ call.op = "evict" /\ ~ EvictsMore /\ tree' = tree /\ hold' = hold
      /\ call' = NoCall
      /\ reply' = [op |-> "evict", n |-> call.n, num |-> call.num, freed |-> call.freed]
    BY DEF EvictReturn, Return
<1>2. PICK b : b = call.before
    OBVIOUS
<1>3. PICK n : n = call.n
    OBVIOUS
<1>4. PICK V : V = EntriesOfAll(b, Gone(b, tree))
    OBVIOUS
<1>5. PICK f : f = MapOf(b)
    OBVIOUS
<1>6. call.heap = tree.evictable_leaves /\ LockOn(tree, hold) /\ TreeOK(tree)
    BY <1>1, LockInvIdle, InvFacts DEF Inv, CallInv
<1>7. Thinned(b, tree)
    BY <1>1, <1>2 DEF RefInv, EvictInv
<1>8. DropsOf(b, tree, hold, n, call.num, call.freed)
    BY <1>1, <1>2, <1>3 DEF RefInv, DropsRight
<1>9. /\ TreeOK(b) /\ LockOn(b, hold) /\ Gone(b, tree) \subseteq Unlocked(b)
      /\ n \in EvictSizes /\ n \in Nat /\ (n = 0 => Gone(b, tree) = {})
      /\ call.num = Cardinality(V) /\ call.freed = {f[p] : p \in V}
    BY <1>4, <1>5, <1>8, SizesAssumption DEF DropsOf
<1>10. Cardinality(V) >= n \/ tree.evictable_leaves = {}
    <2>1. IsFiniteSet(V)
        <3>1. Typed(b) /\ Shape(b) /\ Gone(b, tree) \in SUBSET Inner(b)
            BY <1>9 DEF TreeOK, Unlocked
        <3>2. CASE Gone(b, tree) = {}
            <4>1. V = {}
                BY <1>4, <3>2 DEF EntriesOfAll
            <4> QED BY <4>1, FS_EmptySet
        <3>3. CASE Gone(b, tree) # {}
            <4>1. PICK y \in Inner(b) : TRUE
                BY <3>1, <3>3
            <4> QED BY <1>4, <3>1, <4>1, EntriesOfOneMore
        <3> QED BY <3>2, <3>3
    <2>2. Cardinality(V) \in Nat
        BY <2>1, FS_CardinalityType
    <2>3. ~ (Cardinality(V) < n) \/ tree.evictable_leaves = {}
        BY <1>1, <1>3, <1>6, <1>9 DEF EvictsMore
    <2> QED BY <1>9, <2>2, <2>3
<1>11. V \in EvictionSets(f, Held(hold), n)
    BY <1>4, <1>5, <1>6, <1>7, <1>9, <1>10, GoneIsEvictionSet
<1>12. MapOf(tree) = Evicted(f, V)
    BY <1>4, <1>5, <1>6, <1>7, <1>9, EvictedMap
<1>13. CachedMap = f /\ CachedMap' = Evicted(f, V)
    BY <1>1, <1>2, <1>5, <1>12, CachedMapIdle DEF NoCall
<1>14. V \in Cache!EvictionSets(CachedMap, Cache!Pins, n)
    <2>1. Cache!Pins = Held(hold)
        BY DEF Cache!Pins, Held
    <2> QED BY <1>11, <1>13, <2>1, SameEvict
<1>15. CachedMap' = Cache!Evicted(CachedMap, V)
    BY <1>13, SameEvict
<1>16. reply' = [op |-> "evict", n |-> n, num |-> Cache!Cardinality(V),
                 freed |-> {CachedMap[p] : p \in V}]
    <2>1. Cache!Cardinality(V) = Cardinality(V)
        BY SameEvict
    <2> QED BY <1>1, <1>3, <1>9, <1>13, <2>1
<1>17. Cache!Evict(n)
    BY <1>1, <1>14, <1>15, <1>16 DEF Cache!Evict
<1>18. Cache!Next
    BY <1>9, <1>17 DEF Cache!Next
<1>19. reply'.op # "match"
    BY <1>1
<1> QED BY <1>1, <1>18, <1>19, ReturnStep

-----------------------------------------------------------------------------
LEMMA InitImplements == Init => RefInv /\ Cache!Init
<1> SUFFICES ASSUME Init PROVE RefInv /\ Cache!Init
    OBVIOUS
<1>1. /\ tree = EmptyTree(0) /\ hold = [c \in Client |-> <<>>] /\ reply = NoReply
      /\ call.op = "none"
    BY DEF Init, NoCall, Root
<1>2. reply.op # "match"
    BY <1>1 DEF NoReply
<1>3. RefInv
    BY <1>1, <1>2 DEF RefInv, EvictInv, MatchRight, ReplyRight, DeltaRight, DropsRight
<1>4. CachedMap = Cache!EmptyMap
    BY <1>1, CachedMapIdle, EmptyTreeMap, SameMatch
<1>5. reply = Cache!NoReply
    BY <1>1 DEF NoReply, Cache!NoReply
<1> QED BY <1>1, <1>3, <1>4, <1>5 DEF Cache!Init

LEMMA NextImplements == Inv /\ RefInv /\ [Next]_vars => RefInv' /\ Implements
<1> SUFFICES ASSUME Inv, RefInv, [Next]_vars PROVE RefInv' /\ Implements
    OBVIOUS
<1>1. EvictInv'
    BY EvictInvNext DEF RefInv
<1>2. CASE UNCHANGED vars
    <2>1. /\ setup' = setup /\ tree' = tree /\ hold' = hold /\ reply' = reply
          /\ call' = call
        BY <1>2 DEF vars
    <2>2. UNCHANGED Seen
        BY <2>1 DEF Seen, CachedMap
    <2>3. MatchRight' /\ ReplyRight' /\ DeltaRight' /\ DropsRight'
        <3>1. MatchRight' /\ ReplyRight'
            BY <2>1 DEF RefInv, MatchRight, ReplyRight
        <3>2. DeltaRight'
            BY <2>1 DEF RefInv, DeltaRight, Evictable
        <3>3. DropsRight'
            BY <2>1 DEF RefInv, DropsRight
        <3> QED BY <3>1, <3>2, <3>3
    <2> QED BY <1>1, <2>2, <2>3 DEF RefInv, Implements
<1>3. CASE Next
    <2>1. setup' = setup
        BY <1>3 DEF Next
    <2>2. Simulates
        <3>1. ASSUME NEW key \in setup.keys, MatchPrefix(key) PROVE Simulates
            BY <2>1, <3>1, MatchPrefixImplements
        <3>2. CASE MatchDescend
            BY <2>1, <3>2, MatchDescendImplements
        <3>3. CASE MatchSplit
            BY <2>1, <3>3, MatchSplitImplements
        <3>4. CASE MatchReturn
            BY <2>1, <3>4, MatchReturnImplements
        <3>5. ASSUME NEW i \in setup.inserts, NEW p \in setup.priorities,
                     Insert(i[1], i[2], p)
              PROVE  Simulates
            BY <2>1, <3>5, InsertImplements
        <3>6. CASE InsertDescend
            BY <2>1, <3>6, InsertDescendImplements
        <3>7. CASE InsertSplit
            BY <2>1, <3>7, InsertSplitImplements
        <3>8. CASE InsertLeaf
            BY <2>1, <3>8, InsertLeafImplements
        <3>9. CASE InsertReturn
            BY <2>1, <3>9, InsertReturnImplements
        <3>10. ASSUME NEW c \in setup.clients, Lock(c) PROVE Simulates
            BY <2>1, <3>10, LockImplements
        <3>11. CASE LockStep
            BY <2>1, <3>11, LockStepImplements
        <3>12. CASE LockReturn
            BY <2>1, <3>12, LockReturnImplements
        <3>13. ASSUME NEW c \in setup.clients, Unlock(c) PROVE Simulates
            BY <2>1, <3>13, UnlockImplements
        <3>14. CASE UnlockStep
            BY <2>1, <3>14, UnlockStepImplements
        <3>15. CASE UnlockReturn
            BY <2>1, <3>15, UnlockReturnImplements
        <3>16. ASSUME NEW n \in EvictSizes, Evict(n) PROVE Simulates
            BY <2>1, <3>16, EvictImplements
        <3>17. CASE EvictStep
            BY <2>1, <3>17, EvictStepImplements
        <3>18. CASE EvictReturn
            BY <2>1, <3>18, EvictReturnImplements
        <3>19. CASE Reset
            BY <2>1, <3>19, ResetImplements
        <3> QED
            BY <1>3, <3>1, <3>2, <3>3, <3>4, <3>5, <3>6, <3>7, <3>8, <3>9, <3>10, <3>11,
               <3>12, <3>13, <3>14, <3>15, <3>16, <3>17, <3>18, <3>19 DEF Next
    <2> QED BY <1>1, <2>2 DEF Simulates, RefInv
<1> QED BY <1>2, <1>3

\* The tree does to the map of prefixes to slots, and returns to its callers,
\* exactly what PrefixCache promises: whatever was split, touched or dropped on
\* the way, every call takes effect at once, with the longest cached prefix and
\* its slots, the first writer's slots, exact deltas, and evictions of enough
\* unlocked suffixes and of nothing else.
THEOREM ImplementsPrefixCache == Spec => RefinesPrefixCache
<1>1. Cache!Spec <=> Cache!Init /\ [][Cache!Next]_Seen
    BY DEF Cache!Spec, Cache!vars, Seen
<1>2. Inv /\ RefInv /\ [Next]_vars => [Cache!Next]_Seen
    BY NextImplements DEF Implements
<1> QED BY <1>1, <1>2, InitInv, NextInv, InitImplements, NextImplements, PTL
        DEF Spec, RefinesPrefixCache
=============================================================================
