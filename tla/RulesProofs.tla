---------------------------- MODULE RulesProofs -----------------------------
(***************************************************************************)
(* Proofs about the rules of the server that decide by reading what someone *)
(* else wrote: which redirect an authorization may go to (Redirects and    *)
(* Admission), which canisters a reply lists (AppCrawl and OpenApp), and    *)
(* what is made of an interface, of the reply of a query and of a registry  *)
(* of names (CandidInterface, OqlReplies and NameSearch, in Reading).  They *)
(* hold for any URLs, documents, allow-lists, sites, known apps, interfaces *)
(* and replies, and share the lemmas on numbers and lists.                 *)
(*                                                                         *)
(* Redirects.  The code matches hosts and paths as text; PinnedDelivery is *)
(* about their labels and segments.  The two meet in Joined: the pieces of *)
(* a sequence with a separator in it are those before it and those after   *)
(* it.  The rest is that a redirect is admitted only by the allow-list in  *)
(* force, and that a verdict remembered for a document is of that          *)
(* document's.                                                             *)
(*                                                                         *)
(* Listings.  The table of the crawl is Faithful to the mentions made so   *)
(* far: an id that has a row has the label and the authority of its best   *)
(* mention, and one that has none found the table full of ids at least as  *)
(* authoritative.  That survives a mention only because documents are read *)
(* in the order of their authority, which is what CrawlInv remembers       *)
(* between two steps.  What the reply says follows from the table and from *)
(* the order it is sorted in.                                              *)
(*                                                                         *)
(* Readers.  Each is a function of what it is given, defined step by step. *)
(* ChaseIs: a chase of as many rounds as there are definitions ends in the *)
(* least closed set of types, since a round that adds none is the last.    *)
(* LevenshteinIs: the row-by-row distance is that of the cheapest matching, *)
(* since a matching that has both last letters has them as a pair.         *)
(* CutIsPast: an entity that is not among the first ones is past the cap    *)
(* wherever the schema lists it, since the first ones keep their order.     *)
(* From these, RenderIs, TableIs, SearchIs and RepairIs say what an answer  *)
(* has of what was read, and ReadInv that the system keeps it so.           *)
(***************************************************************************)
EXTENDS Admission, Reading, FiniteSetTheorems, NaturalsInduction, SequenceTheorems,
        WellFoundedInduction, TLAPS

-----------------------------------------------------------------------------
(* Induction over the numbers, of a set.                                    *)
LEMMA Climb ==
    ASSUME NEW S, 0 \in S, \A n \in Nat : n \in S => n + 1 \in S
    PROVE  \A n \in Nat : n \in S
<1> DEFINE T == Nat \ S
           R == OpToRel(<, Nat)
<1>1. SUFFICES ASSUME T # {} PROVE FALSE
  OBVIOUS
<1>2. IsWellFoundedOn(R, Nat) /\ T \subseteq Nat
  BY NatLessThanWellFounded
<1>3. PICK n \in T : \A m \in T : ~(<<m, n>> \in R)
  <2> HIDE DEF T, R
  <2> QED
    BY <1>1, <1>2, WFMin
<1>4. n # 0 /\ n \in Nat /\ n - 1 \in Nat
  OBVIOUS
<1>5. <<n - 1, n>> \in R
  BY <1>4 DEF OpToRel
<1>6. n - 1 \in S
  BY <1>3, <1>4, <1>5
<1> QED
  BY <1>4, <1>6

(* The last place where a token is found.                                   *)
LEMMA LastPlace ==
    ASSUME NEW n \in Nat, NEW I \in SUBSET (1..n), I # {}
    PROVE  Max(I) \in I
<1> DEFINE S == {k \in Nat : \A J \in SUBSET (1..k) : J # {} => \E x \in J : \A y \in J : x >= y}
<1>1. 0 \in S
  <2>1. 1..0 = {}
    OBVIOUS
  <2> QED
    BY <2>1
<1>2. ASSUME NEW k \in Nat, k \in S PROVE k + 1 \in S
  <2> SUFFICES ASSUME NEW J \in SUBSET (1..(k + 1)), J # {}
               PROVE  \E x \in J : \A y \in J : x >= y
    OBVIOUS
  <2>1. CASE k + 1 \in J
    BY <2>1
  <2>2. CASE k + 1 \notin J
    <3>1. J \in SUBSET (1..k)
      BY <2>2
    <3> QED
      BY <3>1, <1>2
  <2> QED
    BY <2>1, <2>2
<1>3. n \in S
  <2> HIDE DEF S
  <2> QED
    BY <1>1, <1>2, Climb
<1> QED
  BY <1>3 DEF Max

LEMMA HostKeyIs == ASSUME NEW host \in Tokens PROVE HostKey(host) \in Tokens
<1> DEFINE I == {i \in 1..Len(host) : host[i] # "."}
           n == IF I # {} THEN Max(I) ELSE 0
<1>1. HostKey(host) = SubSeq(host, 1, n)
  BY DEF HostKey, SelectLastInSeq
<1>2. Len(host) \in Nat /\ I \in SUBSET (1..Len(host))
  BY DEF Tokens
<1>3. n \in 0..Len(host)
  <2>1. I # {} => Max(I) \in 1..Len(host)
    <3> HIDE DEF I
    <3> QED
      BY <1>2, LastPlace
  <2> QED
    BY <1>2, <2>1
<1> HIDE DEF n, I
<1> QED
  BY <1>1, <1>3 DEF Tokens

-----------------------------------------------------------------------------
(* Sequences: what is put before or after is found there again.             *)
LEMMA PrefixOfJoin ==
    ASSUME NEW T, NEW p \in Seq(T), NEW q \in Seq(T)
    PROVE  IsPrefix(p, p \o q)
<1>1. Len(p) <= Len(p \o q)
  BY ConcatProperties
<1>2. CASE p = <<>>
  <2>1. SubSeq(p, 1, Len(p)) = <<>> /\ SubSeq(p \o q, 1, Len(p)) = <<>>
    BY <1>2, SubSeqEmpty
  <2> QED
    BY <1>1, <2>1 DEF IsPrefix
<1>3. CASE p # <<>>
  <2>1. 1 \in 1..Len(p) /\ Len(p) \in 1..Len(p)
    BY <1>3
  <2>2. SubSeq(p \o q, 1, Len(p)) = SubSeq(p, 1, Len(p))
    BY <2>1, SubSeqOfConcat1
  <2> QED
    BY <1>1, <2>2 DEF IsPrefix
<1> QED
  BY <1>2, <1>3

LEMMA PrefixSplits ==
    ASSUME NEW T, NEW p \in Seq(T), NEW s \in Seq(T), IsPrefix(p, s)
    PROVE  \E q \in Seq(T) : s = p \o q
<1> DEFINE q == SubSeq(s, Len(p) + 1, Len(s))
<1>1. Len(p) <= Len(s) /\ p = SubSeq(s, 1, Len(p))
  BY SubSeqFull DEF IsPrefix
<1>2. q \in Seq(T)
  BY <1>1
<1>3. SubSeq(s, 1, Len(p)) \o q = SubSeq(s, 1, Len(s))
  <2>1. 1 \in 1..(Len(s) + 1) /\ Len(p) \in (1 - 1)..Len(s) /\ Len(s) \in Len(p)..Len(s)
    BY <1>1
  <2> QED
    BY <2>1, ConcatAdjacentSubSeq, Zenon
<1>4. s = p \o q
  <2> HIDE DEF q
  <2> QED
    BY <1>1, <1>3, SubSeqFull
<1> QED
  BY <1>2, <1>4

LEMMA ReverseIs ==
    ASSUME NEW T, NEW s \in Seq(T)
    PROVE  /\ Reverse(s) \in Seq(T) /\ Len(Reverse(s)) = Len(s)
           /\ \A i \in 1..Len(s) : Reverse(s)[i] = s[Len(s) - i + 1]
BY DEF Reverse

LEMMA ReverseTwice ==
    ASSUME NEW T, NEW s \in Seq(T)
    PROVE  Reverse(Reverse(s)) = s
<1>1. /\ Reverse(Reverse(s)) \in Seq(T) /\ Len(Reverse(Reverse(s))) = Len(s)
      /\ \A i \in 1..Len(s) : Reverse(Reverse(s))[i] = Reverse(s)[Len(s) - i + 1]
  BY ReverseIs
<1>2. \A i \in 1..Len(s) : Reverse(s)[Len(s) - i + 1] = s[i]
  <2>1. TAKE i \in 1..Len(s)
  <2>2. Len(s) - i + 1 \in 1..Len(s)
    BY <2>1
  <2> QED
    BY <2>1, <2>2, ReverseIs
<1> QED
  BY <1>1, <1>2, SeqEqual

LEMMA ReverseOfJoin ==
    ASSUME NEW T, NEW p \in Seq(T), NEW q \in Seq(T)
    PROVE  Reverse(p \o q) = Reverse(q) \o Reverse(p)
<1> DEFINE r == Reverse(q) \o Reverse(p)
           l == Reverse(p \o q)
<1>1. p \o q \in Seq(T) /\ Len(p \o q) = Len(p) + Len(q)
  BY ConcatProperties
<1>2. l \in Seq(T) /\ Len(l) = Len(p) + Len(q)
  BY <1>1, ReverseIs
<1>3. r \in Seq(T) /\ Len(r) = Len(p) + Len(q)
  <2>1. /\ Reverse(q) \in Seq(T) /\ Len(Reverse(q)) = Len(q)
        /\ Reverse(p) \in Seq(T) /\ Len(Reverse(p)) = Len(p)
    BY ReverseIs
  <2>2. r \in Seq(T) /\ Len(r) = Len(Reverse(q)) + Len(Reverse(p))
    BY <2>1, ConcatProperties
  <2> QED
    BY <2>1, <2>2
<1>4. ASSUME NEW i \in 1..(Len(p) + Len(q)) PROVE l[i] = r[i]
  <2>1. l[i] = (p \o q)[Len(p) + Len(q) - i + 1]
    <3>1. i \in 1..Len(p \o q)
      BY <1>1
    <3>2. l[i] = (p \o q)[Len(p \o q) - i + 1]
      BY <1>1, <3>1, ReverseIs, Zenon
    <3> QED
      BY <1>1, <3>2
  <2>2. r[i] = IF i <= Len(q) THEN Reverse(q)[i] ELSE Reverse(p)[i - Len(q)]
    BY ReverseIs, ConcatProperties
  <2>3. CASE i <= Len(q)
    <3>1. i \in 1..Len(q) /\ Reverse(q)[i] = q[Len(q) - i + 1]
      BY <2>3, ReverseIs
    <3>2. /\ Len(p) + Len(q) - i + 1 \in 1..(Len(p) + Len(q))
          /\ ~(Len(p) + Len(q) - i + 1 <= Len(p))
          /\ Len(p) + Len(q) - i + 1 - Len(p) = Len(q) - i + 1
      BY <3>1
    <3>3. (p \o q)[Len(p) + Len(q) - i + 1] = q[Len(q) - i + 1]
      BY <3>2, ConcatProperties
    <3> QED
      BY <2>1, <2>2, <2>3, <3>1, <3>3
  <2>4. CASE ~(i <= Len(q))
    <3>1. /\ i - Len(q) \in 1..Len(p)
          /\ Len(p) - (i - Len(q)) + 1 = Len(p) + Len(q) - i + 1
      BY <2>4
    <3>2. Reverse(p)[i - Len(q)] = p[Len(p) + Len(q) - i + 1]
      BY <3>1, ReverseIs
    <3>3. /\ Len(p) + Len(q) - i + 1 \in 1..(Len(p) + Len(q))
          /\ Len(p) + Len(q) - i + 1 <= Len(p)
      BY <2>4
    <3>4. (p \o q)[Len(p) + Len(q) - i + 1] = p[Len(p) + Len(q) - i + 1]
      BY <3>3, ConcatProperties
    <3> QED
      BY <2>1, <2>2, <2>4, <3>2, <3>4
  <2> QED
    BY <2>3, <2>4
<1>5. l = r
  <2> HIDE DEF l, r
  <2> QED
    BY <1>2, <1>3, <1>4, SeqEqual
<1> QED
  BY <1>5

LEMMA SuffixOfJoin ==
    ASSUME NEW T, NEW p \in Seq(T), NEW q \in Seq(T)
    PROVE  IsSuffix(q, p \o q)
<1>1. Reverse(q) \in Seq(T) /\ Reverse(p) \in Seq(T)
  BY ReverseIs
<1>2. IsPrefix(Reverse(q), Reverse(q) \o Reverse(p))
  BY <1>1, PrefixOfJoin
<1> QED
  BY <1>2, ReverseOfJoin DEF IsSuffix

LEMMA SuffixSplits ==
    ASSUME NEW T, NEW q \in Seq(T), NEW s \in Seq(T), IsSuffix(q, s)
    PROVE  \E p \in Seq(T) : s = p \o q
<1>1. Reverse(q) \in Seq(T) /\ Reverse(s) \in Seq(T) /\ IsPrefix(Reverse(q), Reverse(s))
  BY ReverseIs DEF IsSuffix
<1>2. PICK r \in Seq(T) : Reverse(s) = Reverse(q) \o r
  BY <1>1, PrefixSplits
<1>3. Reverse(Reverse(s)) = Reverse(r) \o Reverse(Reverse(q))
  BY <1>1, <1>2, ReverseOfJoin
<1>4. s = Reverse(r) \o q /\ Reverse(r) \in Seq(T)
  BY <1>3, ReverseTwice, ReverseIs
<1> QED
  BY <1>4

-----------------------------------------------------------------------------
(* Cutting a sequence at a separator, token by token.                       *)
Words(A) == Seq(A)

Cutting(f, s, separator) ==
    f = [i \in 0..Len(s) |->
            IF i = 0 THEN << <<>> >> ELSE Cut(f[i - 1], s[i], separator)]

LEMMA PiecesByCutting ==
    ASSUME NEW A, NEW s \in Words(A), NEW separator
    PROVE  \E f : Cutting(f, s, separator) /\ Pieces(s, separator) = f[Len(s)]
<1> DEFINE Solves(f, n) ==
             f = [i \in 0..n |-> IF i = 0 THEN << <<>> >> ELSE Cut(f[i - 1], s[i], separator)]
           S == {n \in Nat : \E f : Solves(f, n)}
<1>1. 0 \in S
  <2> DEFINE f == [i \in 0..0 |-> << <<>> >>]
  <2>1. Solves(f, 0)
    OBVIOUS
  <2> QED
    BY <2>1
<1>2. ASSUME NEW n \in Nat, n \in S PROVE n + 1 \in S
  <2>1. PICK f : Solves(f, n)
    BY <1>2
  <2> DEFINE g == [i \in 0..(n + 1) |->
                     IF i = n + 1 THEN Cut(f[n], s[n + 1], separator) ELSE f[i]]
  <2>2. ASSUME NEW i \in 0..(n + 1)
        PROVE  g[i] = IF i = 0 THEN << <<>> >> ELSE Cut(g[i - 1], s[i], separator)
    <3>1. CASE i = n + 1
      <4>1. i - 1 = n /\ i # 0 /\ g[n] = f[n]
        BY <3>1
      <4> QED
        BY <3>1, <4>1
    <3>2. CASE i = 0
      <4>1. g[0] = f[0] /\ f[0] = << <<>> >>
        BY <2>1
      <4> QED
        BY <3>2, <4>1
    <3>3. CASE i # 0 /\ i # n + 1
      <4>1. i \in 0..n /\ i - 1 \in 0..n /\ g[i] = f[i] /\ g[i - 1] = f[i - 1]
        BY <3>3
      <4>2. f[i] = Cut(f[i - 1], s[i], separator)
        <5>1. \A j \in 0..n : f[j] = IF j = 0 THEN << <<>> >> ELSE Cut(f[j - 1], s[j], separator)
          <6> HIDE DEF g
          <6> QED
            BY <2>1
        <5> QED
          BY <3>3, <4>1, <5>1
      <4> QED
        BY <3>3, <4>1, <4>2
    <3> QED
      BY <3>1, <3>2, <3>3
  <2>3. Solves(g, n + 1)
    BY <2>2
  <2> HIDE DEF Solves, g
  <2> QED
    BY <2>3
<1>3. Len(s) \in S
  <2>1. Len(s) \in Nat
    BY DEF Words
  <2> HIDE DEF S
  <2> QED
    BY <1>1, <1>2, <2>1, Climb
<1>4. PICK g : Solves(g, Len(s))
  BY <1>3
<1> DEFINE f == CHOOSE f : Solves(f, Len(s))
<1>5. Solves(f, Len(s))
  <2> HIDE DEF Solves
  <2> QED
    BY <1>4
<1>6. Pieces(s, separator) = f[Len(s)]
  BY DEF Pieces
<1> QED
  BY <1>5, <1>6 DEF Cutting

(* What a cutting holds at each place.                                      *)
LEMMA CuttingIs ==
    ASSUME NEW A, NEW s \in Words(A), NEW separator, NEW f, Cutting(f, s, separator)
    PROVE  /\ f[0] = << <<>> >>
           /\ \A i \in 1..Len(s) : f[i] = Cut(f[i - 1], s[i], separator)
<1>1. Len(s) \in Nat
  BY DEF Words
<1>2. \A i \in 0..Len(s) :
         f[i] = IF i = 0 THEN << <<>> >> ELSE Cut(f[i - 1], s[i], separator)
  BY DEF Cutting
<1>3. 0 \in 0..Len(s) /\ \A i \in 1..Len(s) : i \in 0..Len(s) /\ i # 0
  BY <1>1
<1> QED
  BY <1>2, <1>3

(* The last of a sequence, and what is appended, is that of its second part. *)
LEMMA LastOfJoin ==
    ASSUME NEW T, NEW p \in Seq(T), NEW q \in Seq(T), NEW e \in T, q # <<>>
    PROVE  /\ (p \o q)[Len(p \o q)] = q[Len(q)]
           /\ [p \o q EXCEPT ![Len(p \o q)] = e] = p \o [q EXCEPT ![Len(q)] = e]
<1>1. p \o q \in Seq(T) /\ Len(p \o q) = Len(p) + Len(q) /\ Len(p) \in Nat /\ Len(q) \in Nat
  BY ConcatProperties
<1>3. (p \o q)[Len(p \o q)] = q[Len(q)]
  <2>1. Len(p) + Len(q) \in 1..(Len(p) + Len(q)) /\ ~(Len(p) + Len(q) <= Len(p))
    BY <1>1, EmptySeq
  <2>2. (p \o q)[Len(p) + Len(q)] = q[Len(p) + Len(q) - Len(p)]
    BY <2>1, ConcatProperties
  <2> QED
    BY <1>1, <2>2
<1>4. [p \o q EXCEPT ![Len(p \o q)] = e] = p \o [q EXCEPT ![Len(q)] = e]
  <2> DEFINE l == [p \o q EXCEPT ![Len(p \o q)] = e]
             x == [q EXCEPT ![Len(q)] = e]
  <2>1. Len(q) \in 1..Len(q) /\ Len(p) + Len(q) \in 1..Len(p \o q)
    BY <1>1, EmptySeq
  <2>2. /\ l \in Seq(T) /\ Len(l) = Len(p) + Len(q)
        /\ \A i \in 1..(Len(p) + Len(q)) :
              l[i] = IF i = Len(p) + Len(q) THEN e ELSE (p \o q)[i]
    <3> DEFINE s == p \o q
               n == Len(s)
    <3> HIDE DEF s
    <3>1. s \in Seq(T) /\ n \in 1..Len(s)
      BY <1>1, <2>1 DEF s
    <3>2. /\ [s EXCEPT ![n] = e] \in Seq(T) /\ Len([s EXCEPT ![n] = e]) = Len(s)
          /\ \A i \in 1..Len(s) : [s EXCEPT ![n] = e][i] = IF i = n THEN e ELSE s[i]
      <4> HIDE DEF n
      <4> QED
        BY <3>1, ExceptSeq
    <3>3. l = [s EXCEPT ![n] = e] /\ Len(s) = Len(p) + Len(q)
      BY <1>1 DEF s
    <3> HIDE DEF l
    <3> QED
      BY <3>2, <3>3 DEF s
  <2>3. /\ x \in Seq(T) /\ Len(x) = Len(q)
        /\ \A i \in 1..Len(q) : x[i] = IF i = Len(q) THEN e ELSE q[i]
    BY <2>1, ExceptSeq
  <2> HIDE DEF l, x
  <2>4. /\ p \o x \in Seq(T) /\ Len(p \o x) = Len(p) + Len(q)
        /\ \A i \in 1..(Len(p) + Len(q)) :
              (p \o x)[i] = IF i <= Len(p) THEN p[i] ELSE x[i - Len(p)]
    <3>1. x \in Seq(T) /\ Len(x) = Len(q)
      BY <2>3
    <3>2. /\ p \o x \in Seq(T) /\ Len(p \o x) = Len(p) + Len(x)
          /\ \A i \in 1..(Len(p) + Len(x)) :
                (p \o x)[i] = IF i <= Len(p) THEN p[i] ELSE x[i - Len(p)]
      BY <3>1, ConcatProperties, Zenon
    <3> QED
      BY <3>1, <3>2
  <2>5. \A i \in 1..(Len(p) + Len(q)) :
           (p \o q)[i] = IF i <= Len(p) THEN p[i] ELSE q[i - Len(p)]
    BY ConcatProperties
  <2>6. ASSUME NEW i \in 1..(Len(p) + Len(q)) PROVE l[i] = (p \o x)[i]
    <3>1. CASE i <= Len(p)
      <4>1. i # Len(p) + Len(q)
        BY <1>1, <2>1, <3>1
      <4> QED
        BY <2>2, <2>4, <2>5, <3>1, <4>1
    <3>2. CASE ~(i <= Len(p))
      <4>1. i - Len(p) \in 1..Len(q) /\ (i - Len(p) = Len(q) <=> i = Len(p) + Len(q))
        BY <1>1, <3>2
      <4>2. x[i - Len(p)] = IF i = Len(p) + Len(q) THEN e ELSE q[i - Len(p)]
        BY <2>3, <4>1
      <4> QED
        BY <2>2, <2>4, <2>5, <3>2, <4>2
    <3> QED
      BY <3>1, <3>2
  <2>7. l = p \o x
    BY <2>2, <2>4, <2>6, SeqEqual
  <2> QED
    BY <2>7 DEF l, x
<1> QED
  BY <1>3, <1>4

(* One more token changes the last of the pieces, or adds an empty one.     *)
Cuts(A) == Seq(Words(A)) \ {<<>>}

LEMMA CutIs ==
    ASSUME NEW A, NEW p \in Cuts(A), NEW token \in A, NEW separator
    PROVE  /\ p[Len(p)] \in Words(A) /\ Append(p[Len(p)], token) \in Words(A) /\ <<>> \in Words(A)
           /\ Cut(p, token, separator) \in Cuts(A)
<1>1. p \in Seq(Words(A)) /\ Len(p) \in 1..Len(p)
  BY EmptySeq DEF Cuts
<1>2. p[Len(p)] \in Seq(A)
  <2>1. p[Len(p)] \in Words(A)
    BY <1>1, ElementOfSeq
  <2> QED
    BY <2>1 DEF Words
<1>3. <<>> \in Words(A) /\ Append(p[Len(p)], token) \in Words(A)
  BY <1>2, EmptySeq, AppendProperties DEF Words
<1>4. ASSUME token = separator PROVE Cut(p, token, separator) \in Cuts(A)
  <2>1. Append(p, <<>>) \in Seq(Words(A)) /\ Append(p, <<>>) # <<>>
    BY <1>1, <1>3, AppendProperties
  <2>2. Cut(p, token, separator) = Append(p, <<>>)
    BY <1>4 DEF Cut
  <2> QED
    BY <2>1, <2>2 DEF Cuts
<1>5. ASSUME token # separator PROVE Cut(p, token, separator) \in Cuts(A)
  <2> DEFINE e == Append(p[Len(p)], token)
             q == [p EXCEPT ![Len(p)] = e]
  <2> HIDE DEF e
  <2>1. e \in Words(A)
    BY <1>3 DEF e
  <2>2. q \in Seq(Words(A)) /\ Len(q) = Len(p)
    BY <1>1, <2>1, ExceptSeq
  <2>3. q # <<>>
    BY <1>1, <2>2, EmptySeq
  <2>4. Cut(p, token, separator) = q
    BY <1>5 DEF Cut, e
  <2> HIDE DEF q
  <2> QED
    BY <2>2, <2>3, <2>4 DEF Cuts
<1> QED
  BY <1>2, <1>3, <1>4, <1>5 DEF Words

LEMMA CutOfJoin ==
    ASSUME NEW A, NEW p \in Cuts(A), NEW q \in Cuts(A), NEW token \in A, NEW separator
    PROVE  /\ p \o q \in Cuts(A)
           /\ Cut(p \o q, token, separator) = p \o Cut(q, token, separator)
<1> DEFINE e == Append(q[Len(q)], token)
<1>1. p \in Seq(Words(A)) /\ q \in Seq(Words(A)) /\ q # <<>>
  BY DEF Cuts
<1>2. <<>> \in Words(A) /\ e \in Words(A) /\ Cut(q, token, separator) \in Cuts(A)
  BY CutIs
<1>3. p \o q \in Cuts(A)
  <2>1. p \o q \in Seq(Words(A))
    BY <1>1, ConcatProperties
  <2>2. p \o q # <<>>
    BY <1>1, ConcatEqualIffEmpty
  <2> QED
    BY <2>1, <2>2 DEF Cuts
<1>4. CASE token = separator
  <2>1. ASSUME NEW x \in Words(A) PROVE Append(p \o q, x) = p \o Append(q, x)
    <3> DEFINE W == Words(A)
    <3>1. p \in Seq(W) /\ q \in Seq(W) /\ x \in W
      BY <1>1, <2>1
    <3> HIDE DEF W
    <3>2. p \o q \in Seq(W) /\ <<x>> \in Seq(W)
      BY <3>1, ConcatProperties
    <3>3. Append(p \o q, x) = (p \o q) \o <<x>> /\ Append(q, x) = q \o <<x>>
      BY <3>1, <3>2, AppendIsConcat
    <3> QED
      BY <3>1, <3>2, <3>3, ConcatAssociative
  <2> QED
    BY <1>2, <1>3, <1>4, <2>1 DEF Cut
<1>5. CASE token # separator
  <2>1. (p \o q)[Len(p \o q)] = q[Len(q)]
    BY <1>1, <1>2, LastOfJoin
  <2>2. Cut(p \o q, token, separator) = [p \o q EXCEPT ![Len(p \o q)] = e]
    BY <1>5, <2>1 DEF Cut
  <2>3. Cut(q, token, separator) = [q EXCEPT ![Len(q)] = e]
    BY <1>5 DEF Cut
  <2> HIDE DEF e
  <2>4. [p \o q EXCEPT ![Len(p \o q)] = e] = p \o [q EXCEPT ![Len(q)] = e]
    BY <1>1, <1>2, LastOfJoin
  <2> QED
    BY <1>3, <2>2, <2>3, <2>4
<1> QED
  BY <1>3, <1>4, <1>5

LEMMA CuttingTypes ==
    ASSUME NEW A, NEW s \in Words(A), NEW separator, NEW f, Cutting(f, s, separator)
    PROVE  \A i \in 0..Len(s) : f[i] \in Cuts(A)
<1> DEFINE S == {n \in Nat : n <= Len(s) => f[n] \in Cuts(A)}
<1>1. Len(s) \in Nat /\ \A i \in 1..Len(s) : s[i] \in A
  BY DEF Words
<1>2. 0 \in S
  <2>1. <<>> \in Words(A)
    BY EmptySeq DEF Words
  <2>2. << <<>> >> \in Cuts(A)
    BY <2>1 DEF Cuts
  <2> QED
    BY <2>2, CuttingIs
<1>3. ASSUME NEW n \in Nat, n \in S PROVE n + 1 \in S
  <2>1. SUFFICES ASSUME n + 1 <= Len(s) PROVE f[n + 1] \in Cuts(A)
    OBVIOUS
  <2>2. n + 1 \in 1..Len(s) /\ n + 1 - 1 = n /\ f[n] \in Cuts(A)
    BY <1>1, <1>3, <2>1
  <2>3. f[n + 1] = Cut(f[n], s[n + 1], separator)
    BY <2>2, CuttingIs
  <2> QED
    BY <1>1, <2>2, <2>3, CutIs
<1>4. \A n \in Nat : n \in S
  <2> HIDE DEF S
  <2> QED
    BY <1>2, <1>3, Climb
<1> QED
  BY <1>1, <1>4

(* The pieces of a sequence, as its tokens come.                            *)
ByPiece(A, f, s, separator) ==
    /\ Pieces(s, separator) = f[Len(s)]
    /\ f[0] = << <<>> >>
    /\ \A n \in Nat : n + 1 \in 1..Len(s) => f[n + 1] = Cut(f[n], s[n + 1], separator)
    /\ \A i \in 0..Len(s) : f[i] \in Cuts(A)

LEMMA PieceByPiece ==
    ASSUME NEW A, NEW s \in Words(A), NEW separator
    PROVE  \E f : ByPiece(A, f, s, separator)
<1>1. PICK f : Cutting(f, s, separator) /\ Pieces(s, separator) = f[Len(s)]
  BY PiecesByCutting
<1>2. f[0] = << <<>> >> /\ \A i \in 1..Len(s) : f[i] = Cut(f[i - 1], s[i], separator)
  BY <1>1, CuttingIs
<1>3. ASSUME NEW n \in Nat, n + 1 \in 1..Len(s)
      PROVE  f[n + 1] = Cut(f[n], s[n + 1], separator)
  <2>1. n + 1 - 1 = n
    OBVIOUS
  <2> QED
    BY <1>2, <1>3, <2>1
<1>4. \A i \in 0..Len(s) : f[i] \in Cuts(A)
  BY <1>1, CuttingTypes
<1> QED
  BY <1>1, <1>2, <1>3, <1>4 DEF ByPiece

LEMMA PiecesAre ==
    ASSUME NEW A, NEW s \in Words(A), NEW separator
    PROVE  Pieces(s, separator) \in Cuts(A)
<1>1. Len(s) \in 0..Len(s)
  BY DEF Words
<1> QED
  BY <1>1, PieceByPiece DEF ByPiece

(* A separator parts the pieces before it from those after it.              *)
LEMMA JoinIs ==
    ASSUME NEW T, NEW x \in Seq(T), NEW y \in Seq(T), NEW e \in T
    PROVE  /\ x \o <<e>> \o y \in Seq(T) /\ Len(x \o <<e>> \o y) = Len(x) + 1 + Len(y)
           /\ \A i \in 1..Len(x) : (x \o <<e>> \o y)[i] = x[i]
           /\ (x \o <<e>> \o y)[Len(x) + 1] = e
           /\ \A i \in 1..Len(y) : (x \o <<e>> \o y)[Len(x) + 1 + i] = y[i]
OBVIOUS

Joins(s, x, separator, y) == s = x \o <<separator>> \o y

LEMMA Joined ==
    ASSUME NEW A, NEW x \in Words(A), NEW y \in Words(A), NEW separator \in A,
           NEW s, Joins(s, x, separator, y)
    PROVE  Pieces(s, separator) = Pieces(x, separator) \o Pieces(y, separator)
<1>1. /\ s \in Words(A) /\ Len(s) = Len(x) + 1 + Len(y)
      /\ \A i \in 1..Len(x) : s[i] = x[i]
      /\ s[Len(x) + 1] = separator
      /\ \A i \in 1..Len(y) : s[Len(x) + 1 + i] = y[i]
  BY JoinIs DEF Joins, Words
<1>2. Len(x) \in Nat /\ Len(y) \in Nat /\ <<>> \in Words(A) /\ \A i \in 1..Len(y) : y[i] \in A
  BY EmptySeq DEF Words
<1>3. PICK f : ByPiece(A, f, s, separator)
  BY <1>1, PieceByPiece
<1>4. PICK a : ByPiece(A, a, x, separator)
  BY PieceByPiece
<1>5. PICK b : ByPiece(A, b, y, separator)
  BY PieceByPiece
<1>6. f[Len(x)] = a[Len(x)]
  <2> DEFINE S == {n \in Nat : n <= Len(x) => f[n] = a[n]}
  <2>1. 0 \in S
    BY <1>3, <1>4 DEF ByPiece
  <2>2. ASSUME NEW n \in Nat, n \in S PROVE n + 1 \in S
    <3>1. SUFFICES ASSUME n + 1 <= Len(x) PROVE f[n + 1] = a[n + 1]
      OBVIOUS
    <3>2. /\ n + 1 \in 1..Len(x) /\ n + 1 \in 1..Len(s)
          /\ f[n] = a[n] /\ s[n + 1] = x[n + 1]
      BY <1>1, <1>2, <2>2, <3>1
    <3> QED
      BY <1>3, <1>4, <3>2 DEF ByPiece
  <2>3. Len(x) \in S
    <3> HIDE DEF S
    <3> QED
      BY <1>2, <2>1, <2>2, Climb
  <2> QED
    BY <1>2, <2>3
<1> DEFINE p == a[Len(x)]
<1>7. p \in Cuts(A)
  BY <1>2, <1>4 DEF ByPiece
<1>8. f[Len(x) + 1] = p \o b[0]
  <2>1. Len(x) + 1 \in 1..Len(s)
    BY <1>1, <1>2
  <2>2. f[Len(x) + 1] = Cut(p, separator, separator)
    BY <1>1, <1>2, <1>3, <1>6, <2>1 DEF ByPiece
  <2>3. f[Len(x) + 1] = Append(p, <<>>)
    BY <2>2 DEF Cut
  <2> HIDE DEF p
  <2>4. ASSUME NEW e \in Words(A) PROVE Append(p, e) = p \o <<e>>
    BY <1>7, AppendIsConcat DEF Cuts
  <2> QED
    BY <1>2, <1>5, <2>3, <2>4 DEF ByPiece
<1> HIDE DEF p
<1>9. f[Len(x) + 1 + Len(y)] = p \o b[Len(y)]
  <2> DEFINE S == {n \in Nat : n <= Len(y) => f[Len(x) + 1 + n] = p \o b[n]}
  <2>1. 0 \in S
    BY <1>2, <1>8
  <2>2. ASSUME NEW n \in Nat, n \in S PROVE n + 1 \in S
    <3> DEFINE m == Len(x) + 1 + (n + 1)
    <3>1. SUFFICES ASSUME n + 1 <= Len(y) PROVE f[m] = p \o b[n + 1]
      OBVIOUS
    <3>2. /\ n + 1 \in 1..Len(y) /\ m \in 1..Len(s)
          /\ m = (Len(x) + 1 + n) + 1 /\ Len(x) + 1 + n \in Nat /\ n \in 0..Len(y) /\ s[m] = y[n + 1]
      BY <1>1, <1>2, <3>1
    <3>3. f[Len(x) + 1 + n] = p \o b[n]
      <4>1. n <= Len(y)
        BY <1>2, <3>2
      <4> QED
        BY <2>2, <4>1
    <3> HIDE DEF m
    <3>4. f[m] = Cut(p \o b[n], y[n + 1], separator)
      BY <1>3, <3>2, <3>3 DEF ByPiece
    <3>5. b[n + 1] = Cut(b[n], y[n + 1], separator)
      BY <1>5, <3>2 DEF ByPiece
    <3>6. y[n + 1] \in A /\ b[n] \in Cuts(A)
      BY <1>2, <1>5, <3>2 DEF ByPiece
    <3>7. Cut(p \o b[n], y[n + 1], separator) = p \o Cut(b[n], y[n + 1], separator)
      BY <1>7, <3>6, CutOfJoin
    <3> QED
      BY <3>4, <3>5, <3>7
  <2>3. Len(y) \in S
    <3> HIDE DEF S
    <3> QED
      BY <1>2, <2>1, <2>2, Climb
  <2> QED
    BY <1>2, <2>3
<1> QED
  BY <1>1, <1>3, <1>4, <1>5, <1>9 DEF p, ByPiece

-----------------------------------------------------------------------------
(* What the rules on text say of labels and segments.                       *)
LEMMA FrontIs ==
    ASSUME NEW T, NEW p \in Seq(T), NEW e \in T
    PROVE  Front(p \o <<e>>) = p /\ Last(p \o <<e>>) = e
<1>1. /\ p \o <<e>> \in Seq(T) /\ Len(p \o <<e>>) = Len(p) + 1 /\ Len(p) \in Nat
      /\ (p \o <<e>>)[Len(p) + 1] = e
      /\ \A i \in 1..Len(p) : (p \o <<e>>)[i] = p[i]
  OBVIOUS
<1> DEFINE s == p \o <<e>>
<1> HIDE DEF s
<1>2. Front(s) = SubSeq(s, 1, Len(p)) /\ Last(s) = e
  BY <1>1 DEF Front, Last, s
<1>3. /\ SubSeq(s, 1, Len(p)) \in Seq(T) /\ Len(SubSeq(s, 1, Len(p))) = Len(p)
      /\ \A i \in 1..Len(p) : SubSeq(s, 1, Len(p))[i] = p[i]
  BY <1>1 DEF s
<1>4. SubSeq(s, 1, Len(p)) = p
  BY <1>3, SeqEqual
<1> QED
  BY <1>2, <1>4 DEF s

LEMMA FrontAndLast ==
    ASSUME NEW T, NEW s \in Seq(T), s # <<>>
    PROVE  Front(s) \in Seq(T) /\ Last(s) \in T /\ s = Front(s) \o <<Last(s)>>
<1>1. PICK p \in Seq(T), e \in T : s = Append(p, e)
  BY SequenceEmptyOrAppend
<1>2. s = p \o <<e>>
  BY <1>1, AppendIsConcat
<1> QED
  BY <1>2, FrontIs

(* A whole-label match on text.                                             *)
LEMMA UnderByLabel ==
    ASSUME NEW A, NEW dot \in A, NEW h \in Words(A), NEW domain \in Words(A),
           h = domain \/ IsSuffix(<<dot>> \o domain, h)
    PROVE  IsSuffix(Pieces(domain, dot), Pieces(h, dot))
<1>1. /\ Pieces(domain, dot) \in Seq(Words(A)) /\ <<>> \in Seq(Words(A))
      /\ \A x \in Words(A) : Pieces(x, dot) \in Seq(Words(A))
  BY PiecesAre, EmptySeq DEF Cuts
<1>2. CASE h = domain
  <2>1. <<>> \o Pieces(h, dot) = Pieces(h, dot)
    BY <1>1, <1>2, ConcatEmptySeq
  <2> QED
    BY <1>1, <1>2, <2>1, SuffixOfJoin
<1>3. CASE IsSuffix(<<dot>> \o domain, h)
  <2>1. <<dot>> \in Seq(A) /\ domain \in Seq(A) /\ h \in Seq(A)
    BY DEF Words
  <2> DEFINE z == <<dot>> \o domain
  <2>2. z \in Seq(A)
    BY <2>1, ConcatProperties
  <2>3. PICK x \in Seq(A) : h = x \o z
    <3>1. IsSuffix(z, h)
      BY <1>3
    <3> HIDE DEF z
    <3> QED
      BY <2>1, <2>2, <3>1, SuffixSplits
  <2>4. h = x \o <<dot>> \o domain
    BY <2>1, <2>3, ConcatAssociative
  <2>5. x \in Words(A)
    BY DEF Words
  <2>6. Joins(h, x, dot, domain)
    BY <2>4 DEF Joins
  <2>7. Pieces(h, dot) = Pieces(x, dot) \o Pieces(domain, dot)
    BY <2>5, <2>6, Joined
  <2> QED
    BY <1>1, <2>5, <2>7, SuffixOfJoin
<1> QED
  BY <1>2, <1>3

(* A path within a prefix, by segments.                                     *)
LEMMA PiecesOfNone ==
    ASSUME NEW A
    PROVE  <<>> \in Words(A) /\ \A separator : Pieces(<<>>, separator) = << <<>> >>
<1>1. <<>> \in Words(A) /\ Len(<<>>) = 0
  BY EmptySeq DEF Words
<1> QED
  BY <1>1, PieceByPiece DEF ByPiece

Continues(pinned, here) ==
    /\ Len(here) >= Len(pinned)
    /\ IsPrefix(IF Last(pinned) = <<>> THEN Front(pinned) ELSE pinned, here)

LEMMA WithinBySegment ==
    ASSUME NEW A, NEW slash \in A,
           NEW path \in Words(A), NEW prefix \in Words(A), prefix # <<>>,
           IsPrefix(prefix, path),
           path = prefix \/ Last(prefix) = slash \/ IsPrefix(Append(prefix, slash), path)
    PROVE  Pieces(path, slash) = Pieces(prefix, slash) \/ Continues(Pieces(prefix, slash), Pieces(path, slash))
<1> DEFINE W == Words(A)
<1>1. \A x \in W : Pieces(x, slash) \in Seq(W) /\ Pieces(x, slash) # <<>>
  BY PiecesAre DEF Cuts
<1>2. path \in Seq(A) /\ prefix \in Seq(A) /\ <<slash>> \in Seq(A) /\ <<>> \in W
  BY PiecesOfNone DEF Words
<1>4. CASE path = prefix
  BY <1>4
<1>5. CASE Last(prefix) = slash
  <2>1. Front(prefix) \in Seq(A) /\ prefix = Front(prefix) \o <<slash>>
    BY <1>2, <1>5, FrontAndLast
  <2> DEFINE x == Front(prefix)
  <2> HIDE DEF x
  <2>2. x \in Seq(A) /\ x \in W /\ prefix = x \o <<slash>>
    BY <2>1 DEF x, Words
  <2>3. PICK y \in Seq(A) : path = prefix \o y
    BY <1>2, PrefixSplits
  <2>4. y \in W
    BY DEF Words
  <2>5. Pieces(path, slash) = Pieces(x, slash) \o Pieces(y, slash)
    <3>1. Joins(path, x, slash, y)
      BY <2>2, <2>3 DEF Joins
    <3> QED
      BY <2>2, <2>4, <3>1, Joined
  <2>6. prefix = x \o <<slash>> \o <<>>
    BY <1>2, <2>2, ConcatEmptySeq
  <2>7. Pieces(prefix, slash) = Pieces(x, slash) \o Pieces(<<>>, slash)
    <3> DEFINE e == <<>>
    <3>1. e \in W /\ x \in W /\ Joins(prefix, x, slash, e)
      BY <1>2, <2>2, <2>6 DEF Joins
    <3> HIDE DEF e
    <3>2. Pieces(prefix, slash) = Pieces(x, slash) \o Pieces(e, slash)
      BY <3>1, Joined
    <3> QED
      BY <3>2 DEF e
  <2>8. Pieces(prefix, slash) = Pieces(x, slash) \o << <<>> >>
    BY <2>7, PiecesOfNone
  <2>9. ASSUME NEW p \in Seq(W), NEW q \in Seq(W), NEW e \in W, q # <<>>
        PROVE  /\ Front(p \o <<e>>) = p /\ Last(p \o <<e>>) = e
               /\ Len(p \o q) >= Len(p \o <<e>>) /\ IsPrefix(p, p \o q)
    <3> HIDE DEF W
    <3>1. Len(p \o q) = Len(p) + Len(q) /\ Len(q) >= 1 /\ Len(p) \in Nat /\ Len(q) \in Nat
      BY <2>9, ConcatProperties, EmptySeq
    <3>2. Len(p \o <<e>>) = Len(p) + 1
      OBVIOUS
    <3> QED
      BY <3>1, <3>2, FrontIs, PrefixOfJoin
  <2>10. /\ Pieces(x, slash) \in Seq(W) /\ Pieces(y, slash) \in Seq(W) /\ Pieces(y, slash) # <<>>
    BY <1>1, <2>2, <2>4
  <2> HIDE DEF W
  <2>11. ASSUME NEW e, e = <<>> PROVE Continues(Pieces(x, slash) \o <<e>>, Pieces(x, slash) \o Pieces(y, slash))
    <3>1. e \in W
      BY <1>2, <2>11
    <3> QED
      BY <2>9, <2>10, <2>11, <3>1 DEF Continues
  <2> QED
    BY <2>5, <2>8, <2>11
<1>6. CASE IsPrefix(Append(prefix, slash), path)
  <2>1. Append(prefix, slash) = prefix \o <<slash>> /\ prefix \o <<slash>> \in Seq(A)
    BY <1>2, AppendIsConcat, ConcatProperties
  <2> DEFINE z == prefix \o <<slash>>
  <2>2. PICK y \in Seq(A) : path = z \o y
    <3>1. z \in Seq(A) /\ IsPrefix(z, path)
      BY <1>6, <2>1
    <3> HIDE DEF z
    <3> QED
      BY <1>2, <3>1, PrefixSplits
  <2>3. y \in W
    BY DEF Words
  <2>4. Pieces(path, slash) = Pieces(prefix, slash) \o Pieces(y, slash)
    <3>1. Joins(path, prefix, slash, y)
      BY <2>2 DEF Joins
    <3> QED
      BY <2>3, <3>1, Joined
  <2>5. ASSUME NEW p \in Seq(W), NEW q \in Seq(W), p # <<>>
        PROVE  Continues(p, p \o q)
    <3> HIDE DEF W
    <3>1. Len(p \o q) = Len(p) + Len(q) /\ Len(p) \in Nat /\ Len(q) \in Nat
      BY ConcatProperties
    <3>2. IsPrefix(p, p \o q)
      BY PrefixOfJoin
    <3>3. Front(p) \in Seq(W) /\ Last(p) \in W /\ p = Front(p) \o <<Last(p)>>
      BY <2>5, FrontAndLast
    <3> DEFINE front == Front(p)
               last == <<Last(p)>>
    <3>4. front \in Seq(W) /\ last \in Seq(W) /\ p = front \o last
      BY <3>3
    <3> HIDE DEF front, last
    <3>5. p \o q = front \o (last \o q) /\ last \o q \in Seq(W)
      BY <3>4, ConcatAssociative, ConcatProperties
    <3> DEFINE rest == last \o q
    <3>6. IsPrefix(front, p \o q)
      <4>1. rest \in Seq(W) /\ p \o q = front \o rest
        BY <3>5
      <4> HIDE DEF rest
      <4> QED
        BY <3>4, <4>1, PrefixOfJoin
    <3> QED
      BY <3>1, <3>2, <3>6 DEF Continues, front
  <2>6. /\ Pieces(prefix, slash) \in Seq(W) /\ Pieces(y, slash) \in Seq(W) /\ Pieces(prefix, slash) # <<>>
    BY <1>1, <2>3
  <2> QED
    BY <2>4, <2>5, <2>6
<1> QED
  BY <1>4, <1>5, <1>6

-----------------------------------------------------------------------------
(* A redirect that is permitted is at home with an entry in force.          *)
LEMMA UrlIs ==
    ASSUME NEW u, IsUrl(u)
    PROVE  /\ u \in [scheme : {"https", "http"}, host : Tokens, port : {"", "443", "444"},
                     path : Tokens, extra : Extra]
           /\ u.host \in Tokens /\ u.path \in Tokens /\ u.path # <<>> /\ u.extra \in Extra
           /\ u.port \in {"", "443", "444"}
BY DEF IsUrl

(* What the prover knows of STRING is not that it holds a given text.       *)
LEMMA MoreTokens ==
    ASSUME NEW S, NEW T, S \subseteq T, NEW h \in Seq(S)
    PROVE  h \in Words(T)
BY DEF Words

LEMMA LabelsOf ==
    ASSUME NEW h \in Tokens, NEW domain \in Tokens,
           h = domain \/ IsSuffix(<<".">> \o domain, h)
    PROVE  IsSuffix(Pieces(domain, "."), Pieces(h, "."))
<1> DEFINE A == STRING \cup {"."}
           dot == "."
<1>1. dot \in A /\ STRING \subseteq A /\ h \in Seq(STRING) /\ domain \in Seq(STRING)
  BY DEF Tokens
<1>2. h = domain \/ IsSuffix(<<dot>> \o domain, h)
  OBVIOUS
<1>3. IsSuffix(Pieces(domain, dot), Pieces(h, dot))
  <2> HIDE DEF A, dot
  <2> QED
    BY <1>1, <1>2, MoreTokens, UnderByLabel
<1> QED
  BY <1>3

LEMMA SegmentsOf ==
    ASSUME NEW path \in Tokens, NEW prefix \in Tokens, prefix # <<>>,
           PathWithinPrefix(path, prefix)
    PROVE  Pieces(path, "/") = Pieces(prefix, "/") \/ Continues(Pieces(prefix, "/"), Pieces(path, "/"))
<1> DEFINE A == STRING \cup {"/"}
           slash == "/"
<1>1. slash \in A /\ STRING \subseteq A /\ path \in Seq(STRING) /\ prefix \in Seq(STRING)
  BY DEF Tokens
<1>2. /\ IsPrefix(prefix, path)
      /\ path = prefix \/ Last(prefix) = slash \/ IsPrefix(Append(prefix, slash), path)
  BY DEF PathWithinPrefix
<1>3. Pieces(path, slash) = Pieces(prefix, slash)
      \/ Continues(Pieces(prefix, slash), Pieces(path, slash))
  <2> HIDE DEF A, slash
  <2> QED
    BY <1>1, <1>2, MoreTokens, WithinBySegment
<1> QED
  BY <1>3

LEMMA AtHomeIs ==
    ASSUME NEW u, IsUrl(u), NEW e, IsEntry(e),
           u.scheme = "https", Port(u) = "", u.extra \in {"none", "respelled"},
           ~Contains(u.path, "%"), Under(u.host, e.host),
           IF e.pin = "exact" THEN u.path = e.path ELSE PathWithinPrefix(u.path, e.path)
    PROVE  AtHome(u, e)
<1>1. u.port # "444" /\ \A i \in DOMAIN u.path : u.path[i] # "%"
  <2>1. u.path \in Seq(STRING)
    BY UrlIs DEF Tokens
  <2>2. DOMAIN u.path = 1..Len(u.path)
    BY <2>1, LenProperties
  <2> QED
    BY <2>2, UrlIs DEF Port, Contains
<1>2. e.host \in Tokens /\ e.path \in Tokens /\ e.path # <<>> /\ e.pin \in {"exact", "prefix"}
  BY DEF IsEntry
<1>3. IsSuffix(Pieces(e.host, "."), Pieces(HostKey(u.host), "."))
  <2>1. HostKey(u.host) \in Tokens
    BY UrlIs, HostKeyIs
  <2> QED
    BY <1>2, <2>1, LabelsOf DEF Under
<1>4. \/ Pieces(u.path, "/") = Pieces(e.path, "/")
      \/ e.pin = "prefix" /\ Continues(Pieces(e.path, "/"), Pieces(u.path, "/"))
  <2>1. CASE e.pin = "exact"
    BY <2>1
  <2>2. CASE e.pin # "exact"
    BY <1>2, <2>2, UrlIs, SegmentsOf
  <2> QED
    BY <2>1, <2>2
<1> QED
  BY <1>1, <1>3, <1>4 DEF AtHome, Continues

LEMMA AllowedInForce ==
    ASSUME env \in Envs, NEW e \in Allowed
    PROVE  /\ IsEntry(e)
           /\ (\A u : /\ IsUrl(u) /\ ~Contains(u.path, "%")
                      /\ IF e.pin = "exact" THEN u.path = e.path
                         ELSE PathWithinPrefix(u.path, e.path)
                      => e \in InForce)
<1>1. CASE e \in Defaults
  BY <1>1, AdmissionAssumption DEF InForce
<1>2. CASE e \in UNION {ParseRedirectPrefix(raw) : raw \in env}
  <2>1. PICK raw \in env : e \in ParseRedirectPrefix(raw)
    BY <1>2
  <2>2. IsUrl(raw)
    BY <2>1, AdmissionAssumption
  <2>3. /\ raw.scheme = "https" /\ Port(raw) = "" /\ raw.extra \in {"none", "respelled"}
        /\ raw.path # <<"/">>
        /\ e = [host |-> HostKey(raw.host), path |-> raw.path, pin |-> "prefix"]
    BY <2>1 DEF ParseRedirectPrefix
  <2>4. raw.host \in Tokens /\ raw.path \in Tokens /\ raw.path # <<>> /\ HostKey(raw.host) \in Tokens
    BY <2>2, UrlIs, HostKeyIs
  <2>5. IsEntry(e)
    BY <2>3, <2>4 DEF IsEntry
  <2> DEFINE home == [host |-> HostKey(raw.host), path |-> raw.path, pin |-> "exact"]
  <2>6. ASSUME NEW u, IsUrl(u), ~Contains(u.path, "%"), PathWithinPrefix(u.path, raw.path)
        PROVE  e \in InForce
    <3>1. \A i \in 1..Len(raw.path) : raw.path[i] # "%"
      <4>1. IsPrefix(raw.path, u.path)
        BY <2>6 DEF PathWithinPrefix
      <4>2. u.path \in Seq(STRING) /\ raw.path \in Seq(STRING)
        BY <2>4, <2>6, UrlIs DEF Tokens
      <4>3. PICK y \in Seq(STRING) : u.path = raw.path \o y
        BY <4>1, <4>2, PrefixSplits
      <4>4. ASSUME NEW i \in 1..Len(raw.path) PROVE raw.path[i] # "%"
        <5>1. i \in 1..Len(u.path) /\ u.path[i] = raw.path[i]
          BY <4>2, <4>3, ConcatProperties
        <5> QED
          BY <2>6, <5>1 DEF Contains
      <4> QED
        BY <4>4
    <3>2. raw.port # "444" /\ DOMAIN raw.path = 1..Len(raw.path)
      <4>1. raw.path \in Seq(STRING)
        BY <2>4 DEF Tokens
      <4>2. DOMAIN raw.path = 1..Len(raw.path)
        BY <4>1, LenProperties
      <4>3. raw.port # "444"
        BY <2>2, <2>3, UrlIs DEF Port
      <4> QED
        BY <4>2, <4>3
    <3>3. IsSuffix(Pieces(HostKey(raw.host), "."), Pieces(HostKey(raw.host), "."))
      BY <2>4, LabelsOf
    <3>4. AtHome(raw, home)
      BY <2>3, <3>1, <3>2, <3>3 DEF AtHome
    <3> QED
      BY <2>1, <2>3, <3>4 DEF InForce
  <2> QED
    BY <2>3, <2>5, <2>6
<1> QED
  BY <1>1, <1>2 DEF Allowed, AllowedRedirects

LEMMA PermittedIsPinned ==
    ASSUME env \in Envs, NEW u \in Url, RedirectUriPermitted(u, Allowed)
    PROVE  /\ u.extra \in {"none", "respelled"}
           /\ \/ u.scheme = "http" /\ u.host = <<"localhost">>
              \/ \E e \in InForce : AtHome(u, e)
<1>1. IsUrl(u) /\ u.extra \in Extra
  BY AdmissionAssumption, UrlIs
<1>2. CASE IsLoopback(u)
  BY <1>1, <1>2 DEF IsLoopback, RedirectUriPermitted, Extra
<1>3. CASE ~IsLoopback(u)
  <2>1. /\ u.scheme = "https" /\ Port(u) = "" /\ u.extra \in {"none", "respelled"}
        /\ ~Contains(u.path, "%")
    BY <1>1, <1>3 DEF RedirectUriPermitted, Extra
  <2>2. PICK e \in Allowed :
           /\ Under(u.host, e.host)
           /\ IF e.pin = "exact" THEN u.path = e.path ELSE PathWithinPrefix(u.path, e.path)
    BY <1>3 DEF RedirectUriPermitted
  <2>3. IsEntry(e) /\ e \in InForce
    BY <1>1, <2>1, <2>2, AllowedInForce
  <2>4. AtHome(u, e)
    BY <1>1, <2>1, <2>2, <2>3, AtHomeIs
  <2> QED
    BY <2>1, <2>3, <2>4
<1> QED
  BY <1>2, <1>3

-----------------------------------------------------------------------------
(* A redirect under way is one that the allow-list in force permits, and a  *)
(* remembered verdict grants a document's own redirects only.               *)
Vetted == pending # Nobody => RedirectUriPermitted(pending.redirect, Allowed)

Kept == \A id \in Id : \A u \in cached[id].uris : IsLoopback(u) \/ SameOrigin(id, u)

IInv == TypeOK /\ Vetted /\ Kept /\ OwnRedirect

LEMMA HonouredIs ==
    ASSUME NEW id, NEW doc, NEW allowed, NEW max, NEW u \in ParseClientMetadata(id, doc, allowed, max)
    PROVE  u \in doc.uris /\ (IsLoopback(u) \/ SameOrigin(id, u))
BY DEF ParseClientMetadata, Honoured

(* The verdict on a document, cached or fetched, is one on that document.   *)
LEMMA VerdictIs ==
    ASSUME TypeOK, Kept, NEW id \in Id, NEW v \in Verdicts(id)
    PROVE  /\ v \in [fresh : BOOLEAN, uris : SUBSET Url]
           /\ \A u \in v.uris : IsLoopback(u) \/ SameOrigin(id, u)
<1>1. CASE cached[id].fresh
  BY <1>1 DEF Verdicts, TypeOK, Kept
<1>2. CASE ~cached[id].fresh
  <2>1. PICK keep \in BOOLEAN :
           v = [fresh |-> keep,
                uris |-> IF published[id] = Gone THEN {}
                         ELSE ParseClientMetadata(id, published[id], Allowed, MaxUris)]
    BY <1>2 DEF Verdicts
  <2>2. CASE published[id] = Gone
    BY <2>1, <2>2
  <2>3. CASE published[id] # Gone
    <3>1. published[id] \in Docs[id] \ {Gone, Down}
      BY <1>2, <2>3 DEF Verdicts, TypeOK, Sites
    <3>2. published[id].uris \subseteq Url
      BY <3>1, PublishedAssumption
    <3>3. v.uris = ParseClientMetadata(id, published[id], Allowed, MaxUris)
      BY <2>1, <2>3
    <3> QED
      BY <2>1, <3>2, <3>3, HonouredIs
  <2> QED
    BY <2>2, <2>3
<1> QED
  BY <1>1, <1>2

(* Init gives no verdict, and no connect.                                   *)
LEMMA AtInit == Init => IInv
<1> SUFFICES ASSUME Init PROVE IInv
  OBVIOUS
<1>1. TypeOK
  BY DEF Init, TypeOK, Uncached, Answers
<1>2. Vetted /\ OwnRedirect
  BY DEF Init, Vetted, OwnRedirect
<1>3. Kept
  BY DEF Init, Kept, Uncached
<1> QED
  BY <1>1, <1>2, <1>3 DEF IInv

LEMMA AtAdmit ==
    ASSUME TypeOK, NEW who, NEW u \in Url, NEW uris \in SUBSET Url,
           RedirectAllowed(uris, u, Allowed),
           (who \in Client /\ uris = registered[who])
             \/ (who \in Id /\ \A r \in uris : IsLoopback(r) \/ SameOrigin(who, r)),
           Admit(who, u), UNCHANGED <<env, registered>>
    PROVE  /\ pending' \in [client : Client \cup Id, redirect : Url] \cup {Nobody}
           /\ answer' \in Answers
           /\ Vetted' /\ OwnRedirect'
<1>1. pending' = [client |-> who, redirect |-> u] /\ answer' = "signin"
  BY DEF Admit
<1>2. Vetted'
  BY <1>1 DEF Vetted, Allowed, RedirectAllowed
<1>3. PICK r \in uris : r = u \/ LoopbackMatch(r, u)
  BY DEF RedirectAllowed
<1>4. IsUrl(r) /\ IsUrl(u)
  BY AdmissionAssumption
<1> DEFINE local == u.scheme = "http" /\ u.host = <<"localhost">>
<1>5. LoopbackMatch(r, u) => local /\ r = [u EXCEPT !.port = r.port, !.extra = r.extra]
  BY <1>4 DEF LoopbackMatch, IsLoopback, IsUrl
<1>6. ASSUME who \in Client, uris = registered[who] PROVE OwnRedirect'
  <2>1. r \in registered'[who]
    BY <1>3, <1>6
  <2>2. r = u \/ (local /\ r = [u EXCEPT !.port = r.port, !.extra = r.extra])
    BY <1>3, <1>5
  <2>3. pending'.client \in Client /\ pending'.client = who /\ pending'.redirect = u
    BY <1>1, <1>6
  <2> QED
    BY <2>1, <2>2, <2>3 DEF OwnRedirect
<1>7. ASSUME who \in Id, \A x \in uris : IsLoopback(x) \/ SameOrigin(who, x)
      PROVE  OwnRedirect'
  <2>1. who \notin Client
    BY <1>7, AdmissionAssumption
  <2>2. local \/ SameOrigin(u, who)
    BY <1>3, <1>5, <1>7 DEF IsLoopback, SameOrigin
  <2>3. pending'.client = who /\ pending'.redirect = u
    BY <1>1
  <2> QED
    BY <2>1, <2>2, <2>3 DEF OwnRedirect
<1> QED
  BY <1>1, <1>2, <1>6, <1>7 DEF Answers

(* What no connect depends on changes without it.                           *)
LEMMA AtRest ==
    ASSUME IInv, UNCHANGED <<env, registered, pending>>
    PROVE  Vetted' /\ OwnRedirect'
BY DEF IInv, Vetted, OwnRedirect, Allowed

LEMMA AtRefuse ==
    ASSUME IInv, NEW u, Refuse(u), UNCHANGED <<env, registered>>
    PROVE  /\ pending' \in [client : Client \cup Id, redirect : Url] \cup {Nobody}
           /\ answer' \in Answers
           /\ Vetted' /\ OwnRedirect'
<1>1. pending' = pending /\ answer' \in {"invalid_client", "not_listed", "invalid_request"}
  BY DEF Refuse
<1> QED
  BY <1>1, AtRest DEF IInv, TypeOK, Answers

LEMMA AtStep == IInv /\ [Next]_vars => IInv'
<1> SUFFICES ASSUME IInv, [Next]_vars PROVE IInv'
  OBVIOUS
<1> USE DEF IInv
<1>1. ASSUME NEW c \in Client, NEW uris \in Lists, Register(c, uris) PROVE IInv'
  <2>1. uris \subseteq Url
    BY AdmissionAssumption
  <2>2. TypeOK'
    BY <1>1, <2>1 DEF Register, TypeOK
  <2>3. Vetted' /\ Kept'
    BY <1>1 DEF Register, Vetted, Kept, Allowed
  <2>4. OwnRedirect'
    <3>1. ASSUME NEW who \in Client, registered[who] # {} PROVE registered'[who] = registered[who]
      BY <1>1, <3>1 DEF Register, TypeOK
    <3>2. pending' = pending
      BY <1>1 DEF Register
    <3> QED
      BY <3>1, <3>2 DEF OwnRedirect
  <2> QED
    BY <2>2, <2>3, <2>4
<1>2. ASSUME NEW c \in Client, NEW u \in Url, AuthorizeRegistered(c, u) PROVE IInv'
  <2>1. UNCHANGED <<env, registered, published, cached>>
    BY <1>2 DEF AuthorizeRegistered
  <2>2. /\ pending' \in [client : Client \cup Id, redirect : Url] \cup {Nobody}
        /\ answer' \in Answers
        /\ Vetted' /\ OwnRedirect'
    <3>1. CASE RedirectAllowed(registered[c], u, Allowed)
      <4>1. Admit(c, u) /\ registered[c] \in SUBSET Url
        BY <1>2, <3>1 DEF AuthorizeRegistered, TypeOK
      <4> QED
        BY <2>1, <3>1, <4>1, AtAdmit
    <3>2. CASE ~RedirectAllowed(registered[c], u, Allowed)
      BY <1>2, <2>1, <3>2, AtRefuse DEF AuthorizeRegistered
    <3> QED
      BY <3>1, <3>2
  <2> QED
    BY <2>1, <2>2 DEF TypeOK, Kept
<1>3. ASSUME NEW id \in Id, NEW u \in Url, AuthorizeUnfetched(id, u) PROVE IInv'
  <2>1. UNCHANGED <<env, registered, published, cached>>
    BY <1>3 DEF AuthorizeUnfetched
  <2>2. /\ pending' \in [client : Client \cup Id, redirect : Url] \cup {Nobody}
        /\ answer' \in Answers
        /\ Vetted' /\ OwnRedirect'
    <3>1. CASE Refuse(u)
      BY <2>1, <3>1, AtRefuse
    <3>2. CASE answer' = "not_listed" /\ UNCHANGED pending
      BY <2>1, <3>2, AtRest DEF TypeOK, Answers
    <3> QED
      BY <1>3, <3>1, <3>2 DEF AuthorizeUnfetched
  <2> QED
    BY <2>1, <2>2 DEF TypeOK, Kept
<1>4. ASSUME NEW id \in Id, NEW u \in Url, AuthorizeByDocument(id, u) PROVE IInv'
  <2>1. UNCHANGED <<env, registered, published>>
    BY <1>4 DEF AuthorizeByDocument
  <2>2. CASE answer' = "unavailable" /\ UNCHANGED <<pending, cached>>
    BY <2>1, <2>2, AtRest DEF TypeOK, Kept, Answers
  <2>3. ASSUME NEW v \in Verdicts(id),
               cached' = [cached EXCEPT ![id] = IF v.fresh THEN v ELSE @],
               IF RedirectAllowed(v.uris, u, Allowed) THEN Admit(id, u) ELSE Refuse(u)
        PROVE  IInv'
    <3>1. /\ v \in [fresh : BOOLEAN, uris : SUBSET Url]
          /\ \A r \in v.uris : IsLoopback(r) \/ SameOrigin(id, r)
      BY VerdictIs
    <3>2. cached' \in [Id -> [fresh : BOOLEAN, uris : SUBSET Url]] /\ Kept'
      BY <2>3, <3>1 DEF TypeOK, Kept
    <3>3. /\ pending' \in [client : Client \cup Id, redirect : Url] \cup {Nobody}
          /\ answer' \in Answers
          /\ Vetted' /\ OwnRedirect'
      <4>1. CASE RedirectAllowed(v.uris, u, Allowed)
        <5>1. Admit(id, u) /\ v.uris \in SUBSET Url
          BY <2>3, <3>1, <4>1
        <5> QED
          BY <2>1, <3>1, <4>1, <5>1, AtAdmit
      <4>2. CASE ~RedirectAllowed(v.uris, u, Allowed)
        BY <2>1, <2>3, <4>2, AtRefuse
      <4> QED
        BY <4>1, <4>2
    <3> QED
      BY <2>1, <3>2, <3>3 DEF TypeOK
  <2> QED
    BY <1>4, <2>2, <2>3 DEF AuthorizeByDocument
<1>5. ASSUME NEW id \in Id, NEW doc \in Docs[id], Publish(id, doc) PROVE IInv'
  <2>1. published' \in Sites
    BY <1>5 DEF Publish, TypeOK, Sites
  <2> QED
    BY <1>5, <2>1, AtRest DEF Publish, TypeOK, Kept
<1>6. ASSUME NEW id \in Id, Expire(id) PROVE IInv'
  <2>1. cached' \in [Id -> [fresh : BOOLEAN, uris : SUBSET Url]] /\ Kept'
    BY <1>6 DEF Expire, Uncached, TypeOK, Kept
  <2> QED
    BY <1>6, <2>1, AtRest DEF Expire, TypeOK
<1>7. CASE Deliver
  BY <1>7 DEF Deliver, TypeOK, Vetted, Kept, OwnRedirect
<1>8. CASE Restart
  <2>1. TypeOK'
    BY <1>8 DEF Restart, TypeOK, Uncached, Answers
  <2>2. Vetted' /\ Kept' /\ OwnRedirect'
    BY <1>8 DEF Restart, Vetted, Kept, OwnRedirect, Uncached
  <2> QED
    BY <2>1, <2>2
<1>9. CASE UNCHANGED vars
  BY <1>9, AtRest DEF vars, TypeOK, Kept
<1> QED
  BY <1>1, <1>2, <1>3, <1>4, <1>5, <1>6, <1>7, <1>8, <1>9 DEF Next

(* Every state is one that the strengthened invariant describes.            *)
THEOREM Inductive == Spec => []IInv
BY AtInit, AtStep, PTL DEF Spec

(* Every value the endpoint keeps has its type, whatever is registered,     *)
(* published, remembered or restarted with.                                 *)
THEOREM TypeCorrect == Spec => []TypeOK
<1>1. IInv => TypeOK
  BY DEF IInv
<1> QED
  BY Inductive, <1>1, PTL

(* validate_client lets a code go only to the browser's own machine or to a *)
(* path that an entry of the allow-list in force pins by label and segment. *)
THEOREM DeliveryPinned == Spec => []PinnedDelivery
<1>1. IInv => PinnedDelivery
  <2> SUFFICES ASSUME IInv, pending # Nobody PROVE PinnedDelivery
    BY DEF PinnedDelivery
  <2>1. env \in Envs /\ pending.redirect \in Url /\ RedirectUriPermitted(pending.redirect, Allowed)
    BY DEF IInv, TypeOK, Vetted
  <2> QED
    BY <2>1, PermittedIsPinned DEF PinnedDelivery
<1> QED
  BY Inductive, <1>1, PTL

(* redirect_allowed lets a code go only to a redirect its own client        *)
(* registered or published, up to the loopback port.                        *)
THEOREM RedirectOwned == Spec => []OwnRedirect
<1>1. IInv => OwnRedirect
  BY DEF IInv
<1> QED
  BY Inductive, <1>1, PTL

-----------------------------------------------------------------------------
(* A set of numbers has a least one.                                        *)
LEMMA LeastOf ==
    ASSUME NEW S \in SUBSET Nat, S # {}
    PROVE  \E n \in S : \A m \in S : n <= m
<1> DEFINE R == OpToRel(<, Nat)
<1>1. IsWellFoundedOn(R, Nat)
  BY NatLessThanWellFounded
<1>2. PICK n \in S : \A m \in S : ~(<<m, n>> \in R)
  <2> HIDE DEF R
  <2> QED
    BY <1>1, WFMin
<1>3. ASSUME NEW m \in S PROVE n <= m
  <2>1. m \in Nat /\ n \in Nat /\ (m < n => <<m, n>> \in R)
    BY DEF OpToRel
  <2> HIDE DEF R
  <2> QED
    BY <1>2, <2>1
<1> QED
  BY <1>3

(* Lists.  The members of a set in a strict total order: the largest of a   *)
(* set comes after a list of the others.                                    *)
Strict(S, before) ==
    /\ \A x, y \in S : x # y => <<x, y>> \in before \/ <<y, x>> \in before
    /\ \A x, y, z \in S : <<x, y>> \in before /\ <<y, z>> \in before => <<x, z>> \in before
    /\ \A x \in S : <<x, x>> \notin before

Arranged(S, before, s) ==
    /\ s \in [1..Cardinality(S) -> S] /\ Range(s) = S
    /\ \A i, j \in DOMAIN s : i < j => <<s[i], s[j]>> \in before

(* A finite set with a strict total order has a largest member.             *)
LEMMA LargestOf ==
    ASSUME NEW S, IsFiniteSet(S), S # {}, NEW before, Strict(S, before)
    PROVE  \E x \in S : \A y \in S : y # x => <<y, x>> \in before
<1> DEFINE Has(T) == \E x \in T : \A y \in T : y # x => <<y, x>> \in before
           N == {n \in Nat : \A T \in SUBSET S : Cardinality(T) = n + 1 => Has(T)}
<1>1. ASSUME NEW T \in SUBSET S PROVE IsFiniteSet(T) /\ Cardinality(T) \in Nat
  BY <1>1, FS_Subset, FS_CardinalityType
<1>2. 0 \in N
  <2> SUFFICES ASSUME NEW T \in SUBSET S, Cardinality(T) = 1 PROVE Has(T)
    OBVIOUS
  <2>1. PICK x : T = {x}
    BY <1>1, FS_Singleton
  <2> QED
    BY <2>1
<1>3. ASSUME NEW n \in Nat, n \in N PROVE n + 1 \in N
  <2> SUFFICES ASSUME NEW T \in SUBSET S, Cardinality(T) = (n + 1) + 1 PROVE Has(T)
    OBVIOUS
  <2>1. IsFiniteSet(T) /\ T # {}
    BY <1>1, FS_EmptySet
  <2>2. PICK a \in T : TRUE
    BY <2>1
  <2> DEFINE U == T \ {a}
  <2>3. Cardinality(U) = n + 1
    <3>1. Cardinality(U) = Cardinality(T) - 1
      BY <2>1, <2>2, FS_RemoveElement
    <3> QED
      BY <3>1
  <2>4. Has(U)
    BY <2>3, <1>3
  <2>5. PICK x \in U : \A y \in U : y # x => <<y, x>> \in before
    BY <2>4
  <2>6. a \in S /\ x \in S /\ a # x
    BY <2>2, <2>5
  <2>7. CASE <<a, x>> \in before
    BY <2>5, <2>7
  <2>8. CASE <<x, a>> \in before
    <3>1. ASSUME NEW y \in T, y # a PROVE <<y, a>> \in before
      BY <2>5, <2>6, <2>8, <3>1 DEF Strict
    <3> QED
      BY <2>2, <3>1
  <2> QED
    BY <2>6, <2>7, <2>8 DEF Strict
<1>4. \A n \in Nat : n \in N
  <2> HIDE DEF N
  <2> QED
    BY <1>2, <1>3, Climb
<1>5. Cardinality(S) - 1 \in Nat
  BY <1>1, FS_EmptySet
<1>6. Cardinality(S) - 1 \in N
  BY <1>4, <1>5
<1> QED
  BY <1>1, <1>5, <1>6

(* So a finite set has an arrangement, and Sorted is one.                   *)
LEMMA SortedIs ==
    ASSUME NEW S, IsFiniteSet(S), NEW before, Strict(S, before)
    PROVE  Arranged(S, before, Sorted(S, before))
<1> DEFINE N == {n \in Nat : \A T \in SUBSET S :
                    Cardinality(T) = n => \E s : Arranged(T, before, s)}
<1>1. ASSUME NEW T \in SUBSET S PROVE IsFiniteSet(T) /\ Cardinality(T) \in Nat
  BY <1>1, FS_Subset, FS_CardinalityType
<1>2. 0 \in N
  <2> SUFFICES ASSUME NEW T \in SUBSET S, Cardinality(T) = 0
               PROVE  \E s : Arranged(T, before, s)
    OBVIOUS
  <2>1. T = {} /\ 1..0 = {}
    BY <1>1, FS_EmptySet
  <2>2. Arranged(T, before, [i \in 1..0 |-> i])
    BY <2>1 DEF Arranged, Range
  <2> QED
    BY <2>2
<1>3. ASSUME NEW n \in Nat, n \in N PROVE n + 1 \in N
  <2> SUFFICES ASSUME NEW T \in SUBSET S, Cardinality(T) = n + 1
               PROVE  \E s : Arranged(T, before, s)
    OBVIOUS
  <2>1. IsFiniteSet(T) /\ T # {} /\ Strict(T, before)
    BY <1>1, FS_EmptySet DEF Strict
  <2>2. PICK x \in T : \A y \in T : y # x => <<y, x>> \in before
    BY <2>1, LargestOf
  <2> DEFINE U == T \ {x}
  <2>3. Cardinality(U) = n /\ U \in SUBSET S
    <3>1. Cardinality(U) = Cardinality(T) - 1
      BY <2>1, <2>2, FS_RemoveElement
    <3> QED
      BY <3>1
  <2>4. PICK u : Arranged(U, before, u)
    BY <2>3, <1>3
  <2>5. /\ u \in [1..n -> U] /\ Range(u) = U
        /\ \A i, j \in 1..n : i < j => <<u[i], u[j]>> \in before
    BY <2>3, <2>4 DEF Arranged
  <2> DEFINE s == [i \in 1..(n + 1) |-> IF i <= n THEN u[i] ELSE x]
  <2>6. s \in [1..(n + 1) -> T]
    BY <2>5
  <2>7. Range(s) = T
    <3>1. ASSUME NEW y \in T PROVE y \in Range(s)
      <4>1. CASE y = x
        <5>1. s[n + 1] = x
          OBVIOUS
        <5> QED
          BY <4>1, <5>1, <2>6 DEF Range
      <4>2. CASE y # x
        <5>1. PICK i \in 1..n : u[i] = y
          BY <4>2, <2>5 DEF Range
        <5>2. i \in 1..(n + 1) /\ s[i] = y
          BY <5>1
        <5> QED
          BY <5>2, <2>6 DEF Range
      <4> QED
        BY <4>1, <4>2
    <3>2. ASSUME NEW y \in Range(s) PROVE y \in T
      BY <2>6 DEF Range
    <3> QED
      BY <3>1, <3>2
  <2>8. ASSUME NEW i \in 1..(n + 1), NEW j \in 1..(n + 1), i < j
        PROVE  <<s[i], s[j]>> \in before
    <3>1. i \in 1..n /\ s[i] = u[i] /\ u[i] \in U
      BY <2>5, <2>8
    <3>2. CASE j <= n
      BY <2>5, <2>8, <3>1, <3>2
    <3>3. CASE j = n + 1
      BY <2>2, <3>1, <3>3
    <3> QED
      BY <3>2, <3>3
  <2>9. Arranged(T, before, s)
    BY <2>6, <2>7, <2>8 DEF Arranged
  <2> QED
    BY <2>9
<1>4. \A n \in Nat : n \in N
  <2> HIDE DEF N
  <2> QED
    BY <1>2, <1>3, Climb
<1>5. Cardinality(S) \in N
  BY <1>1, <1>4
<1>6. \E s : Arranged(S, before, s)
  BY <1>5
<1> QED
  BY <1>6 DEF Sorted, Arranged

(* What is kept of a list, and where it was.                                *)
Picks(place, kept, seq, S) ==
    /\ kept \in Seq(S) /\ place \in [1..Len(kept) -> 1..Len(seq)]
    /\ \A j \in 1..Len(kept) : kept[j] = seq[place[j]]
    /\ \A i, j \in 1..Len(kept) : i < j => place[i] < place[j]
    /\ \A i \in 1..Len(seq) : seq[i] \in S => \E j \in 1..Len(kept) : place[j] = i /\ j <= i

(* A place that climbs is never below its own number.                       *)
LEMMA Climbing ==
    ASSUME NEW n \in Nat, NEW m \in Nat, NEW place \in [1..n -> 1..m],
           \A i, j \in 1..n : i < j => place[i] < place[j]
    PROVE  \A j \in 1..n : j <= place[j]
<1> DEFINE N == {k \in Nat : k \in 1..n => k <= place[k]}
<1>1. 0 \in N
  OBVIOUS
<1>2. ASSUME NEW k \in Nat, k \in N PROVE k + 1 \in N
  <2> SUFFICES ASSUME k + 1 \in 1..n PROVE k + 1 <= place[k + 1]
    OBVIOUS
  <2>1. place[k + 1] \in 1..m
    OBVIOUS
  <2>2. CASE k = 0
    BY <2>1, <2>2
  <2>3. CASE k # 0
    <3>1. k \in 1..n /\ k < k + 1 /\ place[k] \in 1..m
      BY <2>3
    <3>2. k <= place[k] /\ place[k] < place[k + 1]
      BY <3>1, <1>2
    <3> QED
      BY <3>1, <3>2, <2>1
  <2> QED
    BY <2>2, <2>3
<1>3. \A k \in Nat : k \in N
  <2> HIDE DEF N
  <2> QED
    BY <1>1, <1>2, Climb
<1> QED
  BY <1>3

(* Keep leaves the elements in the set, and them alone, in their order.     *)
LEMMA KeepIs ==
    ASSUME NEW T, NEW seq \in Seq(T), NEW S
    PROVE  Picks(Places(seq, S), Keep(seq, S), seq, S) /\ Keep(seq, S) \in Seq(T)
<1> DEFINE I == {i \in DOMAIN seq : seq[i] \in S}
           before == {p \in (DOMAIN seq) \X (DOMAIN seq) : p[1] < p[2]}
           place == Places(seq, S)
           n == Cardinality(I)
<1>1. Len(seq) \in Nat /\ DOMAIN seq = 1..Len(seq) /\ \A i \in 1..Len(seq) : seq[i] \in T
  OBVIOUS
<1>2. IsFiniteSet(I) /\ n \in Nat
  <2>1. IsFiniteSet(1..Len(seq)) /\ I \in SUBSET (1..Len(seq))
    BY <1>1, FS_Interval
  <2> QED
    BY <2>1, FS_Subset, FS_CardinalityType
<1>3. Strict(I, before)
  <2>1. \A x, y \in I : x \in Nat /\ y \in Nat /\ (<<x, y>> \in before <=> x < y)
    BY <1>1
  <2> QED
    BY <2>1 DEF Strict
<1>4. Arranged(I, before, place)
  <2> HIDE DEF I, before
  <2> QED
    BY <1>2, <1>3, SortedIs DEF Places, I, before
<1>5. /\ place \in [1..n -> I] /\ Range(place) = I /\ DOMAIN place = 1..n
      /\ \A i, j \in 1..n : i < j => place[i] < place[j]
  BY <1>4 DEF Arranged
<1>6. \A j \in 1..n : place[j] \in 1..Len(seq) /\ seq[place[j]] \in S
  BY <1>1, <1>5
<1> DEFINE kept == [j \in 1..n |-> seq[place[j]]]
<1>7. Keep(seq, S) = kept
  <2> HIDE DEF place
  <2> QED
    BY <1>5 DEF Keep, place
<1>8. kept \in Seq(S) /\ kept \in Seq(T) /\ Len(kept) = n
  <2>1. \A j \in 1..n : seq[place[j]] \in S /\ seq[place[j]] \in T
    BY <1>1, <1>6
  <2> QED
    BY <2>1, <1>2
<1>9. place \in [1..n -> 1..Len(seq)]
  BY <1>1, <1>5
<1>10. \A j \in 1..n : j <= place[j]
  <2> HIDE DEF place, n
  <2> QED
    BY <1>1, <1>2, <1>5, <1>9, Climbing
<1>11. ASSUME NEW i \in 1..Len(seq), seq[i] \in S
       PROVE  \E j \in 1..n : place[j] = i /\ j <= i
  <2>1. i \in Range(place)
    BY <1>1, <1>5, <1>11
  <2>2. PICK j \in 1..n : place[j] = i
    BY <2>1, <1>5 DEF Range
  <2> QED
    BY <2>2, <1>10
<1>12. \A j \in 1..n : kept[j] = seq[place[j]]
  OBVIOUS
<1> HIDE DEF kept, place, n
<1> QED
  BY <1>5, <1>7, <1>8, <1>9, <1>11, <1>12 DEF Picks, place

(* FirstOf leaves the first elements of a sequence.                         *)
LEMMA FirstOfIs ==
    ASSUME NEW T, NEW seq \in Seq(T), NEW n \in Nat
    PROVE  /\ FirstOf(seq, n) \in Seq(T)
           /\ Len(FirstOf(seq, n)) = IF Len(seq) <= n THEN Len(seq) ELSE n
           /\ \A i \in 1..Len(FirstOf(seq, n)) : FirstOf(seq, n)[i] = seq[i]
<1> DEFINE m == IF Len(seq) <= n THEN Len(seq) ELSE n
<1>1. m \in 0..Len(seq) /\ 1 \in 1..(Len(seq) + 1)
  OBVIOUS
<1> HIDE DEF m
<1>2. SubSeq(seq, 1, m) \in Seq(T) /\ Len(SubSeq(seq, 1, m)) = m
      /\ \A i \in 1..m : SubSeq(seq, 1, m)[i] = seq[i]
  BY <1>1
<1> QED
  BY <1>2 DEF FirstOf, m

-----------------------------------------------------------------------------
(* What the crawl's table holds.  A mention's rank is that of its source.   *)
Mentions == [text : Text, label : Label, source : Source]
Row      == [label : Label, sources : SUBSET Source, declared : BOOLEAN]
Store    == [table : [Text -> Row \cup {None}], dropped : Nat]

(* The rank of some sources is the first tier that has one of them.         *)
LEMMA RankIs ==
    ASSUME NEW X \in SUBSET Source, X # {}
    PROVE  /\ Rank(X) \in 1..6
           /\ \A s \in X : Rank(X) <= Rank({s})
           /\ \E s \in X : Rank(X) = Rank({s})
<1> DEFINE I(Y) == {i \in 1..6 : Tiers[i] \cap Y # {}}
<1>1. DOMAIN Tiers = 1..6 /\ \A s \in Source : \E i \in 1..6 : s \in Tiers[i]
  BY DEF Tiers, Source, Bundle, Constant
<1>2. ASSUME NEW Y \in SUBSET Source, Y # {}
      PROVE  /\ Rank(Y) \in 1..6 /\ Tiers[Rank(Y)] \cap Y # {}
             /\ \A i \in 1..6 : Tiers[i] \cap Y # {} => Rank(Y) <= i
  <2>1. I(Y) \in SUBSET Nat /\ I(Y) # {}
    BY <1>1, <1>2
  <2>2. \E i \in I(Y) : \A j \in I(Y) : i <= j
    BY <2>1, LeastOf
  <2>3. Rank(Y) = Min(I(Y))
    BY <1>1 DEF Rank
  <2>4. Rank(Y) \in I(Y) /\ \A j \in I(Y) : Rank(Y) <= j
    BY <2>2, <2>3 DEF Min
  <2> QED
    BY <2>4
<1> HIDE DEF I
<1>3. ASSUME NEW s \in X PROVE Rank(X) <= Rank({s})
  <2>1. {s} \in SUBSET Source /\ {s} # {}
    BY <1>3
  <2>2. Rank({s}) \in 1..6 /\ Tiers[Rank({s})] \cap {s} # {}
    BY <2>1, <1>2
  <2>3. Tiers[Rank({s})] \cap X # {}
    BY <2>2, <1>3
  <2> QED
    BY <2>2, <2>3, <1>2
<1>4. PICK s \in X : s \in Tiers[Rank(X)]
  BY <1>2
<1>5. Rank({s}) <= Rank(X) /\ Rank({s}) \in 1..6
  <2>1. {s} \in SUBSET Source /\ {s} # {} /\ Tiers[Rank(X)] \cap {s} # {}
    BY <1>4
  <2> QED
    BY <2>1, <1>2
<1>6. Rank(X) = Rank({s})
  BY <1>2, <1>3, <1>5
<1> QED
  BY <1>2, <1>3, <1>6

(* The tier of each source.                                                 *)
LEMMA RankOfSource ==
    /\ Rank({"ic-architecture"}) = 1 /\ Rank({"ic-app.json"}) = 2
    /\ Rank({"header"}) = 3 /\ Rank({"env.json"}) = 4
    /\ \A s \in Constant : Rank({s}) = 5
    /\ Rank({"bundle"}) = 6
<1>1. ASSUME NEW s \in Source, NEW n \in 1..6,
             \A i \in 1..6 : s \in Tiers[i] <=> i = n
      PROVE  Rank({s}) = n
  <2>1. {i \in DOMAIN Tiers : Tiers[i] \cap {s} # {}} = {n}
    <3>1. DOMAIN Tiers = 1..6
      BY DEF Tiers
    <3> QED
      BY <1>1, <3>1
  <2>2. \A x \in {n} : x <= x
    OBVIOUS
  <2> QED
    BY <2>1, <2>2 DEF Rank, Min
<1>2. /\ Tiers[1] = {"ic-architecture"} /\ Tiers[2] = {"ic-app.json"} /\ Tiers[3] = {"header"}
      /\ Tiers[4] = {"env.json"} /\ Tiers[5] = Constant /\ Tiers[6] = {"bundle"}
  BY DEF Tiers
<1>3. 1..6 = {1, 2, 3, 4, 5, 6}
  OBVIOUS
<1>4. Rank({"ic-architecture"}) = 1
  BY <1>1, <1>2, <1>3 DEF Source, Constant
<1>5. Rank({"ic-app.json"}) = 2
  BY <1>1, <1>2, <1>3 DEF Source, Constant
<1>6. Rank({"header"}) = 3
  BY <1>1, <1>2, <1>3 DEF Source, Constant
<1>7. Rank({"env.json"}) = 4
  BY <1>1, <1>2, <1>3 DEF Source, Constant
<1>8. Rank({"bundle"}) = 6
  BY <1>1, <1>2, <1>3 DEF Source, Bundle, Constant
<1>9. ASSUME NEW s \in Constant PROVE Rank({s}) = 5
  BY <1>1, <1>2, <1>3, <1>9 DEF Source, Bundle, Constant
<1> QED
  BY <1>4, <1>5, <1>6, <1>7, <1>8, <1>9

(* What Findings::add makes of a table.                                     *)
Grown(row, m) ==
    [label |-> IF row.label = None THEN m.label ELSE row.label,
     sources |-> IF Cardinality(row.sources) < MaxSources THEN row.sources \cup {m.source}
                 ELSE row.sources,
     declared |-> row.declared]

LEMMA RowIsSome == \A r \in Row : r # None
BY CrawlAssumption DEF Row

(* Findings::add, by what the table has of the id: a row grows, a new id    *)
(* gets one, and without room the count goes up.                            *)
LEMMA AddCases ==
    ASSUME NEW store \in Store, NEW m \in Mentions, Of[m.text] # None
    PROVE  /\ store.table[m.text] # None =>
                 Add(store, m) = [table |-> [store.table EXCEPT ![m.text] = Grown(store.table[m.text], m)],
                                  dropped |-> store.dropped]
           /\ store.table[m.text] = None /\ Cardinality(Known(store.table)) < MaxFound =>
                 Add(store, m) = [table |-> [store.table EXCEPT ![m.text] = Found(m)],
                                  dropped |-> store.dropped]
           /\ store.table[m.text] = None /\ ~(Cardinality(Known(store.table)) < MaxFound) =>
                 Add(store, m) = [table |-> store.table, dropped |-> store.dropped + 1]
<1> DEFINE t == m.text
           T == store.table
<1>1. /\ t \in Text /\ T \in [Text -> Row \cup {None}] /\ store.dropped \in Nat
      /\ store = [table |-> T, dropped |-> store.dropped]
  BY DEF Mentions, Store
<1>2. ASSUME T[t] # None
      PROVE  Add(store, m) = [table |-> [T EXCEPT ![t] = Grown(T[t], m)], dropped |-> store.dropped]
  <2>1. T[t] \in Row
    BY <1>1, <1>2
  <2>2. Add(store, m) = [store EXCEPT !.table[t].label = IF @ = None THEN m.label ELSE @,
                               !.table[t].sources =
                           IF Cardinality(@) < MaxSources THEN @ \cup {m.source} ELSE @]
    BY <1>2 DEF Add
  <2>3. Add(store, m).dropped = store.dropped
        /\ Add(store, m) = [table |-> Add(store, m).table, dropped |-> Add(store, m).dropped]
    BY <1>1, <2>2
  <2> DEFINE r  == T[t]
             s1 == [store EXCEPT !.table[t].label = IF @ = None THEN m.label ELSE @]
             r1 == [label |-> IF r.label = None THEN m.label ELSE r.label,
                    sources |-> r.sources, declared |-> r.declared]
  <2>4. r = [label |-> r.label, sources |-> r.sources, declared |-> r.declared]
    BY <2>1 DEF Row
  <2>5. s1.table = [T EXCEPT ![t] = r1]
    <3>1. s1.table = [T EXCEPT ![t] = [r EXCEPT !.label = IF r.label = None THEN m.label ELSE r.label]]
      BY <1>1
    <3>2. [r EXCEPT !.label = IF r.label = None THEN m.label ELSE r.label] = r1
      BY <2>4
    <3> QED
      BY <3>1, <3>2
  <2>6. Add(store, m).table = [s1.table EXCEPT ![t] = [s1.table[t] EXCEPT !.sources =
                           IF Cardinality(@) < MaxSources THEN @ \cup {m.source} ELSE @]]
    BY <1>1, <2>2
  <2>7. s1.table[t] = r1 /\ [s1.table EXCEPT ![t] = Grown(r, m)] = [T EXCEPT ![t] = Grown(r, m)]
    BY <1>1, <2>5
  <2>8. [r1 EXCEPT !.sources = IF Cardinality(@) < MaxSources THEN @ \cup {m.source} ELSE @]
          = Grown(r, m)
    BY DEF Grown
  <2>9. Add(store, m).table = [T EXCEPT ![t] = Grown(T[t], m)]
    <3> HIDE DEF s1, r1, r
    <3>1. Add(store, m).table = [s1.table EXCEPT ![t] = Grown(r, m)]
      BY <2>6, <2>7, <2>8
    <3> QED
      BY <3>1, <2>7 DEF r
  <2> QED
    BY <2>3, <2>9
<1>3. ASSUME T[t] = None, Cardinality(Known(T)) < MaxFound
      PROVE  Add(store, m) = [table |-> [T EXCEPT ![t] = Found(m)], dropped |-> store.dropped]
  <2>1. Add(store, m) = [store EXCEPT !.table[t] = Found(m)]
    BY <1>3 DEF Add
  <2> QED
    BY <1>1, <2>1
<1>4. ASSUME T[t] = None, ~(Cardinality(Known(T)) < MaxFound)
      PROVE  Add(store, m) = [table |-> T, dropped |-> store.dropped + 1]
  <2>1. Add(store, m) = [store EXCEPT !.dropped = @ + 1]
    BY <1>4 DEF Add
  <2> QED
    BY <1>1, <2>1
<1> QED
  BY <1>2, <1>3, <1>4

(* A row fits the mentions of its text: it has one of its best sources, the *)
(* label that the best of the labelled gave, and it is marked as declared   *)
(* if its principal is among some and a manifest named it.                  *)
InManifest == {"ic-architecture", "ic-app.json"}

SourcesAmong(M) == {m.source : m \in M}

RankOf(m) == Rank({m.source})

LEMMA RanksAre ==
    \A m : /\ m.source = "ic-architecture" => RankOf(m) = 1
           /\ m.source = "ic-app.json" => RankOf(m) = 2
           /\ m.source = "header" => RankOf(m) = 3
           /\ m.source = "env.json" => RankOf(m) = 4
           /\ m.source \in Constant => RankOf(m) = 5
           /\ m.source = "bundle" => RankOf(m) = 6
<1> SUFFICES ASSUME NEW m
             PROVE  /\ m.source = "ic-architecture" => RankOf(m) = 1
                    /\ m.source = "ic-app.json" => RankOf(m) = 2
                    /\ m.source = "header" => RankOf(m) = 3
                    /\ m.source = "env.json" => RankOf(m) = 4
                    /\ m.source \in Constant => RankOf(m) = 5
                    /\ m.source = "bundle" => RankOf(m) = 6
  OBVIOUS
<1> QED
  BY RankOfSource DEF RankOf

LEMMA RankIsNumber == \A m \in Mentions : RankOf(m) \in Nat
<1> SUFFICES ASSUME NEW m \in Mentions PROVE RankOf(m) \in Nat
  OBVIOUS
<1>1. {m.source} \in SUBSET Source /\ {m.source} # {}
  BY DEF Mentions
<1> QED
  BY <1>1, RankIs DEF RankOf

(* A row fits the mentions of its id: its label is the one of the most      *)
(* authoritative mention that has any, its sources are some of theirs and   *)
(* the best among them, and it is declared if the gate's ids have it and a  *)
(* manifest named it.                                                       *)
Labels(row, M) ==
    /\ row.label = None => \A m \in M : m.label = None
    /\ row.label # None =>
          \E m \in M : /\ m.label = row.label
                       /\ \A n \in M : n.label # None => RankOf(m) <= RankOf(n)

Suits(row, M, ids, t) ==
    /\ row \in Row /\ M \in SUBSET Mentions
    /\ row.sources # {} /\ row.sources \subseteq SourcesAmong(M)
    /\ \A m \in M : Rank(row.sources) <= RankOf(m)
    /\ Labels(row, M)
    /\ row.declared <=> Of[t] \in ids /\ SourcesAmong(M) \cap InManifest # {}

(* A new row fits its only mention.                                         *)
LEMMA RowStarts ==
    ASSUME NEW m \in Mentions, NEW ids, ids = {} \/ m.source \notin InManifest, NEW t
    PROVE  Suits(Found(m), {m}, ids, t)
<1>1. m.source \in Source /\ m.label \in Label
  BY DEF Mentions
<1>2. Found(m) \in Row /\ Found(m).label = m.label /\ Found(m).sources = {m.source}
      /\ Found(m).declared = FALSE
  BY <1>1 DEF Found, Row
<1>3. SourcesAmong({m}) = {m.source}
  BY DEF SourcesAmong
<1>4. RankOf(m) <= RankOf(m)
  BY <1>1, RankIs DEF RankOf
<1>5. Labels(Found(m), {m})
  BY <1>2, <1>4 DEF Labels
<1> QED
  BY <1>2, <1>3, <1>4, <1>5 DEF Suits, RankOf

(* A row still fits when a mention of no higher authority is added to it.   *)
LEMMA RowGrows ==
    ASSUME NEW ids, NEW t, NEW row, NEW M, Suits(row, M, ids, t),
           NEW m \in Mentions, ids = {} \/ m.source \notin InManifest,
           \A n \in M : RankOf(n) <= RankOf(m)
    PROVE  Suits(Grown(row, m), M \cup {m}, ids, t)
<1> DEFINE new == Grown(row, m)
           A == M \cup {m}
<1>1. /\ m.source \in Source /\ m.label \in Label
      /\ row.label \in Label /\ row.sources \in SUBSET Source /\ row.declared \in BOOLEAN
  BY DEF Mentions, Suits, Row
<1>2. /\ new.label = IF row.label = None THEN m.label ELSE row.label
      /\ new.sources = row.sources \/ new.sources = row.sources \cup {m.source}
      /\ new.declared = row.declared /\ new \in Row
  BY <1>1 DEF Grown, Row
<1>3. SourcesAmong(A) = SourcesAmong(M) \cup {m.source}
  BY DEF SourcesAmong
<1>4. new.sources # {} /\ new.sources \subseteq SourcesAmong(A)
  BY <1>2, <1>3 DEF Suits
<1>6. \A n \in A : n \in Mentions /\ RankOf(n) \in Nat /\ RankOf(m) \in Nat
  BY RankIsNumber DEF Suits
<1>7. PICK n \in M : n.source \in row.sources
  BY DEF Suits, SourcesAmong
<1>8. Rank(row.sources) \in Nat /\ Rank(row.sources) <= RankOf(m)
  <2>1. Rank(row.sources) \in Nat
    BY <1>1, RankIs DEF Suits
  <2>2. Rank(row.sources) <= RankOf(n) /\ RankOf(n) <= RankOf(m)
    BY <1>7 DEF Suits
  <2> QED
    BY <2>1, <2>2, <1>6
<1>9. Rank(new.sources) \in Nat /\ Rank(new.sources) <= Rank(row.sources)
  <2>1. new.sources \in SUBSET Source /\ new.sources # {} /\ row.sources # {}
        /\ row.sources \subseteq new.sources
    BY <1>1, <1>2 DEF Suits
  <2>2. PICK s \in row.sources : Rank(row.sources) = Rank({s})
    BY <1>1, <2>1, RankIs
  <2> QED
    BY <2>1, <2>2, RankIs
<1>10. ASSUME NEW k \in A PROVE Rank(new.sources) <= RankOf(k)
  <2>1. Rank(row.sources) <= RankOf(k)
    BY <1>8, <1>10 DEF Suits
  <2> QED
    BY <2>1, <1>6, <1>8, <1>9, <1>10
<1>11. Labels(new, A)
  <2>1. CASE row.label = None
    <3>1. \A k \in M : k.label = None
      BY <2>1 DEF Suits, Labels
    <3>2. new.label = m.label /\ RankOf(m) <= RankOf(m)
      BY <1>2, <1>6, <2>1
    <3> QED
      BY <3>1, <3>2 DEF Labels
  <2>2. CASE row.label # None
    <3>1. new.label = row.label
      BY <1>2, <2>2
    <3>2. PICK k \in M : /\ k.label = row.label
                         /\ \A j \in M : j.label # None => RankOf(k) <= RankOf(j)
      BY <2>2 DEF Suits, Labels
    <3>3. RankOf(k) <= RankOf(m)
      OBVIOUS
    <3> QED
      BY <2>2, <3>1, <3>2, <3>3 DEF Labels
  <2> QED
    BY <2>1, <2>2
<1>12. new.declared <=> Of[t] \in ids /\ SourcesAmong(A) \cap InManifest # {}
  BY <1>2, <1>3 DEF Suits
<1>13. A \in SUBSET Mentions
  BY DEF Suits
<1> QED
  BY <1>2, <1>4, <1>10, <1>11, <1>12, <1>13 DEF Suits

(* A table is faithful to the mentions so far: its rows fit them, and what  *)
(* it had no room for is no better than any of its rows, and is counted.    *)
About(N, t) == {m \in N : m.text = t}
Texts(N)    == {m.text : m \in N}

Outranked(table, M) ==
    /\ Cardinality(Known(table)) >= MaxFound
    /\ \A m \in M, u \in Known(table) : Rank(table[u].sources) <= RankOf(m)

Faithful(store, N, ids) ==
    /\ store \in Store /\ IsFiniteSet(N) /\ N \in SUBSET Mentions
    /\ \A t \in Text : store.table[t] # None => Suits(store.table[t], About(N, t), ids, t)
    /\ \A t \in Texts(N) : store.table[t] = None => Outranked(store.table, About(N, t))
    /\ store.dropped >= Cardinality(Texts(N) \ Known(store.table))

(* Finitely many mentions spell finitely many ids.                          *)
LEMMA TextsAreFinite ==
    ASSUME NEW N, IsFiniteSet(N)
    PROVE  IsFiniteSet(Texts(N)) /\ Cardinality(Texts(N)) \in Nat
<1> DEFINE f == [m \in N |-> m.text]
<1>1. f \in Surjection(N, Texts(N))
  BY DEF Surjection, Texts
<1> QED
  BY <1>1, FS_Surjection, FS_CardinalityType

(* What is in the table was named.                                          *)
LEMMA KnownAreNamed ==
    ASSUME NEW store, NEW N, NEW ids, Faithful(store, N, ids)
    PROVE  /\ Known(store.table) \subseteq Texts(N)
           /\ IsFiniteSet(Known(store.table)) /\ Cardinality(Known(store.table)) \in Nat
<1>1. ASSUME NEW t \in Known(store.table) PROVE t \in Texts(N)
  <2>1. Suits(store.table[t], About(N, t), ids, t)
    BY <1>1 DEF Known, Faithful
  <2>2. PICK m \in About(N, t) : TRUE
    BY <2>1 DEF Suits, SourcesAmong
  <2> QED
    BY <2>2 DEF About, Texts
<1>2. Known(store.table) \in SUBSET Texts(N)
  BY <1>1
<1> QED
  BY <1>2, TextsAreFinite, FS_Subset, FS_CardinalityType DEF Faithful

(* Findings::add keeps the table faithful, as long as mentions come in the  *)
(* order of their authority.                                                *)
LEMMA AddIs ==
    ASSUME NEW store, NEW N, NEW ids, Faithful(store, N, ids),
           NEW m \in Mentions, Of[m.text] # None, ids = {} \/ m.source \notin InManifest,
           \A n \in N : RankOf(n) <= RankOf(m)
    PROVE  Faithful(Add(store, m), N \cup {m}, ids)
<1> DEFINE new == Add(store, m)
           A == N \cup {m}
           t == m.text
           T == store.table
<1>1. /\ T \in [Text -> Row \cup {None}] /\ store.dropped \in Nat /\ t \in Text
      /\ store \in Store /\ IsFiniteSet(N) /\ N \in SUBSET Mentions
  BY DEF Faithful, Store, Mentions
<1>2. IsFiniteSet(A) /\ A \in SUBSET Mentions
  BY <1>1, FS_AddElement
<1>3. /\ \A u \in Text : u # t => About(A, u) = About(N, u)
      /\ About(A, t) = About(N, t) \cup {m}
      /\ Texts(A) = Texts(N) \cup {t}
  BY DEF About, Texts
<1>4. /\ Known(T) \subseteq Texts(N) /\ Known(T) \subseteq Text
      /\ IsFiniteSet(Known(T)) /\ Cardinality(Known(T)) \in Nat
  BY KnownAreNamed DEF Known
<1>5. /\ IsFiniteSet(Texts(N) \ Known(T)) /\ Cardinality(Texts(N) \ Known(T)) \in Nat
      /\ store.dropped >= Cardinality(Texts(N) \ Known(T))
  <2>1. Texts(N) \ Known(T) \in SUBSET Texts(N) /\ IsFiniteSet(Texts(N))
    BY <1>1, TextsAreFinite
  <2> QED
    BY <2>1, FS_Subset, FS_CardinalityType DEF Faithful
<1>6. \A n \in About(N, t) : RankOf(n) <= RankOf(m)
  BY DEF About
<1>7. \A u \in Text : T[u] # None => T[u] \in Row /\ Suits(T[u], About(N, u), ids, u)
  BY <1>1 DEF Faithful
<1>8. \A u \in Text : T[u] # None => Rank(T[u].sources) <= RankOf(m) /\ Rank(T[u].sources) \in Nat
  <2> SUFFICES ASSUME NEW u \in Text, T[u] # None
               PROVE  Rank(T[u].sources) <= RankOf(m) /\ Rank(T[u].sources) \in Nat
    OBVIOUS
  <2>1. Suits(T[u], About(N, u), ids, u)
    BY <1>7
  <2>2. T[u].sources \in SUBSET Source /\ T[u].sources # {}
    BY <2>1 DEF Suits, Row
  <2>3. PICK n \in About(N, u) : TRUE
    BY <2>1 DEF Suits, SourcesAmong
  <2>4. n \in N /\ n \in Mentions /\ Rank(T[u].sources) <= RankOf(n)
    BY <1>1, <2>1, <2>3 DEF Suits, About
  <2>5. RankOf(n) \in Nat /\ RankOf(m) \in Nat /\ Rank(T[u].sources) \in Nat
    BY <2>2, <2>4, RankIs DEF RankOf, Mentions
  <2> QED
    BY <2>4, <2>5
<1>9. CASE T[t] # None
  <2> DEFINE row == Grown(T[t], m)
             new1 == [T EXCEPT ![t] = row]
  <2>1. new = [table |-> new1, dropped |-> store.dropped]
    BY <1>1, <1>9, AddCases
  <2>2. Suits(row, About(A, t), ids, t)
    <3>1. Suits(T[t], About(N, t), ids, t)
      BY <1>1, <1>7, <1>9
    <3>2. Suits(Grown(T[t], m), About(N, t) \cup {m}, ids, t)
      BY <1>6, <3>1, RowGrows
    <3> QED
      BY <1>3, <3>2
  <2>3. row \in Row /\ row # None
    BY <2>2, RowIsSome DEF Suits
  <2> HIDE DEF row
  <2>4. new1[t] = row /\ (\A u \in Text : u # t => new1[u] = T[u]) /\ new1 \in [Text -> Row \cup {None}]
    BY <1>1, <2>3
  <2> HIDE DEF new1
  <2>5. Known(new1) = Known(T)
    BY <1>1, <1>9, <2>3, <2>4 DEF Known
  <2>6. Texts(A) = Texts(N)
    BY <1>1, <1>3, <1>4, <1>9 DEF Known
  <2>7. \A u \in Text : new1[u] # None => Suits(new1[u], About(A, u), ids, u)
    BY <1>3, <1>7, <2>2, <2>4
  <2>8. Rank(new1[t].sources) <= Rank(T[t].sources)
    <3>1. T[t].sources \subseteq row.sources
      BY DEF Grown, row
    <3>2. T[t].sources # {} /\ T[t].sources \in SUBSET Source
          /\ row.sources # {} /\ row.sources \in SUBSET Source
      BY <1>1, <1>7, <1>9, <2>2 DEF Suits, Row
    <3>3. PICK s \in T[t].sources : Rank(T[t].sources) = Rank({s})
      BY <3>2, RankIs
    <3>4. Rank(row.sources) <= Rank({s})
      BY <3>1, <3>2, <3>3, RankIs
    <3> QED
      BY <2>4, <3>3, <3>4
  <2>9. ASSUME NEW u \in Texts(A), new1[u] = None PROVE Outranked(new1, About(A, u))
    <3>1. u \in Texts(N) /\ u # t /\ u \in Text /\ T[u] = None /\ About(A, u) = About(N, u)
      BY <1>1, <1>3, <2>3, <2>4, <2>6, <2>9 DEF Texts, Mentions
    <3>2. Outranked(T, About(N, u))
      BY <3>1 DEF Faithful
    <3>3. ASSUME NEW n \in About(N, u), NEW k \in Known(T)
          PROVE  Rank(new1[k].sources) <= RankOf(n)
      <4>1. Rank(T[k].sources) <= RankOf(n) /\ k \in Text /\ T[k] # None
        BY <3>2, <3>3 DEF Outranked, Known
      <4>2. CASE k # t
        BY <2>4, <4>1, <4>2
      <4>3. CASE k = t
        <5>1. Rank(new1[t].sources) \in Nat /\ Rank(T[t].sources) \in Nat /\ RankOf(n) \in Nat
          <6>1. new1[t].sources \in SUBSET Source /\ new1[t].sources # {}
            BY <2>2, <2>4 DEF Suits, Row
          <6>2. n \in Mentions
            BY <1>1, <3>3 DEF About
          <6> QED
            BY <1>1, <1>8, <1>9, <6>1, <6>2, RankIs DEF RankOf, Mentions
        <5> QED
          BY <2>8, <4>1, <4>3, <5>1
      <4> QED
        BY <4>2, <4>3
    <3> QED
      BY <2>5, <3>1, <3>2, <3>3 DEF Outranked
  <2>10. new \in Store /\ new.table = new1 /\ new.dropped = store.dropped
    BY <1>1, <2>1, <2>4 DEF Store
  <2> QED
    BY <1>2, <1>5, <2>5, <2>6, <2>7, <2>9, <2>10 DEF Faithful
<1>10. CASE T[t] = None /\ Cardinality(Known(T)) < MaxFound
  <2> DEFINE row == Found(m)
             new1 == [T EXCEPT ![t] = row]
  <2>1. new = [table |-> new1, dropped |-> store.dropped]
    BY <1>1, <1>10, AddCases
  <2>2. ASSUME NEW u \in Texts(N) PROVE T[u] # None
    <3>1. MaxFound \in Nat
      BY CrawlAssumption
    <3>2. ~Outranked(T, About(N, u))
      BY <1>4, <1>10, <3>1 DEF Outranked
    <3> QED
      BY <3>2 DEF Faithful
  <2>3. Texts(N) \subseteq Text
    BY <1>1 DEF Texts, Mentions
  <2>4. About(N, t) = {} /\ About(A, t) = {m}
    BY <1>3, <1>10, <2>2 DEF About, Texts
  <2>5. Suits(row, About(A, t), ids, t)
    BY <2>4, RowStarts
  <2>6. row \in Row /\ row # None
    BY <2>5, RowIsSome DEF Suits
  <2> HIDE DEF row
  <2>7. new1[t] = row /\ (\A u \in Text : u # t => new1[u] = T[u]) /\ new1 \in [Text -> Row \cup {None}]
    BY <1>1, <2>6
  <2> HIDE DEF new1
  <2>8. \A u \in Text : new1[u] # None => Suits(new1[u], About(A, u), ids, u)
    BY <1>3, <1>7, <2>5, <2>7
  <2>9. \A u \in Texts(A) : new1[u] # None
    BY <1>1, <1>3, <2>2, <2>3, <2>6, <2>7
  <2>10. Texts(A) \ Known(new1) = {} /\ Cardinality({}) = 0
    BY <1>1, <1>3, <2>3, <2>9, FS_EmptySet DEF Known
  <2>11. new \in Store /\ new.table = new1 /\ new.dropped = store.dropped
    BY <1>1, <2>1, <2>7 DEF Store
  <2>12. new.dropped >= Cardinality(Texts(A) \ Known(new.table))
    BY <1>1, <2>10, <2>11
  <2> QED
    BY <1>2, <2>8, <2>9, <2>11, <2>12 DEF Faithful
<1>11. CASE T[t] = None /\ ~(Cardinality(Known(T)) < MaxFound)
  <2>1. new = [table |-> T, dropped |-> store.dropped + 1]
    BY <1>1, <1>11, AddCases
  <2>2. new \in Store /\ new.table = T /\ new.dropped = store.dropped + 1
    BY <1>1, <2>1 DEF Store
  <2>3. \A u \in Text : T[u] # None => Suits(T[u], About(A, u), ids, u)
    BY <1>3, <1>7, <1>11
  <2>4. Cardinality(Known(T)) >= MaxFound
    BY <1>4, <1>11, CrawlAssumption
  <2>5. ASSUME NEW u \in Texts(A), T[u] = None PROVE Outranked(T, About(A, u))
    <3>1. \A k \in Known(T) : Rank(T[k].sources) <= RankOf(m)
      BY <1>8 DEF Known
    <3>2. CASE u \in Texts(N)
      <4>1. Outranked(T, About(N, u))
        BY <2>5, <3>2 DEF Faithful
      <4>2. About(A, u) \subseteq About(N, u) \cup {m}
        BY DEF About
      <4> QED
        BY <2>4, <3>1, <4>1, <4>2 DEF Outranked
    <3>3. CASE u \notin Texts(N)
      <4>1. About(A, u) \subseteq {m}
        BY <3>3 DEF About, Texts
      <4> QED
        BY <2>4, <3>1, <4>1 DEF Outranked
    <3> QED
      BY <3>2, <3>3
  <2>6. store.dropped + 1 >= Cardinality(Texts(A) \ Known(T))
    <3> DEFINE D == Texts(N) \ Known(T)
    <3>1. Texts(A) \ Known(T) = D \cup {t}
      BY <1>3, <1>11 DEF Known
    <3>2. Cardinality(D \cup {t}) = IF t \in D THEN Cardinality(D) ELSE Cardinality(D) + 1
      BY <1>5, FS_AddElement
    <3>3. Cardinality(D) \in Nat /\ store.dropped >= Cardinality(D)
      BY <1>5
    <3>4. Cardinality(D \cup {t}) <= Cardinality(D) + 1
      BY <3>2, <3>3
    <3>5. store.dropped + 1 >= Cardinality(D \cup {t})
      <4> HIDE DEF D, t
      <4>1. Cardinality(D \cup {t}) \in Nat
        BY <3>2, <3>3
      <4> QED
        BY <1>1, <3>3, <3>4, <4>1
    <3> QED
      BY <3>1, <3>5
  <2> QED
    BY <1>2, <2>2, <2>3, <2>5, <2>6 DEF Faithful
<1> QED
  BY <1>9, <1>10, <1>11

(* Mentions that come in the order of their ranks are added one by one.     *)
Following(after, store, ms) ==
    /\ after[0] = store
    /\ \A n \in 1..Len(ms) : after[n] = Add(after[n - 1], ms[n])

(* AddAll adds one mention after the other.                                 *)
LEMMA AddAllByOne ==
    ASSUME NEW store, NEW T, NEW ms \in Seq(T)
    PROVE  \E after : Following(after, store, ms) /\ AddAll(store, ms) = after[Len(ms)]
<1> DEFINE Solves(f, k) ==
             f = [n \in 0..k |-> IF n = 0 THEN store ELSE Add(f[n - 1], ms[n])]
           S == {k \in Nat : \E f : Solves(f, k)}
<1>1. 0 \in S
  <2> DEFINE f == [n \in 0..0 |-> store]
  <2>1. Solves(f, 0)
    OBVIOUS
  <2> QED
    BY <2>1
<1>2. ASSUME NEW k \in Nat, k \in S PROVE k + 1 \in S
  <2>1. PICK f : Solves(f, k)
    BY <1>2
  <2> DEFINE g == [n \in 0..(k + 1) |-> IF n = k + 1 THEN Add(f[k], ms[k + 1]) ELSE f[n]]
  <2>2. \A n \in 0..k : f[n] = IF n = 0 THEN store ELSE Add(f[n - 1], ms[n])
    BY <2>1
  <2>3. ASSUME NEW n \in 0..(k + 1)
        PROVE  g[n] = IF n = 0 THEN store ELSE Add(g[n - 1], ms[n])
    <3>1. CASE n = k + 1
      <4>1. n - 1 = k /\ n # 0 /\ g[k] = f[k]
        BY <3>1
      <4> QED
        BY <3>1, <4>1
    <3>2. CASE n = 0
      <4>1. g[0] = f[0] /\ f[0] = store
        BY <2>2
      <4> QED
        BY <3>2, <4>1
    <3>3. CASE n # 0 /\ n # k + 1
      <4>1. n \in 0..k /\ n - 1 \in 0..k /\ g[n] = f[n] /\ g[n - 1] = f[n - 1]
        BY <3>3
      <4>2. f[n] = Add(f[n - 1], ms[n])
        <5> HIDE DEF g
        <5> QED
          BY <2>2, <3>3, <4>1
      <4> QED
        BY <3>3, <4>1, <4>2
    <3> QED
      BY <3>1, <3>2, <3>3
  <2>4. Solves(g, k + 1)
    BY <2>3
  <2> HIDE DEF Solves, g
  <2> QED
    BY <2>4
<1>3. Len(ms) \in Nat
  OBVIOUS
<1>4. Len(ms) \in S
  <2> HIDE DEF S
  <2> QED
    BY <1>1, <1>2, <1>3, Climb
<1>5. PICK g : Solves(g, Len(ms))
  BY <1>4
<1> DEFINE f == CHOOSE f : Solves(f, Len(ms))
<1>6. Solves(f, Len(ms))
  <2> HIDE DEF Solves
  <2> QED
    BY <1>5
<1>7. AddAll(store, ms) = f[Len(ms)]
  BY DEF AddAll
<1>8. \A n \in 0..Len(ms) : f[n] = IF n = 0 THEN store ELSE Add(f[n - 1], ms[n])
  <2> HIDE DEF f
  <2> QED
    BY <1>6
<1>9. Following(f, store, ms)
  <2> HIDE DEF f
  <2>1. 0 \in 0..Len(ms) /\ \A n \in 1..Len(ms) : n \in 0..Len(ms) /\ n # 0
    BY <1>3
  <2> QED
    BY <1>8, <2>1 DEF Following
<1> QED
  BY <1>7, <1>9

(* The mentions of a document, or of two, in the order of authority.        *)
Rising(ms) == \A i, j \in 1..Len(ms) : i < j => RankOf(ms[i]) <= RankOf(ms[j])

(* So a document whose mentions are in the order of authority, and of no    *)
(* higher one than all before, keeps the table faithful.                    *)
LEMMA AddAllIs ==
    ASSUME NEW store, NEW N, NEW ids, Faithful(store, N, ids),
           NEW ms \in Seq(Mentions), Rising(ms),
           \A i \in 1..Len(ms), n \in N : RankOf(n) <= RankOf(ms[i]),
           ids = {} \/ \A i \in 1..Len(ms) : ms[i].source \notin InManifest
    PROVE  Faithful(AddAll(store, ms), N \cup Valid(ms), ids)
<1>1. Len(ms) \in Nat /\ DOMAIN ms = 1..Len(ms) /\ \A i \in 1..Len(ms) : ms[i] \in Mentions
  OBVIOUS
<1>2. PICK after : Following(after, store, ms) /\ AddAll(store, ms) = after[Len(ms)]
  BY AddAllByOne
<1> DEFINE Upto(k) == {m \in Mentions : Of[m.text] # None /\ \E i \in 1..k : m = ms[i]}
           S == {k \in Nat : k <= Len(ms) => Faithful(after[k], N \cup Upto(k), ids)}
<1>3. 0 \in S
  <2>1. N \cup Upto(0) = N
    OBVIOUS
  <2>2. after[0] = store
    BY <1>2 DEF Following
  <2> QED
    BY <2>1, <2>2
<1>4. ASSUME NEW k \in Nat, k \in S PROVE k + 1 \in S
  <2> SUFFICES ASSUME k + 1 <= Len(ms)
               PROVE  Faithful(after[k + 1], N \cup Upto(k + 1), ids)
    OBVIOUS
  <2> DEFINE m == ms[k + 1]
             A == N \cup Upto(k)
  <2>1. k + 1 \in 1..Len(ms) /\ (k + 1) - 1 = k /\ k <= Len(ms) /\ m \in Mentions
    BY <1>1
  <2>2. Faithful(after[k], A, ids)
    BY <1>4, <2>1
  <2>3. after[k + 1] = Add(after[k], m)
    BY <1>2, <2>1 DEF Following
  <2>4. Upto(k + 1) = IF Of[m.text] # None THEN Upto(k) \cup {m} ELSE Upto(k)
    <3>1. \A i : i \in 1..(k + 1) <=> i \in 1..k \/ i = k + 1
      OBVIOUS
    <3> QED
      BY <2>1, <3>1
  <2>5. CASE Of[m.text] = None
    <3>1. Add(after[k], m) = after[k]
      BY <2>5 DEF Add
    <3>2. Upto(k + 1) = Upto(k)
      BY <2>4, <2>5
    <3> QED
      BY <2>2, <2>3, <3>1, <3>2
  <2>6. CASE Of[m.text] # None
    <3>1. N \cup Upto(k + 1) = A \cup {m}
      BY <2>4, <2>6
    <3>2. ASSUME NEW n \in A PROVE RankOf(n) <= RankOf(m)
      <4>1. CASE n \in N
        BY <2>1, <4>1
      <4>2. CASE n \in Upto(k)
        <5>1. PICK i \in 1..k : n = ms[i]
          BY <4>2
        <5>2. i \in 1..Len(ms) /\ i < k + 1
          BY <2>1
        <5> QED
          BY <2>1, <5>1, <5>2 DEF Rising
      <4> QED
        BY <4>1, <4>2
    <3>3. ids = {} \/ m.source \notin InManifest
      BY <2>1
    <3>4. Faithful(Add(after[k], m), A \cup {m}, ids)
      <4> HIDE DEF A, m
      <4> QED
        BY <2>1, <2>2, <2>6, <3>2, <3>3, AddIs
    <3> QED
      BY <2>3, <3>1, <3>4
  <2> QED
    BY <2>5, <2>6
<1>5. Len(ms) \in S
  <2> HIDE DEF S
  <2> QED
    BY <1>1, <1>3, <1>4, Climb
<1>6. Upto(Len(ms)) = Valid(ms)
  <2>1. \A m : m \in Range(ms) <=> \E i \in 1..Len(ms) : m = ms[i]
    BY <1>1 DEF Range
  <2>2. \A m : m \in Valid(ms) <=> m \in Range(ms) /\ Of[m.text] # None
    BY DEF Valid
  <2>3. \A m : m \in Range(ms) => m \in Mentions
    BY <1>1, <2>1
  <2>4. \A m : m \in Upto(Len(ms)) <=>
                 m \in Mentions /\ Of[m.text] # None /\ \E i \in 1..Len(ms) : m = ms[i]
    OBVIOUS
  <2> HIDE DEF Upto
  <2>5. Valid(ms) \subseteq Upto(Len(ms)) /\ Upto(Len(ms)) \subseteq Valid(ms)
    BY <2>1, <2>2, <2>3, <2>4
  <2> QED
    BY <2>5
<1>7. Faithful(after[Len(ms)], N \cup Upto(Len(ms)), ids)
  BY <1>1, <1>5
<1> HIDE DEF Upto
<1> QED
  BY <1>2, <1>6, <1>7

(* Marking the declared ids makes the table faithful to the gate, when all  *)
(* that was read are manifests.                                             *)
LEMMA MarkIs ==
    ASSUME NEW store, NEW N, Faithful(store, N, {}), NEW ids,
           \A m \in N : m.source \in InManifest
    PROVE  Faithful(MarkDeclared(store, ids), N, ids)
<1> DEFINE T == store.table
           marked == [t \in Text |->
               IF T[t] = None THEN None ELSE [T[t] EXCEPT !.declared = Of[t] \in ids]]
<1>1. store \in Store /\ T \in [Text -> Row \cup {None}]
  BY DEF Faithful, Store
<1>2. ASSUME NEW t \in Text, T[t] # None
      PROVE  Suits([T[t] EXCEPT !.declared = Of[t] \in ids], About(N, t), ids, t)
  <2> DEFINE row == [T[t] EXCEPT !.declared = Of[t] \in ids]
             M == About(N, t)
  <2>1. Suits(T[t], M, {}, t)
    BY <1>2 DEF Faithful
  <2>2. T[t] \in Row
    BY <2>1 DEF Suits
  <2>3. /\ row \in Row /\ row.label = T[t].label /\ row.sources = T[t].sources
        /\ row.declared = (Of[t] \in ids)
    <3> DEFINE r == T[t]
               b == Of[t] \in ids
    <3>1. r \in Row /\ b \in BOOLEAN
      BY <2>2
    <3> HIDE DEF r, b
    <3>2. [r EXCEPT !.declared = b] = [label |-> r.label, sources |-> r.sources, declared |-> b]
      BY <3>1 DEF Row
    <3>3. row = [label |-> r.label, sources |-> r.sources, declared |-> b]
      BY <3>2 DEF r, b
    <3>4. /\ row \in Row /\ row.label = r.label /\ row.sources = r.sources
          /\ row.declared = b
      <4> HIDE DEF row
      <4> QED
        BY <3>1, <3>3 DEF Row
    <3> QED
      BY <3>4 DEF r, b
  <2>4. \A m \in M : m.source \in InManifest
    BY DEF About
  <2> HIDE DEF M, row
  <2>5. SourcesAmong(M) \cap InManifest # {}
    BY <2>1, <2>4 DEF Suits, SourcesAmong
  <2>6. Labels(row, M)
    BY <2>1, <2>3 DEF Suits, Labels
  <2>7. row.declared <=> Of[t] \in ids /\ SourcesAmong(M) \cap InManifest # {}
    BY <2>3, <2>5
  <2>8. Suits(row, M, ids, t)
    BY <2>1, <2>3, <2>6, <2>7 DEF Suits
  <2> QED
    BY <2>8 DEF row, M
<1>3. \A t \in Text : T[t] # None => marked[t] \in Row /\ marked[t] # None
                                     /\ Suits(marked[t], About(N, t), ids, t)
                                     /\ marked[t].sources = T[t].sources
  <2> SUFFICES ASSUME NEW t \in Text, T[t] # None
               PROVE  marked[t] \in Row /\ marked[t] # None
                      /\ Suits(marked[t], About(N, t), ids, t) /\ marked[t].sources = T[t].sources
    OBVIOUS
  <2>1. marked[t] = [T[t] EXCEPT !.declared = Of[t] \in ids] /\ T[t] \in Row
    BY <1>1
  <2>2. Suits(marked[t], About(N, t), ids, t)
    BY <1>2, <2>1
  <2>3. marked[t].sources = T[t].sources
    BY <2>1 DEF Row
  <2> QED
    BY <2>2, <2>3, RowIsSome DEF Suits
<1>4. \A t \in Text : T[t] = None => marked[t] = None
  OBVIOUS
<1>5. MarkDeclared(store, ids) = [table |-> marked, dropped |-> store.dropped]
  BY <1>1 DEF MarkDeclared, Store
<1> HIDE DEF marked
<1>6. Known(marked) = Known(T)
  BY <1>3, <1>4 DEF Known
<1>7. marked \in [Text -> Row \cup {None}]
  <2>1. \A t \in Text : marked[t] \in Row \cup {None}
    BY <1>3, <1>4
  <2> QED
    BY <2>1 DEF marked
<1>8. [table |-> marked, dropped |-> store.dropped] \in Store
  BY <1>1, <1>7 DEF Store
<1>9. ASSUME NEW t \in Texts(N), marked[t] = None PROVE Outranked(marked, About(N, t))
  <2>1. t \in Text
    BY DEF Texts, Mentions, Faithful
  <2>2. Outranked(T, About(N, t))
    BY <1>3, <1>9, <2>1 DEF Faithful
  <2>3. \A u \in Known(T) : marked[u].sources = T[u].sources
    BY <1>3 DEF Known
  <2> QED
    BY <1>6, <2>2, <2>3 DEF Outranked
<1> QED
  BY <1>3, <1>4, <1>5, <1>6, <1>8, <1>9 DEF Faithful

(* bound_findings: the list is in order, what it leaves out is no better,   *)
(* and it counts that.                                                      *)
LEMMA AheadIs ==
    ASSUME NEW store, NEW N, NEW ids, Faithful(store, N, ids)
    PROVE  /\ \A t \in Known(store.table) :
                 /\ t \in Text /\ t \in Nat
                 /\ store.table[t].sources \in SUBSET Source /\ store.table[t].sources # {}
                 /\ Rank(store.table[t].sources) \in 1..6
           /\ Arranged(Known(store.table), Ahead(store.table), Ordered(store.table))
<1> DEFINE K == Known(store.table)
           rank(t) == Rank(store.table[t].sources)
<1>1. ASSUME NEW t \in K
      PROVE  /\ t \in Text /\ t \in Nat
             /\ store.table[t].sources \in SUBSET Source /\ store.table[t].sources # {}
             /\ rank(t) \in 1..6
  <2>1. t \in Text /\ store.table[t] # None
    BY <1>1 DEF Known
  <2>2. Suits(store.table[t], About(N, t), ids, t)
    BY <2>1 DEF Faithful
  <2>3. store.table[t].sources \in SUBSET Source /\ store.table[t].sources # {}
    BY <2>2 DEF Suits, Row
  <2> QED
    BY <2>1, <2>3, RankIs, CrawlAssumption
<1>2. \A t, u \in K : <<t, u>> \in Ahead(store.table) <=> rank(t) < rank(u) \/ (rank(t) = rank(u) /\ t < u)
  BY DEF Ahead
<1>3. IsFiniteSet(K)
  BY KnownAreNamed
<1> HIDE DEF K, rank
<1>4. \A t \in K : t \in Nat /\ rank(t) \in Nat
  BY <1>1
<1>5. Strict(K, Ahead(store.table))
  BY <1>2, <1>4 DEF Strict
<1>6. Arranged(K, Ahead(store.table), Ordered(store.table))
  BY <1>3, <1>5, SortedIs DEF Ordered, K
<1> QED
  BY <1>1, <1>6 DEF K, rank

(* The bare ids are of the last rank.                                       *)
LEMMA BareIsLast ==
    ASSUME NEW X \in SUBSET Source, X # {}
    PROVE  X = {"bundle"} => \A Y \in SUBSET Source : Y # {} => Rank(Y) <= Rank(X)
BY RankOfSource, RankIs

(* A list is bounded well: it is in the order of rank, what is in the table *)
(* and not on it is of no better rank, and all that was named and is not on *)
(* it is counted.                                                           *)
BoundedWell(out, omitted, table, N) ==
    LET rank(t) == Rank(table[t].sources)
    IN  /\ out \in Seq(Known(table)) /\ omitted \in Nat
        /\ \A i, j \in 1..Len(out) : i < j => rank(out[i]) <= rank(out[j])
        /\ \A i \in 1..Len(out), u \in Known(table) \ Range(out) : rank(out[i]) <= rank(u)
        /\ omitted >= Cardinality(Texts(N) \ Range(out))
        /\ Known(table) # {} => out # <<>>

(* bound_findings keeps the best of a faithful table, in order, and counts  *)
(* what it leaves out.                                                      *)
LEMMA BoundFindingsIs ==
    ASSUME NEW store, NEW N, NEW ids, Faithful(store, N, ids)
    PROVE  LET b == BoundFindings(Ordered(store.table), store.table, store.dropped)
           IN  BoundedWell(b.canisters, b.omitted, store.table, N)
<1> DEFINE T       == store.table
           K       == Known(T)
           n       == Cardinality(K)
           rank(t) == Rank(T[t].sources)
           bare(t) == T[t].sources = {"bundle"}
           o       == Ordered(T)
           S       == {t \in Range(o) : bare(t) =>
                         Cardinality({u \in Range(o) : bare(u) /\ u <= t}) <= MaxBare}
           kept    == Keep(o, S)
           place   == Places(o, S)
           out     == FirstOf(kept, MaxCanisters)
           omitted == store.dropped + Len(o) - Len(out)
           b       == BoundFindings(o, T, store.dropped)
<1>1. b.canisters = out /\ b.omitted = omitted
  BY DEF BoundFindings
<1>2. \A t \in K : t \in Nat /\ T[t].sources \in SUBSET Source /\ T[t].sources # {} /\ rank(t) \in 1..6
  BY AheadIs
<1>3. Arranged(K, Ahead(T), o)
  BY AheadIs
<1>4. n \in Nat /\ IsFiniteSet(K) /\ K \subseteq Texts(N)
  BY KnownAreNamed
<1>5. /\ o \in [1..n -> K] /\ Range(o) = K /\ o \in Seq(K) /\ Len(o) = n
      /\ \A i, j \in 1..n : i < j => <<o[i], o[j]>> \in Ahead(T)
  <2>1. o \in [1..n -> K]
    BY <1>3 DEF Arranged
  <2>2. o \in Seq(K) /\ Len(o) = n /\ DOMAIN o = 1..n
    <3> HIDE DEF o, n, K
    <3> QED
      BY <1>4, <2>1
  <2> QED
    BY <1>3, <2>1, <2>2 DEF Arranged
<1>6. ASSUME NEW i \in 1..n, NEW j \in 1..n, i < j
      PROVE  rank(o[i]) <= rank(o[j]) /\ o[i] # o[j] /\ (rank(o[i]) = rank(o[j]) => o[i] < o[j])
  <2>1. <<o[i], o[j]>> \in Ahead(T)
    BY <1>5, <1>6
  <2>2. o[i] \in K /\ o[j] \in K
    BY <1>5
  <2>3. rank(o[i]) < rank(o[j]) \/ (rank(o[i]) = rank(o[j]) /\ o[i] < o[j])
    BY <2>1 DEF Ahead
  <2>4. rank(o[i]) \in 1..6 /\ rank(o[j]) \in 1..6 /\ o[i] \in Nat /\ o[j] \in Nat
    BY <1>2, <2>2
  <2> HIDE DEF o, rank
  <2> QED
    BY <2>3, <2>4
<1>7. Picks(place, kept, o, S) /\ kept \in Seq(K)
  <2> HIDE DEF o, S, K
  <2> QED
    BY <1>5, KeepIs
<1>8. /\ kept \in Seq(K) /\ Len(kept) \in Nat
      /\ place \in [1..Len(kept) -> 1..n]
      /\ \A j \in 1..Len(kept) : kept[j] = o[place[j]]
      /\ \A i, j \in 1..Len(kept) : i < j => place[i] < place[j]
      /\ \A i \in 1..n : o[i] \in S => \E j \in 1..Len(kept) : place[j] = i
  <2> HIDE DEF o, S, K, n
  <2> QED
    BY <1>5, <1>7 DEF Picks
<1>9. MaxCanisters \in Nat /\ MaxCanisters > 0 /\ MaxBare \in Nat /\ MaxBare > 0
  BY CrawlAssumption
<1>10. /\ out \in Seq(K) /\ Len(out) \in Nat /\ Len(out) <= Len(kept)
       /\ Len(out) < Len(kept) => Len(out) = MaxCanisters
       /\ \A i \in 1..Len(out) : out[i] = kept[i]
  <2>1. /\ out \in Seq(K) /\ Len(out) = IF Len(kept) <= MaxCanisters THEN Len(kept) ELSE MaxCanisters
        /\ \A i \in 1..Len(out) : out[i] = kept[i]
    <3> HIDE DEF kept, K
    <3> QED
      BY <1>8, <1>9, FirstOfIs
  <2> HIDE DEF kept, K, out
  <2> QED
    BY <2>1, <1>8, <1>9
<1> HIDE DEF b, K, n, rank, o, S, kept, place, out
<1>11. \A i \in 1..Len(out) : /\ i \in 1..Len(kept) /\ place[i] \in 1..n
                               /\ out[i] = o[place[i]] /\ out[i] \in K
  BY <1>8, <1>10
<1>12. ASSUME NEW i \in 1..Len(out), NEW j \in 1..Len(out), i < j
       PROVE  rank(out[i]) <= rank(out[j]) /\ out[i] # out[j]
  <2>1. place[i] < place[j]
    BY <1>8, <1>11, <1>12
  <2> QED
    BY <1>6, <1>11, <2>1
<1>13. ASSUME NEW i \in 1..Len(out), NEW u \in K \ Range(out)
       PROVE  rank(out[i]) <= rank(u)
  <2>1. PICK k \in 1..n : o[k] = u
    BY <1>5 DEF Range
  <2>2. CASE u \in S
    <3>1. PICK j \in 1..Len(kept) : place[j] = k
      BY <1>8, <2>1, <2>2
    <3>2. ~(j <= Len(out))
      <4>1. SUFFICES ASSUME j \in 1..Len(out) PROVE FALSE
        BY <1>8, <1>10, <3>1
      <4>2. out[j] = u /\ DOMAIN out = 1..Len(out)
        BY <1>8, <1>10, <2>1, <3>1, <4>1
      <4> QED
        BY <4>1, <4>2 DEF Range
    <3>3. i < j
      BY <1>8, <1>10, <3>1, <3>2
    <3>4. place[i] < place[j] /\ place[i] \in 1..n
      BY <1>8, <1>11, <3>1, <3>3
    <3> QED
      BY <1>6, <1>11, <2>1, <3>1, <3>4
  <2>3. CASE u \notin S
    <3>1. T[u].sources = {"bundle"}
      BY <1>5, <2>3 DEF S
    <3>2. T[u].sources \in SUBSET Source /\ T[u].sources # {} /\ out[i] \in K
          /\ T[out[i]].sources \in SUBSET Source /\ T[out[i]].sources # {}
      BY <1>2, <1>11
    <3> QED
      BY <3>1, <3>2, BareIsLast DEF rank
  <2> QED
    BY <2>2, <2>3
<1>14. IsFiniteSet(Range(out)) /\ Cardinality(Range(out)) = Len(out)
  <2>1. out \in [1..Len(out) -> Range(out)] /\ DOMAIN out = 1..Len(out)
    BY <1>10 DEF Range
  <2>2. \A i, j \in 1..Len(out) : i # j => out[i] # out[j]
    <3> SUFFICES ASSUME NEW i \in 1..Len(out), NEW j \in 1..Len(out), i # j
                 PROVE  out[i] # out[j]
      OBVIOUS
    <3>1. i < j \/ j < i
      OBVIOUS
    <3> QED
      BY <1>12, <3>1
  <2>3. out \in Injection(1..Len(out), Range(out)) /\ out \in Surjection(1..Len(out), Range(out))
    <3>1. out \in Injection(1..Len(out), Range(out))
      BY <2>1, <2>2 DEF Injection, IsInjective
    <3>2. \A x \in Range(out) : \E i \in 1..Len(out) : out[i] = x
      BY <2>1 DEF Range
    <3> QED
      BY <2>1, <3>1, <3>2 DEF Surjection
  <2>4. IsFiniteSet(1..Len(out)) /\ Cardinality(1..Len(out)) = Len(out)
    <3> DEFINE L == Len(out)
    <3>1. L \in Int /\ 1 \in Int /\ L >= 0
      BY <1>10
    <3> HIDE DEF L
    <3>2. IsFiniteSet(1..L) /\ Cardinality(1..L) = IF 1 > L THEN 0 ELSE L - 1 + 1
      BY <3>1, FS_Interval
    <3>3. Cardinality(1..L) = L
      BY <3>1, <3>2
    <3> QED
      BY <3>2, <3>3 DEF L
  <2> QED
    BY <2>3, <2>4, FS_Surjection
<1>15. Range(out) \subseteq K
  BY <1>10, <1>11 DEF Range
<1>16. Len(out) <= n
  <2>1. Cardinality(Range(out)) <= Cardinality(K)
    BY <1>4, <1>15, FS_Subset
  <2> QED
    BY <1>14, <2>1 DEF n
<1>17. omitted \in Nat /\ omitted >= Cardinality(Texts(N) \ Range(out))
  <2> DEFINE D == Texts(N) \ K
             E == K \ Range(out)
  <2>1. Texts(N) \ Range(out) = D \cup E /\ D \cap E = {}
    BY <1>4, <1>15
  <2>2. IsFiniteSet(Texts(N)) /\ store.dropped \in Nat /\ store.dropped >= Cardinality(D)
    BY TextsAreFinite DEF Faithful, Store, K
  <2>3. IsFiniteSet(D) /\ IsFiniteSet(E)
    BY <1>4, <2>2, FS_Difference
  <2>4. Cardinality(E) = n - Len(out)
    <3>1. Cardinality(E) = Cardinality(K) - Cardinality(K \cap Range(out))
      BY <1>4, FS_Difference
    <3>2. K \cap Range(out) = Range(out)
      BY <1>15
    <3> QED
      BY <1>14, <3>1, <3>2 DEF n
  <2>5. Cardinality(D \cup E) = Cardinality(D) + Cardinality(E) - Cardinality(D \cap E)
    BY <2>3, FS_Union
  <2>6. Cardinality(D \cap E) = 0 /\ Cardinality(D) \in Nat
    BY <2>1, <2>3, FS_EmptySet, FS_CardinalityType
  <2> HIDE DEF D, E
  <2>7. Cardinality(Texts(N) \ Range(out)) = Cardinality(D) + n - Len(out)
    <3>1. Cardinality(D \cup E) = Cardinality(D) + n - Len(out)
      BY <1>4, <1>10, <2>4, <2>5, <2>6
    <3> QED
      BY <2>1, <3>1
  <2> QED
    BY <1>4, <1>5, <1>10, <1>16, <2>2, <2>6, <2>7
<1>18. ASSUME K # {} PROVE out # <<>>
  <2>1. n # 0
    BY <1>4, <1>18, FS_EmptySet DEF n
  <2>2. 1 \in 1..n /\ o[1] \in K
    BY <1>4, <1>5, <2>1
  <2>3. o[1] \in S
    <3>1. ASSUME NEW u \in Range(o), bare(o[1]), bare(u), u <= o[1] PROVE u = o[1]
      <4>1. PICK k \in 1..n : o[k] = u
        BY <1>5 DEF Range
      <4>2. CASE k = 1
        BY <4>1, <4>2
      <4>3. CASE k # 1
        <5>1. rank(o[1]) = rank(o[k]) /\ 1 < k
          <6>1. rank(o[1]) = Rank({"bundle"}) /\ rank(u) = Rank({"bundle"})
            BY <3>1 DEF rank
          <6> QED
            BY <1>4, <4>1, <4>3, <6>1
        <5>2. o[1] < u
          BY <1>6, <2>2, <4>1, <5>1
        <5>3. o[1] \in Nat /\ u \in Nat
          BY <1>2, <1>5, <2>2, <3>1
        <5> QED
          BY <3>1, <5>2, <5>3
      <4> QED
        BY <4>2, <4>3
    <3> DEFINE U == {u \in Range(o) : bare(u) /\ u <= o[1]}
    <3>2. ASSUME bare(o[1]) PROVE Cardinality(U) <= MaxBare
      <4>1. U \in SUBSET {o[1]}
        BY <3>1, <3>2
      <4>2. IsFiniteSet({o[1]}) /\ Cardinality({o[1]}) = 1
        BY FS_Singleton
      <4>3. Cardinality(U) <= 1 /\ Cardinality(U) \in Nat
        BY <4>1, <4>2, FS_Subset, FS_CardinalityType
      <4> HIDE DEF U
      <4> QED
        BY <1>9, <4>3
    <3>3. o[1] \in Range(o)
      BY <1>5, <2>2
    <3> QED
      BY <3>2, <3>3 DEF S
  <2>4. \E j \in 1..Len(kept) : place[j] = 1
    BY <1>8, <2>2, <2>3
  <2>5. Len(kept) >= 1
    BY <1>8, <2>4
  <2>6. Len(out) # 0
    BY <1>8, <1>9, <1>10, <2>5
  <2> QED
    BY <1>10, <2>6
<1> QED
  BY <1>1, <1>10, <1>12, <1>13, <1>17, <1>18 DEF BoundedWell, K, o, rank, b

-----------------------------------------------------------------------------
(* The two parses of a manifest.                                            *)
LEMMA ListedIs ==
    ASSUME NEW entries \in Seq(Entry), NEW source \in Source
    PROVE  /\ Listed(entries, source) \in Seq(Mentions)
           /\ \A i \in 1..Len(Listed(entries, source)) : Listed(entries, source)[i].source = source
           /\ \A i \in 1..Len(entries) : i <= MaxManifest /\ entries[i].text # Blank =>
                 \E j \in 1..Len(Listed(entries, source)) :
                     Listed(entries, source)[j].text = entries[i].text
<1> DEFINE S       == {e \in Entry : e.text # Blank}
           kept    == Keep(entries, S)
           spelled == FirstOf(kept, MaxManifest)
           list    == [i \in DOMAIN spelled |->
                          Mention(spelled[i].text, spelled[i].role, source)]
<1>1. Listed(entries, source) = list
  BY DEF Listed
<1>2. Picks(Places(entries, S), kept, entries, S)
  <2> HIDE DEF S
  <2> QED
    BY KeepIs
<1>3. kept \in Seq(S) /\ Len(kept) \in Nat
      /\ \A i \in 1..Len(entries) : entries[i] \in S =>
            \E j \in 1..Len(kept) : j <= i /\ kept[j] = entries[i]
  <2> HIDE DEF S, kept
  <2>1. kept \in Seq(S)
    BY <1>2 DEF Picks
  <2> QED
    BY <1>2, <2>1 DEF Picks
<1>4. MaxManifest \in Nat
  BY CrawlAssumption
<1>5. /\ spelled \in Seq(S)
      /\ Len(spelled) = IF Len(kept) <= MaxManifest THEN Len(kept) ELSE MaxManifest
      /\ \A i \in 1..Len(spelled) : spelled[i] = kept[i]
  <2> HIDE DEF S, kept
  <2> QED
    BY <1>3, <1>4, FirstOfIs
<1>6. Len(spelled) \in Nat /\ DOMAIN spelled = 1..Len(spelled)
      /\ \A i \in 1..Len(spelled) : spelled[i] \in S
  <2> HIDE DEF S, spelled
  <2> QED
    BY <1>5
<1>7. ASSUME NEW e \in S
      PROVE  /\ Mention(e.text, e.role, source) \in Mentions
             /\ Mention(e.text, e.role, source).source = source
             /\ Mention(e.text, e.role, source).text = e.text
  BY DEF Mention, Mentions, Entry, Label
<1>8. list \in Seq(Mentions) /\ Len(list) = Len(spelled)
      /\ \A i \in 1..Len(spelled) : list[i].source = source /\ list[i].text = spelled[i].text
  <2>1. \A i \in 1..Len(spelled) :
            list[i] = Mention(spelled[i].text, spelled[i].role, source)
    BY <1>6
  <2>2. list = [i \in 1..Len(spelled) |-> Mention(spelled[i].text, spelled[i].role, source)]
    BY <1>6
  <2> HIDE DEF spelled, list, S
  <2>3. \A i \in 1..Len(spelled) : list[i] \in Mentions
    BY <1>6, <1>7, <2>1
  <2>4. list \in Seq(Mentions) /\ Len(list) = Len(spelled)
    BY <1>6, <1>7, <2>2
  <2> QED
    BY <1>6, <1>7, <2>1, <2>4
<1>9. ASSUME NEW i \in 1..Len(entries), i <= MaxManifest, entries[i].text # Blank
      PROVE  \E j \in 1..Len(list) : list[j].text = entries[i].text
  <2>1. entries[i] \in S
    BY <1>9
  <2>2. PICK j \in 1..Len(kept) : j <= i /\ kept[j] = entries[i]
    BY <1>3, <2>1
  <2>3. j \in 1..Len(spelled)
    <3> HIDE DEF spelled, kept
    <3> QED
      BY <1>3, <1>4, <1>5, <1>6, <1>9, <2>2
  <2> HIDE DEF spelled, kept, list
  <2> QED
    BY <1>5, <1>8, <2>2, <2>3
<1> QED
  BY <1>1, <1>8, <1>9

(* The gate authorizes the ids manifest_canister_ids parses.                *)
LEMMA GateIsListed ==
    ASSUME manifest.architecture \in Seq(Entry)
    PROVE  \A p : GateAuthorizes(p) <=> p \in ManifestCanisterIds(manifest.architecture)
<1> DEFINE entries == manifest.architecture
           read == FirstOf(entries, MaxManifest)
<1>1. MaxManifest \in Nat /\ Len(entries) \in Nat /\ DOMAIN entries = 1..Len(entries)
  BY CrawlAssumption
<1>2. /\ read \in Seq(Entry)
      /\ Len(read) = IF Len(entries) <= MaxManifest THEN Len(entries) ELSE MaxManifest
      /\ \A i \in 1..Len(read) : read[i] = entries[i]
  BY <1>1, FirstOfIs
<1> HIDE DEF read
<1>3. DOMAIN read = 1..Len(read) /\ \A i : i \in 1..Len(read) <=> i \in 1..Len(entries) /\ i <= MaxManifest
  BY <1>1, <1>2
<1>4. \A e : e \in Range(read) <=> \E i \in 1..Len(entries) : i <= MaxManifest /\ e = entries[i]
  BY <1>2, <1>3 DEF Range
<1> SUFFICES ASSUME NEW p
             PROVE  GateAuthorizes(p) <=> p \in ManifestCanisterIds(entries)
  OBVIOUS
<1>5. p \in ManifestCanisterIds(entries) <=>
         p \in Canister /\ \E e \in Range(read) : e.text # Blank /\ p = Of[e.text]
  BY DEF ManifestCanisterIds, read
<1>6. GateAuthorizes(p) <=>
         p \in Canister /\ \E i \in 1..Len(entries) :
             i <= MaxManifest /\ entries[i].text # Blank /\ Of[entries[i].text] = p
  BY <1>1 DEF GateAuthorizes
<1> HIDE DEF entries
<1> QED
  BY <1>4, <1>5, <1>6

-----------------------------------------------------------------------------
(* The crawl.  The table is faithful to what was named at every stage, and  *)
(* what is to be read next is of no higher rank than what was.              *)
Stage == {"manifests", "page", "env", "scripts", "bound", "enrich", "done", "failed"}
Item  == [text : Text, label : Label, sources : SUBSET Source, declared : BOOLEAN,
          kind : {None, "system"}]

(* The ids of the gate, once the manifests are recorded; that no mention so *)
(* far is above a rank; that what the gate authorizes was named; and that   *)
(* the listing is the table's, bounded well.                                *)
Ids == IF at = "manifests" THEN {} ELSE ManifestCanisterIds(manifest.architecture)

Settled(r) == \A m \in named : RankOf(m) <= r

GateIsNamed == \A p : GateAuthorizes(p) => \E m \in named : Of[m.text] = p

Spelled(canisters) == [i \in DOMAIN canisters |-> canisters[i].text]

Told ==
    /\ discovery \in [canisters : Seq(Item), omitted : Nat]
    /\ BoundedWell(Spelled(discovery.canisters), discovery.omitted, findings.table, named)
    /\ \A i \in 1..Len(discovery.canisters) :
          LET c == discovery.canisters[i]
              row == findings.table[c.text]
          IN  c.label = row.label /\ c.sources = row.sources /\ c.declared = row.declared

CrawlInv ==
    /\ at \in Stage /\ blob \in Seq(Match) /\ fetched \in Nat
    /\ manifest \in [architecture : Manifests \cup {None}, legacy : OldManifests \cup {None}]
    /\ at = "manifests" => named = {}
    /\ at # "manifests" => manifest.architecture \in Manifests /\ GateIsNamed
    /\ Faithful(findings, named, Ids)
    /\ (at = "page" => Settled(2)) /\ (at = "env" => Settled(3)) /\ (at = "scripts" => Settled(4))
    /\ at \in {"enrich", "done"} => Told

(* A document that is read.                                                 *)
LEMMA RisingJoin ==
    ASSUME NEW p \in Seq(Mentions), NEW q \in Seq(Mentions), NEW a \in Nat, NEW b \in Nat, a <= b,
           \A i \in 1..Len(p) : RankOf(p[i]) = a, \A i \in 1..Len(q) : RankOf(q[i]) = b
    PROVE  /\ p \o q \in Seq(Mentions) /\ Rising(p \o q)
           /\ \A i \in 1..Len(p \o q) :
                 \/ RankOf((p \o q)[i]) = a /\ \E j \in 1..Len(p) : (p \o q)[i] = p[j]
                 \/ RankOf((p \o q)[i]) = b /\ \E j \in 1..Len(q) : (p \o q)[i] = q[j]
           /\ \A i \in 1..Len(p) : \E j \in 1..Len(p \o q) : (p \o q)[j] = p[i]
<1> DEFINE s == p \o q
<1>1. /\ s \in Seq(Mentions) /\ Len(s) = Len(p) + Len(q) /\ Len(p) \in Nat /\ Len(q) \in Nat
      /\ \A i \in 1..Len(p) : s[i] = p[i]
      /\ \A i \in 1..Len(s) : i > Len(p) => i - Len(p) \in 1..Len(q) /\ s[i] = q[i - Len(p)]
  OBVIOUS
<1> HIDE DEF s
<1>2. \A i \in 1..Len(p) : RankOf(s[i]) = a
  BY <1>1
<1>3. \A i \in 1..Len(s) : i > Len(p) => RankOf(s[i]) = b
  BY <1>1
<1>4. \A i \in 1..Len(s) : i \in 1..Len(p) \/ i > Len(p)
  BY <1>1
<1>5. Rising(s)
  <2> SUFFICES ASSUME NEW i \in 1..Len(s), NEW j \in 1..Len(s), i < j
               PROVE  RankOf(s[i]) <= RankOf(s[j])
    BY DEF Rising
  <2>1. CASE j \in 1..Len(p)
    <3>1. i \in 1..Len(p)
      BY <2>1, <1>1
    <3> QED
      BY <2>1, <3>1, <1>2
  <2>2. CASE j > Len(p)
    <3>1. RankOf(s[j]) = b /\ (RankOf(s[i]) = a \/ RankOf(s[i]) = b)
      BY <2>2, <1>2, <1>3, <1>4
    <3> QED
      BY <3>1
  <2> QED
    BY <1>4, <2>1, <2>2
<1>6. \A i \in 1..Len(s) :
         \/ RankOf(s[i]) = a /\ \E j \in 1..Len(p) : s[i] = p[j]
         \/ RankOf(s[i]) = b /\ \E j \in 1..Len(q) : s[i] = q[j]
  BY <1>1, <1>2, <1>3, <1>4
<1>7. \A i \in 1..Len(p) : i \in 1..Len(s) /\ s[i] = p[i]
  BY <1>1
<1> QED
  BY <1>1, <1>5, <1>6, <1>7 DEF s

(* A document read after the manifests: its mentions are of ranks r to k,   *)
(* and nothing before is above r.                                           *)
LEMMA ReadIs ==
    ASSUME CrawlInv, at # "manifests", NEW ms \in Seq(Mentions), Rising(ms),
           NEW r \in Nat, NEW k \in Nat, Settled(r), r <= k,
           \A i \in 1..Len(ms) : /\ r <= RankOf(ms[i]) /\ RankOf(ms[i]) <= k
                                 /\ ms[i].source \notin InManifest,
           findings' = AddAll(findings, ms), named' = named \cup Valid(ms),
           manifest' = manifest, at' # "manifests"
    PROVE  /\ Faithful(findings', named', Ids')
           /\ GateIsNamed' /\ Settled(k)' /\ manifest'.architecture \in Manifests
<1>1. Len(ms) \in Nat /\ \A i \in 1..Len(ms) : ms[i] \in Mentions
  OBVIOUS
<1>2. \A m \in Mentions : RankOf(m) \in Nat
  BY RankIsNumber
<1>3. named \in SUBSET Mentions /\ Faithful(findings, named, Ids)
  BY DEF CrawlInv, Faithful
<1>4. ASSUME NEW i \in 1..Len(ms), NEW n \in named PROVE RankOf(n) <= RankOf(ms[i])
  <2>1. RankOf(n) <= r /\ r <= RankOf(ms[i])
    BY DEF Settled
  <2> QED
    BY <1>1, <1>2, <1>3, <2>1
<1>5. Faithful(AddAll(findings, ms), named \cup Valid(ms), Ids)
  BY <1>3, <1>4, AddAllIs
<1>6. Ids' = Ids
  BY DEF Ids
<1>7. GateIsNamed'
  BY DEF GateIsNamed, GateAuthorizes, CrawlInv
<1>8. ASSUME NEW m \in named' PROVE RankOf(m) <= k
  <2>1. CASE m \in named
    BY <1>2, <1>3, <2>1 DEF Settled
  <2>2. CASE m \in Valid(ms)
    BY <2>2 DEF Valid, Range
  <2> QED
    BY <2>1, <2>2
<1> QED
  BY <1>5, <1>6, <1>7, <1>8 DEF Settled, CrawlInv

(* The crawl step by step.                                                  *)
LEMMA CrawlStarts == CrawlInit => CrawlInv
<1> SUFFICES ASSUME CrawlInit PROVE CrawlInv
  OBVIOUS
<1>1. /\ at = "manifests" /\ manifest = [architecture |-> None, legacy |-> None]
      /\ findings = Nothing /\ blob = <<>> /\ fetched = 0 /\ named = {}
  BY DEF CrawlInit, Unasked
<1>2. Nothing.table = [t \in Text |-> None] /\ Nothing.dropped = 0 /\ Nothing \in Store
  BY DEF Nothing, Store
<1>3. Texts({}) = {} /\ IsFiniteSet({}) /\ Cardinality({}) = 0
  BY FS_EmptySet DEF Texts
<1>4. {} \ Known(Nothing.table) = {}
  OBVIOUS
<1>5. Faithful(Nothing, {}, {})
  BY <1>2, <1>3, <1>4 DEF Faithful
<1>6. <<>> \in Seq(Match)
  OBVIOUS
<1> QED
  BY <1>1, <1>5, <1>6 DEF CrawlInv, Stage, Ids

LEMMA CrawlRests == CrawlInv /\ UNCHANGED crawlVars => CrawlInv'
BY DEF CrawlInv, crawlVars, Ids, Settled, GateIsNamed, GateAuthorizes, Told

LEMMA CrawlAnswers ==
    ASSUME CrawlInv, NEW path \in {"architecture", "legacy"}, Answered(path)
    PROVE  CrawlInv'
<1>1. at = "manifests" /\ UNCHANGED <<at, findings, blob, fetched, discovery, named>>
  BY DEF Answered
<1>2. PICK entries \in IF path = "legacy" THEN OldManifests ELSE Manifests :
              manifest' = [manifest EXCEPT ![path] = entries]
  BY DEF Answered
<1>3. manifest' \in [architecture : Manifests \cup {None}, legacy : OldManifests \cup {None}]
  BY <1>2 DEF CrawlInv
<1>4. Faithful(findings', named', Ids')
  BY <1>1 DEF CrawlInv, Ids
<1> QED
  BY <1>1, <1>3, <1>4 DEF CrawlInv

LEMMA CrawlRecords == ASSUME CrawlInv, RecordManifests PROVE CrawlInv'
<1> DEFINE a == manifest.architecture
           l == manifest.legacy
           p == Listed(a, "ic-architecture")
           q == Listed(l, "ic-app.json")
           ms == p \o q
<1>1. /\ at = "manifests" /\ None \notin Range(manifest) /\ at' = "page"
      /\ findings' = MarkDeclared(AddAll(findings, ms), ManifestCanisterIds(a))
      /\ named' = named \cup Valid(ms)
      /\ UNCHANGED <<manifest, blob, fetched, discovery>>
  BY DEF RecordManifests, AuthorityFirst
<1>2. a \in Manifests /\ l \in OldManifests
  <2>1. a \in Range(manifest) /\ l \in Range(manifest)
    BY DEF CrawlInv, Range
  <2> QED
    BY <1>1, <2>1 DEF CrawlInv
<1>3. a \in Seq(Entry) /\ l \in Seq(Entry)
  BY <1>2, CrawlAssumption
<1>4. "ic-architecture" \in Source /\ "ic-app.json" \in Source
  BY DEF Source
<1>5. /\ p \in Seq(Mentions) /\ q \in Seq(Mentions)
      /\ \A i \in 1..Len(p) : p[i].source = "ic-architecture"
      /\ \A i \in 1..Len(q) : q[i].source = "ic-app.json"
      /\ \A i \in 1..Len(a) : i <= MaxManifest /\ a[i].text # Blank =>
            \E j \in 1..Len(p) : p[j].text = a[i].text
  BY <1>3, <1>4, ListedIs
<1> HIDE DEF p, q
<1>6. (\A i \in 1..Len(p) : RankOf(p[i]) = 1) /\ (\A i \in 1..Len(q) : RankOf(q[i]) = 2)
  BY <1>5, RanksAre
<1>7. /\ ms \in Seq(Mentions) /\ Rising(ms)
      /\ \A i \in 1..Len(ms) :
            \/ RankOf(ms[i]) = 1 /\ \E j \in 1..Len(p) : ms[i] = p[j]
            \/ RankOf(ms[i]) = 2 /\ \E j \in 1..Len(q) : ms[i] = q[j]
      /\ \A i \in 1..Len(p) : \E j \in 1..Len(ms) : ms[j] = p[i]
  BY <1>5, <1>6, RisingJoin
<1> HIDE DEF ms
<1>8. \A i \in 1..Len(ms) : RankOf(ms[i]) <= 2 /\ ms[i].source \in InManifest
  <2> SUFFICES ASSUME NEW i \in 1..Len(ms)
               PROVE  RankOf(ms[i]) <= 2 /\ ms[i].source \in InManifest
    OBVIOUS
  <2>1. RankOf(ms[i]) = 1 \/ RankOf(ms[i]) = 2
    BY <1>7
  <2>2. (\E j \in 1..Len(p) : ms[i] = p[j]) \/ (\E j \in 1..Len(q) : ms[i] = q[j])
    BY <1>7
  <2>3. ms[i].source = "ic-architecture" \/ ms[i].source = "ic-app.json"
    BY <1>5, <2>2
  <2>4. ms[i].source \in InManifest
    BY <2>3 DEF InManifest
  <2> QED
    BY <2>1, <2>4
<1>9. \A m : m \in Range(ms) <=> \E i \in 1..Len(ms) : m = ms[i]
  <2>1. DOMAIN ms = 1..Len(ms)
    BY <1>7
  <2> QED
    BY <2>1 DEF Range
<1>10. named = {} /\ Faithful(findings, {}, {})
  BY <1>1 DEF CrawlInv, Ids
<1>11. Faithful(AddAll(findings, ms), {} \cup Valid(ms), {})
  BY <1>7, <1>10, AddAllIs
<1>12. named' = Valid(ms) /\ {} \cup Valid(ms) = Valid(ms)
  BY <1>1, <1>10
<1>13. \A m \in Valid(ms) : RankOf(m) <= 2 /\ m.source \in InManifest
  BY <1>8, <1>9 DEF Valid
<1>14. Faithful(findings', named', ManifestCanisterIds(a))
  BY <1>1, <1>11, <1>12, <1>13, MarkIs
<1>15. Ids' = ManifestCanisterIds(a)
  BY <1>1 DEF Ids
<1>16. ASSUME NEW c, GateAuthorizes(c)' PROVE \E m \in named' : Of[m.text] = c
  <2>1. DOMAIN a = 1..Len(a)
    BY <1>3
  <2>2. PICK i \in 1..Len(a) : i <= MaxManifest /\ a[i].text # Blank /\ Of[a[i].text] = c
    BY <1>1, <1>16, <2>1 DEF GateAuthorizes
  <2>3. c # None
    BY <1>16, CrawlAssumption DEF GateAuthorizes
  <2>4. PICK j \in 1..Len(p) : p[j].text = a[i].text
    BY <1>5, <2>2
  <2>5. PICK n \in 1..Len(ms) : ms[n] = p[j]
    BY <1>7
  <2>6. ms[n] \in Valid(ms)
    BY <1>9, <2>2, <2>3, <2>4, <2>5 DEF Valid
  <2> QED
    BY <1>12, <2>2, <2>4, <2>5, <2>6
<1>17. GateIsNamed' /\ Settled(2)'
  BY <1>12, <1>13, <1>16 DEF GateIsNamed, Settled
<1> QED
  BY <1>1, <1>2, <1>14, <1>15, <1>17 DEF CrawlInv, Stage

LEMMA CrawlReadsPage == ASSUME CrawlInv, ReadPage PROVE CrawlInv'
<1>1. at = "page" /\ UNCHANGED <<manifest, fetched, discovery>> /\ Settled(2)
  BY DEF ReadPage, CrawlInv
<1>2. CASE at' = "failed" /\ UNCHANGED <<findings, named, blob>>
  <2>1. Faithful(findings', named', Ids') /\ GateIsNamed'
    BY <1>1, <1>2 DEF CrawlInv, Ids, GateIsNamed, GateAuthorizes
  <2> QED
    BY <1>1, <1>2, <2>1 DEF CrawlInv, Stage
<1>3. ASSUME NEW page \in Pages,
             NEW ms, ms = IF page.header = None THEN <<>>
                          ELSE <<Mention(page.header, "frontend", "header")>>,
             findings' = AddAll(findings, ms), named' = named \cup Valid(ms),
             blob' = page.matches, at' = "env"
      PROVE  CrawlInv'
  <2>1. page.header \in Text \cup {None} /\ page.matches \in Seq(Match)
    BY CrawlAssumption DEF Page
  <2> DEFINE m == Mention(page.header, "frontend", "header")
  <2>2. page.header # None => m \in Mentions /\ m.source = "header"
    BY <2>1 DEF Mention, Mentions, Label, Role, Source
  <2> HIDE DEF m
  <2>3. /\ ms \in Seq(Mentions) /\ Len(ms) \in Nat
        /\ Len(ms) <= 1 /\ \A i \in 1..Len(ms) : ms[i].source = "header"
    <3>1. CASE page.header = None
      BY <1>3, <3>1
    <3>2. CASE page.header # None
      <4>1. ms = <<m>>
        BY <1>3, <3>2 DEF m
      <4> QED
        BY <2>2, <3>2, <4>1
    <3> QED
      BY <3>1, <3>2
  <2>4. Rising(ms)
    BY <2>3 DEF Rising
  <2>5. \A i \in 1..Len(ms) : RankOf(ms[i]) = 3 /\ ms[i].source \notin InManifest
    BY <2>3, RanksAre DEF InManifest
  <2>6. \A i \in 1..Len(ms) : 2 <= RankOf(ms[i]) /\ RankOf(ms[i]) <= 3
    BY <2>5
  <2>7. Faithful(findings', named', Ids') /\ GateIsNamed' /\ Settled(3)'
    <3> DEFINE r == 2
               k == 3
    <3>1. r \in Nat /\ k \in Nat /\ r <= k
      OBVIOUS
    <3>2. Settled(r) /\ \A i \in 1..Len(ms) : r <= RankOf(ms[i]) /\ RankOf(ms[i]) <= k
      BY <1>1, <2>6
    <3> HIDE DEF r, k
    <3>3. Faithful(findings', named', Ids') /\ GateIsNamed' /\ Settled(k)'
      BY <1>1, <1>3, <2>3, <2>4, <2>5, <3>1, <3>2, ReadIs
    <3> QED
      BY <3>3 DEF k
  <2> QED
    BY <1>1, <1>3, <2>1, <2>7 DEF CrawlInv, Stage
<1> QED
  BY <1>2, <1>3 DEF ReadPage

LEMMA CrawlReadsEnv == ASSUME CrawlInv, ReadEnv PROVE CrawlInv'
<1>1. /\ at = "env" /\ at' = "scripts" /\ UNCHANGED <<manifest, blob, fetched, discovery>>
      /\ Settled(3)
  BY DEF ReadEnv, CrawlInv
<1>2. PICK file \in EnvFiles :
         LET mentions == [i \in DOMAIN file |-> Mention(file[i], "env.json", "env.json")]
         IN  findings' = AddAll(findings, mentions) /\ named' = named \cup Valid(mentions)
  BY DEF ReadEnv
<1> DEFINE ms == [i \in DOMAIN file |-> Mention(file[i], "env.json", "env.json")]
<1>3. file \in Seq(Text)
  BY CrawlAssumption
<1>4. DOMAIN file = 1..Len(file) /\ Len(file) \in Nat /\ \A i \in 1..Len(file) : file[i] \in Text
  BY <1>3
<1>5. \A t \in Text : /\ Mention(t, "env.json", "env.json") \in Mentions
                      /\ Mention(t, "env.json", "env.json").source = "env.json"
  BY DEF Mention, Mentions, Label, Source
<1>6. ms \in Seq(Mentions) /\ \A i \in 1..Len(ms) : ms[i].source = "env.json"
  <2>1. \A i \in 1..Len(file) : ms[i] \in Mentions /\ ms[i].source = "env.json"
    BY <1>4, <1>5
  <2>2. ms \in Seq(Mentions) /\ Len(ms) = Len(file)
    BY <1>4, <1>5
  <2> HIDE DEF ms
  <2> QED
    BY <2>1, <2>2
<1>7. findings' = AddAll(findings, ms) /\ named' = named \cup Valid(ms)
  BY <1>2
<1> HIDE DEF ms
<1>8. \A i \in 1..Len(ms) : RankOf(ms[i]) = 4 /\ ms[i].source \notin InManifest
  BY <1>6, RanksAre DEF InManifest
<1>9. Rising(ms) /\ \A i \in 1..Len(ms) : 3 <= RankOf(ms[i]) /\ RankOf(ms[i]) <= 4
  BY <1>8 DEF Rising
<1>10. Faithful(findings', named', Ids') /\ GateIsNamed' /\ Settled(4)'
  <2> DEFINE r == 3
             k == 4
  <2>1. r \in Nat /\ k \in Nat /\ r <= k
    OBVIOUS
  <2>2. Settled(r) /\ \A i \in 1..Len(ms) : r <= RankOf(ms[i]) /\ RankOf(ms[i]) <= k
    BY <1>1, <1>9
  <2> HIDE DEF r, k
  <2>3. Faithful(findings', named', Ids') /\ GateIsNamed' /\ Settled(k)'
    BY <1>1, <1>6, <1>7, <1>8, <1>9, <2>1, <2>2, ReadIs
  <2> QED
    BY <2>3 DEF k
<1> QED
  BY <1>1, <1>10 DEF CrawlInv, Stage

LEMMA CrawlReadsScript == ASSUME CrawlInv, ReadScript PROVE CrawlInv'
<1>1. /\ at = "scripts" /\ fetched' = fetched + 1
      /\ UNCHANGED <<at, manifest, findings, discovery, named>>
  BY DEF ReadScript
<1>2. PICK matches \in Scripts : blob' = blob \o matches
  BY DEF ReadScript
<1>3. matches \in Seq(Match) /\ blob \in Seq(Match)
  BY CrawlAssumption DEF CrawlInv
<1>4. blob' \in Seq(Match)
  BY <1>2, <1>3
<1>5. Faithful(findings', named', Ids') /\ GateIsNamed' /\ Settled(4)'
  BY <1>1 DEF CrawlInv, Ids, GateIsNamed, GateAuthorizes, Settled
<1> QED
  BY <1>1, <1>4, <1>5 DEF CrawlInv, Stage

LEMMA CrawlMines == ASSUME CrawlInv, Mine PROVE CrawlInv'
<1> DEFINE S == {m \in Match : m.source # "bundle"}
           labelled == Keep(blob, S)
           p == [i \in DOMAIN labelled |->
                    Mention(labelled[i].text, labelled[i].source, labelled[i].source)]
           q == [i \in DOMAIN blob |-> Mention(blob[i].text, None, "bundle")]
           ms == p \o q
<1>1. /\ at = "scripts" /\ at' = "bound" /\ Settled(4)
      /\ findings' = AddAll(findings, ms) /\ named' = named \cup Valid(ms)
      /\ UNCHANGED <<manifest, blob, fetched, discovery>>
  BY DEF Mine, CrawlInv
<1>2. blob \in Seq(Match)
  BY DEF CrawlInv
<1>3. labelled \in Seq(S)
  <2> HIDE DEF S
  <2> QED
    BY <1>2, KeepIs DEF Picks
<1>4. \A m \in S : /\ m.source \in Constant /\ m.text \in Text
  BY DEF Match, Bundle
<1>5. /\ DOMAIN labelled = 1..Len(labelled) /\ Len(labelled) \in Nat
      /\ \A i \in 1..Len(labelled) : labelled[i].source \in Constant /\ labelled[i].text \in Text
  <2> HIDE DEF S, labelled
  <2>1. DOMAIN labelled = 1..Len(labelled) /\ Len(labelled) \in Nat
        /\ \A i \in 1..Len(labelled) : labelled[i] \in S
    BY <1>3
  <2> QED
    BY <1>4, <2>1
<1>6. DOMAIN blob = 1..Len(blob) /\ Len(blob) \in Nat
      /\ \A i \in 1..Len(blob) : blob[i].text \in Text
  <2>1. DOMAIN blob = 1..Len(blob) /\ Len(blob) \in Nat
        /\ \A i \in 1..Len(blob) : blob[i] \in Match
    BY <1>2
  <2> QED
    BY <2>1 DEF Match
<1>7. \A t \in Text, s \in Constant :
         Mention(t, s, s) \in Mentions /\ Mention(t, s, s).source = s
  BY DEF Mention, Mentions, Label, Source, Bundle
<1>8. \A t \in Text : Mention(t, None, "bundle") \in Mentions
                      /\ Mention(t, None, "bundle").source = "bundle"
  BY DEF Mention, Mentions, Label, Source, Bundle
<1> HIDE DEF labelled
<1>9. p \in Seq(Mentions) /\ \A i \in 1..Len(p) : p[i].source \in Constant
  <2>1. \A i \in 1..Len(labelled) : p[i] \in Mentions /\ p[i].source \in Constant
    BY <1>5, <1>7
  <2>2. p \in Seq(Mentions) /\ Len(p) = Len(labelled)
    BY <1>5, <1>7
  <2> HIDE DEF p
  <2> QED
    BY <2>1, <2>2
<1>10. q \in Seq(Mentions) /\ \A i \in 1..Len(q) : q[i].source = "bundle"
  <2>1. \A i \in 1..Len(blob) : q[i] \in Mentions /\ q[i].source = "bundle"
    BY <1>6, <1>8
  <2>2. q \in Seq(Mentions) /\ Len(q) = Len(blob)
    BY <1>6, <1>8
  <2> HIDE DEF q
  <2> QED
    BY <2>1, <2>2
<1> HIDE DEF p, q
<1>11. (\A i \in 1..Len(p) : RankOf(p[i]) = 5) /\ (\A i \in 1..Len(q) : RankOf(q[i]) = 6)
  BY <1>9, <1>10, RanksAre
<1>12. /\ ms \in Seq(Mentions) /\ Rising(ms)
       /\ \A i \in 1..Len(ms) :
             \/ RankOf(ms[i]) = 5 /\ \E j \in 1..Len(p) : ms[i] = p[j]
             \/ RankOf(ms[i]) = 6 /\ \E j \in 1..Len(q) : ms[i] = q[j]
  <2> DEFINE a == 5
             b == 6
  <2>1. a \in Nat /\ b \in Nat /\ a <= b
    OBVIOUS
  <2>2. (\A i \in 1..Len(p) : RankOf(p[i]) = a) /\ (\A i \in 1..Len(q) : RankOf(q[i]) = b)
    BY <1>11
  <2> HIDE DEF a, b
  <2>3. /\ ms \in Seq(Mentions) /\ Rising(ms)
        /\ \A i \in 1..Len(ms) :
              \/ RankOf(ms[i]) = a /\ \E j \in 1..Len(p) : ms[i] = p[j]
              \/ RankOf(ms[i]) = b /\ \E j \in 1..Len(q) : ms[i] = q[j]
    BY <1>9, <1>10, <2>1, <2>2, RisingJoin
  <2> QED
    BY <2>3 DEF a, b
<1> HIDE DEF ms
<1>13. ASSUME NEW i \in 1..Len(ms)
       PROVE  4 <= RankOf(ms[i]) /\ RankOf(ms[i]) <= 6 /\ ms[i].source \notin InManifest
  <2>1. RankOf(ms[i]) = 5 \/ RankOf(ms[i]) = 6
    BY <1>12
  <2>2. ms[i].source \in Constant \/ ms[i].source = "bundle"
    BY <1>9, <1>10, <1>12
  <2>3. ms[i].source \notin InManifest
    BY <2>2 DEF InManifest, Constant
  <2> QED
    BY <2>1, <2>3
<1>14. Faithful(findings', named', Ids') /\ GateIsNamed'
  <2> DEFINE r == 4
             k == 6
  <2>1. r \in Nat /\ k \in Nat /\ r <= k
    OBVIOUS
  <2>2. Settled(r) /\ \A i \in 1..Len(ms) : r <= RankOf(ms[i]) /\ RankOf(ms[i]) <= k
                                            /\ ms[i].source \notin InManifest
    BY <1>1, <1>13
  <2> HIDE DEF r, k
  <2> QED
    BY <1>1, <1>12, <2>1, <2>2, ReadIs
<1> QED
  BY <1>1, <1>14 DEF CrawlInv, Stage

LEMMA CrawlBounds == ASSUME CrawlInv, Bound PROVE CrawlInv'
<1> DEFINE T == findings.table
           b == BoundFindings(Ordered(T), T, findings.dropped)
           out == b.canisters
           item(t) == [text |-> t, label |-> T[t].label, sources |-> T[t].sources,
                       declared |-> T[t].declared, kind |-> None]
           cs == [i \in DOMAIN out |-> item(out[i])]
<1>1. /\ at = "bound" /\ at' = "enrich" /\ UNCHANGED <<manifest, findings, blob, fetched, named>>
      /\ discovery' = [canisters |-> cs, omitted |-> b.omitted]
  BY DEF Bound
<1>2. Faithful(findings, named, Ids)
  BY DEF CrawlInv
<1>3. BoundedWell(out, b.omitted, T, named)
  BY <1>2, BoundFindingsIs
<1> HIDE DEF b
<1>4. out \in Seq(Known(T)) /\ b.omitted \in Nat
  BY <1>3 DEF BoundedWell
<1>5. DOMAIN out = 1..Len(out) /\ Len(out) \in Nat /\ \A i \in 1..Len(out) : out[i] \in Known(T)
  BY <1>4
<1>6. ASSUME NEW t \in Known(T) PROVE item(t) \in Item
  <2>1. t \in Text /\ T[t] # None
    BY DEF Known
  <2>2. T[t] \in Row
    BY <1>2, <2>1 DEF Faithful, Suits
  <2> QED
    BY <2>1, <2>2 DEF Row, Item
<1>7. cs \in Seq(Item) /\ Len(cs) = Len(out) /\ DOMAIN cs = 1..Len(out)
      /\ \A i \in 1..Len(out) : cs[i] = item(out[i])
  <2>1. \A i \in 1..Len(out) : item(out[i]) \in Item
    BY <1>5, <1>6
  <2> HIDE DEF item
  <2>2. cs = [i \in 1..Len(out) |-> item(out[i])]
    BY <1>5
  <2> QED
    BY <1>5, <2>1, <2>2
<1> HIDE DEF cs
<1>fields. \A t : /\ item(t).text = t /\ item(t).label = T[t].label
                  /\ item(t).sources = T[t].sources /\ item(t).declared = T[t].declared
  OBVIOUS
<1> HIDE DEF item
<1>rows. \A i \in 1..Len(out) :
            /\ cs[i].text = out[i] /\ cs[i].label = T[out[i]].label
            /\ cs[i].sources = T[out[i]].sources /\ cs[i].declared = T[out[i]].declared
  BY <1>7, <1>fields
<1>8. Spelled(cs) = out
  <2>1. Spelled(cs) = [i \in 1..Len(out) |-> cs[i].text]
    BY <1>7 DEF Spelled
  <2>2. \A i \in 1..Len(out) : cs[i].text = out[i]
    BY <1>rows
  <2>3. Spelled(cs) = [i \in 1..Len(out) |-> out[i]]
    BY <2>1, <2>2
  <2>4. [i \in 1..Len(out) |-> out[i]] = out
    BY <1>4, <1>5
  <2> QED
    BY <2>3, <2>4
<1>9. discovery' \in [canisters : Seq(Item), omitted : Nat]
      /\ discovery'.canisters = cs /\ discovery'.omitted = b.omitted
  BY <1>1, <1>4, <1>7
<1>10. \A i \in 1..Len(cs) : /\ cs[i].label = T[cs[i].text].label
                             /\ cs[i].sources = T[cs[i].text].sources
                             /\ cs[i].declared = T[cs[i].text].declared
  BY <1>7, <1>rows
<1>11. Told'
  BY <1>1, <1>3, <1>8, <1>9, <1>10 DEF Told
<1>12. Faithful(findings', named', Ids') /\ GateIsNamed'
  BY <1>1 DEF CrawlInv, Ids, GateIsNamed, GateAuthorizes
<1> QED
  BY <1>1, <1>11, <1>12 DEF CrawlInv, Stage

LEMMA CrawlEnriches == ASSUME CrawlInv, Enrich PROVE CrawlInv'
<1>1. at = "enrich" /\ at' = "done" /\ UNCHANGED <<manifest, findings, blob, fetched, named>>
  BY DEF Enrich
<1> DEFINE cs == discovery.canisters
<1>2. PICK system \in SUBSET DOMAIN cs :
          discovery' = [discovery EXCEPT !.canisters = [i \in DOMAIN @ |->
              [@[i] EXCEPT !.kind = IF i \in system THEN "system" ELSE None]]]
  BY DEF Enrich
<1> DEFINE new == [i \in DOMAIN cs |-> [cs[i] EXCEPT !.kind = IF i \in system THEN "system" ELSE None]]
<1>3. Told
  BY <1>1 DEF CrawlInv
<1>4. discovery' = [canisters |-> new, omitted |-> discovery.omitted] /\ discovery.omitted \in Nat
  BY <1>2, <1>3 DEF Told
<1>5. cs \in Seq(Item) /\ DOMAIN cs = 1..Len(cs) /\ Len(cs) \in Nat
      /\ \A i \in 1..Len(cs) : cs[i] \in Item
  BY <1>3 DEF Told
<1> HIDE DEF cs
<1>6. \A c \in Item, k \in {None, "system"} :
         /\ [c EXCEPT !.kind = k] \in Item
         /\ [c EXCEPT !.kind = k].text = c.text /\ [c EXCEPT !.kind = k].label = c.label
         /\ [c EXCEPT !.kind = k].sources = c.sources
         /\ [c EXCEPT !.kind = k].declared = c.declared
  BY DEF Item
<1>7. \A i \in 1..Len(cs) : new[i] \in Item /\ new[i].text = cs[i].text
         /\ new[i].label = cs[i].label /\ new[i].sources = cs[i].sources
         /\ new[i].declared = cs[i].declared
  <2> SUFFICES ASSUME NEW i \in 1..Len(cs)
               PROVE  /\ new[i] \in Item /\ new[i].text = cs[i].text
                      /\ new[i].label = cs[i].label /\ new[i].sources = cs[i].sources
                      /\ new[i].declared = cs[i].declared
    OBVIOUS
  <2> DEFINE k == IF i \in system THEN "system" ELSE None
             c == cs[i]
             e == [c EXCEPT !.kind = k]
  <2>1. new[i] = e /\ k \in {None, "system"} /\ c \in Item
    BY <1>5
  <2> HIDE DEF new, k, c
  <2>2. /\ e \in Item /\ e.text = c.text /\ e.label = c.label
        /\ e.sources = c.sources /\ e.declared = c.declared
    BY <1>6, <2>1
  <2> HIDE DEF e
  <2> QED
    BY <2>1, <2>2 DEF c
<1>8. new \in Seq(Item) /\ Len(new) = Len(cs) /\ DOMAIN new = 1..Len(cs)
  <2>1. new \in [1..Len(cs) -> Item]
    <3>1. DOMAIN new = 1..Len(cs) /\ new = [i \in 1..Len(cs) |-> new[i]]
      BY <1>5
    <3> HIDE DEF new
    <3> QED
      BY <1>7, <3>1
  <2> HIDE DEF new
  <2> QED
    BY <1>5, <2>1
<1> HIDE DEF new
<1>9. Spelled(new) = Spelled(cs)
  BY <1>5, <1>7, <1>8 DEF Spelled
<1>10. discovery' \in [canisters : Seq(Item), omitted : Nat]
       /\ discovery'.canisters = new /\ discovery'.omitted = discovery.omitted
  BY <1>4, <1>8
<1>11. BoundedWell(Spelled(new), discovery'.omitted, findings.table, named)
  BY <1>3, <1>9, <1>10 DEF Told, cs
<1>12. \A i \in 1..Len(cs) :
          /\ cs[i].label = findings.table[cs[i].text].label
          /\ cs[i].sources = findings.table[cs[i].text].sources
          /\ cs[i].declared = findings.table[cs[i].text].declared
  BY <1>3 DEF Told, cs
<1>13. \A i \in 1..Len(new) :
          /\ new[i].label = findings.table[new[i].text].label
          /\ new[i].sources = findings.table[new[i].text].sources
          /\ new[i].declared = findings.table[new[i].text].declared
  BY <1>7, <1>8, <1>12
<1>14. Told'
  BY <1>1, <1>10, <1>11, <1>13 DEF Told
<1>15. Faithful(findings', named', Ids') /\ GateIsNamed'
  BY <1>1 DEF CrawlInv, Ids, GateIsNamed, GateAuthorizes
<1> QED
  BY <1>1, <1>14, <1>15 DEF CrawlInv, Stage

LEMMA CrawlSteps == CrawlInv /\ CrawlNext => CrawlInv'
BY CrawlAnswers, CrawlRecords, CrawlReadsPage, CrawlReadsEnv, CrawlReadsScript, CrawlMines,
   CrawlBounds, CrawlEnriches DEF CrawlNext

(* What the reply's entries say.                                            *)
LEMMA EntriesAre ==
    ASSUME CrawlInv, at = "done"
    PROVE  /\ discovery.canisters \in Seq(Item) /\ discovery.omitted \in Nat
           /\ ListedTexts = Range(Spelled(discovery.canisters))
           /\ Len(Spelled(discovery.canisters)) = Len(discovery.canisters)
           /\ DOMAIN discovery.canisters = 1..Len(discovery.canisters)
           /\ \A i \in 1..Len(discovery.canisters) :
                 LET c == discovery.canisters[i]
                 IN  /\ c.text = Spelled(discovery.canisters)[i]
                     /\ c.text \in Known(findings.table) /\ c.text \in ListedTexts
                     /\ Suits(findings.table[c.text], About(named, c.text), Ids, c.text)
                     /\ c.label = findings.table[c.text].label
                     /\ c.declared = findings.table[c.text].declared
           /\ BoundedWell(Spelled(discovery.canisters), discovery.omitted, findings.table, named)
<1> DEFINE cs == discovery.canisters
           out == Spelled(cs)
<1>1. Told /\ Faithful(findings, named, Ids)
  BY DEF CrawlInv
<1>2. cs \in Seq(Item) /\ discovery.omitted \in Nat
      /\ BoundedWell(out, discovery.omitted, findings.table, named)
  BY <1>1 DEF Told
<1>3. DOMAIN cs = 1..Len(cs) /\ Len(cs) \in Nat
  BY <1>2
<1>4. out = [i \in 1..Len(cs) |-> cs[i].text]
  BY <1>3 DEF Spelled
<1>5. out \in Seq(Known(findings.table))
  BY <1>2 DEF BoundedWell
<1>6. DOMAIN out = 1..Len(cs) /\ \A i \in 1..Len(cs) : out[i] = cs[i].text
  BY <1>4
<1>7. ListedTexts = Range(out)
  BY <1>3, <1>6 DEF ListedTexts, Range
<1> HIDE DEF out
<1>8. Len(out) = Len(cs)
  BY <1>3, <1>4
<1>9. ASSUME NEW i \in 1..Len(cs)
      PROVE  /\ cs[i].text = out[i] /\ cs[i].text \in Known(findings.table)
             /\ cs[i].text \in ListedTexts
             /\ Suits(findings.table[cs[i].text], About(named, cs[i].text), Ids, cs[i].text)
             /\ cs[i].label = findings.table[cs[i].text].label
             /\ cs[i].declared = findings.table[cs[i].text].declared
  <2>1. out[i] \in Known(findings.table) /\ out[i] \in Range(out)
    BY <1>5, <1>6, <1>8 DEF Range
  <2>2. cs[i].text \in Text /\ findings.table[cs[i].text] # None
    BY <1>6, <2>1 DEF Known
  <2>3. Suits(findings.table[cs[i].text], About(named, cs[i].text), Ids, cs[i].text)
    BY <1>1, <2>2 DEF Faithful
  <2> QED
    BY <1>1, <1>6, <1>7, <2>1, <2>3 DEF Told
<1> QED
  BY <1>2, <1>3, <1>7, <1>8, <1>9 DEF out

(* The declared marker of a listed entry is the gate's answer.              *)
LEMMA DeclaredIs == CrawlInv => DeclaredAsGate
<1> SUFFICES ASSUME CrawlInv, at = "done" PROVE DeclaredAsGate
  BY DEF DeclaredAsGate
<1> DEFINE cs == discovery.canisters
<1>1. Ids = ManifestCanisterIds(manifest.architecture) /\ GateIsNamed
      /\ manifest.architecture \in Seq(Entry)
  BY CrawlAssumption DEF CrawlInv, Ids
<1>2. \A p : GateAuthorizes(p) <=> p \in Ids
  BY <1>1, GateIsListed
<1>3. ASSUME NEW c \in Range(cs)
      PROVE  c.declared <=> /\ GateAuthorizes(Of[c.text])
                            /\ SourcesOf(c.text) \cap {"ic-architecture", "ic-app.json"} # {}
  <2>1. PICK i \in 1..Len(cs) : c = cs[i]
    BY EntriesAre DEF Range
  <2>2. Suits(findings.table[c.text], About(named, c.text), Ids, c.text)
        /\ c.declared = findings.table[c.text].declared
    BY <2>1, EntriesAre
  <2>3. SourcesOf(c.text) = SourcesAmong(About(named, c.text))
    BY DEF SourcesOf, SourcesAmong, About
  <2> QED
    BY <1>2, <2>2, <2>3 DEF Suits, InManifest
<1>4. ASSUME NEW p \in Canister, GateAuthorizes(p)
      PROVE  discovery.omitted > 0 \/ \E t \in ListedTexts : Of[t] = p
  <2>1. PICK m \in named : Of[m.text] = p
    BY <1>1, <1>4 DEF GateIsNamed
  <2>2. m.text \in Texts(named)
    BY DEF Texts
  <2>3. CASE m.text \in ListedTexts
    BY <2>1, <2>3
  <2>4. CASE m.text \notin ListedTexts
    <3> DEFINE left == Texts(named) \ Range(Spelled(cs))
    <3>1. m.text \in left
      BY <2>2, <2>4, EntriesAre
    <3>2. IsFiniteSet(left)
      <4>1. IsFiniteSet(Texts(named))
        BY TextsAreFinite DEF CrawlInv, Faithful
      <4> QED
        BY <4>1, FS_Difference
    <3>3. Cardinality(left) # 0 /\ Cardinality(left) \in Nat
      BY <3>1, <3>2, FS_EmptySet, FS_CardinalityType
    <3>4. discovery.omitted >= Cardinality(left) /\ discovery.omitted \in Nat
      BY EntriesAre DEF BoundedWell
    <3> QED
      BY <3>3, <3>4
  <2> QED
    BY <2>3, <2>4
<1> QED
  BY <1>3, <1>4 DEF DeclaredAsGate

(* The best of all sources is among those a row kept, if none of the rest is*)
(* better.                                                                  *)
LEMMA BestRank ==
    ASSUME NEW X \in SUBSET Source, NEW Y \in SUBSET Source, X # {}, X \subseteq Y
    PROVE  /\ Rank(Y) \in Nat /\ Rank(X) \in Nat /\ Rank(Y) <= Rank(X)
           /\ (\A s \in Y : Rank(X) <= Rank({s})) => Rank(X) = Rank(Y)
<1>1. Rank(X) \in Nat /\ Rank(Y) \in Nat /\ Y # {}
  BY RankIs
<1>2. PICK s \in X : Rank(X) = Rank({s})
  BY RankIs
<1>3. Rank(Y) <= Rank(X)
  BY <1>1, <1>2, RankIs
<1>4. PICK u \in Y : Rank(Y) = Rank({u})
  BY <1>1, RankIs
<1> QED
  BY <1>1, <1>3, <1>4

(* The listing is the best of what was named.                               *)
LEMMA BestIsKept == CrawlInv => BestKept
<1> SUFFICES ASSUME CrawlInv, at = "done" PROVE BestKept
  BY DEF BestKept
<1> DEFINE out == discovery.canisters
           left == {m.text : m \in named} \ ListedTexts
           rank(t) == Rank(SourcesOf(t))
           T == findings.table
           of(t) == Rank(T[t].sources)
           K == Known(T)
<1>1. Faithful(findings, named, Ids) /\ named \in SUBSET Mentions /\ T \in [Text -> Row \cup {None}]
  BY DEF CrawlInv, Faithful, Store
<1>2. \A t : SourcesOf(t) = SourcesAmong(About(named, t))
  BY DEF SourcesOf, SourcesAmong, About
<1>3. \A t : SourcesOf(t) \in SUBSET Source
  BY <1>1 DEF SourcesOf, Mentions
<1>4. ASSUME NEW t \in K PROVE of(t) = rank(t) /\ rank(t) \in Nat
  <2>1. Suits(T[t], About(named, t), Ids, t)
    BY <1>1 DEF Faithful, Known
  <2>2. T[t].sources \in SUBSET Source /\ T[t].sources # {} /\ T[t].sources \subseteq SourcesOf(t)
    BY <1>2, <2>1 DEF Suits, Row
  <2>3. \A s \in SourcesOf(t) : Rank(T[t].sources) <= Rank({s})
    BY <1>2, <2>1 DEF Suits, SourcesAmong, RankOf
  <2> QED
    BY <1>3, <2>2, <2>3, BestRank
<1>5. /\ left = Texts(named) \ Range(Spelled(out)) /\ ListedTexts = Range(Spelled(out))
      /\ BoundedWell(Spelled(out), discovery.omitted, T, named)
      /\ Len(Spelled(out)) = Len(out) /\ DOMAIN out = 1..Len(out) /\ Len(out) \in Nat
      /\ discovery.omitted \in Nat
  BY EntriesAre DEF Texts
<1>6. \A i \in 1..Len(out) :
         /\ out[i].text = Spelled(out)[i] /\ out[i].text \in K
         /\ Suits(T[out[i].text], About(named, out[i].text), Ids, out[i].text)
         /\ out[i].label = T[out[i].text].label
  BY EntriesAre
<1> HIDE DEF out, left
<1>7. ASSUME NEW c \in Range(out), NEW t \in left PROVE rank(c.text) <= rank(t)
  <2>1. PICK i \in 1..Len(out) : c = out[i]
    BY <1>5 DEF Range
  <2>2. c.text \in K /\ c.text = Spelled(out)[i]
    BY <1>6, <2>1
  <2>3. CASE t \in K
    <3>1. of(c.text) <= of(t)
      BY <1>5, <2>1, <2>2, <2>3 DEF BoundedWell
    <3> QED
      BY <1>4, <2>2, <2>3, <3>1
  <2>4. CASE t \notin K
    <3>1. t \in Texts(named) /\ t \in Text /\ T[t] = None
      BY <1>1, <1>5, <2>4 DEF Texts, Mentions, Known
    <3>2. Outranked(T, About(named, t))
      BY <1>1, <3>1 DEF Faithful
    <3>3. \A m \in About(named, t) : of(c.text) <= RankOf(m)
      BY <2>2, <3>2 DEF Outranked
    <3>4. SourcesOf(t) # {} /\ \A s \in SourcesOf(t) : of(c.text) <= Rank({s})
      BY <1>2, <3>1, <3>3 DEF SourcesAmong, RankOf, Texts, About
    <3>5. of(c.text) <= rank(t)
      BY <1>3, <3>4, RankIs
    <3> QED
      BY <1>4, <2>2, <3>5
  <2> QED
    BY <2>3, <2>4
<1>8. ASSUME NEW i \in DOMAIN out, NEW j \in DOMAIN out, i < j
      PROVE  rank(out[i].text) <= rank(out[j].text)
  <2>1. of(out[i].text) <= of(out[j].text)
    BY <1>5, <1>6, <1>8 DEF BoundedWell
  <2> QED
    BY <1>4, <1>5, <1>6, <2>1
<1>9. ASSUME NEW c \in Range(out)
      PROVE  LET labelled == {m \in named : m.text = c.text /\ m.label # None}
             IN  IF labelled = {} THEN c.label = None
                 ELSE \E m \in labelled : /\ m.label = c.label
                                          /\ \A n \in labelled : Rank({m.source}) <= Rank({n.source})
  <2>1. PICK i \in 1..Len(out) : c = out[i]
    BY <1>5 DEF Range
  <2>2. Labels(T[c.text], About(named, c.text)) /\ c.label = T[c.text].label
    BY <1>6, <2>1 DEF Suits
  <2> DEFINE labelled == {m \in named : m.text = c.text /\ m.label # None}
  <2>3. CASE c.label = None
    <3>1. labelled = {}
      BY <2>2, <2>3 DEF Labels, About
    <3> QED
      BY <2>3, <3>1
  <2>4. CASE c.label # None
    <3>1. PICK m \in About(named, c.text) :
             /\ m.label = c.label
             /\ \A n \in About(named, c.text) : n.label # None => RankOf(m) <= RankOf(n)
      BY <2>2, <2>4 DEF Labels
    <3>2. m \in labelled /\ \A n \in labelled : Rank({m.source}) <= Rank({n.source})
      BY <2>4, <3>1 DEF About, RankOf
    <3> QED
      BY <3>1, <3>2
  <2> QED
    BY <2>3, <2>4
<1>10. discovery.omitted >= Cardinality(left)
  BY <1>5 DEF BoundedWell
<1>11. discovery.omitted = 0 => left = {}
  <2>1. IsFiniteSet(left)
    BY <1>1, <1>5, TextsAreFinite, FS_Difference DEF Faithful
  <2>2. Cardinality(left) \in Nat /\ (Cardinality(left) = 0 <=> left = {})
    BY <2>1, FS_EmptySet, FS_CardinalityType
  <2> QED
    BY <1>10, <2>2
<1> QED
  BY <1>7, <1>8, <1>9, <1>10, <1>11 DEF BestKept, out, left

-----------------------------------------------------------------------------
(* open_app.  A known app that is found is one some run of the words names. *)
LEMMA FirstHit ==
    ASSUME NEW N, NEW hits \in SUBSET (Nat \X Nat \X N), N \subseteq Nat, hits # {}
    PROVE  \E h \in hits : \A g \in hits :
              h[1] < g[1] \/ (h[1] = g[1] /\ (h[2] < g[2] \/ (h[2] = g[2] /\ h[3] <= g[3])))
<1>1. \A h \in hits : h[1] \in Nat /\ h[2] \in Nat /\ h[3] \in Nat
  OBVIOUS
<1> DEFINE A == {h[1] : h \in hits}
<1>2. PICK a \in A : \A x \in A : a <= x
  <2>1. A \in SUBSET Nat /\ A # {}
    BY <1>1
  <2> HIDE DEF A
  <2> QED
    BY <2>1, LeastOf
<1> DEFINE H1 == {h \in hits : h[1] = a}
           B  == {h[2] : h \in H1}
<1>3. PICK b \in B : \A x \in B : b <= x
  <2>1. B \in SUBSET Nat /\ B # {}
    BY <1>1, <1>2
  <2> HIDE DEF B
  <2> QED
    BY <2>1, LeastOf
<1> DEFINE H2 == {h \in H1 : h[2] = b}
           C  == {h[3] : h \in H2}
<1>4. PICK c \in C : \A x \in C : c <= x
  <2>1. C \in SUBSET Nat /\ C # {}
    BY <1>1, <1>3
  <2> HIDE DEF C
  <2> QED
    BY <2>1, LeastOf
<1>5. PICK h \in hits : h[1] = a /\ h[2] = b /\ h[3] = c
  BY <1>4
<1>6. ASSUME NEW g \in hits
      PROVE  h[1] < g[1] \/ (h[1] = g[1] /\ (h[2] < g[2] \/ (h[2] = g[2] /\ h[3] <= g[3])))
  <2>1. a <= g[1] /\ (g[1] = a => b <= g[2]) /\ (g[1] = a /\ g[2] = b => c <= g[3])
    BY <1>2, <1>3, <1>4
  <2>2. a \in Nat /\ b \in Nat /\ c \in Nat /\ g[1] \in Nat /\ g[2] \in Nat /\ g[3] \in Nat
    BY <1>1, <1>5
  <2> HIDE DEF A, B, C, H1, H2
  <2> QED
    BY <1>5, <2>1, <2>2
<1> QED
  BY <1>6

(* A stretch of a sequence has the terms between its ends. *)
LEMMA StretchIs ==
    ASSUME NEW T, NEW s \in Seq(T), NEW i \in 1..Len(s), NEW j \in 1..Len(s), i <= j
    PROVE  /\ SubSeq(s, i, j) \in Seq(T)
           /\ Len(SubSeq(s, i, j)) = j - i + 1
           /\ \A k \in 1..(j - i + 1) : SubSeq(s, i, j)[k] = s[i + k - 1]
<1>1. i \in 1..(Len(s) + 1) /\ j \in (i - 1)..Len(s)
  OBVIOUS
<1> QED
  BY <1>1, SubSeqProperties

(* find_known_app: the app it answers with has an alias some run of whole   *)
(* words spells.                                                            *)
LEMMA FindIs ==
    ASSUME NEW words, words \in Seq(Range(words))
    PROVE  FindKnownApp(words) # None =>
              /\ FindKnownApp(words) \in Registered
              /\ \E n \in DOMAIN KnownApps, i, j \in DOMAIN words :
                    /\ KnownApps[n].url = FindKnownApp(words)
                    /\ i <= j /\ FlattenSeq(SubSeq(words, i, j)) \in KnownApps[n].aliases
<1> DEFINE read == FirstOf(words, MaxTokens)
           W == Range(words)
           hits == {h \in (DOMAIN read) \X (DOMAIN read) \X (DOMAIN KnownApps) :
                       h[1] <= h[2] /\ Alias(read, h[1], h[2], h[3])}
           before(g, h) == g[1] < h[1] \/ (g[1] = h[1] /\ (g[2] < h[2] \/ (g[2] = h[2] /\ g[3] <= h[3])))
           first == CHOOSE h \in hits : \A g \in hits : before(h, g)
<1>1. /\ read \in Seq(W) /\ \A i \in 1..Len(read) : read[i] = words[i]
      /\ Len(read) = IF Len(words) <= MaxTokens THEN Len(words) ELSE MaxTokens
      /\ MaxTokens \in Nat /\ words \in Seq(W)
  <2> HIDE DEF W
  <2>1. MaxTokens \in Nat /\ words \in Seq(W)
    BY OpenAssumption DEF W
  <2> QED
    BY <2>1, FirstOfIs
<1> HIDE DEF read, W
<1>2. /\ DOMAIN read = 1..Len(read) /\ DOMAIN words = 1..Len(words)
      /\ Len(read) \in Nat /\ Len(words) \in Nat /\ Len(read) <= Len(words)
  BY <1>1
<1>3. FindKnownApp(words) = IF hits = {} THEN None ELSE KnownApps[first[3]].url
  BY DEF FindKnownApp, read
<1> SUFFICES ASSUME hits # {}
             PROVE  /\ KnownApps[first[3]].url \in Registered
                    /\ \E n \in DOMAIN KnownApps, i, j \in DOMAIN words :
                          /\ KnownApps[n].url = KnownApps[first[3]].url
                          /\ i <= j /\ FlattenSeq(SubSeq(words, i, j)) \in KnownApps[n].aliases
  BY <1>3
<1>4. \E h \in hits : \A g \in hits : before(h, g)
  <2> DEFINE N == DOMAIN KnownApps
  <2>1. N \subseteq Nat
    BY OpenAssumption
  <2>2. hits \in SUBSET (Nat \X Nat \X N)
    BY <1>2
  <2> HIDE DEF N, hits
  <2> QED
    BY <2>1, <2>2, FirstHit
<1>5. first \in hits
  <2> HIDE DEF hits
  <2> QED
    BY <1>4
<1> HIDE DEF first
<1> DEFINE i == first[1]
           j == first[2]
           n == first[3]
<1>6. /\ i \in 1..Len(read) /\ j \in 1..Len(read) /\ n \in DOMAIN KnownApps
      /\ i <= j /\ Alias(read, i, j, n)
  BY <1>2, <1>5
<1> HIDE DEF i, j, n
<1>7. SubSeq(read, i, j) = SubSeq(words, i, j)
  <2>1. i \in 1..Len(words) /\ j \in 1..Len(words) /\ i <= j
    BY <1>2, <1>6
  <2>2. /\ SubSeq(read, i, j) \in Seq(W) /\ SubSeq(words, i, j) \in Seq(W)
        /\ Len(SubSeq(read, i, j)) = j - i + 1 /\ Len(SubSeq(words, i, j)) = j - i + 1
        /\ \A k \in 1..(j - i + 1) : SubSeq(read, i, j)[k] = read[i + k - 1]
        /\ \A k \in 1..(j - i + 1) : SubSeq(words, i, j)[k] = words[i + k - 1]
    BY <1>1, <1>6, <2>1, StretchIs
  <2>3. \A k \in 1..(j - i + 1) : i + k - 1 \in 1..Len(read)
    BY <1>2, <1>6
  <2>4. \A k \in 1..(j - i + 1) : SubSeq(read, i, j)[k] = SubSeq(words, i, j)[k]
    BY <1>1, <2>2, <2>3
  <2> QED
    BY <2>2, <2>4, SeqEqual
<1>8. FlattenSeq(SubSeq(words, i, j)) \in KnownApps[n].aliases
  BY <1>6, <1>7 DEF Alias
<1>9. KnownApps[n].url \in Registered
  BY <1>6, OpenAssumption
<1>10. i \in DOMAIN words /\ j \in DOMAIN words /\ i <= j
  BY <1>2, <1>6
<1>11. KnownApps[first[3]].url = KnownApps[n].url
  BY DEF n
<1> HIDE DEF n
<1> QED
  BY <1>6, <1>8, <1>9, <1>10, <1>11

(* A listing without an entry is of a crawl that met no id.                 *)
LEMMA EmptyIsNothing == CrawlInv /\ at = "done" /\ discovery.canisters = <<>> => named = {}
<1> SUFFICES ASSUME CrawlInv, at = "done", discovery.canisters = <<>>, NEW m \in named PROVE FALSE
  OBVIOUS
<1> DEFINE T == findings.table
           out == Spelled(discovery.canisters)
<1>1. Faithful(findings, named, Ids)
  BY DEF CrawlInv
<1>2. Len(out) = 0 /\ out \in Seq(Known(T)) /\ (Known(T) # {} => out # <<>>)
  <2>1. Len(discovery.canisters) = 0
    OBVIOUS
  <2>2. BoundedWell(out, discovery.omitted, T, named) /\ Len(out) = Len(discovery.canisters)
    BY EntriesAre
  <2> QED
    BY <2>1, <2>2 DEF BoundedWell
<1>3. Known(T) = {}
  <2> HIDE DEF out
  <2>1. out = <<>>
    BY <1>2
  <2> QED
    BY <1>2, <2>1
<1>4. m.text \in Text /\ m.text \in Texts(named)
  BY <1>1 DEF Faithful, Mentions, Texts
<1>5. T[m.text] = None
  BY <1>3, <1>4 DEF Known
<1>6. Cardinality(Known(T)) >= MaxFound
  BY <1>1, <1>4, <1>5 DEF Faithful, Outranked
<1>7. Cardinality(Known(T)) = 0
  BY <1>3, FS_EmptySet
<1>8. MaxFound \in Nat /\ MaxFound > 0
  BY CrawlAssumption
<1> QED
  BY <1>6, <1>7, <1>8

(* The interfaces read on the way are of listed entries the gate lets read. *)
LEMMA ProbedIs ==
    ASSUME CrawlInv, at = "done"
    PROVE  \A c \in Range(FirstOf(Keep(discovery.canisters,
                              {c \in Range(discovery.canisters) : Probed(c)}), MaxProbes)) :
              GateAuthorizes(Of[c.text]) /\ c.text \in ListedTexts
<1> DEFINE cs == discovery.canisters
           S == {c \in Range(cs) : Probed(c)}
           kept == Keep(cs, S)
           targets == FirstOf(kept, MaxProbes)
<1>1. cs \in Seq(Item)
  BY EntriesAre
<1>2. Picks(Places(cs, S), kept, cs, S)
  <2> HIDE DEF cs, S
  <2> QED
    BY <1>1, KeepIs
<1>3. kept \in Seq(S)
  BY <1>2 DEF Picks
<1>4. MaxProbes \in Nat
  BY OpenAssumption
<1>5. targets \in Seq(S)
  <2> HIDE DEF kept, S
  <2> QED
    BY <1>3, <1>4, FirstOfIs
<1> HIDE DEF targets
<1>6. Range(targets) \subseteq S
  <2> HIDE DEF S
  <2>1. \A i \in DOMAIN targets : targets[i] \in S
    BY <1>5
  <2> QED
    BY <2>1 DEF Range
<1>7. \A c \in S : c.declared /\ c \in Range(cs)
  BY DEF Probed
<1>8. \A c \in S : GateAuthorizes(Of[c.text]) /\ c.text \in ListedTexts
  BY <1>7, DeclaredIs DEF DeclaredAsGate, ListedTexts
<1> QED
  BY <1>6, <1>8 DEF targets

(* open_app's state: what was asked for is what is resolved, and a reply is *)
(* only there when its parts are.                                           *)
OpenInv ==
    /\ CrawlInv
    /\ query \in Queries \cup {None}
    /\ query = None => app = None /\ opened = None
    /\ app # None => query # None /\ app = ClassifyAppQuery(query) /\ app.url # None
    /\ verdict \in Verdict \cup {None} /\ (verdict # None => app # None)
    /\ verdict \in {"not_ic", "unreachable"} => opened # None
    /\ OpenedAsAsked

(* classify_app_query: the URL it opens is the one the words name, or the   *)
(* one the query spells.                                                    *)
LEMMA ClassifiedIs ==
    ASSUME NEW q \in Queries
    PROVE  LET found == ClassifyAppQuery(q)
           IN  /\ found.url \in AppUrl \cup {None}
               /\ found.source \in {"known_app_registry", "as_provided"}
               /\ found.source = "known_app_registry" =>
                     /\ ~q.scheme
                     /\ \E n \in DOMAIN KnownApps, i, j \in DOMAIN q.words :
                           /\ KnownApps[n].url = found.url
                           /\ i <= j /\ FlattenSeq(SubSeq(q.words, i, j)) \in KnownApps[n].aliases
               /\ found.source = "as_provided" /\ found.url # None => found.url = q.url
               /\ found.url = None => q.url = None \/ ~q.dotted
               /\ found.url = None /\ ~q.scheme => FindKnownApp(q.words) = None
<1> DEFINE known == FindKnownApp(q.words)
<1>1. q.words \in Seq(Range(q.words)) /\ q.url \in AppUrl \cup {None}
  BY OpenAssumption
<1>2. known # None =>
          /\ known \in Registered
          /\ \E n \in DOMAIN KnownApps, i, j \in DOMAIN q.words :
                /\ KnownApps[n].url = known
                /\ i <= j /\ FlattenSeq(SubSeq(q.words, i, j)) \in KnownApps[n].aliases
  BY <1>1, FindIs
<1>3. Registered \subseteq AppUrl /\ None \notin AppUrl
  BY OpenAssumption
<1> HIDE DEF known
<1>4. CASE q.scheme
  <2>1. ClassifyAppQuery(q) = [url |-> q.url, source |-> "as_provided"]
    BY <1>4 DEF ClassifyAppQuery
  <2> QED
    BY <1>1, <1>4, <2>1
<1>5. CASE ~q.scheme /\ known # None
  <2>1. ClassifyAppQuery(q) = [url |-> known, source |-> "known_app_registry"]
    BY <1>5 DEF ClassifyAppQuery, known
  <2> QED
    BY <1>2, <1>3, <1>5, <2>1
<1>6. CASE ~q.scheme /\ known = None
  <2>1. ClassifyAppQuery(q) = [url |-> IF q.dotted THEN q.url ELSE None, source |-> "as_provided"]
    BY <1>6 DEF ClassifyAppQuery, known
  <2> QED
    BY <1>1, <1>6, <2>1 DEF known
<1> QED
  BY <1>4, <1>5, <1>6

(* similar_known_app offers a registered app, and only for another host.    *)
LEMMA SimilarIs ==
    ASSUME NEW u \in AppUrl
    PROVE  SimilarKnownApp(u) # None => u \notin Registered /\ SimilarKnownApp(u) \in Registered
<1>1. HostWords[u] \in Range(HostWords)
  BY OpenAssumption DEF Range
<1>2. HostWords[u] \in Seq(Range(HostWords[u]))
  BY <1>1, OpenAssumption
<1> QED
  BY <1>2, FindIs DEF SimilarKnownApp

(* open_app step by step.                                                   *)
LEMMA OpenStarts == OpenInit => OpenInv
<1> SUFFICES ASSUME OpenInit PROVE OpenInv
  OBVIOUS
<1>1. CrawlInv
  BY CrawlStarts DEF OpenInit
<1>2. query = None /\ app = None /\ verdict = None /\ opened = None
  BY DEF OpenInit
<1>3. OpenedAsAsked
  BY <1>2 DEF OpenedAsAsked
<1>4. None \notin Verdict
  BY OpenAssumption
<1> QED
  BY <1>1, <1>2, <1>3, <1>4 DEF OpenInv, Verdict

LEMMA RefusalIs ==
    ASSUME NEW why, NEW repair
    PROVE  /\ Refused(why, repair).is = "refused" /\ Refused(why, repair).why = why
           /\ Refused(why, repair).didYouMean = repair
BY DEF Refused

LEMMA Asks == ASSUME OpenInv, Ask PROVE OpenInv'
<1>1. /\ query = None /\ app = None /\ opened = None /\ verdict = None /\ CrawlInv
      /\ verdict' = verdict /\ UNCHANGED crawlVars
  BY DEF Ask, OpenInv
<1>2. PICK q \in Queries :
         LET found == ClassifyAppQuery(q)
         IN  /\ query' = q
             /\ IF found.url = None
                THEN /\ opened' = IF q.scheme \/ q.dotted THEN Refused("bad url", None)
                                  ELSE Refused("unknown name", FindAppByName(q.words))
                     /\ UNCHANGED app
                ELSE app' = found /\ UNCHANGED opened
  BY DEF Ask
<1> DEFINE found == ClassifyAppQuery(q)
<1>3. /\ found.url = None => q.url = None \/ ~q.dotted
      /\ found.url = None /\ ~q.scheme => FindKnownApp(q.words) = None
  BY ClassifiedIs
<1>4. None \notin Queries /\ None \notin Verdict
  BY OpenAssumption
<1>5. CrawlInv'
  BY <1>1, CrawlRests
<1> HIDE DEF found
<1>6. CASE found.url = None
  <2>1. query' = q /\ app' = None /\ verdict' = None
    BY <1>1, <1>2, <1>6 DEF found
  <2>2. opened' = Refused("bad url", None) \/ (opened' = Refused("unknown name", None))
    <3>1. CASE q.scheme \/ q.dotted
      BY <1>2, <1>6, <3>1 DEF found
    <3>2. CASE ~(q.scheme \/ q.dotted)
      BY <1>2, <1>3, <1>6, <3>2 DEF found, FindAppByName
    <3> QED
      BY <3>1, <3>2
  <2>3. opened'.is = "refused" /\ opened'.didYouMean = None
    <3>1. \A why : Refused(why, None).is = "refused" /\ Refused(why, None).didYouMean = None
      BY DEF Refused
    <3> QED
      BY <2>2, <3>1
  <2>4. OpenedAsAsked'
    BY <1>3, <1>6, <2>1, <2>3 DEF OpenedAsAsked
  <2> QED
    BY <1>4, <1>5, <2>1, <2>4 DEF OpenInv, Verdict
<1>7. CASE found.url # None
  <2>1. query' = q /\ app' = found /\ verdict' = None /\ opened' = None
    BY <1>1, <1>2, <1>7 DEF found
  <2>2. OpenedAsAsked'
    BY <2>1 DEF OpenedAsAsked
  <2> QED
    BY <1>4, <1>5, <1>7, <2>1, <2>2 DEF OpenInv, Verdict, found
<1> QED
  BY <1>6, <1>7

LEMMA Crawls == ASSUME OpenInv, Crawl PROVE OpenInv'
<1>1. CrawlInv' /\ opened = None /\ UNCHANGED openVars
  BY CrawlSteps DEF Crawl, Crawling, OpenInv
<1>2. query' = query /\ app' = app /\ verdict' = verdict /\ opened' = None
  BY <1>1 DEF openVars
<1>3. OpenedAsAsked'
  BY <1>2 DEF OpenedAsAsked
<1> QED
  BY <1>1, <1>2, <1>3 DEF OpenInv

LEMMA Resolves == ASSUME OpenInv, Resolve PROVE OpenInv'
<1>1. /\ app # None /\ opened = None /\ verdict = None /\ UNCHANGED crawlVars
      /\ query' = query /\ app' = app
  BY DEF Resolve, Crawling
<1>2. verdict' \in Verdict
  BY DEF Resolve, Verdict
<1>3. opened' = IF verdict' \in {"not_ic", "unreachable"}
                THEN Refused(verdict', SimilarKnownApp(app.url)) ELSE None
  BY DEF Resolve
<1>4. None \notin Verdict /\ None \notin Refusals
  BY OpenAssumption
<1>5. CrawlInv'
  BY <1>1, CrawlRests DEF OpenInv
<1>6. query \in Queries /\ app = ClassifyAppQuery(query) /\ app.url \in AppUrl
  BY <1>1, ClassifiedIs DEF OpenInv
<1> DEFINE repair == SimilarKnownApp(app.url)
<1>7. repair # None => app.url \notin Registered /\ repair \in Registered
  BY <1>6, SimilarIs
<1> HIDE DEF repair
<1>8. CASE verdict' \in {"not_ic", "unreachable"}
  <2>1. opened' = Refused(verdict', repair)
    BY <1>3, <1>8 DEF repair
  <2>2. opened'.is = "refused" /\ opened'.why = verdict' /\ opened'.didYouMean = repair
    BY <2>1, RefusalIs
  <2>3. opened' \in Refusals
    <3>1. repair \in AppUrl \cup {None}
      BY <1>7, OpenAssumption
    <3> QED
      BY <1>2, <2>1, <3>1 DEF Refused, Refusals
  <2>4. verdict' # "unknown name"
    BY <1>8
  <2>5. OpenedAsAsked'
    BY <1>1, <1>2, <1>4, <1>7, <2>2, <2>4 DEF OpenedAsAsked
  <2> QED
    BY <1>1, <1>2, <1>4, <1>5, <1>6, <2>3, <2>5 DEF OpenInv
<1>9. CASE verdict' \notin {"not_ic", "unreachable"}
  <2>1. opened' = None
    BY <1>3, <1>9
  <2>2. OpenedAsAsked'
    BY <2>1 DEF OpenedAsAsked
  <2> QED
    BY <1>1, <1>2, <1>5, <1>6, <1>9, <2>1, <2>2 DEF OpenInv
<1> QED
  BY <1>8, <1>9

LEMMA Opens == ASSUME OpenInv, Open PROVE OpenInv'
<1>1. /\ app # None /\ opened = None /\ verdict # None /\ at \in {"done", "failed"}
      /\ UNCHANGED <<query, app, verdict, crawlVars>> /\ CrawlInv
  BY DEF Open, Crawling, OpenInv
<1> DEFINE listed  == IF at = "done" THEN discovery ELSE [canisters |-> <<>>, omitted |-> 0]
           targets == FirstOf(Keep(listed.canisters, {c \in Range(listed.canisters) : Probed(c)}), MaxProbes)
           probed  == {c.text : c \in Range(targets)}
           note    == ResolutionNote(verdict, app.url)
<1>2. opened' = [is |-> "opened", canisters |-> listed.canisters, omitted |-> listed.omitted,
                 error |-> at = "failed", probed |-> probed, note |-> note]
  BY DEF Open
<1>3. verdict \in {"declared", "known", "assumed"}
  BY <1>1 DEF OpenInv, Verdict
<1>4. query \in Queries /\ app = ClassifyAppQuery(query) /\ app.url \in AppUrl
  BY <1>1, ClassifiedIs DEF OpenInv
<1>5. /\ app.source = "known_app_registry" =>
            /\ ~query.scheme
            /\ \E n \in DOMAIN KnownApps, i, j \in DOMAIN query.words :
                  /\ KnownApps[n].url = app.url
                  /\ i <= j /\ FlattenSeq(SubSeq(query.words, i, j)) \in KnownApps[n].aliases
      /\ app.source = "as_provided" => app.url = query.url
  BY <1>1, <1>4, ClassifiedIs DEF OpenInv
<1>6. listed.canisters = <<>> /\ at # "failed" => named = {}
  BY <1>1, EmptyIsNothing
<1>7. \A t \in probed : at = "done" => GateAuthorizes(Of[t]) /\ t \in ListedTexts
  BY <1>1, ProbedIs
<1>8. at = "failed" => probed = {}
  <2> SUFFICES ASSUME at = "failed" PROVE probed = {}
    OBVIOUS
  <2> DEFINE cs == listed.canisters
             S == {c \in Range(cs) : Probed(c)}
             kept == Keep(cs, S)
  <2>1. cs \in Seq({}) /\ MaxProbes \in Nat
    BY OpenAssumption
  <2>2. kept \in Seq({})
    <3> HIDE DEF cs, S
    <3> QED
      BY <2>1, KeepIs
  <2>3. targets \in Seq({})
    <3>1. targets = FirstOf(kept, MaxProbes)
      OBVIOUS
    <3> HIDE DEF kept, targets
    <3> QED
      BY <2>1, <2>2, <3>1, FirstOfIs
  <2> HIDE DEF targets
  <2>4. \A i \in DOMAIN targets : FALSE
    BY <2>3
  <2> QED
    BY <2>4 DEF Range
<1>9. /\ verdict = "known" \/ verdict = "assumed" => note.caveat
      /\ note.lookalike # None => note.lookalike \in Registered /\ app.url \notin Registered
  BY <1>4, SimilarIs DEF ResolutionNote
<1> HIDE DEF listed, targets, probed, note
<1>10. /\ opened'.is = "opened" /\ opened'.canisters = listed.canisters
       /\ opened'.error = (at = "failed") /\ opened'.probed = probed /\ opened'.note = note
  BY <1>2
<1>11. /\ query' = query /\ app' = app /\ verdict' = verdict /\ named' = named
       /\ manifest' = manifest /\ discovery' = discovery
  BY <1>1 DEF crawlVars
<1>12. \A p : GateAuthorizes(p)' <=> GateAuthorizes(p)
  BY <1>11 DEF GateAuthorizes
<1>13. ListedTexts' = ListedTexts
  BY <1>11 DEF ListedTexts
<1>14. \A t \in probed : GateAuthorizes(Of[t]) /\ t \in ListedTexts
  BY <1>1, <1>7, <1>8
<1>15. OpenedAsAsked'
  BY <1>3, <1>5, <1>6, <1>9, <1>10, <1>11, <1>12, <1>13, <1>14 DEF OpenedAsAsked
<1>16. CrawlInv'
  BY <1>1, CrawlRests
<1> QED
  BY <1>1, <1>3, <1>11, <1>15, <1>16 DEF OpenInv

LEMMA OpenRests == OpenInv /\ UNCHANGED <<crawlVars, openVars>> => OpenInv'
<1> SUFFICES ASSUME OpenInv, UNCHANGED <<crawlVars, openVars>> PROVE OpenInv'
  OBVIOUS
<1>1. CrawlInv'
  BY CrawlRests DEF OpenInv
<1>2. UNCHANGED <<query, app, verdict, opened, named, manifest, discovery>>
  BY DEF crawlVars, openVars
<1>3. OpenedAsAsked'
  BY <1>2 DEF OpenInv, OpenedAsAsked, GateAuthorizes, ListedTexts
<1> QED
  BY <1>1, <1>2, <1>3 DEF OpenInv

-----------------------------------------------------------------------------
(* The readers.  A function that is defined step by step exists.            *)
Stepwise(f, T, x, step, k) ==
    f \in [0..k -> T] /\ f[0] = x /\ \A n \in 1..k : f[n] = step[n][f[n - 1]]

Stepping(T, x, step, k) == k \in Nat /\ x \in T /\ step \in [1..k -> [T -> T]]

LEMMA StepByStep ==
    ASSUME NEW T, NEW x, NEW step, NEW k, Stepping(T, x, step, k)
    PROVE  \E f : Stepwise(f, T, x, step, k)
<1> DEFINE Solves(f, j) == /\ f \in [0..j -> T] /\ f[0] = x
                           /\ \A n \in 1..j : f[n] = step[n][f[n - 1]]
           S == {j \in Nat : j <= k => \E f : Solves(f, j)}
<1>0. k \in Nat /\ x \in T /\ step \in [1..k -> [T -> T]]
  BY DEF Stepping
<1>1. 0 \in S
  <2> DEFINE f == [n \in 0..0 |-> x]
  <2>1. Solves(f, 0)
    BY <1>0
  <2> QED
    BY <2>1
<1>2. ASSUME NEW j \in Nat, j \in S PROVE j + 1 \in S
  <2> SUFFICES ASSUME j + 1 <= k PROVE \E g : Solves(g, j + 1)
    OBVIOUS
  <2>1. PICK f : Solves(f, j)
    BY <1>0, <1>2
  <2>2. j + 1 \in 1..k /\ f[j] \in T
    BY <1>0, <2>1
  <2>3. step[j + 1][f[j]] \in T
    BY <1>0, <2>2
  <2> DEFINE g == [n \in 0..(j + 1) |-> IF n = j + 1 THEN step[j + 1][f[j]] ELSE f[n]]
  <2>4. g \in [0..(j + 1) -> T] /\ g[0] = x
    BY <2>1, <2>3
  <2>5. ASSUME NEW n \in 1..(j + 1) PROVE g[n] = step[n][g[n - 1]]
    <3>1. CASE n = j + 1
      <4>1. g[n] = step[j + 1][f[j]] /\ n - 1 = j /\ g[j] = f[j]
        BY <3>1
      <4> HIDE DEF g
      <4> QED
        BY <3>1, <4>1
    <3>2. CASE n # j + 1
      <4>1. n \in 1..j /\ g[n] = f[n] /\ g[n - 1] = f[n - 1]
        BY <3>2
      <4> HIDE DEF g
      <4> QED
        BY <2>1, <4>1
    <3> QED
      BY <3>1, <3>2
  <2> HIDE DEF g
  <2> QED
    BY <2>4, <2>5
<1>3. k \in S
  <2> HIDE DEF S
  <2> QED
    BY <1>0, <1>1, <1>2, Climb
<1> QED
  BY <1>0, <1>3 DEF Stepwise

(* The sum of a list of numbers is a number.                                *)
LEMMA TotalIs == ASSUME NEW seq \in Seq(Nat) PROVE Total(seq) \in Nat
<1> DEFINE k == Len(seq)
           Solves(f) == f = [n \in 0..k |-> IF n = 0 THEN 0 ELSE f[n - 1] + seq[n]]
           sum == CHOOSE f : Solves(f)
           step == [n \in 1..k |-> [y \in Nat |-> y + seq[n]]]
<1>1. k \in Nat /\ \A n \in 1..k : seq[n] \in Nat
  OBVIOUS
<1>2. \E f : Solves(f)
  <2>1. step \in [1..k -> [Nat -> Nat]]
    BY <1>1
  <2>2. \A n \in 1..k, y \in Nat : step[n][y] = y + seq[n]
    BY <1>1
  <2> HIDE DEF step, k
  <2>3. PICK f \in [0..k -> Nat] : f[0] = 0 /\ \A n \in 1..k : f[n] = step[n][f[n - 1]]
    <3> DEFINE x == 0
               T == Nat
    <3>1. Stepping(T, x, step, k)
      BY <1>1, <2>1 DEF Stepping
    <3> HIDE DEF x, T
    <3>2. PICK f : Stepwise(f, T, x, step, k)
      BY <3>1, StepByStep
    <3> QED
      BY <3>2 DEF x, T, Stepwise
  <2>4. \A n \in 1..k : n - 1 \in 0..k
    BY <1>1
  <2>5. \A n \in 1..k : f[n] = f[n - 1] + seq[n]
    BY <2>2, <2>3, <2>4
  <2>6. \A n \in 0..k : f[n] = IF n = 0 THEN 0 ELSE f[n - 1] + seq[n]
    BY <1>1, <2>3, <2>5
  <2>7. f = [n \in 0..k |-> IF n = 0 THEN 0 ELSE f[n - 1] + seq[n]]
    BY <2>3, <2>6
  <2> QED
    BY <2>7
<1>3. Solves(sum)
  <2> HIDE DEF Solves
  <2> QED
    BY <1>2
<1>4. Total(seq) = sum[k]
  BY DEF Total
<1> HIDE DEF sum, k
<1>5. \A n \in 0..k : sum[n] = IF n = 0 THEN 0 ELSE sum[n - 1] + seq[n]
  BY <1>3
<1> DEFINE S == {n \in Nat : n <= k => sum[n] \in Nat}
<1>6. 0 \in S
  BY <1>1, <1>5
<1>7. ASSUME NEW n \in Nat, n \in S PROVE n + 1 \in S
  <2> SUFFICES ASSUME n + 1 <= k PROVE sum[n + 1] \in Nat
    OBVIOUS
  <2>1. n + 1 \in 0..k /\ n + 1 \in 1..k /\ n + 1 # 0 /\ (n + 1) - 1 = n /\ sum[n] \in Nat
    BY <1>1, <1>7
  <2>2. sum[n + 1] = sum[n] + seq[n + 1]
    BY <1>5, <2>1
  <2> QED
    BY <1>1, <2>1, <2>2
<1>8. k \in S
  <2> HIDE DEF S
  <2> QED
    BY <1>1, <1>6, <1>7, Climb
<1> QED
  BY <1>1, <1>4, <1>8

(* Distinct leaves every element once, in the order of their first places:  *)
(* one that is left before another comes before it at every place of it.    *)
LEMMA DistinctIs ==
    ASSUME NEW T, NEW seq \in Seq(T)
    PROVE  /\ Distinct(seq) \in Seq(T) /\ Range(Distinct(seq)) = Range(seq)
           /\ \A i, j \in 1..Len(Distinct(seq)) : Distinct(seq)[i] = Distinct(seq)[j] => i = j
           /\ \A m \in 1..Len(seq), i, j \in 1..Len(Distinct(seq)) :
                 i < j /\ seq[m] = Distinct(seq)[j]
                     => \E l \in 1..(m - 1) : seq[l] = Distinct(seq)[i]
<1> DEFINE k == Len(seq)
           added(s, y) == IF y \in Range(s) THEN s ELSE Append(s, y)
           Solves(f) == f = [n \in 0..k |-> IF n = 0 THEN <<>>
                               ELSE IF seq[n] \in Range(f[n - 1]) THEN f[n - 1]
                               ELSE Append(f[n - 1], seq[n])]
           seen == CHOOSE f : Solves(f)
           step == [n \in 1..k |-> [s \in Seq(T) |-> added(s, seq[n])]]
<1>1. k \in Nat /\ (\A n \in 1..k : seq[n] \in T) /\ DOMAIN seq = 1..k
  OBVIOUS
<1>2. \A s \in Seq(T), y \in T : added(s, y) \in Seq(T)
  OBVIOUS
<1>3. \E f : Solves(f)
  <2>1. step \in [1..k -> [Seq(T) -> Seq(T)]]
    BY <1>1, <1>2
  <2>2. \A n \in 1..k, s \in Seq(T) : step[n][s] = added(s, seq[n])
    BY <1>1
  <2> HIDE DEF step, k
  <2>3. PICK f \in [0..k -> Seq(T)] : f[0] = <<>> /\ \A n \in 1..k : f[n] = step[n][f[n - 1]]
    <3> DEFINE x == <<>>
               U == Seq(T)
    <3>1. Stepping(U, x, step, k)
      BY <1>1, <2>1 DEF Stepping
    <3> HIDE DEF x, U
    <3>2. PICK f : Stepwise(f, U, x, step, k)
      BY <3>1, StepByStep
    <3> QED
      BY <3>2 DEF x, U, Stepwise
  <2>4. \A n \in 1..k : n - 1 \in 0..k
    BY <1>1
  <2>5. \A n \in 1..k : f[n] = added(f[n - 1], seq[n])
    BY <2>2, <2>3, <2>4
  <2>6. ASSUME NEW n \in 0..k
        PROVE  f[n] = IF n = 0 THEN <<>>
                      ELSE IF seq[n] \in Range(f[n - 1]) THEN f[n - 1]
                      ELSE Append(f[n - 1], seq[n])
    <3>1. CASE n = 0
      BY <2>3, <3>1
    <3>2. CASE n # 0
      <4>1. n \in 1..k
        BY <1>1, <3>2
      <4> QED
        BY <2>5, <3>2, <4>1
    <3> QED
      BY <3>1, <3>2
  <2>7. Solves(f)
    BY <2>3, <2>6
  <2> QED
    BY <2>7
<1>4. Solves(seen)
  <2> HIDE DEF Solves
  <2> QED
    BY <1>3
<1>5. Distinct(seq) = seen[k]
  BY DEF Distinct
<1> HIDE DEF seen, k
<1>6. \A n \in 0..k : seen[n] = IF n = 0 THEN <<>> ELSE added(seen[n - 1], seq[n])
  BY <1>4
<1> DEFINE Good(s, n) == /\ s \in Seq(T) /\ Range(s) = {seq[i] : i \in 1..n}
                         /\ \A i, j \in 1..Len(s) : s[i] = s[j] => i = j
           Later(s, n) == \A m \in 1..n, i, j \in 1..Len(s) :
                             i < j /\ seq[m] = s[j] => \E l \in 1..(m - 1) : seq[l] = s[i]
           S == {n \in Nat : n <= k => Good(seen[n], n) /\ Later(seen[n], n)}
<1>7. 0 \in S
  <2>1. seen[0] = <<>>
    BY <1>1, <1>6
  <2>2. <<>> \in Seq(T) /\ Len(<<>>) = 0 /\ Range(<<>>) = {}
    BY DEF Range
  <2>3. {seq[i] : i \in 1..0} = {}
    OBVIOUS
  <2>4. Good(seen[0], 0)
    BY <2>1, <2>2, <2>3
  <2>5. Later(seen[0], 0)
    OBVIOUS
  <2> QED
    BY <2>4, <2>5
<1>8. ASSUME NEW n \in Nat, n \in S PROVE n + 1 \in S
  <2> SUFFICES ASSUME n + 1 <= k PROVE Good(seen[n + 1], n + 1) /\ Later(seen[n + 1], n + 1)
    OBVIOUS
  <2> DEFINE s == seen[n]
             y == seq[n + 1]
  <2>1. n + 1 \in 0..k /\ n + 1 \in 1..k /\ n + 1 # 0 /\ (n + 1) - 1 = n
        /\ Good(s, n) /\ Later(s, n)
    BY <1>1, <1>8
  <2>2. seen[n + 1] = added(s, y) /\ y \in T
    BY <1>1, <1>6, <2>1
  <2>3. {seq[i] : i \in 1..(n + 1)} = {seq[i] : i \in 1..n} \cup {y}
    <3>1. 1..(n + 1) = (1..n) \cup {n + 1}
      OBVIOUS
    <3> QED
      BY <3>1
  <2> HIDE DEF s, y
  <2>4. ASSUME NEW m \in 1..(n + 1), NEW x \in Range(s), m = n + 1
        PROVE  \E l \in 1..(m - 1) : seq[l] = x
    <3>1. x \in {seq[l] : l \in 1..n} /\ m - 1 = n
      BY <2>1, <2>4
    <3> QED
      BY <3>1
  <2>5. \A i \in 1..Len(s) : s[i] \in Range(s)
    BY <2>1 DEF Range
  <2>6. CASE y \in Range(s)
    <3>1. seen[n + 1] = s /\ Good(s, n + 1)
      BY <2>1, <2>2, <2>3, <2>6
    <3>2. ASSUME NEW m \in 1..(n + 1), NEW i \in 1..Len(s), NEW j \in 1..Len(s), i < j, seq[m] = s[j]
          PROVE  \E l \in 1..(m - 1) : seq[l] = s[i]
      <4>1. CASE m = n + 1
        BY <2>4, <2>5, <4>1
      <4>2. CASE m # n + 1
        <5>1. m \in 1..n
          BY <4>2
        <5> QED
          BY <2>1, <3>2, <5>1
      <4> QED
        BY <4>1, <4>2
    <3> QED
      BY <3>1, <3>2
  <2>7. CASE y \notin Range(s)
    <3> DEFINE r == Append(s, y)
    <3>1. /\ r \in Seq(T) /\ Len(r) = Len(s) + 1 /\ Len(s) \in Nat /\ r[Len(s) + 1] = y
          /\ \A i \in 1..Len(s) : r[i] = s[i]
      BY <2>1, <2>2
    <3>2. DOMAIN s = 1..Len(s) /\ DOMAIN r = 1..Len(r)
      BY <2>1, <3>1
    <3>3. seen[n + 1] = r
      BY <2>2, <2>7
    <3> HIDE DEF r
    <3>4. 1..Len(r) = (1..Len(s)) \cup {Len(s) + 1}
      BY <3>1
    <3>5. Range(r) = Range(s) \cup {y}
      BY <3>1, <3>2, <3>4 DEF Range
    <3>6. \A i \in 1..Len(s) : s[i] # y
      BY <2>7, <3>2 DEF Range
    <3>7. \A i, j \in 1..Len(r) : r[i] = r[j] => i = j
      BY <2>1, <3>1, <3>4, <3>6
    <3>8. Good(r, n + 1)
      BY <2>1, <2>3, <3>1, <3>5, <3>7
    <3>9. \A m \in 1..n : seq[m] # y
      <4>1. \A m \in 1..n : seq[m] \in Range(s)
        BY <2>1
      <4> QED
        BY <2>7, <4>1
    <3>10. ASSUME NEW m \in 1..(n + 1), NEW i \in 1..Len(r), NEW j \in 1..Len(r), i < j, seq[m] = r[j]
           PROVE  \E l \in 1..(m - 1) : seq[l] = r[i]
      <4>1. i \in 1..Len(s) /\ r[i] = s[i] /\ r[i] \in Range(s)
        BY <2>5, <3>1, <3>4, <3>10
      <4>2. CASE m = n + 1
        BY <2>4, <4>1, <4>2
      <4>3. CASE m # n + 1
        <5>1. m \in 1..n
          BY <4>3
        <5>2. j \in 1..Len(s) /\ r[j] = s[j]
          BY <3>1, <3>4, <3>9, <3>10, <5>1
        <5> QED
          BY <2>1, <3>10, <4>1, <5>1, <5>2
      <4> QED
        BY <4>2, <4>3
    <3> QED
      BY <3>3, <3>8, <3>10
  <2> QED
    BY <2>6, <2>7
<1>9. k \in S
  <2> HIDE DEF S
  <2> QED
    BY <1>1, <1>7, <1>8, Climb
<1>10. Good(seen[k], k) /\ Later(seen[k], k)
  BY <1>1, <1>9
<1>11. Range(seq) = {seq[i] : i \in 1..k}
  BY <1>1 DEF Range
<1> QED
  BY <1>5, <1>10, <1>11 DEF k

(* What Keep leaves of a sequence, as a set.                                *)
LEMMA KeptIs ==
    ASSUME NEW T, NEW seq \in Seq(T), NEW S
    PROVE  Keep(seq, S) \in Seq(T) /\ Range(Keep(seq, S)) = Range(seq) \cap S
<1> DEFINE kept == Keep(seq, S)
           place == Places(seq, S)
<1>1. Picks(place, kept, seq, S) /\ kept \in Seq(T)
  BY KeepIs
<1> HIDE DEF kept, place
<1>2. DOMAIN seq = 1..Len(seq) /\ DOMAIN kept = 1..Len(kept)
  BY <1>1
<1>3. kept \in Seq(S) /\ place \in [1..Len(kept) -> 1..Len(seq)]
      /\ (\A j \in 1..Len(kept) : kept[j] = seq[place[j]])
      /\ \A i \in 1..Len(seq) : seq[i] \in S => \E j \in 1..Len(kept) : place[j] = i
  BY <1>1 DEF Picks
<1>4. \A j \in 1..Len(kept) : kept[j] \in S /\ place[j] \in 1..Len(seq)
  BY <1>3
<1>5. Range(kept) \subseteq Range(seq) \cap S
  BY <1>2, <1>3, <1>4 DEF Range
<1>6. ASSUME NEW y \in Range(seq) \cap S PROVE y \in Range(kept)
  <2>1. PICK i \in 1..Len(seq) : seq[i] = y
    BY <1>2 DEF Range
  <2>2. PICK j \in 1..Len(kept) : place[j] = i
    BY <1>3, <2>1
  <2> QED
    BY <1>2, <1>3, <2>1, <2>2 DEF Range
<1> QED
  BY <1>1, <1>5, <1>6 DEF kept

(* Only which elements are in the set matters to Keep.                      *)
LEMMA KeepOfKept ==
    ASSUME NEW T, NEW seq \in Seq(T), NEW S
    PROVE  Keep(seq, Range(Keep(seq, S))) = Keep(seq, S)
<1> DEFINE R == Range(Keep(seq, S))
<1>1. R = Range(seq) \cap S
  BY KeptIs
<1> HIDE DEF R
<1>2. \A i \in DOMAIN seq : seq[i] \in Range(seq)
  BY DEF Range
<1>3. {i \in DOMAIN seq : seq[i] \in R} = {i \in DOMAIN seq : seq[i] \in S}
  BY <1>1, <1>2
<1>4. Places(seq, R) = Places(seq, S)
  BY <1>3 DEF Places
<1>5. Keep(seq, R) = Keep(seq, S)
  BY <1>4 DEF Keep
<1> QED
  BY <1>5 DEF R

(* The names of an interface in order.                                      *)
LEMMA InOrderIs ==
    ASSUME NEW S \in SUBSET Nat, IsFiniteSet(S)
    PROVE  /\ InOrder(S) \in Seq(S) /\ Len(InOrder(S)) = Cardinality(S)
           /\ Cardinality(S) \in Nat /\ Range(InOrder(S)) = S
           /\ \A i, j \in 1..Cardinality(S) : i < j => InOrder(S)[i] < InOrder(S)[j]
<1> DEFINE before == {p \in S \X S : p[1] < p[2]}
           s == InOrder(S)
           n == Cardinality(S)
<1>1. n \in Nat
  BY FS_CardinalityType
<1>2. Strict(S, before)
  <2>1. \A x, y \in S : x \in Nat /\ y \in Nat /\ (<<x, y>> \in before <=> x < y)
    OBVIOUS
  <2> QED
    BY <2>1 DEF Strict
<1>3. Arranged(S, before, s)
  <2> HIDE DEF before
  <2> QED
    BY <1>2, SortedIs DEF InOrder, before
<1> HIDE DEF s, n
<1>4. s \in [1..n -> S] /\ Range(s) = S /\ \A i, j \in DOMAIN s : i < j => <<s[i], s[j]>> \in before
  BY <1>3 DEF Arranged, n
<1>5. s \in Seq(S) /\ Len(s) = n /\ DOMAIN s = 1..n
  BY <1>1, <1>4
<1> QED
  BY <1>1, <1>4, <1>5 DEF s, n

(* budgeted_names names every name or counts it, within its budget.         *)
LEMMA BudgetIs ==
    ASSUME NEW S \in SUBSET Name, IsFiniteSet(S), NEW quotes \in Nat, NEW budget \in Nat
    PROVE  NamesAll(BudgetedNames(InOrder(S), quotes, budget), S, budget)
<1> DEFINE names == InOrder(S)
           k == Cardinality(S)
           T == [listed : SUBSET S, omitted : Nat, size : Nat]
           width(acc, n) == acc.size + (IF acc.listed = {} THEN 0 ELSE 2) + Length[n] + quotes
           added(acc, n) ==
             IF width(acc, n) > budget THEN [acc EXCEPT !.omitted = @ + 1]
             ELSE [acc EXCEPT !.listed = @ \cup {n}, !.size = width(acc, n)]
           Solves(f) == f = [i \in 0..Len(names) |->
                               IF i = 0 THEN NoNames ELSE added(f[i - 1], names[i])]
           after == CHOOSE f : Solves(f)
           step == [i \in 1..k |-> [acc \in T |-> added(acc, names[i])]]
<1>1. /\ S \in SUBSET Nat /\ names \in Seq(S) /\ Len(names) = k /\ k \in Nat /\ Range(names) = S
      /\ \A i, j \in 1..k : i < j => names[i] < names[j]
  <2>1. S \in SUBSET Nat
    BY InterfaceAssumption
  <2> QED
    BY <2>1, InOrderIs
<1>2. \A i \in 1..k : names[i] \in S
  <2> HIDE DEF names, k
  <2> QED
    BY <1>1
<1>3. \A n \in S : Length[n] \in Nat
  BY InterfaceAssumption
<1> HIDE DEF k
<1>4. ASSUME NEW acc \in T, NEW n \in S
      PROVE  /\ width(acc, n) \in Nat /\ added(acc, n) \in T
             /\ width(acc, n) > budget =>
                   /\ added(acc, n).listed = acc.listed /\ added(acc, n).size = acc.size
                   /\ added(acc, n).omitted = acc.omitted + 1
             /\ width(acc, n) <= budget =>
                   /\ added(acc, n).listed = acc.listed \cup {n} /\ added(acc, n).size = width(acc, n)
                   /\ added(acc, n).omitted = acc.omitted
  <2>1. width(acc, n) \in Nat
    BY <1>3
  <2>2. acc.listed \in SUBSET S /\ acc.omitted \in Nat /\ acc.size \in Nat
    OBVIOUS
  <2> DEFINE w == width(acc, n)
  <2>3. w \in Nat /\ w = width(acc, n)
    BY <2>1
  <2> HIDE DEF w
  <2>4. CASE w > budget
    <3>1. added(acc, n) = [acc EXCEPT !.omitted = @ + 1]
      BY <2>3, <2>4
    <3> QED
      BY <2>2, <2>3, <2>4, <3>1
  <2>5. CASE ~(w > budget)
    <3>1. added(acc, n) = [acc EXCEPT !.listed = @ \cup {n}, !.size = w]
      BY <2>3, <2>5
    <3> QED
      BY <2>2, <2>3, <2>5, <3>1
  <2> QED
    BY <2>4, <2>5
<1>5. NoNames \in T
  BY DEF NoNames
<1>6. \E f : Solves(f)
  <2>0. \A i \in 1..k, acc \in T : added(acc, names[i]) \in T
    <3> HIDE DEF names
    <3> QED
      BY <1>2, <1>4
  <2>1. Stepping(T, NoNames, step, k)
    <3> HIDE DEF added, T, names
    <3> QED
      BY <1>1, <1>5, <2>0 DEF Stepping
  <2>2. \A i \in 1..k, acc \in T : step[i][acc] = added(acc, names[i])
    OBVIOUS
  <2> HIDE DEF step, added, T, names
  <2>3. PICK f : Stepwise(f, T, NoNames, step, k)
    BY <2>1, StepByStep
  <2>4. f \in [0..k -> T] /\ f[0] = NoNames /\ \A i \in 1..k : f[i] = step[i][f[i - 1]]
    BY <2>3 DEF Stepwise
  <2>5. \A i \in 1..k : i - 1 \in 0..k
    BY <1>1
  <2>6. \A i \in 1..k : f[i] = added(f[i - 1], names[i])
    BY <2>2, <2>4, <2>5
  <2>7. \A i \in 0..k : f[i] = IF i = 0 THEN NoNames ELSE added(f[i - 1], names[i])
    BY <1>1, <2>4, <2>6
  <2>8. Solves(f)
    BY <1>1, <2>4, <2>7
  <2> QED
    BY <2>8
<1>7. Solves(after)
  <2> HIDE DEF Solves
  <2> QED
    BY <1>6
<1>8. BudgetedNames(names, quotes, budget) = after[Len(names)]
  BY DEF BudgetedNames
<1> HIDE DEF after, names
<1>9. \A i \in 0..k : after[i] = IF i = 0 THEN NoNames ELSE added(after[i - 1], names[i])
  <2> HIDE DEF added
  <2> QED
    BY <1>1, <1>7
<1> DEFINE Good(acc, n) == /\ acc \in T /\ acc.listed \subseteq {names[i] : i \in 1..n}
                           /\ Cardinality(acc.listed) + acc.omitted = n /\ acc.size <= budget
           N == {n \in Nat : n <= k => Good(after[n], n)}
<1>10. 0 \in N
  <2>1. after[0] = NoNames
    <3> HIDE DEF added
    <3> QED
      BY <1>1, <1>9
  <2>2. NoNames.listed = {} /\ NoNames.omitted = 0 /\ NoNames.size = 0
    BY DEF NoNames
  <2>3. Cardinality({}) = 0
    BY FS_EmptySet
  <2> QED
    BY <1>5, <2>1, <2>2, <2>3
<1>11. ASSUME NEW n \in Nat, n \in N PROVE n + 1 \in N
  <2> SUFFICES ASSUME n + 1 <= k PROVE Good(after[n + 1], n + 1)
    OBVIOUS
  <2> DEFINE acc == after[n]
             y == names[n + 1]
             next == added(acc, y)
  <2>1. n + 1 \in 0..k /\ n + 1 \in 1..k /\ n + 1 # 0 /\ (n + 1) - 1 = n /\ Good(acc, n)
    BY <1>1, <1>11
  <2>2. after[n + 1] = next /\ y \in S
    <3> HIDE DEF added
    <3> QED
      BY <1>2, <1>9, <2>1
  <2>3. y \notin acc.listed
    <3>1. \A i \in 1..n : i \in 1..k /\ i < n + 1
      BY <1>1, <2>1
    <3>2. \A i \in 1..n : names[i] < y
      BY <1>1, <2>1, <3>1
    <3>3. \A i \in 1..k : names[i] \in Nat
      BY <1>1, <1>2
    <3>4. \A i \in 1..n : names[i] # y
      BY <2>1, <3>1, <3>2, <3>3
    <3> QED
      BY <2>1, <3>4
  <2>4. /\ acc \in T /\ acc.listed \in SUBSET S /\ acc.omitted \in Nat
        /\ acc.listed \subseteq {names[i] : i \in 1..n}
        /\ Cardinality(acc.listed) + acc.omitted = n /\ acc.size <= budget
    BY <2>1
  <2>5. /\ IsFiniteSet(acc.listed) /\ Cardinality(acc.listed) \in Nat
        /\ Cardinality(acc.listed \cup {y}) = Cardinality(acc.listed) + 1
    BY <2>3, <2>4, FS_Subset, FS_AddElement, FS_CardinalityType
  <2>6. {names[i] : i \in 1..(n + 1)} = {names[i] : i \in 1..n} \cup {y}
    <3>1. 1..(n + 1) = (1..n) \cup {n + 1}
      OBVIOUS
    <3> QED
      BY <3>1
  <2>7. next \in T /\ width(acc, y) \in Nat
    BY <1>4, <2>2, <2>4
  <2>8. CASE width(acc, y) > budget
    <3>1. next.listed = acc.listed /\ next.size = acc.size /\ next.omitted = acc.omitted + 1
      BY <1>4, <2>2, <2>4, <2>8
    <3> HIDE DEF next, acc, y
    <3> QED
      BY <2>2, <2>4, <2>5, <2>6, <2>7, <3>1
  <2>9. CASE width(acc, y) <= budget
    <3>1. next.listed = acc.listed \cup {y} /\ next.size = width(acc, y) /\ next.omitted = acc.omitted
      BY <1>4, <2>2, <2>4, <2>9
    <3>2. next.size <= budget
      BY <2>9, <3>1
    <3> HIDE DEF next, acc, y
    <3> QED
      BY <2>2, <2>4, <2>5, <2>6, <2>7, <3>1, <3>2
  <2> HIDE DEF next
  <2> QED
    BY <2>7, <2>8, <2>9
<1>12. k \in N
  <2> HIDE DEF N
  <2> QED
    BY <1>1, <1>10, <1>11, Climb
<1>13. Good(after[k], k)
  BY <1>1, <1>12
<1> DEFINE b == BudgetedNames(names, quotes, budget)
<1>14. b.listed \subseteq S /\ Cardinality(b.listed) + b.omitted = k /\ b.size <= budget
  BY <1>1, <1>8, <1>13
<1> HIDE DEF b
<1> QED
  BY <1>14 DEF NamesAll, b, k, names

(* chase_actor: the least set of types that holds what the selected methods *)
(* name and what its own members name; as many rounds as there are          *)
(* definitions are enough, since a round that adds none is the last.        *)
LEMMA ChaseIs ==
    ASSUME NEW did, did.readable, IsInterface(did), NEW selected \in SUBSET DOMAIN did.methods
    PROVE  /\ ChaseActor(did, selected) \subseteq Range(did.order)
           /\ Closed(did, selected, ChaseActor(did, selected))
           /\ \A S : Closed(did, selected, S) => ChaseActor(did, selected) \subseteq S
<1> DEFINE D == Range(did.order)
           k == Len(did.order)
           T == SUBSET D
           start == UNION {did.methods[m].uses : m \in selected}
           grown(S) == S \cup UNION {did.types[t].uses : t \in S}
           Solves(f) == f = [n \in 0..k |-> IF n = 0 THEN start ELSE grown(f[n - 1])]
           reached == CHOOSE f : Solves(f)
           step == [n \in 1..k |-> [S \in T |-> grown(S)]]
<1>1. /\ did.order \in Seq(TypeName) /\ DOMAIN did.types = D
      /\ \A d \in Range(did.types) \cup Range(did.methods) : d.uses \subseteq D
  BY DEF IsInterface
<1>2. k \in Nat /\ DOMAIN did.order = 1..k /\ D = {did.order[i] : i \in 1..k}
  BY <1>1 DEF Range
<1>3. IsFiniteSet(D) /\ Cardinality(D) \in Nat /\ Cardinality(D) <= k
  <2> DEFINE f == [i \in 1..k |-> did.order[i]]
  <2>1. f \in Surjection(1..k, D)
    BY <1>2 DEF Surjection
  <2>2. IsFiniteSet(1..k) /\ Cardinality(1..k) = k
    <3> DEFINE one == 1
    <3>1. one \in Int /\ k \in Int
      BY <1>2
    <3> HIDE DEF one, k
    <3>2. IsFiniteSet(one..k) /\ Cardinality(one..k) = IF one > k THEN 0 ELSE k - one + 1
      BY <3>1, FS_Interval
    <3> QED
      BY <1>2, <3>2 DEF one
  <2> HIDE DEF f, D, k
  <2>3. IsFiniteSet(D) /\ Cardinality(D) <= Cardinality(1..k)
    BY <2>1, <2>2, FS_Surjection
  <2> QED
    BY <2>2, <2>3, FS_CardinalityType
<1>4. \A m \in selected : did.methods[m].uses \subseteq D
  BY <1>1 DEF Range
<1>5. \A t \in D : did.types[t].uses \subseteq D
  BY <1>1 DEF Range
<1> HIDE DEF D, k
<1>6. start \in T /\ \A S \in T : grown(S) \in T
  BY <1>4, <1>5
<1>7. \E f : Solves(f)
  <2> HIDE DEF grown, start, T
  <2>1. Stepping(T, start, step, k)
    BY <1>2, <1>6 DEF Stepping
  <2>2. \A n \in 1..k, S \in T : step[n][S] = grown(S)
    OBVIOUS
  <2> HIDE DEF step
  <2>3. PICK f : Stepwise(f, T, start, step, k)
    BY <2>1, StepByStep
  <2>4. f \in [0..k -> T] /\ f[0] = start /\ \A n \in 1..k : f[n] = step[n][f[n - 1]]
    BY <2>3 DEF Stepwise
  <2>5. \A n \in 1..k : n - 1 \in 0..k
    BY <1>2
  <2>6. \A n \in 1..k : f[n] = grown(f[n - 1])
    BY <2>2, <2>4, <2>5
  <2>7. \A n \in 0..k : f[n] = IF n = 0 THEN start ELSE grown(f[n - 1])
    BY <1>2, <2>4, <2>6
  <2> QED
    BY <2>4, <2>7
<1>8. Solves(reached)
  <2> HIDE DEF Solves
  <2> QED
    BY <1>7
<1>9. ChaseActor(did, selected) = reached[k]
  BY DEF ChaseActor, k
<1> HIDE DEF reached
<1>10. \A n \in 0..k : reached[n] = IF n = 0 THEN start ELSE grown(reached[n - 1])
  <2> HIDE DEF grown, start
  <2> QED
    BY <1>8
<1> DEFINE Good(R, n) == /\ R \in T /\ start \subseteq R
                         /\ \A S : Closed(did, selected, S) => R \subseteq S
                         /\ Cardinality(R) >= n \/ grown(R) = R
           N == {n \in Nat : n <= k => Good(reached[n], n)}
<1>11. \A S : Closed(did, selected, S) <=>
            start \subseteq S /\ \A t \in S : did.types[t].uses \subseteq S
  BY DEF Closed
<1>12. \A R \in T : IsFiniteSet(R) /\ Cardinality(R) \in Nat
  BY <1>3, FS_Subset, FS_CardinalityType
<1>13. 0 \in N
  <2>1. reached[0] = start
    <3> HIDE DEF start, grown
    <3> QED
      BY <1>2, <1>10
  <2>2. Cardinality(start) >= 0
    <3> HIDE DEF start
    <3>1. Cardinality(start) \in Nat
      BY <1>6, <1>12
    <3> QED
      BY <3>1
  <2> HIDE DEF start
  <2> QED
    BY <1>6, <1>11, <2>1, <2>2
<1>14. ASSUME NEW n \in Nat, n \in N PROVE n + 1 \in N
  <2> SUFFICES ASSUME n + 1 <= k PROVE Good(reached[n + 1], n + 1)
    OBVIOUS
  <2> DEFINE R == reached[n]
             next == grown(R)
  <2>1. n + 1 \in 0..k /\ n + 1 # 0 /\ (n + 1) - 1 = n /\ Good(R, n)
    BY <1>2, <1>14
  <2>2. reached[n + 1] = next
    <3> HIDE DEF grown, start
    <3> QED
      BY <1>10, <2>1
  <2>3. next \in T /\ R \in T
    <3> HIDE DEF grown, start
    <3> QED
      BY <1>6, <2>1
  <2>4. start \subseteq next /\ R \subseteq next
    <3> HIDE DEF start
    <3> QED
      BY <2>1
  <2>5. ASSUME NEW S, Closed(did, selected, S) PROVE next \subseteq S
    <3>1. R \subseteq S /\ \A t \in S : did.types[t].uses \subseteq S
      BY <1>11, <2>1, <2>5
    <3> QED
      BY <3>1
  <2>6. Cardinality(next) >= n + 1 \/ grown(next) = next
    <3>1. CASE next = R
      BY <3>1
    <3>2. CASE next # R
      <4> HIDE DEF next, R, grown, start
      <4>1. Cardinality(R) >= n
        BY <2>1, <3>2 DEF next
      <4>2. Cardinality(R) <= Cardinality(next) /\ Cardinality(R) # Cardinality(next)
            /\ Cardinality(R) \in Nat /\ Cardinality(next) \in Nat
        BY <1>12, <2>3, <2>4, <3>2, FS_Subset
      <4> QED
        BY <4>1, <4>2
    <3> QED
      BY <3>1, <3>2
  <2> HIDE DEF next, grown, start
  <2> QED
    BY <2>2, <2>3, <2>4, <2>5, <2>6
<1>15. k \in N
  <2> HIDE DEF N
  <2> QED
    BY <1>2, <1>13, <1>14, Climb
<1> DEFINE R == reached[k]
<1>16. Good(R, k)
  BY <1>2, <1>15
<1> HIDE DEF R, start
<1>17. grown(R) = R
  <2>1. CASE Cardinality(R) >= k
    <3>1. R \in T
      BY <1>16
    <3>2. R = D
      <4>1. Cardinality(R) <= Cardinality(D) /\ (Cardinality(R) = Cardinality(D) => R = D)
            /\ Cardinality(R) \in Nat
        BY <1>3, <1>12, <3>1, FS_Subset
      <4> QED
        BY <1>2, <1>3, <2>1, <4>1
    <3> QED
      BY <1>5, <3>2
  <2> QED
    BY <1>16, <2>1
<1>18. Closed(did, selected, R)
  <2>1. \A t \in R : did.types[t].uses \subseteq grown(R)
    OBVIOUS
  <2> HIDE DEF grown
  <2> QED
    BY <1>11, <1>16, <1>17, <2>1
<1>19. R \subseteq D /\ \A S : Closed(did, selected, S) => R \subseteq S
  BY <1>16
<1> QED
  BY <1>9, <1>18, <1>19 DEF R, D

(* The bytes of a restricted text are a number.                             *)
LEMMA PrintIs ==
    ASSUME NEW did, did.readable, IsInterface(did), NEW order \in Seq(Range(did.order)),
           NEW selected \in SUBSET DOMAIN did.methods, NEW commented \in BOOLEAN
    PROVE  PrintSubset(did, order, selected, commented).size \in Nat
<1> DEFINE bytes(d) == IF commented THEN d.bare + d.docs ELSE d.bare
           methods == InOrder(selected)
           ofTypes == [i \in DOMAIN order |-> bytes(did.types[order[i]])]
           ofMethods == [i \in DOMAIN methods |-> bytes(did.methods[methods[i]])]
<1>1. /\ did.types \in [Range(did.order) -> Decl] /\ did.methods \in [DOMAIN did.methods -> Decl]
      /\ DOMAIN did.methods \subseteq Name /\ IsFiniteSet(DOMAIN did.methods) /\ did.service \in Nat
  BY DEF IsInterface
<1>2. \A d \in Decl : bytes(d) \in Nat
  BY DEF Decl
<1>3. methods \in Seq(selected)
  <2>1. selected \in SUBSET Nat /\ IsFiniteSet(selected)
    BY <1>1, InterfaceAssumption, FS_Subset
  <2> QED
    BY <2>1, InOrderIs
<1> HIDE DEF methods, bytes
<1>4. ofTypes \in Seq(Nat)
  <2>1. \A i \in 1..Len(order) : bytes(did.types[order[i]]) \in Nat
    BY <1>1, <1>2
  <2> QED
    BY <2>1
<1>5. ofMethods \in Seq(Nat)
  <2>1. \A i \in 1..Len(methods) : bytes(did.methods[methods[i]]) \in Nat
    BY <1>1, <1>2, <1>3
  <2>2. DOMAIN methods = 1..Len(methods) /\ Len(methods) \in Nat
    BY <1>3
  <2> QED
    BY <2>1, <2>2
<1>6. Total(ofTypes) \in Nat /\ Total(ofMethods) \in Nat
  <2> HIDE DEF ofTypes, ofMethods
  <2> QED
    BY <1>4, <1>5, TotalIs
<1>7. PrintSubset(did, order, selected, commented).size
        = Total(ofTypes) + Total(ofMethods) + (IF commented THEN did.service ELSE 0)
  BY DEF PrintSubset, bytes, methods
<1> HIDE DEF ofTypes, ofMethods
<1> QED
  BY <1>1, <1>6, <1>7

(* A refusal over methods names or counts every declared one.               *)
LEMMA DeclaredListIs ==
    ASSUME NEW did, did.readable, IsInterface(did)
    PROVE  NamesAll(DeclaredMethodsList(did), DOMAIN did.methods, Limit)
<1> DEFINE M == DOMAIN did.methods
           none == 0
<1>1. M \in SUBSET Name /\ IsFiniteSet(M) /\ none \in Nat /\ Limit \in Nat
  BY InterfaceAssumption DEF IsInterface
<1>2. DeclaredMethodsList(did) = BudgetedNames(InOrder(M), none, Limit)
  BY DEF DeclaredMethodsList
<1> HIDE DEF M, none
<1>3. NamesAll(BudgetedNames(InOrder(M), none, Limit), M, Limit)
  BY <1>1, BudgetIs
<1> QED
  BY <1>2, <1>3 DEF M

(* What is asked for is a finite set of names.                              *)
LEMMA SelectionIs ==
    ASSUME NEW requested \in Seq(Name \cup {BlankName})
    PROVE  Selection(requested) \subseteq Name /\ IsFiniteSet(Selection(requested))
<1> DEFINE k == Len(requested)
           R == Range(requested)
<1>1. k \in Nat /\ DOMAIN requested = 1..k /\ \A i \in 1..k : requested[i] \in Name \cup {BlankName}
  OBVIOUS
<1>2. R \subseteq Name \cup {BlankName}
  BY <1>1 DEF Range
<1>3. IsFiniteSet(R)
  <2> DEFINE f == [i \in 1..k |-> requested[i]]
  <2>1. f \in Surjection(1..k, R)
    BY <1>1 DEF Surjection, Range
  <2>2. IsFiniteSet(1..k)
    BY <1>1, FS_Interval
  <2> HIDE DEF f, R, k
  <2> QED
    BY <2>1, <2>2, FS_Surjection
<1>4. IsFiniteSet(R \ {BlankName})
  <2> HIDE DEF R
  <2> QED
    BY <1>3, FS_Subset
<1> QED
  BY <1>2, <1>4 DEF Selection

(* restricted_did, of declared methods.                                     *)
LEMMA RestrictedIs ==
    ASSUME NEW did, did.readable, IsInterface(did),
           NEW requested \in Seq(Name \cup {BlankName}), requested # All,
           Selection(requested) \subseteq DOMAIN did.methods
    PROVE  AnswersAsAsked(did, requested, RestrictedDid(did, Selection(requested)))
<1> DEFINE selected == Selection(requested)
           needed == ChaseActor(did, selected)
           order == Keep(did.order, needed)
           commented == PrintSubset(did, order, selected, TRUE)
           bare == PrintSubset(did, order, selected, FALSE)
           declared == DeclaredMethodsList(did)
           reply == RestrictedDid(did, selected)
           single == Cardinality(selected) = 1
<1>1. /\ needed \subseteq Range(did.order) /\ Closed(did, selected, needed)
      /\ \A S : Closed(did, selected, S) => needed \subseteq S
  BY ChaseIs
<1>2. /\ order \in Seq(Range(did.order)) /\ Range(order) = needed
      /\ order = Keep(did.order, Range(order))
  <2>1. did.order \in Seq(Range(did.order))
    <3>1. did.order \in Seq(TypeName)
      BY DEF IsInterface
    <3>2. \A i \in DOMAIN did.order : did.order[i] \in Range(did.order)
      BY DEF Range
    <3> QED
      BY <3>1, <3>2
  <2> HIDE DEF needed
  <2>2. order \in Seq(Range(did.order)) /\ Range(order) = Range(did.order) \cap needed
    BY <2>1, KeptIs
  <2>3. Keep(did.order, Range(order)) = order
    BY <2>1, KeepOfKept
  <2> QED
    BY <1>1, <2>2, <2>3
<1>3. commented.size \in Nat /\ Limit \in Nat
  <2> HIDE DEF order, selected
  <2>1. selected \in SUBSET DOMAIN did.methods
    BY DEF selected
  <2> QED
    BY <1>2, <2>1, PrintIs, InterfaceAssumption
<1>4. NamesAll(declared, DOMAIN did.methods, Limit)
  BY DeclaredListIs
<1>5. /\ commented.types = order /\ commented.methods = selected /\ commented.commented = TRUE
      /\ bare.types = order /\ bare.methods = selected /\ bare.commented = FALSE
  BY DEF PrintSubset
<1>6. reply = IF commented.size <= Limit THEN Restricted(commented, FALSE, did)
              ELSE IF single THEN Restricted(bare, TRUE, did)
              ELSE Refusal("too large", NoNames, declared)
  BY DEF RestrictedDid
<1>7. ASSUME NEW text, NEW best \in BOOLEAN, reply = Restricted(text, best, did),
             text.types = order, text.methods = selected, best <=> ~text.commented,
             IF best THEN single /\ commented.size > Limit ELSE text.size <= Limit
      PROVE  AnswersAsAsked(did, requested, reply)
  <2> HIDE DEF selected, needed, order, reply
  <2>1. reply.is = "restricted" /\ reply.text = text /\ reply.bestEffort = best
    BY <1>7 DEF Restricted
  <2>2. \A S \in SUBSET Range(order) : Closed(did, selected, S) => S = Range(order)
    BY <1>1, <1>2
  <2>3. Closed(did, selected, Range(order))
    BY <1>1, <1>2
  <2>4. reply.bestEffort => PrintSubset(did, order, selected, TRUE).size > Limit
    BY <1>7, <2>1
  <2> QED
    BY <1>2, <1>7, <2>1, <2>2, <2>3, <2>4 DEF AnswersAsAsked, selected
<1> HIDE DEF commented, bare, order
<1>8. CASE commented.size <= Limit
  <2>1. reply = Restricted(commented, FALSE, did)
    BY <1>6, <1>8
  <2>2. FALSE <=> ~commented.commented
    BY <1>5
  <2> HIDE DEF selected, reply
  <2>3. AnswersAsAsked(did, requested, reply)
    BY <1>5, <1>7, <1>8, <2>1, <2>2
  <2> QED
    BY <2>3 DEF reply, selected
<1>9. CASE ~(commented.size <= Limit) /\ single
  <2>1. commented.size > Limit
    BY <1>3, <1>9
  <2>2. reply = Restricted(bare, TRUE, did)
    BY <1>6, <1>9
  <2>3. TRUE <=> ~bare.commented
    BY <1>5
  <2> HIDE DEF selected, reply
  <2>4. AnswersAsAsked(did, requested, reply)
    BY <1>5, <1>7, <1>9, <2>1, <2>2, <2>3
  <2> QED
    BY <2>4 DEF reply, selected
<1>10. CASE ~(commented.size <= Limit) /\ ~single
  <2>1. reply = Refusal("too large", NoNames, declared)
    BY <1>6, <1>10
  <2> HIDE DEF reply, declared
  <2>2. reply.is = "refused" /\ reply.why = "too large" /\ reply.declared = declared
    BY <2>1 DEF Refusal
  <2> HIDE DEF selected
  <2>3. AnswersAsAsked(did, requested, reply)
    BY <1>4, <1>10, <2>2 DEF AnswersAsAsked, selected
  <2> QED
    BY <2>3 DEF reply, selected
<1> QED
  BY <1>8, <1>9, <1>10

(* render_candid answers as it was asked.                                   *)
LEMMA RenderIs ==
    ASSUME NEW did, IsInterface(did), NEW requested,
           requested # All => requested \in Seq(Name \cup {BlankName})
    PROVE  AnswersAsAsked(did, requested, RenderCandid(did, requested))
<1> DEFINE reply == RenderCandid(did, requested)
           selected == Selection(requested)
           unknown == selected \ DOMAIN did.methods
           declared == DeclaredMethodsList(did)
<1>1. did.readable => NamesAll(declared, DOMAIN did.methods, Limit)
  BY DeclaredListIs
<1>2. Cardinality({}) # 1
  BY FS_EmptySet
<1>3. CASE requested = All
  <2>1. CASE did.readable /\ did.size > Limit
    <3>1. reply = Refusal("too large", NoNames, declared)
      BY <1>3, <2>1 DEF RenderCandid, RenderWhole
    <3> HIDE DEF reply, declared
    <3>2. reply.is = "refused" /\ reply.why = "too large" /\ reply.declared = declared
      BY <3>1 DEF Refusal
    <3>3. AnswersAsAsked(did, requested, reply)
      BY <1>1, <1>2, <1>3, <2>1, <3>2 DEF AnswersAsAsked
    <3> QED
      BY <3>3 DEF reply
  <2>2. CASE ~(did.readable /\ did.size > Limit)
    <3>1. reply = Verbatim(did)
      BY <1>3, <2>2 DEF RenderCandid, RenderWhole
    <3> HIDE DEF reply
    <3>2. reply.is = "verbatim" /\ reply.size = did.size
      BY <3>1 DEF Verbatim
    <3>3. AnswersAsAsked(did, requested, reply)
      BY <1>3, <2>2, <3>2 DEF AnswersAsAsked
    <3> QED
      BY <3>3 DEF reply
  <2> QED
    BY <2>1, <2>2
<1>4. CASE requested # All /\ selected = {}
  <2>1. reply = Refusal("names no method", NoNames, NoNames)
    BY <1>4 DEF RenderCandid
  <2> HIDE DEF reply
  <2>2. reply.is = "refused" /\ reply.why = "names no method"
    BY <2>1 DEF Refusal
  <2>3. AnswersAsAsked(did, requested, reply)
    BY <1>2, <1>4, <2>2 DEF AnswersAsAsked
  <2> QED
    BY <2>3 DEF reply
<1>5. CASE requested # All /\ selected # {} /\ ~did.readable
  <2>1. reply = Refusal("only verbatim", NoNames, NoNames)
    BY <1>5 DEF RenderCandid, RenderSelected
  <2> HIDE DEF reply
  <2>2. reply.is = "refused" /\ reply.why = "only verbatim"
    BY <2>1 DEF Refusal
  <2>3. AnswersAsAsked(did, requested, reply)
    BY <1>5, <2>2 DEF AnswersAsAsked
  <2> QED
    BY <2>3 DEF reply
<1>6. CASE requested # All /\ selected # {} /\ did.readable /\ unknown # {}
  <2> DEFINE unknowns == BudgetedNames(InOrder(unknown), 2, UnknownLimit)
  <2>1. reply = Refusal("unknown", unknowns, declared)
    BY <1>6 DEF RenderCandid, RenderSelected
  <2>2. NamesAll(unknowns, unknown, UnknownLimit)
    <3> DEFINE two == 2
    <3>1. unknown \in SUBSET Name /\ IsFiniteSet(unknown)
      BY <1>6, SelectionIs, FS_Subset
    <3>2. two \in Nat /\ UnknownLimit \in Nat
      BY InterfaceAssumption
    <3> HIDE DEF two, unknown
    <3>3. NamesAll(BudgetedNames(InOrder(unknown), two, UnknownLimit), unknown, UnknownLimit)
      BY <3>1, <3>2, BudgetIs
    <3> QED
      BY <3>3 DEF two
  <2> HIDE DEF reply, declared, unknowns
  <2>3. reply.is = "refused" /\ reply.why = "unknown" /\ reply.declared = declared /\ reply.unknown = unknowns
    BY <2>1 DEF Refusal
  <2>4. AnswersAsAsked(did, requested, reply)
    BY <1>1, <1>6, <2>2, <2>3 DEF AnswersAsAsked
  <2> QED
    BY <2>4 DEF reply
<1>7. CASE requested # All /\ selected # {} /\ did.readable /\ unknown = {}
  <2>1. reply = RestrictedDid(did, selected)
    BY <1>7 DEF RenderCandid, RenderSelected
  <2> HIDE DEF reply
  <2>2. AnswersAsAsked(did, requested, RestrictedDid(did, selected))
    BY <1>7, RestrictedIs
  <2> QED
    BY <2>1, <2>2 DEF reply
<1> QED
  BY <1>3, <1>4, <1>5, <1>6, <1>7

(* The smaller of two numbers.                                              *)
LEMMA LesserIs ==
    ASSUME NEW a \in Nat, NEW b \in Nat
    PROVE  Min({a, b}) = IF a <= b THEN a ELSE b
<1> DEFINE m == IF a <= b THEN a ELSE b
<1>1. m \in {a, b} /\ \A y \in {a, b} : m <= y
  OBVIOUS
<1>2. \A x \in {a, b} : (\A y \in {a, b} : x <= y) => x = m
  OBVIOUS
<1> HIDE DEF m
<1>3. Min({a, b}) = m
  BY <1>1, <1>2 DEF Min
<1> QED
  BY <1>3 DEF m

(* A row's names, those of its cells that have one.                         *)
Bears(row) == {row[i].name : i \in DOMAIN row} \ {Absent}

LEMMA NamesOfIs ==
    ASSUME NEW T, NEW row \in Seq(T)
    PROVE  NamesOf(row) \in Seq(Bears(row)) /\ Range(NamesOf(row)) = Bears(row)
<1> DEFINE C == {c \in Range(row) : c.name # Absent}
           kept == Keep(row, C)
           names == NamesOf(row)
<1>1. kept \in Seq(T) /\ Range(kept) = Range(row) \cap C
  <2> HIDE DEF C
  <2> QED
    BY KeptIs
<1>2. Range(kept) = C
  BY <1>1
<1>3. names = [i \in DOMAIN kept |-> kept[i].name]
  BY DEF NamesOf
<1> HIDE DEF kept, names
<1>4. DOMAIN kept = 1..Len(kept) /\ Len(kept) \in Nat
  BY <1>1
<1>5. \A i \in DOMAIN kept : kept[i] \in C
  BY <1>2 DEF Range
<1>6. \A c \in C : c.name \in Bears(row)
  BY DEF Bears, Range
<1>7. \A i \in 1..Len(kept) : kept[i].name \in Bears(row)
  BY <1>4, <1>5, <1>6
<1>8. names \in Seq(Bears(row))
  BY <1>3, <1>4, <1>7
<1>9. ASSUME NEW n \in Bears(row) PROVE n \in Range(names)
  <2>1. PICK i \in DOMAIN row : row[i].name = n /\ n # Absent
    BY DEF Bears
  <2>2. row[i] \in C
    BY <2>1 DEF Range
  <2>3. PICK j \in DOMAIN kept : kept[j] = row[i]
    BY <1>2, <2>2 DEF Range
  <2> QED
    BY <1>3, <2>1, <2>3 DEF Range
<1>10. \A i \in DOMAIN names : names[i] \in Bears(row)
  BY <1>3, <1>4, <1>7
<1>11. Range(names) \subseteq Bears(row)
  BY <1>10 DEF Range
<1> QED
  BY <1>8, <1>9, <1>11 DEF names

(* A cell is put under its name, wherever in its row it stood.              *)
LEMMA AlignIs ==
    ASSUME NEW T, NEW row \in Seq(T), NEW U, NEW columns \in Seq(U)
    PROVE  /\ DOMAIN Align(row, columns) = DOMAIN columns
           /\ \A j \in DOMAIN columns : Holds(row, columns[j], Align(row, columns)[j])
<1> SUFFICES ASSUME NEW j \in DOMAIN columns
             PROVE  Holds(row, columns[j], Align(row, columns)[j])
  BY DEF Align
<1> DEFINE col == columns[j]
           C == {c \in Range(row) : c.name = col}
           place == Places(row, C)
           kept == Keep(row, C)
           value == IF kept = <<>> THEN Empty ELSE kept[1].value
<1>1. Picks(place, kept, row, C) /\ kept \in Seq(T)
  <2> HIDE DEF C
  <2> QED
    BY KeepIs
<1>2. Align(row, columns)[j] = value
  BY DEF Align
<1>3. DOMAIN row = 1..Len(row) /\ \A i \in DOMAIN row : row[i] \in C <=> row[i].name = col
  BY DEF Range
<1> HIDE DEF col, C, place, kept, value
<1>4. /\ Len(kept) \in Nat /\ place \in [1..Len(kept) -> 1..Len(row)]
      /\ \A i \in 1..Len(kept) : kept[i] = row[place[i]] /\ kept[i] \in C
      /\ \A i, m \in 1..Len(kept) : i < m => place[i] < place[m]
      /\ \A i \in 1..Len(row) : row[i] \in C => \E m \in 1..Len(kept) : place[m] = i
  BY <1>1 DEF Picks
<1>5. CASE kept = <<>>
  <2>1. value = Empty
    BY <1>5 DEF value
  <2>2. Len(kept) = 0
    BY <1>5
  <2>3. \A i \in DOMAIN row : row[i].name # col
    BY <1>3, <1>4, <2>2
  <2>4. Holds(row, col, value)
    BY <2>1, <2>3 DEF Holds
  <2> QED
    BY <1>2, <2>4 DEF col
<1>6. CASE kept # <<>>
  <2> DEFINE one == 1
             p == place[one]
  <2>1. value = kept[one].value
    BY <1>6 DEF value
  <2>2. one \in 1..Len(kept) /\ \A m \in 1..Len(kept) : m = one \/ one < m
    BY <1>1, <1>6
  <2> HIDE DEF one
  <2>3. p \in 1..Len(row) /\ kept[one] = row[p] /\ row[p] \in C
    BY <1>4, <2>2
  <2>4. \A m \in 1..Len(kept) : place[m] \in Nat /\ p <= place[m]
    <3>1. \A m \in 1..Len(kept) : place[m] \in Nat
      BY <1>4
    <3>2. ASSUME NEW m \in 1..Len(kept), m # one PROVE p < place[m]
      BY <1>4, <2>2, <3>2
    <3>3. \A m \in 1..Len(kept) : p = place[m] \/ p < place[m]
      BY <3>2
    <3>4. p \in Nat
      BY <2>3
    <3> HIDE DEF p
    <3> QED
      BY <3>1, <3>3, <3>4
  <2>5. \A i \in 1..(p - 1) : i \in 1..Len(row) /\ i \in Nat /\ ~(p <= i)
    BY <2>3
  <2> HIDE DEF p
  <2>6. \A i \in 1..(p - 1) : row[i].name # col
    BY <1>3, <1>4, <2>4, <2>5
  <2>7. p \in DOMAIN row /\ row[p].name = col /\ row[p].value = value
    BY <1>3, <2>1, <2>3
  <2>8. Holds(row, col, value)
    BY <2>6, <2>7 DEF Holds
  <2> QED
    BY <1>2, <2>8 DEF col
<1> QED
  BY <1>5, <1>6

(* The columns of a table are the names its first row bears, each once.     *)
LEMMA ColumnsAre ==
    ASSUME NEW T, NEW row \in Seq(T)
    PROVE  /\ Distinct(NamesOf(row)) \in Seq(Bears(row))
           /\ Range(Distinct(NamesOf(row))) = Bears(row) /\ IsInjective(Distinct(NamesOf(row)))
           /\ Cardinality(Bears(row)) = Len(Distinct(NamesOf(row)))
<1> DEFINE N == NamesOf(row)
           columns == Distinct(N)
           B == Bears(row)
           k == Len(columns)
<1>1. N \in Seq(B) /\ Range(N) = B
  BY NamesOfIs
<1> HIDE DEF N, B
<1>2. columns \in Seq(B) /\ Range(columns) = B /\ \A i, j \in 1..k : columns[i] = columns[j] => i = j
  BY <1>1, DistinctIs
<1> HIDE DEF columns
<1>3. DOMAIN columns = 1..k /\ k \in Nat
  BY <1>2
<1>4. IsInjective(columns)
  BY <1>2, <1>3 DEF IsInjective
<1>5. columns \in Bijection(1..k, B)
  <2>1. columns \in [1..k -> B]
    BY <1>2, <1>3
  <2>2. \A y \in B : \E i \in 1..k : columns[i] = y
    BY <1>2, <1>3 DEF Range
  <2> QED
    BY <1>2, <2>1, <2>2 DEF Bijection, Injection, Surjection, IsInjective
<1>6. Cardinality(B) = k
  <2>1. ExistsBijection(1..k, B)
    BY <1>5 DEF ExistsBijection
  <2> HIDE DEF k
  <2> QED
    BY <1>3, <2>1, FS_CountingElements
<1> QED
  BY <1>2, <1>4, <1>6 DEF columns, N, B

(* The caps on a reply are numbers.                                         *)
LEMMA CapsAre == MaxRows \in Nat /\ MaxRows > 0 /\ MaxEntities \in Nat /\ MaxFuzzy \in Nat
<1> DEFINE caps == {MaxColumns, MaxRows, MaxEntities, MaxFuzzy}
<1>1. MaxRows \in caps /\ MaxEntities \in caps /\ MaxFuzzy \in caps
  OBVIOUS
<1>2. caps \subseteq Nat \ {0}
  BY OqlAssumption
<1> HIDE DEF caps
<1>3. MaxRows \in Nat \ {0} /\ MaxEntities \in Nat \ {0} /\ MaxFuzzy \in Nat \ {0}
  BY <1>1, <1>2
<1> QED
  BY <1>3

(* rows_to_table is faithful to the reply.                                  *)
LEMMA RowsAre ==
    ASSUME NEW reply, IsReply(reply), reply.arm \in {"none", "ok"},
           NEW told, told.result = RowsToTable(reply)
    PROVE  FaithfulTable(reply, told)
<1> DEFINE rows == reply.rows
           read == FirstOf(rows, MaxRows)
           columns == Distinct(NamesOf(rows[1]))
           cells == [i \in DOMAIN read |-> Align(read[i], columns)]
           full == Table(columns, cells, reply.hasMore \/ Len(rows) > MaxRows)
           wide == [is |-> "too wide", count |-> Len(NamesOf(rows[1]))]
           result == RowsToTable(reply)
<1>1. result = IF rows = Absent THEN Unrecognized(reply)
               ELSE IF rows = <<>> THEN Table(<<>>, <<>>, reply.hasMore)
               ELSE IF rows[1] = Absent \/ columns = <<>> THEN Unrecognized(reply)
               ELSE IF Len(columns) > MaxColumns THEN wide
               ELSE IF Absent \in Range(read) THEN Unrecognized(reply)
               ELSE full
  BY DEF RowsToTable
<1>2. MaxRows \in Nat /\ MaxRows > 0
  BY CapsAre
<1>3. reply.hasMore \in BOOLEAN /\ (rows # Absent => rows \in Seq(Range(rows)) /\
         \A row \in Range(rows) \ {Absent} : row \in Seq(Range(row)))
  BY DEF IsReply
<1> HIDE DEF result
<1>4. told.result = result
  BY DEF result
<1>5. CASE result = Unrecognized(reply)
  <2>1. result.is = "unrecognized" /\ result.raw = reply
    BY <1>5 DEF Unrecognized
  <2> QED
    BY <1>4, <2>1 DEF FaithfulTable
<1>6. CASE rows # Absent /\ rows = <<>>
  <2> DEFINE zero == 0
  <2>1. result = Table(<<>>, <<>>, reply.hasMore)
    BY <1>1, <1>6
  <2>2. /\ result.is = "table" /\ result.rows = <<>> /\ result.columns = <<>>
        /\ result.hasMore = reply.hasMore
    BY <2>1 DEF Table
  <2>3. zero \in Nat /\ Len(rows) = zero /\ Len(result.rows) = zero
        /\ DOMAIN result.columns = {} /\ DOMAIN result.rows = {}
    BY <1>6, <2>2
  <2>4. Len(result.rows) = Min({Len(rows), MaxRows})
    <3>1. zero <= MaxRows
      BY <1>2
    <3> HIDE DEF zero
    <3>2. Min({zero, MaxRows}) = zero
      BY <1>2, <2>3, <3>1, LesserIs
    <3> QED
      BY <2>3, <3>2
  <2>5. result.hasMore <=> (reply.hasMore \/ Len(result.rows) < Len(rows))
    BY <2>2, <2>3
  <2>6. IsInjective(result.columns)
    BY <2>3 DEF IsInjective
  <2> QED
    BY <1>4, <1>6, <2>2, <2>3, <2>4, <2>5, <2>6 DEF FaithfulTable
<1>7. ASSUME rows # Absent, rows # <<>>, rows[1] # Absent
      PROVE  /\ 1 \in DOMAIN rows /\ rows[1] \in Seq(Range(rows[1]))
             /\ columns \in Seq(Bears(rows[1])) /\ Range(columns) = Bears(rows[1])
             /\ IsInjective(columns) /\ Cardinality(Bears(rows[1])) = Len(columns)
  <2> DEFINE top == rows[1]
  <2>1. 1 \in DOMAIN rows
    BY <1>3, <1>7
  <2>2. top \in Range(rows) \ {Absent}
    BY <1>7, <2>1 DEF Range
  <2>3. top \in Seq(Range(top))
    BY <1>3, <1>7, <2>2
  <2> HIDE DEF top
  <2>4. /\ Distinct(NamesOf(top)) \in Seq(Bears(top)) /\ Range(Distinct(NamesOf(top))) = Bears(top)
        /\ IsInjective(Distinct(NamesOf(top)))
        /\ Cardinality(Bears(top)) = Len(Distinct(NamesOf(top)))
    BY <2>3, ColumnsAre
  <2> QED
    BY <2>1, <2>3, <2>4 DEF top
<1>8. CASE /\ rows # Absent /\ rows # <<>> /\ rows[1] # Absent /\ result = wide
           /\ Len(columns) > MaxColumns
  <2>1. result.is = "too wide"
    BY <1>8
  <2>2. Cardinality(Bears(rows[1])) > MaxColumns
    BY <1>7, <1>8
  <2> QED
    BY <1>4, <2>1, <2>2 DEF FaithfulTable, Bears
<1>9. CASE /\ rows # Absent /\ rows # <<>> /\ rows[1] # Absent /\ result = full
           /\ ~(Absent \in Range(read))
  <2> DEFINE more == reply.hasMore \/ Len(rows) > MaxRows
  <2>1. /\ result.is = "table" /\ result.rows = cells /\ result.columns = columns
        /\ result.hasMore = more
    BY <1>9 DEF Table
  <2>2. /\ read \in Seq(Range(rows)) /\ Len(read) = (IF Len(rows) <= MaxRows THEN Len(rows) ELSE MaxRows)
        /\ \A i \in 1..Len(read) : read[i] = rows[i]
    <3>1. rows \in Seq(Range(rows))
      BY <1>3, <1>9
    <3> HIDE DEF rows
    <3> QED
      BY <1>2, <3>1, FirstOfIs
  <2>3. Len(rows) \in Nat /\ DOMAIN rows = 1..Len(rows)
    BY <1>3, <1>9
  <2> HIDE DEF read
  <2>4. DOMAIN read = 1..Len(read) /\ Len(read) \in Nat
    BY <2>2
  <2>5. DOMAIN cells = 1..Len(read) /\ Len(cells) = Len(read)
    BY <2>4
  <2>6. Len(read) = Min({Len(rows), MaxRows})
    <3> DEFINE r == Len(rows)
    <3>1. r \in Nat
      BY <2>3
    <3> HIDE DEF r
    <3>2. Min({r, MaxRows}) = IF r <= MaxRows THEN r ELSE MaxRows
      BY <1>2, <3>1, LesserIs
    <3> QED
      BY <2>2, <3>2 DEF r
  <2>7. Len(rows) > MaxRows <=> Len(read) < Len(rows)
    BY <1>2, <2>2, <2>3
  <2>8. ASSUME NEW i \in 1..Len(read), NEW j \in DOMAIN columns
        PROVE  Holds(rows[i], columns[j], cells[i][j])
    <3> DEFINE row == read[i]
    <3>1. row \in Range(rows) /\ row # Absent /\ row = rows[i]
      BY <1>9, <2>2, <2>4 DEF Range
    <3>2. row \in Seq(Range(row))
      BY <1>3, <1>9, <3>1
    <3>3. cells[i] = Align(row, columns)
      BY <2>4
    <3>4. columns \in Seq(Bears(rows[1]))
      BY <1>7, <1>9
    <3> HIDE DEF row, columns
    <3>5. Holds(row, columns[j], Align(row, columns)[j])
      BY <3>2, <3>4, AlignIs
    <3> QED
      BY <3>1, <3>3, <3>5
  <2>9. IsInjective(columns)
    BY <1>7, <1>9
  <2>10. ASSUME NEW k \in 1..Len(read), NEW i \in DOMAIN rows[k], ~LeftOut(reply, k, i)
         PROVE  \E j \in DOMAIN columns : rows[k][i].name = columns[j] /\ rows[k][i].value = cells[k][j]
    <3> DEFINE row == rows[k]
               name == row[i].name
    <3>1. /\ name # Absent /\ \E l \in DOMAIN rows[1] : rows[1][l].name = name
          /\ \A l \in 1..(i - 1) : row[l].name # name
      BY <2>10 DEF LeftOut
    <3>2. name \in Range(columns)
      BY <1>7, <1>9, <3>1 DEF Bears
    <3>3. PICK j \in DOMAIN columns : columns[j] = name
      BY <3>2 DEF Range
    <3>4. Holds(row, name, cells[k][j])
      BY <2>8, <3>3
    <3>5. i \in Nat /\ \A l \in DOMAIN row : l \in Nat /\ (l < i => l \in 1..(i - 1))
                                               /\ (i < l => i \in 1..(l - 1))
      <4>1. row \in Range(rows) /\ row # Absent
        BY <1>9, <2>2, <2>4 DEF Range
      <4>2. row \in Seq(Range(row))
        BY <1>3, <1>9, <4>1
      <4>3. DOMAIN row = 1..Len(row) /\ Len(row) \in Nat
        BY <4>2
      <4> QED
        BY <4>3
    <3> HIDE DEF row, name, cells
    <3>6. PICK l \in DOMAIN row : /\ row[l].name = name /\ row[l].value = cells[k][j]
                                  /\ \A x \in 1..(l - 1) : row[x].name # name
      BY <3>4 DEF Holds, row, name
    <3>7. l = i
      BY <3>1, <3>5, <3>6 DEF row, name
    <3> QED
      BY <3>3, <3>6, <3>7 DEF row, name
  <2> HIDE DEF cells, columns, more
  <2>11. Len(result.rows) = Min({Len(rows), MaxRows})
    BY <2>1, <2>5, <2>6
  <2>12. result.hasMore <=> (reply.hasMore \/ Len(result.rows) < Len(rows))
    <3>1. more <=> (reply.hasMore \/ Len(read) < Len(rows))
      BY <2>7 DEF more
    <3> QED
      BY <2>1, <2>5, <3>1
  <2>13. \A i \in DOMAIN result.rows, j \in DOMAIN result.columns :
            Holds(rows[i], result.columns[j], result.rows[i][j])
    BY <2>1, <2>5, <2>8
  <2>14. /\ IsInjective(result.columns)
         /\ \A k \in DOMAIN result.rows : \A i \in DOMAIN rows[k] :
               \/ LeftOut(reply, k, i)
               \/ \E j \in DOMAIN result.columns :
                     rows[k][i].name = result.columns[j] /\ rows[k][i].value = result.rows[k][j]
    BY <2>1, <2>5, <2>9, <2>10
  <2>15. result.is = "table" /\ reply.arm \in {"none", "ok"} /\ rows # Absent
    BY <1>9, <2>1
  <2> HIDE DEF rows
  <2>16. FaithfulTable(reply, told)
    <3>1. told.result.is = "table"
      BY <1>4, <2>15
    <3>2. Len(told.result.rows) = Min({Len(reply.rows), MaxRows})
      BY <1>4, <2>11 DEF rows
    <3>3. told.result.hasMore <=> (reply.hasMore \/ Len(told.result.rows) < Len(reply.rows))
      BY <1>4, <2>12 DEF rows
    <3>4. IsInjective(told.result.columns)
      BY <1>4, <2>14
    <3>5. \A k \in DOMAIN told.result.rows : \A i \in DOMAIN reply.rows[k] :
             \/ LeftOut(reply, k, i)
             \/ \E j \in DOMAIN told.result.columns :
                   /\ reply.rows[k][i].name = told.result.columns[j]
                   /\ reply.rows[k][i].value = told.result.rows[k][j]
      BY <1>4, <2>14 DEF rows
    <3>6. \A i \in DOMAIN told.result.rows, j \in DOMAIN told.result.columns :
             Holds(reply.rows[i], told.result.columns[j], told.result.rows[i][j])
      BY <1>4, <2>13 DEF rows
    <3> QED
      BY <2>15, <3>1, <3>2, <3>3, <3>4, <3>5, <3>6 DEF FaithfulTable, rows
  <2> QED
    BY <2>16
<1> HIDE DEF full, wide, columns, read
<1> QED
  BY <1>1, <1>5, <1>6, <1>8, <1>9

(* A query is answered with the table of its reply, or with the reply.      *)
LEMMA TableIs ==
    ASSUME NEW start, NEW schema, NEW reply, reply = Absent \/ IsReply(reply)
    PROVE  FaithfulTable(reply, OqlAnswer(start, reply, schema))
<1> DEFINE told == OqlAnswer(start, reply, schema)
<1>1. told.result = Result(reply)
  BY DEF OqlAnswer
<1> HIDE DEF told
<1>2. CASE reply = Absent
  <2>1. told.result.is = "error"
    BY <1>1, <1>2 DEF Result
  <2>2. FaithfulTable(reply, told)
    BY <1>2, <2>1 DEF FaithfulTable
  <2> QED
    BY <2>2 DEF told
<1>3. CASE reply # Absent /\ reply.arm \in {"none", "ok"}
  <2>1. told.result = RowsToTable(reply)
    BY <1>1, <1>3 DEF Result, ParseExecuteReply
  <2>2. FaithfulTable(reply, told)
    BY <1>3, <2>1, RowsAre
  <2> QED
    BY <2>2 DEF told
<1>4. CASE reply # Absent /\ reply.arm = "err"
  <2>1. told.result.is = "error"
    BY <1>1, <1>4 DEF Result, ParseExecuteReply
  <2>2. FaithfulTable(reply, told)
    BY <1>4, <2>1 DEF FaithfulTable
  <2> QED
    BY <2>2 DEF told
<1>5. CASE reply # Absent /\ reply.arm \in {"other", "undecodable"}
  <2>1. told.result = Unrecognized(reply)
    BY <1>1, <1>5 DEF Result, ParseExecuteReply
  <2>2. told.result.is = "unrecognized" /\ told.result.raw = reply
    BY <2>1 DEF Unrecognized
  <2>3. FaithfulTable(reply, told)
    BY <2>2 DEF FaithfulTable
  <2> QED
    BY <2>3 DEF told
<1> QED
  BY <1>2, <1>3, <1>4, <1>5 DEF IsReply, Arm

(* What a registry has under a name.                                        *)
NamedIn(registry, name) == {e \in Range(Entries(registry)) : \E w \in e.words : Occurs(name, w)}

Hits(registry, name, kind) == {[id |-> e.id, kind |-> kind] : e \in NamedIn(registry, name)}

LEMMA MatchesAre ==
    ASSUME NEW registry, registry \notin {Absent, Garbled} => registry \in Seq(Range(registry)),
           NEW name, NEW kind
    PROVE  /\ Matches(registry, name, kind) \in Seq(Hits(registry, name, kind))
           /\ Range(Matches(registry, name, kind)) = Hits(registry, name, kind)
<1> DEFINE E == Entries(registry)
           S == NamedIn(registry, name)
           hits == Keep(E, S)
           entry(e) == [id |-> e.id, kind |-> kind]
           U == {entry(e) : e \in S}
           matches == Matches(registry, name, kind)
<1>1. E \in Seq(Range(E)) /\ S \subseteq Range(E)
  <2>1. CASE registry \in {Absent, Garbled}
    BY <2>1 DEF Entries, NamedIn
  <2>2. CASE registry \notin {Absent, Garbled}
    BY <2>2 DEF Entries, NamedIn
  <2> QED
    BY <2>1, <2>2
<1>2. matches = [i \in DOMAIN hits |-> entry(hits[i])]
  BY DEF Matches, NamedIn
<1> HIDE DEF E, S
<1>3. hits \in Seq(Range(E)) /\ Range(hits) = S
  <2>1. hits \in Seq(Range(E)) /\ Range(hits) = Range(E) \cap S
    BY <1>1, KeptIs
  <2> QED
    BY <1>1, <2>1
<1> HIDE DEF hits
<1>4. DOMAIN hits = 1..Len(hits) /\ Len(hits) \in Nat /\ \A i \in 1..Len(hits) : hits[i] \in S
  <2>1. DOMAIN hits = 1..Len(hits) /\ Len(hits) \in Nat
    BY <1>3
  <2> QED
    BY <1>3, <2>1 DEF Range
<1>5. \A i \in 1..Len(hits) : matches[i] = entry(hits[i]) /\ matches[i] \in U
  BY <1>2, <1>4
<1>6. DOMAIN matches = 1..Len(hits)
  BY <1>2, <1>4
<1> HIDE DEF matches
<1>7. matches \in Seq(U)
  <2>1. matches = [i \in 1..Len(hits) |-> matches[i]]
    BY <1>2, <1>4
  <2> HIDE DEF U
  <2> QED
    BY <1>4, <1>5, <2>1
<1>8. ASSUME NEW u \in U PROVE u \in Range(matches)
  <2>1. PICK e \in S : u = entry(e)
    OBVIOUS
  <2>2. PICK i \in DOMAIN hits : hits[i] = e
    BY <1>3 DEF Range
  <2> QED
    BY <1>4, <1>5, <1>6, <2>1, <2>2 DEF Range
<1>9. Range(matches) \subseteq U
  BY <1>5, <1>6 DEF Range
<1> QED
  BY <1>7, <1>8, <1>9 DEF matches, S, Hits

(* search_by_name finds what the registries that were read have.            *)
LEMMA SearchIs ==
    ASSUME NEW ledgers, ledgers \notin {Absent, Garbled} => ledgers \in Seq(Range(ledgers)),
           NEW snses, snses \notin {Absent, Garbled} => snses \in Seq(Range(snses)), NEW name
    PROVE  SearchedAsNamed(ledgers, snses, name, SearchByName(ledgers, snses, name))
<1> DEFINE entry(e, kind) == [id |-> e.id, kind |-> kind]
           F == NamedIn(ledgers, name)
           G == NamedIn(snses, name)
           U == {entry(e, "token") : e \in F}
           V == {entry(e, "sns") : e \in G}
           tokens == Matches(ledgers, name, "token")
           projects == Matches(snses, name, "sns")
           all == tokens \o projects
           out == SearchIn(ledgers, snses, name)
           told == SearchByName(ledgers, snses, name)
           listed(kind) == {m.id : m \in {n \in Range(out) : n.kind = kind}}
<1>1. /\ tokens \in Seq(U) /\ Range(tokens) = U
      /\ projects \in Seq(V) /\ Range(projects) = V
  <2> DEFINE token == "token"
             sns == "sns"
  <2> HIDE DEF token, sns
  <2>1. /\ Matches(ledgers, name, token) \in Seq(Hits(ledgers, name, token))
        /\ Range(Matches(ledgers, name, token)) = Hits(ledgers, name, token)
    BY MatchesAre
  <2>2. /\ Matches(snses, name, sns) \in Seq(Hits(snses, name, sns))
        /\ Range(Matches(snses, name, sns)) = Hits(snses, name, sns)
    BY MatchesAre
  <2> QED
    BY <2>1, <2>2 DEF token, sns, Hits
<1>2. out = FirstOf(all, MaxMatches) /\ MaxMatches \in Nat /\ MaxMatches > 0
  BY SearchAssumption DEF SearchIn
<1>3. \A u \in U : u.kind = "token" /\ u \notin V
  OBVIOUS
<1>4. \A v \in V : v.kind = "sns" /\ v \notin U
  OBVIOUS
<1>5. told = IF name = <<>> THEN [is |-> "none"]
               ELSE IF ledgers = Absent /\ snses = Absent THEN [is |-> "error"]
               ELSE IF out = <<>> THEN [is |-> "none"]
               ELSE [is |-> "found", matches |-> out]
  BY DEF SearchByName
<1>6. /\ {u.id : u \in U} = {e.id : e \in F} /\ {v.id : v \in V} = {e.id : e \in G}
      /\ (U = {} => F = {}) /\ (V = {} => G = {})
  <2>1. \A u \in U : \E e \in F : u.id = e.id
    OBVIOUS
  <2>2. \A e \in F : \E u \in U : u.id = e.id
    <3> SUFFICES ASSUME NEW e \in F PROVE \E u \in U : u.id = e.id
      OBVIOUS
    <3>1. entry(e, "token") \in U
      OBVIOUS
    <3>2. entry(e, "token").id = e.id
      OBVIOUS
    <3> QED
      BY <3>1, <3>2
  <2>3. \A v \in V : \E e \in G : v.id = e.id
    OBVIOUS
  <2>4. \A e \in G : \E v \in V : v.id = e.id
    <3> SUFFICES ASSUME NEW e \in G PROVE \E v \in V : v.id = e.id
      OBVIOUS
    <3>1. entry(e, "sns") \in V
      OBVIOUS
    <3>2. entry(e, "sns").id = e.id
      OBVIOUS
    <3> QED
      BY <3>1, <3>2
  <2> HIDE DEF U, V, F, G
  <2> QED
    BY <2>1, <2>2, <2>3, <2>4
<1> HIDE DEF U, V, F, G, tokens, projects, out, told
<1>7. /\ Len(tokens) \in Nat /\ Len(projects) \in Nat /\ all \in Seq(U \cup V)
      /\ Len(all) = Len(tokens) + Len(projects)
      /\ (\A i \in 1..Len(tokens) : all[i] = tokens[i] /\ tokens[i] \in U)
      /\ \A i \in 1..Len(projects) : all[Len(tokens) + i] = projects[i] /\ projects[i] \in V
  BY <1>1
<1>8. /\ DOMAIN tokens = 1..Len(tokens) /\ DOMAIN projects = 1..Len(projects)
      /\ U = {tokens[i] : i \in 1..Len(tokens)} /\ V = {projects[i] : i \in 1..Len(projects)}
  BY <1>1 DEF Range
<1> DEFINE a == Len(tokens)
           b == Len(projects)
           n == Len(out)
<1> HIDE DEF all
<1>9. /\ out \in Seq(U \cup V) /\ n = (IF a + b <= MaxMatches THEN a + b ELSE MaxMatches)
      /\ (\A i \in 1..n : out[i] = all[i]) /\ n \in Nat /\ a \in Nat /\ b \in Nat
      /\ DOMAIN out = 1..n
  <2>1. /\ FirstOf(all, MaxMatches) \in Seq(U \cup V)
        /\ Len(FirstOf(all, MaxMatches)) = IF Len(all) <= MaxMatches THEN Len(all) ELSE MaxMatches
        /\ \A i \in 1..Len(FirstOf(all, MaxMatches)) : FirstOf(all, MaxMatches)[i] = all[i]
    BY <1>2, <1>7, FirstOfIs
  <2> QED
    BY <1>2, <1>7, <2>1
<1>10. Range(out) \subseteq U \cup V
  BY <1>9 DEF Range
<1>11. listed("token") \subseteq {u.id : u \in U} /\ listed("sns") \subseteq {v.id : v \in V}
  <2>1. \A m \in Range(out) : (m.kind = "token" => m \in U) /\ (m.kind = "sns" => m \in V)
    BY <1>3, <1>4, <1>10
  <2> QED
    BY <2>1
<1>12. ASSUME a <= n PROVE {u.id : u \in U} \subseteq listed("token")
  <2>1. \A u \in U : u \in Range(out)
    <3> SUFFICES ASSUME NEW u \in U PROVE u \in Range(out)
      OBVIOUS
    <3>1. PICK i \in 1..a : tokens[i] = u
      BY <1>8
    <3>2. i \in 1..n /\ out[i] = u
      BY <1>7, <1>9, <1>12, <3>1
    <3> QED
      BY <1>9, <3>2 DEF Range
  <2> QED
    BY <1>3, <2>1
<1>13. ASSUME n = a + b PROVE {v.id : v \in V} \subseteq listed("sns")
  <2>1. \A v \in V : v \in Range(out)
    <3> SUFFICES ASSUME NEW v \in V PROVE v \in Range(out)
      OBVIOUS
    <3>1. PICK i \in 1..b : projects[i] = v
      BY <1>8
    <3>2. a + i \in 1..n /\ out[a + i] = all[a + i] /\ all[a + i] = v
      BY <1>7, <1>9, <1>13, <3>1
    <3> QED
      BY <1>9, <3>2 DEF Range
  <2> QED
    BY <1>4, <2>1
<1>14. ASSUME listed("sns") # {} PROVE a <= n
  <2>1. PICK m \in Range(out) : m.kind = "sns"
    BY <1>14
  <2>2. PICK i \in 1..n : out[i] = m
    BY <1>9 DEF Range
  <2>3. m \notin U
    BY <1>3, <2>1
  <2>4. ~(i <= a)
    BY <1>7, <1>9, <2>2, <2>3
  <2> QED
    BY <1>9, <2>2, <2>4
<1>15. n = a + b \/ (n = MaxMatches /\ a + b > MaxMatches)
  BY <1>2, <1>9
<1>16. CASE told.is = "found" /\ told.matches = out
  <2> DEFINE l1 == listed("token")
             l2 == listed("sns")
             ids1 == {u.id : u \in U}
             ids2 == {v.id : v \in V}
  <2>1. l1 \subseteq ids1 /\ l2 \subseteq ids2 /\ (a <= n => l1 = ids1) /\ (n = a + b => l2 = ids2)
        /\ (l2 # {} => a <= n)
    BY <1>11, <1>12, <1>13, <1>14
  <2>2. n = a + b => a <= n
    BY <1>9
  <2> HIDE DEF l1, l2, ids1, ids2
  <2>3. (l1 = ids1 /\ l2 = ids2) \/ n = MaxMatches
    BY <1>15, <2>1, <2>2
  <2>4. l2 # {} => l1 = ids1
    BY <2>1
  <2>5. ids1 = {e.id : e \in F} /\ ids2 = {e.id : e \in G}
    BY <1>6 DEF ids1, ids2
  <2>6. SearchedAsNamed(ledgers, snses, name, told)
    BY <1>16, <2>1, <2>3, <2>4, <2>5 DEF SearchedAsNamed, l1, l2, n, F, G, NamedIn
  <2> QED
    BY <2>6 DEF told
<1>17. CASE told.is = "none" /\ (name = <<>> \/ out = <<>>)
  <2>1. out = <<>> => F = {} /\ G = {}
    <3> SUFFICES ASSUME out = <<>> PROVE F = {} /\ G = {}
      OBVIOUS
    <3>1. n = 0
      OBVIOUS
    <3>2. a = 0 /\ b = 0
      BY <1>2, <1>9, <1>15, <3>1
    <3>3. U = {} /\ V = {}
      BY <1>8, <3>2
    <3> QED
      BY <1>6, <3>3
  <2>2. SearchedAsNamed(ledgers, snses, name, told)
    BY <1>17, <2>1 DEF SearchedAsNamed, F, G, NamedIn
  <2> QED
    BY <2>2 DEF told
<1>18. CASE told.is = "error" /\ ledgers = Absent /\ snses = Absent
  <2>1. SearchedAsNamed(ledgers, snses, name, told)
    BY <1>18 DEF SearchedAsNamed
  <2> QED
    BY <2>1 DEF told
<1> QED
  BY <1>5, <1>16, <1>17, <1>18

-----------------------------------------------------------------------------
(* The distance of two names.  A matching is a set of letters of each, as   *)
(* many of one as of the other, matched in their order.                     *)
Cheapest(a, b, m, n) == Min({Cost(a, b, m, n, p) : p \in Matchings(m, n)})

LEMMA MatchingIs ==
    ASSUME NEW m \in Nat, NEW n \in Nat, NEW p \in Matchings(m, n)
    PROVE  /\ p[1] \subseteq 1..m /\ p[2] \subseteq 1..n /\ p = <<p[1], p[2]>>
           /\ IsFiniteSet(p[1]) /\ IsFiniteSet(p[2])
           /\ Cardinality(p[1]) \in Nat /\ Cardinality(p[2]) = Cardinality(p[1])
           /\ Cardinality(p[1]) <= m /\ Cardinality(p[1]) <= n
<1> DEFINE I == p[1]
           J == p[2]
<1>1. I \in SUBSET (1..m) /\ J \in SUBSET (1..n) /\ Cardinality(I) = Cardinality(J) /\ p = <<I, J>>
  BY DEF Matchings
<1>2. /\ IsFiniteSet(1..m) /\ Cardinality(1..m) = m
      /\ IsFiniteSet(1..n) /\ Cardinality(1..n) = n
  <2> DEFINE one == 1
  <2>1. one \in Int /\ m \in Int /\ n \in Int
    OBVIOUS
  <2> HIDE DEF one
  <2>2. /\ IsFiniteSet(one..m) /\ Cardinality(one..m) = IF one > m THEN 0 ELSE m - one + 1
        /\ IsFiniteSet(one..n) /\ Cardinality(one..n) = IF one > n THEN 0 ELSE n - one + 1
    BY <2>1, FS_Interval
  <2> QED
    BY <2>2 DEF one
<1> HIDE DEF I, J
<1>3. /\ IsFiniteSet(I) /\ Cardinality(I) <= m /\ Cardinality(I) \in Nat
      /\ IsFiniteSet(J) /\ Cardinality(J) <= n
  <2>1. IsFiniteSet(I) /\ Cardinality(I) <= Cardinality(1..m)
    BY <1>1, <1>2, FS_Subset
  <2>2. IsFiniteSet(J) /\ Cardinality(J) <= Cardinality(1..n)
    BY <1>1, <1>2, FS_Subset
  <2>3. Cardinality(I) \in Nat
    BY <2>1, FS_CardinalityType
  <2> QED
    BY <1>2, <2>1, <2>2, <2>3
<1> QED
  BY <1>1, <1>3 DEF I, J

LEMMA CostIs ==
    ASSUME NEW a, NEW b, NEW m \in Nat, NEW n \in Nat, NEW p \in Matchings(m, n)
    PROVE  /\ Cost(a, b, m, n, p) \in Nat
           /\ m - n <= Cost(a, b, m, n, p) /\ n - m <= Cost(a, b, m, n, p)
           /\ Cardinality(Differ(a, b, p[1], p[2])) \in Nat
           /\ IsFiniteSet(Differ(a, b, p[1], p[2]))
<1> DEFINE D == Differ(a, b, p[1], p[2])
           k == Cardinality(p[1])
           d == Cardinality(D)
<1>1. IsFiniteSet(p[1]) /\ IsFiniteSet(p[2]) /\ k \in Nat /\ k <= m /\ k <= n
  BY MatchingIs
<1>2. IsFiniteSet(D)
  <2>1. IsFiniteSet(p[1] \X p[2])
    BY <1>1, FS_Product
  <2>2. D \subseteq p[1] \X p[2]
    BY DEF Differ
  <2> HIDE DEF D
  <2> QED
    BY <2>1, <2>2, FS_Subset
<1>3. d \in Nat
  BY <1>2, FS_CardinalityType
<1>4. Cost(a, b, m, n, p) = m + n - 2 * k + d
  BY DEF Cost
<1> HIDE DEF k, d
<1>5. m + n - 2 * k + d \in Nat /\ m - n <= m + n - 2 * k + d /\ n - m <= m + n - 2 * k + d
  BY <1>1, <1>3
<1> QED
  BY <1>2, <1>3, <1>4, <1>5 DEF d

LEMMA CheapestIs ==
    ASSUME NEW a, NEW b, NEW m \in Nat, NEW n \in Nat
    PROVE  /\ Cheapest(a, b, m, n) \in Nat
           /\ m - n <= Cheapest(a, b, m, n) /\ n - m <= Cheapest(a, b, m, n)
           /\ \E p \in Matchings(m, n) : Cost(a, b, m, n, p) = Cheapest(a, b, m, n)
           /\ \A p \in Matchings(m, n) : Cheapest(a, b, m, n) <= Cost(a, b, m, n, p)
<1> DEFINE S == {Cost(a, b, m, n, p) : p \in Matchings(m, n)}
<1>1. S \in SUBSET Nat
  BY CostIs
<1>2. S # {}
  <2>1. <<{}, {}>> \in Matchings(m, n)
    BY DEF Matchings
  <2> QED
    BY <2>1
<1>3. PICK c \in S : \A d \in S : c <= d
  <2> HIDE DEF S
  <2> QED
    BY <1>1, <1>2, LeastOf
<1>4. Cheapest(a, b, m, n) = Min(S)
  BY DEF Cheapest
<1>5. Min(S) \in S /\ \A d \in S : Min(S) <= d
  <2> HIDE DEF S
  <2> QED
    BY <1>3 DEF Min
<1>6. PICK p \in Matchings(m, n) : Cost(a, b, m, n, p) = Min(S)
  BY <1>5
<1>7. \A q \in Matchings(m, n) : Min(S) <= Cost(a, b, m, n, q)
  BY <1>5
<1>8. Cost(a, b, m, n, p) \in Nat /\ m - n <= Cost(a, b, m, n, p) /\ n - m <= Cost(a, b, m, n, p)
  BY CostIs
<1> HIDE DEF S
<1> QED
  BY <1>4, <1>6, <1>7, <1>8

(* Two last letters are matched with each other.                            *)
LEMMA NthIs ==
    ASSUME NEW m \in Nat \ {0}, NEW I \in SUBSET (1..(m - 1)), IsFiniteSet(I)
    PROVE  /\ \A i \in I : /\ NthIn(I \cup {m}, i) = NthIn(I, i) /\ NthIn(I, i) \in Nat
                           /\ NthIn(I, i) < Cardinality(I)
           /\ NthIn(I \cup {m}, m) = Cardinality(I)
<1>1. ASSUME NEW i \in I
      PROVE  /\ NthIn(I \cup {m}, i) = NthIn(I, i) /\ NthIn(I, i) \in Nat
             /\ NthIn(I, i) < Cardinality(I)
  <2> DEFINE K == {k \in I : k < i}
  <2>1. {k \in I \cup {m} : k < i} = K
    OBVIOUS
  <2>2. i \notin K /\ K \subseteq I /\ K # I
    OBVIOUS
  <2>3. NthIn(I, i) = Cardinality(K) /\ NthIn(I \cup {m}, i) = Cardinality(K)
    BY <2>1 DEF NthIn
  <2> HIDE DEF K
  <2>4. Cardinality(K) \in Nat /\ Cardinality(K) < Cardinality(I)
    <3>1. IsFiniteSet(K) /\ Cardinality(K) <= Cardinality(I) /\ (Cardinality(K) = Cardinality(I) => K = I)
      BY <2>2, FS_Subset
    <3>2. Cardinality(K) \in Nat /\ Cardinality(I) \in Nat
      BY <3>1, FS_CardinalityType
    <3> QED
      BY <2>2, <3>1, <3>2
  <2> QED
    BY <2>3, <2>4
<1>2. {k \in I \cup {m} : k < m} = I
  <2>1. (\A k \in I : k < m) /\ ~(m < m)
    OBVIOUS
  <2> QED
    BY <2>1
<1>3. NthIn(I \cup {m}, m) = Cardinality(I)
  BY <1>2 DEF NthIn
<1> QED
  BY <1>1, <1>3

LEMMA LastMatched ==
    ASSUME NEW a, NEW b, NEW m \in Nat \ {0}, NEW n \in Nat \ {0},
           NEW q \in Matchings(m - 1, n - 1)
    PROVE  LET p == <<q[1] \cup {m}, q[2] \cup {n}>>
           IN  /\ p \in Matchings(m, n)
               /\ Cost(a, b, m, n, p) = Cost(a, b, m - 1, n - 1, q) + (IF a[m] = b[n] THEN 0 ELSE 1)
<1> DEFINE I == q[1]
           J == q[2]
           p == <<I \cup {m}, J \cup {n}>>
           k == Cardinality(I)
           D == Differ(a, b, I, J)
           E == Differ(a, b, I \cup {m}, J \cup {n})
<1>1. /\ I \subseteq 1..(m - 1) /\ J \subseteq 1..(n - 1) /\ IsFiniteSet(I) /\ IsFiniteSet(J)
      /\ k \in Nat /\ Cardinality(J) = k /\ m - 1 \in Nat /\ n - 1 \in Nat
  <2> DEFINE i == m - 1
             j == n - 1
  <2>1. i \in Nat /\ j \in Nat
    OBVIOUS
  <2> HIDE DEF i, j
  <2>2. q \in Matchings(i, j)
    BY DEF i, j
  <2> QED
    BY <2>1, <2>2, MatchingIs DEF i, j
<1>2. m \notin I /\ n \notin J /\ I \cup {m} \subseteq 1..m /\ J \cup {n} \subseteq 1..n
  BY <1>1
<1>3. IsFiniteSet(D) /\ Cardinality(D) \in Nat
  <2> DEFINE i == m - 1
             j == n - 1
  <2>1. i \in Nat /\ j \in Nat /\ q \in Matchings(i, j)
    OBVIOUS
  <2> HIDE DEF i, j
  <2> QED
    BY <2>1, CostIs
<1>4. /\ \A i \in I : /\ NthIn(I \cup {m}, i) = NthIn(I, i) /\ NthIn(I, i) \in Nat
                      /\ NthIn(I, i) < k
      /\ NthIn(I \cup {m}, m) = k
  <2> HIDE DEF I
  <2> QED
    BY <1>1, NthIs
<1>5. /\ \A j \in J : /\ NthIn(J \cup {n}, j) = NthIn(J, j) /\ NthIn(J, j) \in Nat
                      /\ NthIn(J, j) < k
      /\ NthIn(J \cup {n}, n) = k
  <2> HIDE DEF J
  <2>1. /\ \A j \in J : /\ NthIn(J \cup {n}, j) = NthIn(J, j) /\ NthIn(J, j) \in Nat
                        /\ NthIn(J, j) < Cardinality(J)
        /\ NthIn(J \cup {n}, n) = Cardinality(J)
    BY <1>1, NthIs
  <2> QED
    BY <1>1, <2>1
<1> HIDE DEF I, J, k
<1>6. Cardinality(I \cup {m}) = k + 1 /\ Cardinality(J \cup {n}) = k + 1
  BY <1>1, <1>2, FS_AddElement DEF k
<1>7. p \in Matchings(m, n)
  BY <1>2, <1>6 DEF Matchings
<1>8. E = IF a[m] = b[n] THEN D ELSE D \cup {<<m, n>>}
  <2>1. ASSUME NEW x \in E PROVE x \in D \/ (x = <<m, n>> /\ a[m] # b[n])
    <3>1. PICK i \in I \cup {m}, j \in J \cup {n} :
             /\ x = <<i, j>> /\ a[i] # b[j] /\ NthIn(I \cup {m}, i) = NthIn(J \cup {n}, j)
      BY DEF Differ
    <3>2. CASE i = m /\ j = n
      BY <3>1, <3>2
    <3>3. CASE i \in I /\ j \in J
      BY <1>4, <1>5, <3>1, <3>3 DEF Differ
    <3>4. CASE i \in I /\ j = n
      BY <1>4, <1>5, <3>1, <3>4
    <3>5. CASE i = m /\ j \in J
      <4>1. NthIn(J \cup {n}, j) < k /\ NthIn(J \cup {n}, j) \in Nat
        BY <1>5, <3>5
      <4>2. NthIn(J \cup {n}, j) = k
        BY <1>4, <3>1, <3>5
      <4> QED
        BY <1>1, <4>1, <4>2
    <3> QED
      BY <3>1, <3>2, <3>3, <3>4, <3>5
  <2>2. ASSUME NEW x \in D PROVE x \in E
    <3>1. PICK i \in I, j \in J : x = <<i, j>> /\ a[i] # b[j] /\ NthIn(I, i) = NthIn(J, j)
      BY DEF Differ
    <3>2. NthIn(I \cup {m}, i) = NthIn(J \cup {n}, j)
      BY <1>4, <1>5, <3>1
    <3> QED
      BY <3>1, <3>2 DEF Differ
  <2>3. a[m] # b[n] => <<m, n>> \in E
    BY <1>4, <1>5 DEF Differ
  <2> HIDE DEF D, E
  <2> QED
    BY <2>1, <2>2, <2>3
<1>9. <<m, n>> \notin D
  BY <1>2 DEF Differ
<1>10. Cardinality(E) = Cardinality(D) + (IF a[m] = b[n] THEN 0 ELSE 1)
  <2> HIDE DEF D, E
  <2>1. Cardinality(D \cup {<<m, n>>}) = Cardinality(D) + 1
    BY <1>3, <1>9, FS_AddElement
  <2> QED
    BY <1>3, <1>8, <2>1
<1>11. p[1] = I \cup {m} /\ p[2] = J \cup {n}
  OBVIOUS
<1>12. Cost(a, b, m, n, p) = m + n - 2 * (k + 1) + Cardinality(E)
  BY <1>6, <1>11 DEF Cost
<1>13. Cost(a, b, m - 1, n - 1, q) = (m - 1) + (n - 1) - 2 * k + Cardinality(D)
  BY DEF Cost, I, J, k
<1> DEFINE d == Cardinality(D)
           e == IF a[m] = b[n] THEN 0 ELSE 1
<1>14. e \in Nat
  OBVIOUS
<1> HIDE DEF D, E, d, e
<1>15. m + n - 2 * (k + 1) + (d + e) = (m - 1) + (n - 1) - 2 * k + d + e
  BY <1>1, <1>3, <1>14 DEF d
<1>16. Cost(a, b, m, n, p) = Cost(a, b, m - 1, n - 1, q) + e
  BY <1>10, <1>12, <1>13, <1>15 DEF d, e
<1> QED
  BY <1>7, <1>16 DEF e, I, J

(* A last letter of one name alone is left unmatched.                       *)
LEMMA LastUnmatched ==
    ASSUME NEW a, NEW b, NEW m \in Nat, NEW n \in Nat, NEW p
    PROVE  /\ m # 0 /\ p \in Matchings(m - 1, n) =>
                 p \in Matchings(m, n) /\ Cost(a, b, m, n, p) = Cost(a, b, m - 1, n, p) + 1
           /\ n # 0 /\ p \in Matchings(m, n - 1) =>
                 p \in Matchings(m, n) /\ Cost(a, b, m, n, p) = Cost(a, b, m, n - 1, p) + 1
<1> DEFINE k == Cardinality(p[1])
           d == Cardinality(Differ(a, b, p[1], p[2]))
<1>1. \A i, j \in Nat : p \in Matchings(i, j) => k \in Nat /\ d \in Nat
  BY MatchingIs, CostIs
<1>2. ASSUME m # 0, p \in Matchings(m - 1, n)
      PROVE  p \in Matchings(m, n) /\ Cost(a, b, m, n, p) = Cost(a, b, m - 1, n, p) + 1
  <2> DEFINE i == m - 1
  <2>1. i \in Nat /\ 1..i \subseteq 1..m /\ p \in Matchings(i, n)
    BY <1>2
  <2>2. p \in Matchings(m, n)
    BY <2>1 DEF Matchings
  <2>3. k \in Nat /\ d \in Nat
    <3> HIDE DEF k, d, i
    <3> QED
      BY <1>1, <2>1
  <2>4. Cost(a, b, m, n, p) = m + n - 2 * k + d /\ Cost(a, b, m - 1, n, p) = (m - 1) + n - 2 * k + d
    BY DEF Cost
  <2> HIDE DEF k, d
  <2> QED
    BY <2>2, <2>3, <2>4
<1>3. ASSUME n # 0, p \in Matchings(m, n - 1)
      PROVE  p \in Matchings(m, n) /\ Cost(a, b, m, n, p) = Cost(a, b, m, n - 1, p) + 1
  <2> DEFINE j == n - 1
  <2>1. j \in Nat /\ 1..j \subseteq 1..n /\ p \in Matchings(m, j)
    BY <1>3
  <2>2. p \in Matchings(m, n)
    BY <2>1 DEF Matchings
  <2>3. k \in Nat /\ d \in Nat
    <3> HIDE DEF k, d, j
    <3> QED
      BY <1>1, <2>1
  <2>4. Cost(a, b, m, n, p) = m + n - 2 * k + d /\ Cost(a, b, m, n - 1, p) = m + (n - 1) - 2 * k + d
    BY DEF Cost
  <2> HIDE DEF k, d
  <2> QED
    BY <2>2, <2>3, <2>4
<1> QED
  BY <1>2, <1>3

LEMMA LeastOfThree ==
    ASSUME NEW x \in Nat, NEW y \in Nat, NEW z \in Nat
    PROVE  Min({x, y, z}) \in {x, y, z} /\ \A w \in {x, y, z} : Min({x, y, z}) <= w
<1> DEFINE S == {x, y, z}
<1>1. PICK s \in S : \A w \in S : s <= w
  <2>1. S \in SUBSET Nat /\ S # {}
    OBVIOUS
  <2> HIDE DEF S
  <2> QED
    BY <2>1, LeastOf
<1> HIDE DEF S
<1>2. Min(S) \in S /\ \A w \in S : Min(S) <= w
  BY <1>1 DEF Min
<1> QED
  BY <1>2 DEF S

(* The rows of the code: the distance of two names from those of the names  *)
(* without a last letter.                                                   *)
Letters(a, b, m, n) == IF a[m] = b[n] THEN 0 ELSE 1

LEMMA CheapestByRows ==
    ASSUME NEW a, NEW b, NEW m \in Nat, NEW n \in Nat
    PROVE  /\ m = 0 => Cheapest(a, b, m, n) = n
           /\ n = 0 => Cheapest(a, b, m, n) = m
           /\ m # 0 /\ n # 0 => Cheapest(a, b, m, n) =
                 Min({Cheapest(a, b, m - 1, n) + 1, Cheapest(a, b, m, n - 1) + 1,
                      Cheapest(a, b, m - 1, n - 1) + Letters(a, b, m, n)})
<1> DEFINE c == Cheapest(a, b, m, n)
<1>1. /\ c \in Nat /\ m - n <= c /\ n - m <= c
      /\ \E p \in Matchings(m, n) : Cost(a, b, m, n, p) = c
      /\ \A p \in Matchings(m, n) : c <= Cost(a, b, m, n, p)
  BY CheapestIs
<1>2. c <= m + n
  <2> DEFINE p == <<{}, {}>>
  <2>1. p \in Matchings(m, n)
    BY DEF Matchings
  <2>2. Cost(a, b, m, n, p) = m + n
    <3>1. Cardinality({}) = 0
      BY FS_EmptySet
    <3>2. Differ(a, b, {}, {}) = {}
      BY DEF Differ
    <3>3. p[1] = {} /\ p[2] = {}
      OBVIOUS
    <3> HIDE DEF p
    <3>4. Cost(a, b, m, n, p) = m + n - 2 * 0 + 0
      BY <3>1, <3>2, <3>3 DEF Cost
    <3> QED
      BY <3>4
  <2> HIDE DEF p, c
  <2> QED
    BY <1>1, <2>1, <2>2
<1>3. ASSUME m # 0, n # 0
      PROVE  c = Min({Cheapest(a, b, m - 1, n) + 1, Cheapest(a, b, m, n - 1) + 1,
                      Cheapest(a, b, m - 1, n - 1) + Letters(a, b, m, n)})
  <2> DEFINE i == m - 1
             j == n - 1
             e == Letters(a, b, m, n)
             x == Cheapest(a, b, i, n)
             y == Cheapest(a, b, m, j)
             z == Cheapest(a, b, i, j)
             w == Min({x + 1, y + 1, z + e})
  <2>1. i \in Nat /\ j \in Nat /\ m \in Nat \ {0} /\ n \in Nat \ {0} /\ e \in {0, 1}
    BY <1>3 DEF Letters
  <2>2. /\ x \in Nat /\ \E p \in Matchings(i, n) : Cost(a, b, i, n, p) = x
        /\ \A p \in Matchings(i, n) : x <= Cost(a, b, i, n, p)
    <3> HIDE DEF i
    <3> QED
      BY <2>1, CheapestIs
  <2>3. /\ y \in Nat /\ \E p \in Matchings(m, j) : Cost(a, b, m, j, p) = y
        /\ \A p \in Matchings(m, j) : y <= Cost(a, b, m, j, p)
    <3> HIDE DEF j
    <3> QED
      BY <2>1, CheapestIs
  <2>4. /\ z \in Nat /\ \E p \in Matchings(i, j) : Cost(a, b, i, j, p) = z
        /\ \A p \in Matchings(i, j) : z <= Cost(a, b, i, j, p)
    <3> HIDE DEF i, j
    <3> QED
      BY <2>1, CheapestIs
  <2>5. w \in {x + 1, y + 1, z + e} /\ w <= x + 1 /\ w <= y + 1 /\ w <= z + e
    <3> DEFINE u == x + 1
               v == y + 1
               t == z + e
    <3>1. u \in Nat /\ v \in Nat /\ t \in Nat
      BY <2>1, <2>2, <2>3, <2>4
    <3> HIDE DEF u, v, t
    <3>2. Min({u, v, t}) \in {u, v, t} /\ \A s \in {u, v, t} : Min({u, v, t}) <= s
      BY <3>1, LeastOfThree
    <3> QED
      BY <3>2 DEF u, v, t
  <2>6. \A p : /\ p \in Matchings(i, n) => p \in Matchings(m, n) /\ Cost(a, b, m, n, p) = Cost(a, b, i, n, p) + 1
               /\ p \in Matchings(m, j) => p \in Matchings(m, n) /\ Cost(a, b, m, n, p) = Cost(a, b, m, j, p) + 1
    BY <1>3, LastUnmatched
  <2>7. \A q \in Matchings(i, j) :
           LET p == <<q[1] \cup {m}, q[2] \cup {n}>>
           IN  p \in Matchings(m, n) /\ Cost(a, b, m, n, p) = Cost(a, b, i, j, q) + e
    BY <2>1, LastMatched DEF Letters
  <2> HIDE DEF c, i, j, e, x, y, z, w
  <2>8. c <= x + 1
    <3>1. PICK p \in Matchings(i, n) : Cost(a, b, i, n, p) = x
      BY <2>2
    <3> QED
      BY <1>1, <2>6, <3>1
  <2>9. c <= y + 1
    <3>1. PICK p \in Matchings(m, j) : Cost(a, b, m, j, p) = y
      BY <2>3
    <3> QED
      BY <1>1, <2>6, <3>1
  <2>10. c <= z + e
    <3>1. PICK q \in Matchings(i, j) : Cost(a, b, i, j, q) = z
      BY <2>4
    <3>2. PICK p \in Matchings(m, n) : Cost(a, b, m, n, p) = z + e
      BY <2>7, <3>1
    <3> QED
      BY <1>1, <3>2
  <2>11. x + 1 <= c \/ y + 1 <= c \/ z + e <= c
    <3>1. PICK p \in Matchings(m, n) : Cost(a, b, m, n, p) = c
      BY <1>1
    <3> DEFINE I == p[1]
               J == p[2]
    <3>2. /\ I \subseteq 1..m /\ J \subseteq 1..n /\ IsFiniteSet(I) /\ IsFiniteSet(J) /\ p = <<I, J>>
          /\ Cardinality(I) \in Nat /\ Cardinality(J) = Cardinality(I)
      BY <3>1, MatchingIs
    <3>3. CASE m \notin I
      <4>1. I \subseteq 1..i
        BY <3>2, <3>3 DEF i
      <4>2. p \in Matchings(i, n)
        BY <3>2, <4>1 DEF Matchings
      <4>3. Cost(a, b, i, n, p) + 1 = c /\ x <= Cost(a, b, i, n, p)
        BY <2>2, <2>6, <3>1, <4>2
      <4>4. Cost(a, b, i, n, p) \in Nat
        BY <2>1, <4>2, CostIs
      <4> QED
        BY <2>2, <4>3, <4>4
    <3>4. CASE n \notin J
      <4>1. J \subseteq 1..j
        BY <3>2, <3>4 DEF j
      <4>2. p \in Matchings(m, j)
        BY <3>2, <4>1 DEF Matchings
      <4>3. Cost(a, b, m, j, p) + 1 = c /\ y <= Cost(a, b, m, j, p)
        BY <2>3, <2>6, <3>1, <4>2
      <4>4. Cost(a, b, m, j, p) \in Nat
        BY <2>1, <4>2, CostIs
      <4> QED
        BY <2>3, <4>3, <4>4
    <3>5. CASE m \in I /\ n \in J
      <4> DEFINE q == <<I \ {m}, J \ {n}>>
      <4>1. I \ {m} \subseteq 1..i /\ J \ {n} \subseteq 1..j
        BY <3>2 DEF i, j
      <4>2. Cardinality(I \ {m}) = Cardinality(I) - 1 /\ Cardinality(J \ {n}) = Cardinality(J) - 1
        <5> HIDE DEF I, J
        <5> QED
          BY <3>2, <3>5, FS_RemoveElement
      <4>3. q \in Matchings(i, j)
        BY <3>2, <4>1, <4>2 DEF Matchings
      <4>4. <<q[1] \cup {m}, q[2] \cup {n}>> = p
        <5>1. (I \ {m}) \cup {m} = I /\ (J \ {n}) \cup {n} = J
          BY <3>5
        <5> HIDE DEF I, J
        <5> QED
          BY <3>2, <5>1
      <4> HIDE DEF q
      <4>5. Cost(a, b, i, j, q) + e = c /\ z <= Cost(a, b, i, j, q)
        BY <2>4, <2>7, <3>1, <4>3, <4>4
      <4>6. Cost(a, b, i, j, q) \in Nat
        BY <2>1, <4>3, CostIs
      <4> QED
        BY <2>1, <2>4, <4>5, <4>6
    <3> QED
      BY <3>3, <3>4, <3>5
  <2>12. c = w
    BY <1>1, <2>1, <2>2, <2>3, <2>4, <2>5, <2>8, <2>9, <2>10, <2>11
  <2> QED
    BY <2>12 DEF c, i, j, e, x, y, z, w
<1>4. (m = 0 => c = n) /\ (n = 0 => c = m)
  <2> HIDE DEF c
  <2> QED
    BY <1>1, <1>2
<1> QED
  BY <1>3, <1>4

(* levenshtein is the edit distance, of any two names.                      *)
LEMMA LevenshteinIs ==
    ASSUME NEW T, NEW a \in Seq(T), NEW b \in Seq(T)
    PROVE  Levenshtein(a, b) = EditDistance(a, b)
<1> DEFINE k == Len(a)
           l == Len(b)
           cost(i, j) == IF a[i] = b[j] THEN 0 ELSE 1
           P == (0..k) \X (0..l)
           row(f, i, j) == IF i = 0 THEN j ELSE IF j = 0 THEN i
                           ELSE Min({f[<<i - 1, j>>] + 1, f[<<i, j - 1>>] + 1,
                                     f[<<i - 1, j - 1>>] + cost(i, j)})
           Solves(f) == f = [p \in P |-> row(f, p[1], p[2])]
           d == CHOOSE f : Solves(f)
           best == [p \in P |-> Cheapest(a, b, p[1], p[2])]
<1>1. k \in Nat /\ l \in Nat
  OBVIOUS
<1>2. \A i \in 0..k, j \in 0..l : best[<<i, j>>] = Cheapest(a, b, i, j)
  OBVIOUS
<1>3. Solves(best)
  <2>1. ASSUME NEW i \in 0..k, NEW j \in 0..l
        PROVE  Cheapest(a, b, i, j) = row(best, i, j)
    <3>1. i \in Nat /\ j \in Nat
      BY <1>1
    <3>2. /\ i = 0 => Cheapest(a, b, i, j) = j
          /\ j = 0 => Cheapest(a, b, i, j) = i
          /\ i # 0 /\ j # 0 => Cheapest(a, b, i, j) =
               Min({Cheapest(a, b, i - 1, j) + 1, Cheapest(a, b, i, j - 1) + 1,
                    Cheapest(a, b, i - 1, j - 1) + Letters(a, b, i, j)})
      BY <3>1, CheapestByRows
    <3>3. i # 0 => i - 1 \in 0..k
      BY <1>1
    <3>4. j # 0 => j - 1 \in 0..l
      BY <1>1
    <3> HIDE DEF best, k, l
    <3>5. CASE i = 0 \/ j = 0
      BY <3>2, <3>5
    <3>6. CASE i # 0 /\ j # 0
      <4> DEFINE x == i - 1
                 y == j - 1
      <4>1. x \in 0..k /\ y \in 0..l
        BY <3>3, <3>4, <3>6
      <4> HIDE DEF x, y
      <4>2. /\ best[<<x, j>>] = Cheapest(a, b, x, j) /\ best[<<i, y>>] = Cheapest(a, b, i, y)
            /\ best[<<x, y>>] = Cheapest(a, b, x, y)
        BY <1>2, <4>1
      <4> QED
        BY <3>2, <3>6, <4>2 DEF Letters, x, y
    <3> QED
      BY <3>5, <3>6
  <2>2. \A p \in P : Cheapest(a, b, p[1], p[2]) = row(best, p[1], p[2])
    <3>1. \A p \in P : p[1] \in 0..k /\ p[2] \in 0..l
      OBVIOUS
    <3> HIDE DEF best, P, row, k, l
    <3> QED
      BY <2>1, <3>1
  <2>3. best = [p \in P |-> row(best, p[1], p[2])]
    <3>1. best = [p \in P |-> Cheapest(a, b, p[1], p[2])]
      OBVIOUS
    <3> HIDE DEF best, P, row
    <3> QED
      BY <2>2, <3>1
  <2> QED
    BY <2>3
<1>4. Solves(d)
  <2> HIDE DEF Solves, best
  <2> QED
    BY <1>3
<1>5. Levenshtein(a, b) = d[<<k, l>>]
  BY DEF Levenshtein
<1>6. \A i \in 0..k, j \in 0..l : d[<<i, j>>] =
         IF i = 0 THEN j ELSE IF j = 0 THEN i
         ELSE Min({d[<<i - 1, j>>] + 1, d[<<i, j - 1>>] + 1, d[<<i - 1, j - 1>>] + Letters(a, b, i, j)})
  <2>1. d = [p \in P |-> row(d, p[1], p[2])]
    BY <1>4
  <2> HIDE DEF d, row
  <2>2. \A i \in 0..k, j \in 0..l : d[<<i, j>>] = row(d, i, j)
    BY <2>1
  <2> QED
    BY <2>2 DEF Letters, row
<1> HIDE DEF d, k, l
<1> DEFINE N == {s \in Nat : \A i \in 0..k, j \in 0..l : i + j <= s => d[<<i, j>>] = Cheapest(a, b, i, j)}
<1>7. ASSUME NEW s \in Nat, s = 0 \/ s - 1 \in N PROVE s \in N
  <2> SUFFICES ASSUME NEW i \in 0..k, NEW j \in 0..l, i + j <= s
               PROVE  d[<<i, j>>] = Cheapest(a, b, i, j)
    OBVIOUS
  <2>1. i \in Nat /\ j \in Nat
    BY <1>1
  <2>2. /\ i = 0 => Cheapest(a, b, i, j) = j
        /\ j = 0 => Cheapest(a, b, i, j) = i
        /\ i # 0 /\ j # 0 => Cheapest(a, b, i, j) =
             Min({Cheapest(a, b, i - 1, j) + 1, Cheapest(a, b, i, j - 1) + 1,
                  Cheapest(a, b, i - 1, j - 1) + Letters(a, b, i, j)})
    BY <2>1, CheapestByRows
  <2>3. CASE i = 0 \/ j = 0
    BY <1>6, <2>2, <2>3
  <2>4. CASE i # 0 /\ j # 0
    <3> DEFINE x == i - 1
               y == j - 1
    <3>1. /\ x \in 0..k /\ y \in 0..l /\ s # 0
          /\ x + j <= s - 1 /\ i + y <= s - 1 /\ x + y <= s - 1
      BY <1>1, <2>1, <2>4
    <3>2. \A u \in 0..k, v \in 0..l : u + v <= s - 1 => d[<<u, v>>] = Cheapest(a, b, u, v)
      BY <1>7, <3>1
    <3> HIDE DEF x, y
    <3>3. d[<<x, j>>] = Cheapest(a, b, x, j) /\ d[<<i, y>>] = Cheapest(a, b, i, y) /\ d[<<x, y>>] = Cheapest(a, b, x, y)
      BY <3>1, <3>2
    <3> QED
      BY <1>6, <2>2, <2>4, <3>3 DEF x, y
  <2> QED
    BY <2>3, <2>4
<1>8. 0 \in N /\ \A s \in Nat : s \in N => s + 1 \in N
  <2>1. 0 \in N
    <3> HIDE DEF N
    <3> QED
      BY <1>7
  <2>2. ASSUME NEW s \in Nat, s \in N PROVE s + 1 \in N
    <3>1. s + 1 \in Nat /\ (s + 1) - 1 = s
      OBVIOUS
    <3> HIDE DEF N
    <3> QED
      BY <1>7, <2>2, <3>1
  <2> QED
    BY <2>1, <2>2
<1>9. k + l \in N
  <2> DEFINE s == k + l
  <2>1. s \in Nat
    BY <1>1
  <2> HIDE DEF N, s
  <2>2. s \in N
    BY <1>8, <2>1, Climb
  <2> QED
    BY <2>2 DEF s
<1>10. d[<<k, l>>] = Cheapest(a, b, k, l)
  BY <1>1, <1>9
<1> QED
  BY <1>5, <1>10 DEF EditDistance, Cheapest, k, l

(* Only a name itself is at no distance, and none is nearer than its length. *)
LEMMA DistanceIs ==
    ASSUME NEW T, NEW a \in Seq(T), NEW b \in Seq(T)
    PROVE  /\ EditDistance(a, b) \in Nat
           /\ Len(a) - Len(b) <= EditDistance(a, b) /\ Len(b) - Len(a) <= EditDistance(a, b)
           /\ EditDistance(a, b) = 0 <=> a = b
<1> DEFINE k == Len(a)
           l == Len(b)
           c == Cheapest(a, b, k, l)
<1>1. k \in Nat /\ l \in Nat /\ EditDistance(a, b) = c
  BY DEF EditDistance, Cheapest
<1>2. c \in Nat /\ k - l <= c /\ l - k <= c
  <2> HIDE DEF k, l
  <2> QED
    BY <1>1, CheapestIs
<1>3. ASSUME NEW n \in Nat
      PROVE  LET m == n + 1
             IN  /\ Cheapest(a, b, m, m) = 0 => Cheapest(a, b, n, n) = 0 /\ a[m] = b[m]
                 /\ Cheapest(a, b, n, n) = 0 /\ a[m] = b[m] => Cheapest(a, b, m, m) = 0
  <2> DEFINE m == n + 1
             x == Cheapest(a, b, n, m) + 1
             y == Cheapest(a, b, m, n) + 1
             z == Cheapest(a, b, n, n) + Letters(a, b, m, m)
             w == Cheapest(a, b, m, m)
  <2>1. m \in Nat /\ m # 0 /\ m - 1 = n
    OBVIOUS
  <2> HIDE DEF m
  <2>2. /\ Cheapest(a, b, n, m) \in Nat /\ Cheapest(a, b, m, n) \in Nat
        /\ Cheapest(a, b, n, n) \in Nat /\ w \in Nat
    BY <2>1, CheapestIs
  <2>3. Letters(a, b, m, m) \in {0, 1} /\ (Letters(a, b, m, m) = 0 <=> a[m] = b[m])
    BY DEF Letters
  <2>4. w = Min({x, y, z})
    <3>1. w = Min({Cheapest(a, b, m - 1, m) + 1, Cheapest(a, b, m, m - 1) + 1,
                   Cheapest(a, b, m - 1, m - 1) + Letters(a, b, m, m)})
      BY <2>1, CheapestByRows
    <3> QED
      BY <2>1, <3>1
  <2>5. x \in Nat /\ y \in Nat /\ z \in Nat /\ x # 0 /\ y # 0
        /\ (z = 0 <=> Cheapest(a, b, n, n) = 0 /\ a[m] = b[m])
    BY <2>2, <2>3
  <2> HIDE DEF x, y, z, w
  <2>6. w \in {x, y, z} /\ w <= z
    BY <2>4, <2>5, LeastOfThree
  <2>7. w = 0 <=> z = 0
    BY <2>2, <2>5, <2>6
  <2> QED
    BY <2>5, <2>7 DEF w, m
<1>4. ASSUME c = 0 PROVE a = b
  <2> DEFINE N == {n \in Nat : Cheapest(a, b, n, n) = 0 => \A i \in 1..n : a[i] = b[i]}
  <2>1. 0 \in N
    OBVIOUS
  <2>2. ASSUME NEW n \in Nat, n \in N PROVE n + 1 \in N
    <3> SUFFICES ASSUME Cheapest(a, b, n + 1, n + 1) = 0, NEW i \in 1..(n + 1)
                 PROVE  a[i] = b[i]
      OBVIOUS
    <3>1. Cheapest(a, b, n, n) = 0 /\ a[n + 1] = b[n + 1]
      BY <1>3
    <3>2. i \in 1..n \/ i = n + 1
      OBVIOUS
    <3> QED
      BY <2>2, <3>1, <3>2
  <2>3. k = l
    BY <1>1, <1>2, <1>4
  <2>4. k \in N
    <3> HIDE DEF N, k
    <3> QED
      BY <1>1, <2>1, <2>2, Climb
  <2>5. Cheapest(a, b, k, k) = 0
    BY <1>4, <2>3
  <2>6. \A i \in 1..k : a[i] = b[i]
    <3> HIDE DEF k
    <3> QED
      BY <2>4, <2>5
  <2> QED
    BY <2>3, <2>6
<1>5. ASSUME a = b PROVE c = 0
  <2> DEFINE N == {n \in Nat : Cheapest(a, b, n, n) = 0}
             zero == 0
  <2>1. zero \in N
    <3>1. zero \in Nat /\ zero = 0
      OBVIOUS
    <3> HIDE DEF zero, N, c
    <3>2. ASSUME NEW m \in Nat, NEW n \in Nat, m = 0 PROVE Cheapest(a, b, m, n) = n
      <4>1. /\ m = 0 => Cheapest(a, b, m, n) = n
            /\ n = 0 => Cheapest(a, b, m, n) = m
            /\ m # 0 /\ n # 0 => Cheapest(a, b, m, n) =
                  Min({Cheapest(a, b, m - 1, n) + 1, Cheapest(a, b, m, n - 1) + 1,
                       Cheapest(a, b, m - 1, n - 1) + Letters(a, b, m, n)})
        BY CheapestByRows
      <4> QED
        BY <3>2, <4>1
    <3>3. Cheapest(a, b, zero, zero) = zero
      BY <3>1, <3>2
    <3> QED
      BY <3>1, <3>3 DEF N
  <2>2. ASSUME NEW n \in Nat, n \in N PROVE n + 1 \in N
    <3>1. a[n + 1] = b[n + 1]
      BY <1>5
    <3>2. Cheapest(a, b, n + 1, n + 1) = 0
      BY <1>3, <2>2, <3>1
    <3> QED
      BY <3>2
  <2>3. k \in N /\ l = k
    <3>1. l = k
      BY <1>5
    <3> HIDE DEF N, k, l
    <3> QED
      BY <1>1, <2>1, <2>2, <3>1, Climb DEF zero
  <2> QED
    BY <2>3
<1> HIDE DEF c, k, l
<1> QED
  BY <1>1, <1>2, <1>4, <1>5 DEF k, l

(* How far a name may be.                                                   *)
LEMMA ToleranceIs ==
    ASSUME NEW T, NEW a \in Seq(T), NEW b \in Seq(T)
    PROVE  /\ Tolerance(a, b) \in {1, 2, 3}
           /\ Tolerance(a, b) = 3 => Len(a) >= 9 /\ Len(b) >= 9
           /\ Tolerance(a, b) = 1 => Len(a) < 6 \/ Len(b) < 6
<1> DEFINE k == Len(a)
           l == Len(b)
           x == k \div 3
           y == l \div 3
           three == 3
           m == Min({three, x, y})
           t == Max({1, m})
<1>1. /\ k \in Nat /\ l \in Nat /\ x \in Nat /\ y \in Nat /\ three \in Nat /\ three = 3
      /\ (x >= 3 => k >= 9) /\ (y >= 3 => l >= 9) /\ (x < 2 => k < 6) /\ (y < 2 => l < 6)
  <2>1. k \in Nat /\ l \in Nat
    OBVIOUS
  <2> HIDE DEF k, l
  <2> QED
    BY <2>1
<1>2. Tolerance(a, b) = t
  BY DEF Tolerance
<1> HIDE DEF k, l, x, y, three
<1>3. m \in {three, x, y} /\ \A w \in {three, x, y} : m <= w
  BY <1>1, LeastOfThree
<1> HIDE DEF m
<1>4. m \in Nat
  BY <1>1, <1>3
<1>5. t = IF m <= 1 THEN 1 ELSE m
  <2> DEFINE S == {1, m}
             u == IF m <= 1 THEN 1 ELSE m
  <2>1. u \in S /\ (\A s \in S : s <= u) /\ \A r \in S : (\A s \in S : s <= r) => r = u
    BY <1>4
  <2> HIDE DEF S, u
  <2>2. Max(S) = u
    BY <2>1 DEF Max
  <2> QED
    BY <2>2 DEF S, u
<1> HIDE DEF t
<1>6. t \in {1, 2, 3} /\ (t = 3 => x >= 3 /\ y >= 3) /\ (t = 1 => x < 2 \/ y < 2)
  BY <1>1, <1>3, <1>4, <1>5
<1> QED
  BY <1>1, <1>2, <1>6 DEF k, l

(* The first that is kept.                                                  *)
LEMMA FirstKept ==
    ASSUME NEW T, NEW seq \in Seq(T), NEW S
    PROVE  /\ Keep(seq, S) # <<>> => Keep(seq, S)[1] \in Range(seq) \cap S
           /\ Keep(seq, S) = <<>> => Range(seq) \cap S = {}
<1> DEFINE kept == Keep(seq, S)
<1>1. kept \in Seq(T) /\ Range(kept) = Range(seq) \cap S
  BY KeptIs
<1> HIDE DEF kept
<1>2. kept # <<>> => kept[1] \in Range(kept)
  <2>1. kept # <<>> => 1 \in DOMAIN kept
    BY <1>1
  <2> QED
    BY <2>1 DEF Range
<1>3. kept = <<>> => Range(kept) = {}
  BY DEF Range
<1> QED
  BY <1>1, <1>2, <1>3 DEF kept

(* closest_entity: an entity that is offered is as near as any, but for a   *)
(* plural, and none that is near enough is withheld.                        *)
Distance(start, e) == EditDistance(LowerCase(start), LowerCase(e))

LEMMA LowerCaseIs ==
    ASSUME NEW name \in Seq(Letter)
    PROVE  LowerCase(name) \in Seq(Letter) /\ Len(LowerCase(name)) = Len(name)
<1>1. /\ Len(name) \in Nat /\ DOMAIN name = 1..Len(name)
      /\ \A i \in 1..Len(name) : Lower[name[i]] \in Letter
  <2>1. Lower \in [Letter -> Letter]
    BY OqlAssumption
  <2>2. Len(name) \in Nat /\ DOMAIN name = 1..Len(name) /\ \A i \in 1..Len(name) : name[i] \in Letter
    OBVIOUS
  <2> QED
    BY <2>1, <2>2
<1>2. LowerCase(name) = [i \in 1..Len(name) |-> Lower[name[i]]]
  BY <1>1 DEF LowerCase
<1> QED
  BY <1>1, <1>2

LEMMA ClosestIs ==
    ASSUME NEW start \in Seq(Letter), NEW entities \in Seq(Seq(Letter)), Absent \notin Range(entities)
    PROVE  LET d == ClosestEntity(start, entities)
           IN  /\ d # Absent =>
                     /\ d \in Range(entities)
                     /\ \A e \in Range(entities) : Distance(start, e) < Distance(start, d) =>
                           Flips(LowerCase(d), LowerCase(start)) /\ Distance(start, e) # 0
               /\ d = Absent /\ Len(start) <= MaxFuzzy =>
                     \A e \in Range(entities) : Distance(start, e) > Tolerance(start, e)
<1> DEFINE R == Range(entities)
           lc == LowerCase(start)
           D(e) == Distance(start, e)
           S == {e \in R : LowerCase(e) = lc}
           F == {e \in R : Flips(LowerCase(e), lc)}
           near == {e \in R : D(e) <= Tolerance(lc, e)}
           N == {e \in near : \A f \in near : D(e) <= D(f)}
           d == ClosestEntity(start, entities)
<1>1. \A e \in R : e \in Seq(Letter)
  BY DEF Range
<1>2. lc \in Seq(Letter) /\ Len(lc) = Len(start)
  BY LowerCaseIs
<1>3. ASSUME NEW e \in R
      PROVE  /\ D(e) \in Nat /\ Len(lc) - Len(e) <= D(e) /\ (D(e) = 0 <=> LowerCase(e) = lc)
             /\ Levenshtein(lc, LowerCase(e)) = D(e)
  <2> DEFINE el == LowerCase(e)
  <2>1. el \in Seq(Letter) /\ Len(el) = Len(e)
    BY <1>1, LowerCaseIs
  <2>2. D(e) = EditDistance(lc, el)
    BY DEF Distance
  <2> HIDE DEF lc, el, D
  <2>3. /\ EditDistance(lc, el) \in Nat /\ Len(lc) - Len(el) <= EditDistance(lc, el)
        /\ (EditDistance(lc, el) = 0 <=> lc = el)
    BY <1>2, <2>1, DistanceIs
  <2>4. Levenshtein(lc, el) = EditDistance(lc, el)
    BY <1>2, <2>1, LevenshteinIs
  <2> QED
    BY <2>1, <2>2, <2>3, <2>4 DEF el
<1>4. d = IF Keep(entities, S) # <<>> THEN Keep(entities, S)[1]
          ELSE IF Keep(entities, F) # <<>> THEN Keep(entities, F)[1]
          ELSE IF Len(lc) > MaxFuzzy \/ near = {} THEN Absent
          ELSE Keep(entities, N)[1]
  <2> DEFINE far == {e \in R : Levenshtein(lc, LowerCase(e)) <= Tolerance(lc, e)}
             M == {e \in far : \A f \in far :
                     Levenshtein(lc, LowerCase(e)) <= Levenshtein(lc, LowerCase(f))}
  <2>1. d = IF Keep(entities, S) # <<>> THEN Keep(entities, S)[1]
            ELSE IF Keep(entities, F) # <<>> THEN Keep(entities, F)[1]
            ELSE IF Len(lc) > MaxFuzzy \/ far = {} THEN Absent
            ELSE Keep(entities, M)[1]
    BY DEF ClosestEntity
  <2> HIDE DEF d, D, lc, R
  <2>2. far = near
    BY <1>3
  <2> HIDE DEF far, near
  <2>3. \A e \in far : e \in R
    BY DEF far
  <2>4. M = N
    BY <1>3, <2>2, <2>3
  <2> QED
    BY <2>1, <2>2, <2>4
<1>5. \A e \in R : Tolerance(lc, e) \in {1, 2, 3} /\ Tolerance(start, e) = Tolerance(lc, e)
                   /\ (Tolerance(lc, e) = 3 => Len(lc) >= 9)
                   /\ (Tolerance(lc, e) = 1 => Len(lc) < 6 \/ Len(e) < 6)
  <2> SUFFICES ASSUME NEW e \in R
               PROVE  /\ Tolerance(lc, e) \in {1, 2, 3} /\ Tolerance(start, e) = Tolerance(lc, e)
                      /\ (Tolerance(lc, e) = 3 => Len(lc) >= 9)
                      /\ (Tolerance(lc, e) = 1 => Len(lc) < 6 \/ Len(e) < 6)
    OBVIOUS
  <2>1. e \in Seq(Letter)
    BY <1>1
  <2>2. Tolerance(start, e) = Tolerance(lc, e)
    BY <1>2 DEF Tolerance
  <2> HIDE DEF lc
  <2>3. /\ Tolerance(lc, e) \in {1, 2, 3}
        /\ Tolerance(lc, e) = 3 => Len(lc) >= 9 /\ Len(e) >= 9
        /\ Tolerance(lc, e) = 1 => Len(lc) < 6 \/ Len(e) < 6
    BY <1>2, <2>1, ToleranceIs
  <2> QED
    BY <2>2, <2>3
<1>6. \A e \in R : Len(e) \in Nat
  <2>1. \A e \in Seq(Letter) : Len(e) \in Nat
    OBVIOUS
  <2> HIDE DEF R
  <2> QED
    BY <1>1, <2>1
<1>7. Len(lc) \in Nat /\ Len(start) \in Nat /\ MaxFuzzy \in Nat
  <2>1. MaxFuzzy \in Nat
    BY CapsAre
  <2>2. Len(start) \in Nat
    OBVIOUS
  <2> QED
    BY <1>2, <2>1, <2>2
<1>8. near # {} => \E e \in near : \A f \in near : D(e) <= D(f)
  <2> DEFINE Ds == {D(e) : e \in near}
  <2>1. Ds \in SUBSET Nat
    BY <1>3
  <2> SUFFICES ASSUME near # {} PROVE \E e \in near : \A f \in near : D(e) <= D(f)
    OBVIOUS
  <2>2. Ds # {}
    OBVIOUS
  <2>3. PICK c \in Ds : \A x \in Ds : c <= x
    <3> HIDE DEF Ds
    <3> QED
      BY <2>1, <2>2, LeastOf
  <2>4. PICK e \in near : D(e) = c
    OBVIOUS
  <2> QED
    BY <2>3, <2>4
<1> DEFINE Good == /\ d # Absent =>
                         /\ d \in R
                         /\ \A e \in R : D(e) < D(d) => Flips(LowerCase(d), lc) /\ D(e) # 0
                   /\ d = Absent /\ Len(start) <= MaxFuzzy => \A e \in R : D(e) > Tolerance(start, e)
<1>9. entities \in Seq(Seq(Letter)) /\ Absent \notin R
  OBVIOUS
<1>10. \A e \in S : e \in R /\ LowerCase(e) = lc
  OBVIOUS
<1>11. \A e \in F : e \in R /\ Flips(LowerCase(e), lc)
  OBVIOUS
<1>12. \A e \in near : e \in R /\ D(e) <= Tolerance(lc, e)
  OBVIOUS
<1>13. \A e \in R : D(e) <= Tolerance(lc, e) => e \in near
  OBVIOUS
<1>14. \A e \in N : e \in near /\ \A f \in near : D(e) <= D(f)
  OBVIOUS
<1>15. \A e \in near : (\A f \in near : D(e) <= D(f)) => e \in N
  OBVIOUS
<1>16. (\A e \in R : LowerCase(e) = lc => e \in S) /\ R = Range(entities)
  OBVIOUS
<1> HIDE DEF R, lc, D, S, F, near, N, d
<1>17. CASE Keep(entities, S) # <<>>
  <2>1. d \in S
    BY <1>4, <1>17, FirstKept
  <2>2. d \in R /\ D(d) = 0
    BY <1>3, <1>10, <2>1
  <2>3. Good
    BY <1>3, <1>9, <2>2
  <2> QED
    BY <2>3 DEF d, R, D, lc
<1>18. CASE Keep(entities, S) = <<>> /\ Keep(entities, F) # <<>>
  <2>1. d \in F
    BY <1>4, <1>18, FirstKept
  <2>2. R \cap S = {}
    BY <1>16, <1>18, FirstKept
  <2>3. \A e \in R : D(e) # 0
    BY <1>3, <1>16, <2>2
  <2>4. Good
    BY <1>9, <1>11, <2>1, <2>3
  <2> QED
    BY <2>4 DEF d, R, D, lc
<1>19. CASE Keep(entities, S) = <<>> /\ Keep(entities, F) = <<>> /\ (Len(lc) > MaxFuzzy \/ near = {})
  <2>1. d = Absent
    BY <1>4, <1>19
  <2>2. ASSUME Len(start) <= MaxFuzzy, NEW e \in R PROVE D(e) > Tolerance(start, e)
    <3>1. near = {}
      BY <1>2, <1>7, <1>19, <2>2
    <3>2. ~(D(e) <= Tolerance(lc, e))
      BY <1>13, <3>1
    <3> QED
      BY <1>3, <1>5, <3>2
  <2>3. Good
    BY <2>1, <2>2
  <2> QED
    BY <2>3 DEF d, R, D, lc
<1>20. CASE Keep(entities, S) = <<>> /\ Keep(entities, F) = <<>> /\ ~(Len(lc) > MaxFuzzy \/ near = {})
  <2>1. d = Keep(entities, N)[1]
    BY <1>4, <1>20
  <2>2. PICK f \in near : f \in N
    BY <1>8, <1>15, <1>20
  <2>3. f \in R \cap N
    BY <1>12, <2>2
  <2>4. d \in N
    BY <1>16, <2>1, <2>3, FirstKept
  <2>5. d \in R /\ d \in near /\ D(d) <= Tolerance(lc, d) /\ \A g \in near : D(d) <= D(g)
    BY <1>12, <1>14, <2>4
  <2>6. ASSUME NEW e \in R, D(e) < D(d) PROVE FALSE
    <3>1. e \notin near
      BY <1>3, <2>5, <2>6
    <3>2. D(e) > Tolerance(lc, e)
      BY <1>3, <1>5, <1>13, <3>1
    <3>3. Tolerance(lc, d) = 3 /\ Tolerance(lc, e) = 1 /\ D(e) = 2
      BY <1>3, <1>5, <2>5, <2>6, <3>2
    <3>4. Len(lc) >= 9 /\ Len(e) < 6
      BY <1>5, <1>6, <1>7, <2>5, <3>3
    <3> QED
      BY <1>3, <1>6, <1>7, <3>3, <3>4
  <2>7. Good
    BY <1>9, <2>5, <2>6
  <2> QED
    BY <2>7 DEF d, R, D, lc
<1> QED
  BY <1>17, <1>18, <1>19, <1>20

(* A name of a schema that is not among the first ones is past the cap: the *)
(* first MaxEntities that Distinct leaves come before it wherever it stands. *)
LEMMA CutIsPast ==
    ASSUME NEW T, NEW schema \in Seq(T), NEW e \in Entities(schema),
           e \notin Range(FirstOf(Distinct(Keep(schema, Entities(schema))), MaxEntities))
    PROVE  PastCap(schema, e)
<1> DEFINE S == Entities(schema)
           kept == Keep(schema, S)
           place == Places(schema, S)
           once == Distinct(kept)
           cut == FirstOf(once, MaxEntities)
           M == MaxEntities
<1>1. M \in Nat
  BY CapsAre
<1>2. e \in Range(schema) \cap S /\ S \subseteq Range(schema) /\ Absent \notin S
  BY DEF Entities
<1> SUFFICES ASSUME NEW i \in DOMAIN schema, schema[i] = e
             PROVE  Cardinality({schema[k] : k \in 1..(i - 1)} \ {e, Absent}) >= M
  BY DEF PastCap
<1> HIDE DEF S
<1>3. Picks(place, kept, schema, S) /\ kept \in Seq(T) /\ Range(kept) = Range(schema) \cap S
  BY KeepIs, KeptIs
<1> HIDE DEF place, kept
<1>4. /\ once \in Seq(T) /\ Range(once) = Range(kept)
      /\ \A p, q \in 1..Len(once) : once[p] = once[q] => p = q
      /\ \A m \in 1..Len(kept), p, q \in 1..Len(once) :
            p < q /\ kept[m] = once[q] => \E l \in 1..(m - 1) : kept[l] = once[p]
  BY <1>3, DistinctIs
<1> HIDE DEF once
<1>5. /\ cut \in Seq(T) /\ Len(cut) = (IF Len(once) <= M THEN Len(once) ELSE M)
      /\ \A p \in 1..Len(cut) : cut[p] = once[p]
  BY <1>1, <1>4, FirstOfIs
<1>6. e \notin Range(cut)
  BY DEF cut, once, kept, S
<1> HIDE DEF cut, M
<1>7. /\ DOMAIN once = 1..Len(once) /\ DOMAIN cut = 1..Len(cut) /\ DOMAIN schema = 1..Len(schema)
      /\ Len(once) \in Nat /\ Len(kept) \in Nat
  BY <1>3, <1>4, <1>5
<1>8. PICK q \in 1..Len(once) : once[q] = e
  BY <1>2, <1>3, <1>4, <1>7 DEF Range
<1>9. M < q /\ M \in Nat
  <2>1. q \notin 1..Len(cut)
    <3>1. \A p \in 1..Len(cut) : once[p] \in Range(cut)
      BY <1>5, <1>7 DEF Range
    <3> QED
      BY <1>6, <1>8, <3>1
  <2> QED
    BY <1>1, <1>5, <1>7, <2>1
<1>10. /\ \A j \in 1..Len(kept) : kept[j] = schema[place[j]] /\ place[j] \in 1..Len(schema)
       /\ \A j, k \in 1..Len(kept) : j < k => place[j] < place[k]
  BY <1>3 DEF Picks
<1>11. PICK m \in 1..Len(kept) : place[m] = i
  BY <1>2, <1>3, <1>7 DEF Picks
<1> DEFINE B == {schema[k] : k \in 1..(i - 1)} \ {e, Absent}
<1>12. ASSUME NEW p \in 1..M PROVE once[p] \in B
  <2>1. p \in 1..Len(once) /\ p < q
    BY <1>7, <1>9
  <2>2. kept[m] = once[q]
    BY <1>8, <1>10, <1>11
  <2>3. PICK l \in 1..(m - 1) : kept[l] = once[p]
    BY <1>4, <2>1, <2>2
  <2>4. l \in 1..Len(kept) /\ l < m
    BY <1>7
  <2>5. place[l] \in 1..(i - 1) /\ schema[place[l]] = once[p]
    <3>1. place[l] < i /\ place[l] \in 1..Len(schema) /\ kept[l] = schema[place[l]]
      BY <1>10, <1>11, <2>4
    <3> QED
      BY <1>7, <2>3, <3>1
  <2>6. once[p] # e
    BY <1>4, <1>8, <2>1
  <2>7. once[p] # Absent
    <3>1. once[p] \in Range(once)
      BY <1>7, <2>1 DEF Range
    <3> QED
      BY <1>2, <1>3, <1>4, <3>1
  <2> QED
    BY <2>5, <2>6, <2>7
<1>13. IsFiniteSet(B) /\ Cardinality(B) \in Nat
  <2>1. i - 1 \in Nat
    BY <1>7
  <2> DEFINE P == 1..(i - 1)
             C == {schema[k] : k \in P}
  <2>2. IsFiniteSet(P)
    BY <2>1, FS_Interval
  <2> HIDE DEF P
  <2>3. IsFiniteSet(C)
    <3> DEFINE f == [k \in P |-> schema[k]]
    <3>1. f \in Surjection(P, C)
      BY DEF Surjection
    <3> HIDE DEF f, C
    <3> QED
      BY <2>2, <3>1, FS_Surjection
  <2>4. B \in SUBSET C
    BY DEF P
  <2> QED
    BY <2>3, <2>4, FS_Subset, FS_CardinalityType
<1>14. Cardinality(1..M) <= Cardinality(B)
  <2> DEFINE f == [p \in 1..M |-> once[p]]
  <2>1. f \in Injection(1..M, B)
    <3>1. \A p \in 1..M : p \in 1..Len(once)
      BY <1>7, <1>9
    <3>2. \A p, x \in 1..M : f[p] = f[x] => p = x
      BY <1>4, <3>1
    <3> QED
      BY <1>12, <3>2 DEF Injection, IsInjective
  <2> HIDE DEF f, B
  <2> QED
    BY <1>13, <2>1, FS_Injection
<1>15. Cardinality(1..M) = M
  BY <1>9, FS_Interval
<1> HIDE DEF B
<1>16. Cardinality(B) >= M
  BY <1>9, <1>13, <1>14, <1>15
<1> QED
  BY <1>16 DEF B

(* recognized_entity_names: the names of a schema that was read.            *)
LEMMA EntitiesAre ==
    ASSUME NEW schema, schema = Absent \/ schema \in Seq(Seq(Letter) \cup {Absent})
    PROVE  LET entities == RecognizedEntityNames(schema)
           IN  /\ entities = Absent \/ (entities \in Seq(Seq(Letter)) /\ Absent \notin Range(entities))
               /\ entities = <<>> => schema = <<>>
               /\ entities # Absent =>
                     /\ schema # Absent
                     /\ Knowable(schema) \subseteq Range(entities)
                     /\ Range(entities) \subseteq Entities(schema)
<1> DEFINE A == Seq(Letter) \cup {Absent}
           S == Range(schema) \ {Absent}
           kept == Keep(schema, S)
           once == Distinct(kept)
           names == FirstOf(once, MaxEntities)
           entities == RecognizedEntityNames(schema)
<1>1. Absent # <<>> /\ MaxEntities \in Nat
  BY CapsAre, OqlAssumption
<1>2. entities = IF schema = Absent THEN Absent
                 ELSE IF schema # <<>> /\ names = <<>> THEN Absent ELSE names
  BY DEF RecognizedEntityNames
<1>3. ASSUME schema # Absent
      PROVE  names \in Seq(Seq(Letter)) /\ Absent \notin Range(names) /\ Range(names) \subseteq S
  <2>1. schema \in Seq(A)
    BY <1>3
  <2>2. \A x \in Range(schema) : x \in A
    <3>1. \A i \in DOMAIN schema : schema[i] \in A
      BY <2>1
    <3> HIDE DEF A
    <3> QED
      BY <3>1 DEF Range
  <2>3. S \subseteq A /\ Absent \notin S
    BY <2>2
  <2> HIDE DEF A, S
  <2>4. kept \in Seq(A) /\ Range(kept) = Range(schema) \cap S
    BY <2>1, KeptIs
  <2> HIDE DEF kept
  <2>5. once \in Seq(A) /\ Range(once) = Range(kept)
    BY <2>4, DistinctIs
  <2> HIDE DEF once
  <2>6. names \in Seq(A) /\ Len(names) \in Nat /\ \A i \in 1..Len(names) : names[i] = once[i]
    BY <1>1, <2>5, FirstOfIs
  <2>7. Len(names) <= Len(once) /\ Len(once) \in Nat /\ DOMAIN once = 1..Len(once)
    <3>1. Len(names) = IF Len(once) <= MaxEntities THEN Len(once) ELSE MaxEntities
      BY <1>1, <2>5, FirstOfIs
    <3> QED
      BY <1>1, <2>5, <3>1
  <2> HIDE DEF names
  <2>8. \A i \in 1..Len(names) : names[i] \in S
    <3> SUFFICES ASSUME NEW i \in 1..Len(names) PROVE names[i] \in S
      OBVIOUS
    <3>1. i \in DOMAIN once
      BY <2>6, <2>7
    <3>2. once[i] \in Range(once)
      BY <3>1 DEF Range
    <3> QED
      BY <2>4, <2>5, <2>6, <3>2
  <2>9. \A i \in 1..Len(names) : names[i] \in Seq(Letter) /\ names[i] # Absent
    BY <2>3, <2>8 DEF A
  <2>10. DOMAIN names = 1..Len(names) /\ names \in Seq(Seq(Letter))
    BY <2>6, <2>9
  <2> QED
    BY <2>8, <2>9, <2>10 DEF Range
<1>6. ASSUME schema # Absent PROVE Knowable(schema) \subseteq Range(names)
  <2>1. schema \in Seq(A)
    BY <1>6
  <2> HIDE DEF A
  <2>2. \A e \in Entities(schema) : e \notin Range(names) => PastCap(schema, e)
    BY <2>1, CutIsPast DEF Entities
  <2> HIDE DEF names
  <2> QED
    BY <2>2 DEF Knowable
<1>7. S = Entities(schema)
  BY DEF Entities
<1> HIDE DEF names, entities, S
<1>4. entities = Absent \/ (entities \in Seq(Seq(Letter)) /\ Absent \notin Range(entities))
  BY <1>2, <1>3
<1>5. entities = <<>> => schema = <<>>
  BY <1>1, <1>2
<1>8. entities # Absent => schema # Absent /\ entities = names
  BY <1>2
<1> QED
  BY <1>3, <1>4, <1>5, <1>6, <1>7, <1>8 DEF entities

(* The repair of a query is an honest one.                                  *)
LEMMA RepairIs ==
    ASSUME NEW start \in Seq(Letter) \cup {Absent}, NEW reply,
           NEW schema, schema = Absent \/ schema \in Seq(Seq(Letter) \cup {Absent})
    PROVE  HonestRepair(start, schema, OqlAnswer(start, reply, schema))
<1> DEFINE told == OqlAnswer(start, reply, schema)
           result == Result(reply)
           entities == RecognizedEntityNames(schema)
           failed == result.is = "error"
           diagnosis == DiagnoseEmptyOql(start, schema, failed)
           d == told.diagnosis
           unknown == entities \notin {Absent, <<>>} /\ start # Absent /\ start \notin Range(entities)
           closest == ClosestEntity(start, entities)
<1>1. Absent # <<>> /\ Absent # "unknown start" /\ Absent # "no entities"
  BY OqlAssumption
<1>2. /\ entities = Absent \/ (entities \in Seq(Seq(Letter)) /\ Absent \notin Range(entities))
      /\ entities = <<>> => schema = <<>>
      /\ entities # Absent => /\ schema # Absent /\ Knowable(schema) \subseteq Range(entities)
                              /\ Range(entities) \subseteq Entities(schema)
  BY EntitiesAre
<1>3. told.result = result
  BY DEF OqlAnswer
<1>4. diagnosis = IF unknown THEN Diagnosis("unknown start", entities, closest)
                  ELSE IF ~failed /\ entities = <<>> THEN Diagnosis("no entities", Absent, Absent)
                  ELSE Diagnosis(Absent, Absent, Absent)
  BY DEF DiagnoseEmptyOql
<1>5. d = IF ~Diagnosed(result) THEN Diagnosis(Absent, Absent, Absent)
          ELSE IF IsEmpty(result) /\ diagnosis.note = Absent
          THEN [diagnosis EXCEPT !.note = "matched 0 rows"] ELSE diagnosis
  BY DEF OqlAnswer
<1>6. Diagnosed(result) => failed \/ result.is = "table"
  BY DEF Diagnosed, IsEmpty
<1> HIDE DEF told, result, entities, failed, diagnosis, d, unknown, closest
<1>7. \/ d.note = "unknown start" /\ d.didYouMean = closest /\ d.valid = entities /\ unknown
      \/ d.note = "no entities" /\ d.didYouMean = Absent /\ entities = <<>> /\ ~failed /\ Diagnosed(result)
      \/ d.note \in {Absent, "matched 0 rows"} /\ d.didYouMean = Absent
  <2>1. CASE ~Diagnosed(result)
    <3>1. d.note = Absent /\ d.didYouMean = Absent
      BY <1>5, <2>1 DEF Diagnosis
    <3> QED
      BY <3>1
  <2>2. CASE Diagnosed(result) /\ unknown
    <3>1. /\ diagnosis.note = "unknown start" /\ diagnosis.didYouMean = closest
          /\ diagnosis.valid = entities
      BY <1>4, <2>2 DEF Diagnosis
    <3>2. d = diagnosis
      BY <1>1, <1>5, <2>2, <3>1
    <3> QED
      BY <2>2, <3>1, <3>2
  <2>3. CASE Diagnosed(result) /\ ~unknown /\ ~failed /\ entities = <<>>
    <3>1. diagnosis.note = "no entities" /\ diagnosis.didYouMean = Absent
      BY <1>4, <2>3 DEF Diagnosis
    <3>2. d = diagnosis
      BY <1>1, <1>5, <2>3, <3>1
    <3> QED
      BY <2>3, <3>1, <3>2
  <2>4. CASE Diagnosed(result) /\ ~unknown /\ ~(~failed /\ entities = <<>>)
    <3>1. diagnosis = Diagnosis(Absent, Absent, Absent)
      BY <1>4, <2>4
    <3>2. d = diagnosis \/ d = [diagnosis EXCEPT !.note = "matched 0 rows"]
      BY <1>5, <2>4
    <3>3. d.note \in {Absent, "matched 0 rows"} /\ d.didYouMean = Absent
      <4>1. CASE d = diagnosis
        BY <3>1, <4>1 DEF Diagnosis
      <4>2. CASE d = [diagnosis EXCEPT !.note = "matched 0 rows"]
        <5>1. diagnosis = [note |-> Absent, valid |-> Absent, didYouMean |-> Absent]
          BY <3>1 DEF Diagnosis
        <5>2. d = [note |-> "matched 0 rows", valid |-> Absent, didYouMean |-> Absent]
          BY <4>2, <5>1
        <5> QED
          BY <5>2
      <4> QED
        BY <3>2, <4>1, <4>2
    <3> QED
      BY <3>3
  <2> QED
    BY <2>1, <2>2, <2>3, <2>4
<1>8. CASE d.note = "unknown start" /\ d.didYouMean = closest /\ d.valid = entities /\ unknown
  <2>1. start \in Seq(Letter) /\ entities \in Seq(Seq(Letter)) /\ Absent \notin Range(entities)
        /\ start \notin Range(entities) /\ schema # Absent
        /\ Knowable(schema) \subseteq Range(entities) /\ Range(entities) \subseteq Entities(schema)
    BY <1>2, <1>8 DEF unknown
  <2>2. /\ closest # Absent =>
              /\ closest \in Range(entities)
              /\ \A e \in Range(entities) : Distance(start, e) < Distance(start, closest) =>
                    Flips(LowerCase(closest), LowerCase(start)) /\ Distance(start, e) # 0
        /\ closest = Absent /\ Len(start) <= MaxFuzzy =>
              \A e \in Range(entities) : Distance(start, e) > Tolerance(start, e)
    BY <2>1, ClosestIs DEF closest
  <2>3. d.note # "no entities"
    BY <1>8
  <2>4. HonestRepair(start, schema, told)
    BY <1>8, <2>1, <2>2, <2>3 DEF HonestRepair, Distance, d
  <2> QED
    BY <2>4 DEF told
<1>9. CASE d.note = "no entities" /\ d.didYouMean = Absent /\ entities = <<>> /\ ~failed /\ Diagnosed(result)
  <2>1. schema = <<>> /\ told.result.is = "table"
    BY <1>2, <1>3, <1>6, <1>9
  <2>2. d.note # "unknown start"
    BY <1>9
  <2>3. HonestRepair(start, schema, told)
    BY <1>9, <2>1, <2>2 DEF HonestRepair, d
  <2> QED
    BY <2>3 DEF told
<1>10. CASE d.note \in {Absent, "matched 0 rows"} /\ d.didYouMean = Absent
  <2>1. d.note # "unknown start" /\ d.note # "no entities"
    BY <1>1, <1>10
  <2>2. HonestRepair(start, schema, told)
    BY <1>10, <2>1 DEF HonestRepair, d
  <2> QED
    BY <2>2 DEF told
<1> QED
  BY <1>7, <1>8, <1>9, <1>10

-----------------------------------------------------------------------------
(* What a reader remembers: open_app's state, the query that was made, and  *)
(* that what was answered so far was answered well.                         *)
Reader == [tool : {"oql"}, start : Starts, reply : Replies \cup {Absent},
           schema : Schemas \cup {Absent}]

ReadInv ==
    /\ OpenInv
    /\ asked # None /\ asked.tool = "oql" => asked \in Reader
    /\ InterfaceAnswer
    /\ QueryAnswer
    /\ RepairAnswer

LEMMA ReadStarts == ReadingInit => ReadInv
<1> SUFFICES ASSUME ReadingInit PROVE ReadInv
  OBVIOUS
<1>1. OpenInv
  BY OpenStarts DEF ReadingInit
<1> QED
  BY <1>1 DEF ReadingInit, ReadInv, InterfaceAnswer, QueryAnswer, RepairAnswer

LEMMA ReadOpens == ASSUME ReadInv, OpenApp PROVE ReadInv'
<1>1. OpenInv'
  BY Asks, Crawls, Resolves, Opens DEF OpenApp, OpenNext, ReadInv
<1>2. asked' = None
  BY DEF OpenApp
<1> QED
  BY <1>1, <1>2 DEF ReadInv, InterfaceAnswer, QueryAnswer, RepairAnswer

(* The other readers leave an open_app call as it is.                       *)
LEMMA AppRests == ASSUME ReadInv, UNCHANGED appVars PROVE OpenInv'
<1>1. UNCHANGED <<crawlVars, openVars>>
  BY DEF appVars
<1> QED
  BY <1>1, OpenRests DEF ReadInv

LEMMA ReadInterface == ASSUME ReadInv, GetCanisterCandid PROVE ReadInv'
<1>1. OpenInv'
  BY AppRests DEF GetCanisterCandid
<1>2. PICK did \in Interfaces, requested \in Requests :
         /\ asked' = [tool |-> "candid", did |-> did, requested |-> requested]
         /\ response' = RenderCandid(did, requested)
  BY DEF GetCanisterCandid
<1>3. IsInterface(did) /\ (requested # All => requested \in Seq(Name \cup {BlankName}))
  BY ReadingAssumption
<1>4. AnswersAsAsked(did, requested, RenderCandid(did, requested))
  BY <1>3, RenderIs
<1>5. asked'.tool = "candid" /\ asked'.did = did /\ asked'.requested = requested
  BY <1>2
<1>6. InterfaceAnswer'
  BY <1>2, <1>4, <1>5 DEF InterfaceAnswer
<1> QED
  BY <1>1, <1>5, <1>6 DEF ReadInv, QueryAnswer, RepairAnswer

LEMMA ReadQueries == ASSUME ReadInv, Execute PROVE ReadInv'
<1>1. OpenInv'
  BY AppRests DEF Execute
<1>2. PICK start \in Starts, reply \in Replies \cup {Absent} :
         asked' = [tool |-> "oql", start |-> start, reply |-> reply, schema |-> Absent]
  BY DEF Execute
<1>3. asked'.tool = "oql" /\ asked' \in Reader /\ response' = None
  BY <1>2 DEF Execute, Reader
<1> QED
  BY <1>1, <1>3 DEF ReadInv, InterfaceAnswer, QueryAnswer, RepairAnswer

LEMMA ReadExplains == ASSUME ReadInv, Explain PROVE ReadInv'
<1>1. OpenInv'
  BY AppRests DEF Explain
<1>2. asked \in Reader
  BY DEF ReadInv, Explain
<1>3. PICK schema \in Schemas \cup {Absent} :
         /\ asked' = [asked EXCEPT !.schema = schema]
         /\ response' = OqlAnswer(asked.start, asked.reply, schema)
  BY DEF Explain
<1>4. /\ asked' \in Reader /\ asked'.tool = "oql" /\ asked'.reply = asked.reply
      /\ asked'.start = asked.start /\ asked'.schema = schema
  BY <1>2, <1>3 DEF Reader
<1>5. asked.reply = Absent \/ IsReply(asked.reply)
  BY <1>2, ReadingAssumption DEF Reader
<1>6. FaithfulTable(asked.reply, OqlAnswer(asked.start, asked.reply, schema))
  BY <1>5, TableIs
<1>7. QueryAnswer'
  BY <1>3, <1>4, <1>6 DEF QueryAnswer
<1>8. asked.start \in Seq(Letter) \cup {Absent}
  <2>1. Starts \subseteq Seq(Letter) \cup {Absent} /\ asked.start \in Starts
    BY <1>2, ReadingAssumption DEF Reader
  <2> QED
    BY <2>1
<1>9. schema = Absent \/ schema \in Seq(Seq(Letter) \cup {Absent})
  <2>1. \A x \in Schemas : x \in Seq(Seq(Letter) \cup {Absent})
    BY ReadingAssumption
  <2> QED
    BY <2>1
<1>10. HonestRepair(asked.start, schema, OqlAnswer(asked.start, asked.reply, schema))
  BY <1>8, <1>9, RepairIs
<1>11. RepairAnswer'
  BY <1>3, <1>4, <1>10 DEF RepairAnswer
<1> QED
  BY <1>1, <1>4, <1>7, <1>11 DEF ReadInv, InterfaceAnswer

LEMMA ReadCalls == ASSUME ReadInv, EncodeAndDecode PROVE ReadInv'
<1>1. OpenInv'
  BY AppRests DEF EncodeAndDecode
<1>2. PICK args \in Samples, did \in Dids \cup {NoDid} :
         asked' = [tool |-> "call", args |-> args, did |-> did]
  BY DEF EncodeAndDecode
<1>3. asked'.tool = "call"
  BY <1>2
<1> QED
  BY <1>1, <1>3 DEF ReadInv, InterfaceAnswer, QueryAnswer, RepairAnswer

LEMMA ReadNames == ASSUME ReadInv, FindCanisterByName PROVE ReadInv'
<1>1. OpenInv'
  BY AppRests DEF FindCanisterByName
<1>2. PICK ledgers \in Registries \cup {Absent, Garbled}, snses \in Registries \cup {Absent, Garbled},
           name \in Names :
         /\ asked' = [tool |-> "find", ledgers |-> ledgers, snses |-> snses, name |-> name]
         /\ response' = SearchByName(ledgers, snses, name)
  BY DEF FindCanisterByName
<1>3. \A r \in Registries : r \in Seq(Range(r))
  BY ReadingAssumption
<1>4. SearchedAsNamed(ledgers, snses, name, SearchByName(ledgers, snses, name))
  BY <1>3, SearchIs
<1>5. /\ asked'.tool = "find" /\ asked'.ledgers = ledgers /\ asked'.snses = snses
      /\ asked'.name = name
  BY <1>2
<1>6. QueryAnswer'
  BY <1>2, <1>4, <1>5 DEF QueryAnswer
<1> QED
  BY <1>1, <1>5, <1>6 DEF ReadInv, InterfaceAnswer, RepairAnswer

LEMMA ReadRests == ASSUME ReadInv, UNCHANGED readingVars PROVE ReadInv'
<1>1. UNCHANGED <<appVars, asked, response>>
  BY DEF readingVars
<1>2. OpenInv'
  BY <1>1, AppRests
<1> QED
  BY <1>1, <1>2 DEF ReadInv, InterfaceAnswer, QueryAnswer, RepairAnswer

(* What an agent reads is kept well for every site, known app, interface,   *)
(* reply and registry, and every bound: the table of a crawl is faithful to *)
(* what the site named, and a reply is of what it answers.                  *)
THEOREM ReadingCorrect == ReadingSpec => []ReadInv
<1>1. ReadInv /\ [ReadingNext]_readingVars => ReadInv'
  BY ReadOpens, ReadInterface, ReadQueries, ReadExplains, ReadCalls, ReadNames, ReadRests
     DEF ReadingNext
<1> QED
  BY <1>1, ReadStarts, PTL DEF ReadingSpec

(* The declared marker of a reply and the gate of a tool call agree about   *)
(* every id that is listed, and no id the gate authorizes goes unsaid.      *)
THEOREM MarkerIsTheGate == ReadingSpec => []DeclaredAsGate
<1>1. ReadInv => DeclaredAsGate
  BY DeclaredIs DEF ReadInv, OpenInv
<1> QED
  BY <1>1, ReadingCorrect, PTL

(* A listing keeps the ids that were named with the most authority, in that *)
(* order and under the label of their best source, and counts the others.   *)
THEOREM ListingKeepsTheBest == ReadingSpec => []BestKept
<1>1. ReadInv => BestKept
  BY BestIsKept DEF ReadInv, OpenInv
<1> QED
  BY <1>1, ReadingCorrect, PTL

(* A reply opens what was asked for, and a refusal names no app that is not *)
(* there.                                                                   *)
THEOREM OpensWhatWasAsked == ReadingSpec => []OpenedAsAsked
<1>1. ReadInv => OpenedAsAsked
  BY DEF ReadInv, OpenInv
<1> QED
  BY <1>1, ReadingCorrect, PTL

(* A restricted interface defines exactly the types its methods reach and   *)
(* keeps the limit, and a refusal names or counts every method.             *)
THEOREM InterfaceIsWhole == ReadingSpec => []InterfaceAnswer
<1>1. ReadInv => InterfaceAnswer
  BY DEF ReadInv
<1> QED
  BY <1>1, ReadingCorrect, PTL

(* A table has the cells of the rows it was read from under their names, but *)
(* for those that LeftOut names, and ends early only when it says so; a     *)
(* search finds what the registries that were read have.                    *)
THEOREM TableKeepsItsCells == ReadingSpec => []QueryAnswer
<1>1. ReadInv => QueryAnswer
  BY DEF ReadInv
<1> QED
  BY <1>1, ReadingCorrect, PTL

(* A start that is called unknown is not listed by the schema up to the cap *)
(* on entities; what is offered for it is listed, and none up to the cap is *)
(* nearer but for a plural; an account is told that it sees nothing only by *)
(* a schema that lists nothing.                                             *)
THEOREM RepairIsHonest == ReadingSpec => []RepairAnswer
<1>1. ReadInv => RepairAnswer
  BY DEF ReadInv
<1> QED
  BY <1>1, ReadingCorrect, PTL

(* The three together, as the system is checked.                            *)
THEOREM ReadersAnswerWell == ReadingSpec => []ReadAnswer
<1>1. ReadInv => ReadAnswer
  BY DEF ReadInv, ReadAnswer
<1> QED
  BY <1>1, ReadingCorrect, PTL
=============================================================================
