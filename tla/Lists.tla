------------------------------- MODULE Lists --------------------------------
(* The lists of the modules about discovery, in a form a proof can open:    *)
(* the provers know neither the filters nor the sorts of the library.       *)
EXTENDS Naturals, Sequences, FiniteSets, Functions

FirstOf(seq, n) == SubSeq(seq, 1, IF Len(seq) <= n THEN Len(seq) ELSE n)

(* The members of a finite set, in a strict total order of them.            *)
Sorted(S, before) ==
    CHOOSE s \in [1..Cardinality(S) -> S] :
        /\ Range(s) = S
        /\ \A i, j \in DOMAIN s : i < j => <<s[i], s[j]>> \in before

(* The elements of a sequence that are in a set, in the order they are in.  *)
Places(seq, S) ==
    Sorted({i \in DOMAIN seq : seq[i] \in S}, {p \in (DOMAIN seq) \X (DOMAIN seq) : p[1] < p[2]})

Keep(seq, S) == LET places == Places(seq, S) IN [j \in DOMAIN places |-> seq[places[j]]]

(* A list without what it has had before, and the sum of a list.            *)
Distinct(seq) ==
    LET seen[n \in 0..Len(seq)] ==
            IF n = 0 THEN <<>>
            ELSE IF seq[n] \in Range(seen[n - 1]) THEN seen[n - 1] ELSE Append(seen[n - 1], seq[n])
    IN  seen[Len(seq)]

Total(seq) ==
    LET sum[n \in 0..Len(seq)] == IF n = 0 THEN 0 ELSE sum[n - 1] + seq[n]
    IN  sum[Len(seq)]
=============================================================================
