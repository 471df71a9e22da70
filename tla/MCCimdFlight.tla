---- MODULE MCCimdFlight ----
EXTENDS CimdFlight, TLC
CONSTANTS k1, k2, k3, h1, h2
(* Two documents of one host and one of another. *)
MCHostOf == [k \in Key |-> IF k = k3 THEN h2 ELSE h1]
Symmetry == Permutations(Request)

(* A fresh document without a word on caching, and answers that differ from *)
(* it in one way or two.                                                    *)
Says(name, value) == [name |-> name, value |-> value]
Plain == [end |-> "ok", json |-> TRUE, valid |-> TRUE, retryable |-> FALSE,
          control |-> {}, vary |-> None, ages |-> {}, date |-> None, expires |-> None, old |-> 0]
Aged  == [Plain EXCEPT !.ages = {0, 1}, !.old = 1]
Dated == [Plain EXCEPT !.date = 1, !.old = 1]

MCAnswers ==
    {[Plain EXCEPT !.end = e, !.retryable = again] : e \in Ends, again \in BOOLEAN}
    \cup {[Plain EXCEPT !.json = FALSE], [Plain EXCEPT !.valid = FALSE]}
    \cup {[base EXCEPT !.control = c] : base \in {Plain, Aged, Dated}, c \in
            {{Says(n, None)} : n \in {"no-store", "private"}}
            \cup {{Says("max-age", v)} : v \in {0, 1, 2, 3, Bad}}
            \cup {{Says("max-age", 2), Says("max-age", v)} : v \in {1, Bad}}
            \cup {{Says("s-maxage", v), Says("max-age", 3)} : v \in {1, 2}}
            \cup {{Says("no-cache", None), Says("max-age", 2)}, Garbled}}
    \cup {[base EXCEPT !.vary = v] : base \in {Plain, Aged}, v \in {"*", Garbled}}
    \cup {[base EXCEPT !.expires = e] : base \in {Plain, Aged, Dated, [Plain EXCEPT !.date = -1]},
                                        e \in {Bad, -1, 0, 1, 2}}
    \cup {Aged, Dated, [Aged EXCEPT !.ages = {Bad}], [Dated EXCEPT !.ages = {Bad, 0}],
          [Aged EXCEPT !.ages = {Bad, 2}, !.control = {Says("max-age", 3)}],
          [Dated EXCEPT !.date = 0, !.ages = {2}, !.control = {Says("max-age", 2)}]}
====
