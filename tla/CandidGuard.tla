----------------------------- MODULE CandidGuard -----------------------------
(* The look at a Candid text before it is parsed (guard_candid_text,        *)
(* src/crates/imcp2-core/src/calls.rs): the parser recurses once for every  *)
(* level a text nests and once for every type it goes through by name, so a *)
(* text over either limit is not handed to it.  The guard measures both     *)
(* without parsing; it has to see the text as the lexer does, comments and  *)
(* strings included.  Everything is pure.                                   *)
(*                                                                          *)
(* A text is a sequence of bytes, told apart as far as the guard does, with *)
(* the words it looks for as one element each:                              *)
(*   "/" "*" "newline" "quote" "escape" "blank" "open" "close" "sep" "mark" *)
(*   "opt" (vec too), "type" and "word", any other word, number or keyword. *)
(* Its size in bytes is left out.                                           *)
EXTENDS Naturals, Sequences, SequencesExt

CONSTANTS
    MaxDepth, \* MAX_CANDID_DEPTH
    MaxTypes  \* MAX_CANDID_TYPE_DECLS

ASSUME GuardAssumption == {MaxDepth, MaxTypes} \subseteq Nat \ {0}

At(text, i) == IF i <= Len(text) THEN text[i] ELSE "end"

-----------------------------------------------------------------------------
(* skip_trivia: past white space, comments to the end of a line, and block  *)
(* comments, which nest.                                                    *)
LineEnd(text, i) ==
    Min({j \in i..Len(text) : text[j] = "newline"} \cup {Len(text) + 1})

\* Mutant: a comment ends where the first comment in it does.
FirstEnd(text, i, depth) ==
    Min({j \in i..(Len(text) + 1) :
            j > Len(text) \/ (j > i + 1 /\ text[j - 2] = "*" /\ text[j - 1] = "/")})

BlockEnd(text, i, depth) ==
    LET end[j \in Nat, d \in Nat] ==
            CASE d = 0 \/ At(text, j) = "end" -> j
              [] d > 0 /\ At(text, j) = "/" /\ At(text, j + 1) = "*" -> end[j + 2, d + 1]
              [] d > 0 /\ At(text, j) = "*" /\ At(text, j + 1) = "/" -> end[j + 2, d - 1]
              [] OTHER -> end[j + 1, d]
    IN  end[i, depth]

SkipTrivia(text, i) ==
    LET skip[j \in Nat] ==
            CASE At(text, j) \in {"blank", "newline"} -> skip[j + 1]
              [] At(text, j) = "/" /\ At(text, j + 1) = "/" -> skip[LineEnd(text, j + 2)]
              [] At(text, j) = "/" /\ At(text, j + 1) = "*" -> skip[BlockEnd(text, j + 2, 1)]
              [] OTHER -> j
    IN  skip[i]

(* A string literal ends at the first quote that is not escaped. *)
StringEnd(text, i) ==
    LET end[j \in Nat] ==
            CASE At(text, j) = "end"    -> j
              [] At(text, j) = "escape" -> end[j + 2]
              [] At(text, j) = "quote"  -> j + 1
              [] OTHER                  -> end[j + 1]
    IN  end[i]

-----------------------------------------------------------------------------
(* guard_candid_text.  The stack has a frame for every open bracket and for *)
(* every prefix whose value is not complete.                                *)
ResolvePrefixes(stack) ==
    SubSeq(stack, 1, Max({0} \cup {i \in DOMAIN stack : stack[i] = "bracket"}))

Close(stack) ==
    ResolvePrefixes(IF stack # <<>> /\ Last(stack) = "bracket" THEN Front(stack) ELSE stack)

OpensGroup(text, i) == At(text, SkipTrivia(text, i)) = "open"

(* From a byte on, with what the guard has seen before it. *)
GuardCandidText(text) ==
    LET scan[at \in Nat, stack \in Seq({"bracket", "prefix"}), types \in Nat] ==
            LET i == SkipTrivia(text, at)
                c == At(text, i)
            IN  CASE Len(stack) > MaxDepth -> "too deep"
                  [] types > MaxTypes      -> "too many types"
                  [] OTHER ->
                     CASE c = "end"   -> "ok"
                       [] c = "quote" -> scan[StringEnd(text, i + 1), ResolvePrefixes(stack), types]
                       [] c = "open"  -> scan[i + 1, Append(stack, "bracket"), types]
                       [] c = "close" -> scan[i + 1, Close(stack), types]
                       [] c = "sep"   -> scan[i + 1, ResolvePrefixes(stack), types]
                       [] c = "opt"   -> scan[i + 1, Append(stack, "prefix"), types]
                       [] c \in {"type", "word"} ->
                             scan[i + 1,
                                  IF OpensGroup(text, i + 1) THEN stack ELSE ResolvePrefixes(stack),
                                  types + (IF c = "type" THEN 1 ELSE 0)]
                       [] OTHER -> scan[i + 1, stack, types]
    IN  scan[1, <<>>, 0]

NoDid == [text |-> <<>>]

InterfaceParsed(did) == did # <<>> /\ GuardCandidText(did) = "ok"

(* encode_args: arguments over a limit are refused; an interface over one   *)
(* is done without, and so is one that does not declare the method.  fit is *)
(* how a value goes with the method's types: it "matches", is a "mismatch", *)
(* the method is "undeclared", or the value is "not candid" at all.         *)
EncodeArgs(did, args, fit) ==
    CASE GuardCandidText(args) # "ok" -> "over the limit"
      [] GuardCandidText(args) = "ok" /\ fit = "not candid" -> "refused"
      [] OTHER -> IF ~InterfaceParsed(did) \/ fit = "undeclared" THEN "untyped"
                  ELSE IF fit = "matches" THEN "typed" ELSE "refused"

(* decode_reply, decode_bytes_with_did: whatever keeps the interface from   *)
(* being used, the reply is decoded without it.                             *)
DecodeReply(did, fit) ==
    IF InterfaceParsed(did) /\ fit = "matches" THEN "typed"
    ELSE IF fit = "not candid" THEN "not decodable" ELSE "untyped"

-----------------------------------------------------------------------------
(* Texts the parser accepts, built level by level, with how deep it goes in *)
(* them and how many types they declare.  Between two lexemes there may be  *)
(* white space or a comment, with a quote or a bracket in it, or another    *)
(* comment.  A function type goes on after the bracket of its arguments;    *)
(* func marks one, and prefixed a prefix that stands before one.            *)
Trivia == {<<"blank">>, <<"/", "/", "quote", "newline">>,
           <<"/", "*", "quote", "/", "*", "*", "/", "open", "*", "/">>}

Plain(text) == [text |-> text, depth |-> 0, types |-> 0, func |-> FALSE, prefixed |-> FALSE]

Leaves == {Plain(<<"word">>), Plain(<<"quote", "open", "escape", "quote", "/", "/", "type", "quote">>)}

Within(v, w, text, func) ==
    [text |-> text, depth |-> 1 + Max({v.depth, w.depth}), types |-> v.types + w.types,
     func |-> func, prefixed |-> v.prefixed \/ w.prefixed]

Prefixed(S) ==
    {[Within(v, v, <<"opt">> \o t \o v.text, v.func) EXCEPT
         !.types = v.types, !.prefixed = v.prefixed \/ v.func] : v \in S, t \in Trivia}

Grouped(S, L) ==
    {Within(v, w, intro \o <<"open">> \o field \o v.text \o <<"sep">> \o w.text \o <<"close">>, FALSE) :
        intro \in {<<>>, <<"word">>} \cup {<<"word">> \o t : t \in Trivia},
        field \in {<<>>, <<"word", "mark", "blank">>}, v \in S, w \in L}

Functions(S, L) ==
    {Within(v, w, <<"word", "open">> \o v.text \o <<"close", "mark", "open">> \o w.text \o <<"close">>, TRUE) :
        v \in L, w \in S}

Levels[n \in Nat] ==
    IF n = 0 THEN Leaves
    ELSE LET below == Levels[n - 1]
         IN  below \cup Prefixed(below) \cup Grouped(below, Leaves) \cup Functions(below, Leaves)

(* A type declaration, and a sequence of them.                              *)
Declares(v, t) == [v EXCEPT !.text = <<"type">> \o t \o <<"word", "mark">> \o v.text \o <<"sep">>,
                            !.types = 1, !.func = FALSE]

Followed(d, e) == [d EXCEPT !.text = @ \o e.text, !.depth = Max({@, e.depth}),
                            !.types = @ + e.types, !.prefixed = @ \/ e.prefixed]

Written(n) ==
    LET one == {Declares(v, t) : v \in Leaves \cup Prefixed(Leaves), t \in Trivia}
    IN  Levels[n] \cup Prefixed(Levels[n]) \cup one \cup {Followed(d, e) : d \in one, e \in one}

(* A text is passed on to the parser exactly if it keeps both limits as the *)
(* parser will see it: a comment or a string hides nothing from the guard   *)
(* and adds nothing.  The one exception is a prefix before a function type, *)
(* which the guard takes to end with the arguments.                         *)
Measured(sample, verdict) ==
    LET fits == sample.depth <= MaxDepth /\ sample.types <= MaxTypes
    IN  IF verdict = "ok" THEN fits \/ sample.prefixed ELSE ~fits
=============================================================================
