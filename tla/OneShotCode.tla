---------------------------- MODULE OneShotCode ----------------------------
(***************************************************************************)
(* What an authorization code promises: it is reserved only for a connect  *)
(* the user has consented to, once; it becomes exchangeable once; at most  *)
(* one exchange takes it; and only the exchange that took it gets a token. *)
(* A code may die at any point before that (expired, evicted, burned by a  *)
(* failed exchange, its handler gone), and a dead code stays dead.         *)
(***************************************************************************)
EXTENDS Integers

CONSTANT Connection

VARIABLES consented, phase, issues

vars == <<consented, phase, issues>>

Phases == {"none", "reserved", "live", "taken", "token", "dead"}

Moves == {<<"none", "reserved">>, <<"reserved", "live">>, <<"live", "taken">>,
          <<"taken", "token">>, <<"reserved", "dead">>, <<"live", "dead">>,
          <<"taken", "dead">>}

Init == /\ consented = {}
        /\ phase = [c \in Connection |-> "none"]
        /\ issues = [c \in Connection |-> 0]

(* Several codes may move at once: storing one may evict others. *)
Step(c) ==
    /\ phase'[c] # phase[c] => <<phase[c], phase'[c]>> \in Moves
    /\ phase'[c] = "reserved" => c \in consented
    /\ issues'[c] = IF phase[c] = "taken" /\ phase'[c] = "token"
                    THEN issues[c] + 1 ELSE issues[c]

Next == /\ consented \subseteq consented' /\ consented' \subseteq Connection
        /\ phase' \in [Connection -> Phases]
        /\ \A c \in Connection : Step(c)

Spec == Init /\ [][Next]_vars
=============================================================================
