--------------------------- MODULE MCClientSetup ---------------------------
EXTENDS ClientSetup

(* The files of this instance: none, one without an entry, and one whose    *)
(* entry runs another binary with keys of the user's, in a table of the     *)
(* servers and in an inline one.                                            *)
Texts ==
    LET another == [command |-> "another", extra |-> TRUE]
    IN  {NoFile,
         [other |-> "o1", table |-> TRUE, entry |-> NoEntry],
         [other |-> "o1", table |-> TRUE, entry |-> another],
         [other |-> "o1", table |-> FALSE, entry |-> another]}
=============================================================================
