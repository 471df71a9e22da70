---------------------------- MODULE WriteBehind ----------------------------
(***************************************************************************)
(* What a write-behind store promises to whoever restarts the process: the *)
(* disk moves only forward, one whole snapshot of memory at a time.  A     *)
(* change is visible in memory at once, a snapshot is staged from what     *)
(* memory holds at one moment, and the staged snapshot either replaces the *)
(* disk's content or is given up.  Nothing is staged while another         *)
(* snapshot is in flight, so no older snapshot can overwrite a newer one.  *)
(* A restart comes back with the disk's content, or with nothing when the  *)
(* disk cannot be read.                                                    *)
(***************************************************************************)
EXTENDS FiniteSets, Integers

CONSTANTS Item, Bound

VARIABLES mem, staged, disk

vars == <<mem, staged, disk>>

Nothing == [staging |-> FALSE, items |-> {}]

Init == mem = {} /\ staged = Nothing /\ disk = {}

(* One change adds one item, and may drop others to stay within the bound. *)
Change == /\ \E i \in Item, kept \in SUBSET mem :
                /\ mem' = kept \cup {i}
                /\ Cardinality(mem') <= Bound
                /\ kept # mem => Cardinality(mem') = Bound
          /\ UNCHANGED <<staged, disk>>

Stage == /\ ~staged.staging
         /\ staged' = [staging |-> TRUE, items |-> mem]
         /\ UNCHANGED <<mem, disk>>

Commit == /\ staged.staging
          /\ disk' = staged.items
          /\ staged' = Nothing
          /\ UNCHANGED mem

GiveUp == staged.staging /\ staged' = Nothing /\ UNCHANGED <<mem, disk>>

Restart == mem' \in {disk, {}} /\ staged' = Nothing /\ UNCHANGED disk

Next == Change \/ Stage \/ Commit \/ GiveUp \/ Restart

Spec == Init /\ [][Next]_vars
=============================================================================
