---------------------------- MODULE MCIntegrity ----------------------------
(* Small disks for Integrity. *)
EXTENDS Integrity

Holds(content, mode) == [kind |-> "file", content |-> content, mode |-> mode]

\* Two files at first.
Disks == {[p \in Path |-> Holds("x", "r")]}

\* It goes, changes, or is replaced by a link or by what cannot be read.
Changed == {Missing, Unreadable, Holds("y", "r"), Holds("x", "w"),
            [kind |-> "link", to |-> "p"]}
=============================================================================
