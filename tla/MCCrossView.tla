----------------------------- MODULE MCCrossView -----------------------------
(* Small hosts for CrossView. *)
EXTENDS CrossView

Deed(type, shows) == [NoItem EXCEPT !.type = type, !.shows = shows]

Execute == {Deed("execve", {"fileless_execution"})}

All == {Collectors}

Plain == [p \in Pid |-> [listed |-> FALSE, shows |-> {"exe_read"}]]
=============================================================================
