---------------------------- MODULE MCRedirect ----------------------------
(* A small instance of Redirect for TLC. *)
EXTENDS Redirect

CONSTANTS p1, p2, v1, bot

MCProcs == {p1, p2}
MCVisitors == {v1, bot}
MCBots == {bot}

Open(l) == [status |-> "active", deleted |-> FALSE, open |-> TRUE,
            limit |-> l, password |-> FALSE]

\* One row per gate, without a limit and with the limit 1.
MCRows == {Open(0), Open(1),
           [Open(1) EXCEPT !.password = TRUE],
           [Open(1) EXCEPT !.status = "paused"],
           [Open(1) EXCEPT !.open = FALSE],
           [Open(1) EXCEPT !.deleted = TRUE]}
=============================================================================
