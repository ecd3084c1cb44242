--------------------------- MODULE DeadMansSwitch ---------------------------
(***************************************************************************)
(* What a vault promises its owner, without tokens, rows or ticks: the     *)
(* heir is let in only after a full silence, every proof of life shuts him *)
(* out again, a panic holds for its whole freeze, and he takes the coins   *)
(* only while he is let in.                                                *)
(***************************************************************************)
EXTENDS Integers

CONSTANT Silence   \* checkin_period_secs + 2 * grace_period_secs

VARIABLES now,       \* the clock
          since,     \* the instant the silence is counted from
          heldUntil, \* the end of the owner's freeze, -1 when there is none
          released,  \* the heir has a link that works, by the owner's silence
          handed,    \* somebody has a link that works, by the owner's own hand
          taken      \* the coins are taken through a link

vars == <<now, since, heldUntil, released, handed, taken>>

Init ==
    /\ now = 0 /\ since = 0 /\ heldUntil = -1
    /\ released = FALSE /\ handed = FALSE /\ taken = FALSE

Tick == now' = now + 1 /\ UNCHANGED <<since, heldUntil, released, handed, taken>>

\* The owner gives a proof of life: every link dies.
Restart ==
    /\ since' \in 0 .. now /\ heldUntil' = -1
    /\ released' = FALSE /\ handed' = FALSE
    /\ UNCHANGED <<now, taken>>

\* The owner pays the panic invoice: every link dies, and none comes before the end.
Freeze ==
    /\ heldUntil' >= now /\ released' = FALSE /\ handed' = FALSE
    /\ UNCHANGED <<now, since, taken>>

\* The vault is funded again: a new silence begins.
Rearm ==
    /\ ~released /\ since' \in 0 .. now
    /\ UNCHANGED <<now, heldUntil, released, handed, taken>>

\* The owner lifts the freeze by emptying the vault.
Lift == heldUntil' = -1 /\ UNCHANGED <<now, since, released, handed, taken>>

\* The owner issues a link himself, which replaces any other.
HandOver ==
    /\ heldUntil' = -1 /\ released' = FALSE /\ handed' = TRUE
    /\ UNCHANGED <<now, since, taken>>

Release ==
    /\ ~released /\ now >= since + Silence /\ now >= heldUntil
    /\ released' = TRUE
    /\ UNCHANGED <<now, since, heldUntil, handed, taken>>

Take ==
    /\ released \/ handed
    /\ ~taken /\ taken' = TRUE
    /\ UNCHANGED <<now, since, heldUntil, released, handed>>

Next == Tick \/ Restart \/ Freeze \/ Rearm \/ Lift \/ HandOver \/ Release \/ Take

Spec == Init /\ [][Next]_vars
=============================================================================
