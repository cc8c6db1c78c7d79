--------------------------- MODULE RouteSelection ---------------------------
(***************************************************************************)
(* What the fallback policy promises, with no mention of the counters,     *)
(* locks and probe timers that implement it: the relay is selected only    *)
(* after a streak of failed LAN calls, the LAN is selected again only      *)
(* after a streak of successful ones, and never sooner than a minimum stay *)
(* on the relay ("bounded LAN failover and hysteretic recovery avoid route *)
(* flapping").  ConnectionRouter implements this specification.            *)
(***************************************************************************)
EXTENDS Naturals

CONSTANTS FailureThreshold,   \* failed LAN calls in a row before the relay is used
          RecoveryThreshold,  \* successful LAN calls in a row before the LAN is used
          MinimumStay,        \* ticks the relay stays selected at least
          StreakCap           \* bound: streaks are counted up to this value

VARIABLES selected,    \* the route of the next operation: "local" or "cloud"
          failStreak,  \* LAN calls that failed since the last one that succeeded
          okStreak,    \* LAN calls that succeeded since the last one that failed
          stay         \* ticks since the relay was selected, up to MinimumStay

selectionVars == <<selected, failStreak, okStreak, stay>>

CountUpTo(n, cap) == IF n < cap THEN n + 1 ELSE n

SelectionInit ==
    /\ selected \in {"local", "cloud"}
    /\ failStreak = 0
    /\ okStreak = 0
    /\ stay = 0

LanCallFails ==
    /\ failStreak' = CountUpTo(failStreak, StreakCap)
    /\ okStreak' = 0
    /\ UNCHANGED <<selected, stay>>

LanCallSucceeds ==
    /\ okStreak' = CountUpTo(okStreak, StreakCap)
    /\ failStreak' = 0
    /\ UNCHANGED <<selected, stay>>

FailOver ==
    /\ selected = "local"
    /\ failStreak >= FailureThreshold
    /\ selected' = "cloud"
    /\ stay' = 0
    /\ UNCHANGED <<failStreak, okStreak>>

Recover ==
    /\ selected = "cloud"
    /\ okStreak >= RecoveryThreshold
    /\ stay >= MinimumStay
    /\ selected' = "local"
    /\ UNCHANGED <<failStreak, okStreak, stay>>

TimePasses ==
    /\ stay' = CountUpTo(stay, MinimumStay)
    /\ UNCHANGED <<selected, failStreak, okStreak>>

SelectionNext ==
    LanCallFails \/ LanCallSucceeds \/ FailOver \/ Recover \/ TimePasses

SelectionSpec == SelectionInit /\ [][SelectionNext]_selectionVars
=============================================================================
