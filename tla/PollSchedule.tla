----------------------------- MODULE PollSchedule -----------------------------
(***************************************************************************)
(* When the Git change monitor polls (internal/indexing/git_change.go,       *)
(* Start): the interval doubles while nothing happens, up to one cap, and    *)
(* while polls fail, up to another; a change and the tool calls of the       *)
(* client bring it back.  Time is counted in ticks, and stands still while   *)
(* a poll runs.  What a poll finds is in GitSync.                            *)
(***************************************************************************)
EXTENDS Naturals

CONSTANTS PollConfigs,      \* [hot, idle, error] as the environment sets them, 0: not
          PollDefaults      \* [hot, idle, error]

PollIntervals == [hot : Nat, idle : Nat, error : Nat]
ASSUME PollAssumption == PollConfigs \subseteq PollIntervals /\ PollDefaults \in PollIntervals

VARIABLES
    psConfig,       \* the intervals of the monitor
    psCurrent,      \* adaptiveGitPollSchedule.current
    psLeft,         \* ticks until the timer fires
    psWake,         \* whether wake holds a value
    psPolling, psFailed,    \* whether a poll runs; whether the last one failed
    psAsked, psSince        \* history: whether something asked for a poll since the
                            \* last one began, and the ticks since it first did
psVars == <<psConfig, psCurrent, psLeft, psWake, psPolling, psFailed, psAsked, psSince>>

Longer(a, b) == IF a < b THEN b ELSE a

\* NewGitChangeMonitor: each cap is at least the interval before it.
Intervals(given) ==
    LET Or(value, default) == IF value = 0 THEN default ELSE value
        hot == Or(given.hot, PollDefaults.hot)
        idle == Longer(Or(given.idle, PollDefaults.idle), hot)
    IN  [hot |-> hot, idle |-> idle, error |-> Longer(Or(given.error, PollDefaults.error), idle)]

\* jitterGitPollInterval: a fifth of the interval either way, never nothing.
Jittered(interval) == {Longer(t, 1) : t \in ((4 * interval) \div 5)..((6 * interval) \div 5)}
Slowest(interval) == Longer((6 * interval) \div 5, 1)

\* doubledDurationCapped.
Doubled(interval, cap) == IF interval > cap \div 2 THEN cap ELSE 2 * interval

PollScheduleInit ==
    /\ psConfig \in {Intervals(given) : given \in PollConfigs}
    /\ psCurrent = psConfig.hot /\ psLeft \in Jittered(psConfig.hot)
    /\ psWake = FALSE /\ psPolling = FALSE /\ psFailed = FALSE
    /\ psAsked = FALSE /\ psSince = 0

\* Wake, at the start of every tool call: a value is already there or it is put there.
ToolActivity ==
    /\ ~psWake /\ psWake' = TRUE /\ psAsked' = TRUE
    /\ UNCHANGED <<psConfig, psCurrent, psLeft, psPolling, psFailed, psSince>>

\* Faulty variant: each activity starts the interval again.
WakeRestarts ==
    /\ psWake /\ ~psPolling /\ psWake' = FALSE
    /\ psCurrent' = psConfig.hot
    /\ psLeft' \in Jittered(psConfig.hot)
    /\ UNCHANGED <<psConfig, psPolling, psFailed, psAsked, psSince>>

\* The timer is only moved to an earlier time.
WakeTaken ==
    /\ psWake /\ ~psPolling /\ psWake' = FALSE
    /\ psCurrent' = psConfig.hot
    /\ \E delay \in Jittered(psConfig.hot) : psLeft' = IF delay < psLeft THEN delay ELSE psLeft
    /\ UNCHANGED <<psConfig, psPolling, psFailed, psAsked, psSince>>

PollBegins ==
    /\ psLeft = 0 /\ ~psPolling /\ psPolling' = TRUE
    /\ psAsked' = FALSE /\ psSince' = 0
    /\ UNCHANGED <<psConfig, psCurrent, psLeft, psWake, psFailed>>

\* Observe.
PollEnds(outcome) ==
    /\ psPolling /\ psPolling' = FALSE
    /\ psCurrent' = CASE outcome = "changed" -> psConfig.hot
                      [] outcome = "failed" -> Doubled(psCurrent, psConfig.error)
                      [] OTHER -> Doubled(psCurrent, psConfig.idle)
    /\ psLeft' \in Jittered(psCurrent')
    /\ psFailed' = (outcome = "failed")
    /\ psAsked' = (psAsked \/ outcome = "changed")
    /\ UNCHANGED <<psConfig, psWake, psSince>>

\* The monitor's goroutine is quick: no tick passes while it has something to do.
PollTick ==
    /\ ~psPolling /\ ~psWake /\ psLeft > 0 /\ psLeft' = psLeft - 1
    /\ psSince' = IF psAsked THEN psSince + 1 ELSE 0
    /\ UNCHANGED <<psConfig, psCurrent, psWake, psPolling, psFailed, psAsked>>

PollScheduleNext ==
    \/ ToolActivity \/ WakeTaken \/ PollBegins \/ PollTick
    \/ \E outcome \in {"changed", "unchanged", "failed"} : PollEnds(outcome)

PollScheduleSpec == PollScheduleInit /\ [][PollScheduleNext]_psVars

-----------------------------------------------------------------------------
(* Properties                                                               *)

\* After a change and after each tool call there is a poll within the hot interval,
\* however quiet or broken the repository was before and however many calls follow;
\* and no repository waits longer than its cap, that for errors only after an error.
PollsInTime ==
    /\ psAsked /\ ~psPolling /\ ~psWake => psSince + psLeft <= Slowest(psConfig.hot)
    /\ psLeft <= Slowest(IF psFailed THEN psConfig.error ELSE psConfig.idle)
=============================================================================
