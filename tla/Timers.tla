------------------------------ MODULE Timers ------------------------------
(***************************************************************************)
(* The timers of a core (lib/Timer.cpp) and the events and interrupts they *)
(* raise on the thread that owns them (lib/Resource.cpp, lib/Thread.h,     *)
(* lib/SystemState.cpp).  One thread owns the timers.                      *)
(*                                                                         *)
(* Time is counted in cycles, a timer in ticks of TickBits bits.  Signed   *)
(* arithmetic that overflows is undefined in C++: a build either wraps it  *)
(* or computes it in wider registers, and which of the two is chosen once. *)
(* A paused thread keeps its pc on the instruction, which is executed      *)
(* again when it is woken.                                                 *)
(***************************************************************************)
EXTENDS Integers, Sequences, SequencesExt

CONSTANTS
  Timer,          \* the timers
  TickBits,       \* the width of a tick count and of an int
  CYCLES_PER_TICK,
  StartTimes,     \* the times at which the model starts
  EndTime,        \* bound on the time
  Ahead           \* how far ahead of the clock a program sets a timer, in ticks

ASSUME TimersAssumption ==
  /\ Timer \subseteq Nat /\ TickBits \in Nat \ {0} /\ CYCLES_PER_TICK \in Nat \ {0}
  /\ StartTimes \subseteq 0 .. EndTime /\ Ahead \subseteq Int

VARIABLES
  now,            \* the time, in cycles
  build,          \* what the build makes of an overflow
  style,          \* whether the program uses events or interrupts
  timers,         \* Timer: data, after, pausedIn, the queue's entry; events
  eer, ier,       \* Thread: resources enabled for events, for interrupts
  sr, ssr,        \* Thread: the enable bits of SR, of the saved SR
  op, spc,        \* Thread: the instruction it is at, the saved pc
  waiting         \* Thread: the WAITING bit

listVars == <<eer, ier>>
threadVars == <<sr, ssr, op, spc, waiting>>
timerVars == <<now, build, style, timers, listVars, threadVars>>

Start == <<"next">>
WaitEU == <<"waiteu">>
In(i) == <<"in", i>>

(* Timer::alloc.                                                           *)
Allocated == [data |-> 0, after |-> FALSE, pausedIn |-> FALSE, due |-> {},
              enabled |-> FALSE, interrupt |-> FALSE]

TimersInit ==
  /\ now \in StartTimes
  /\ build \in {"wraps", "widens"} /\ style \in {"event", "interrupt"}
  /\ timers = [i \in Timer |-> Allocated]
  /\ eer = << >> /\ ier = << >>
  /\ sr = {} /\ ssr = {} /\ op = Start /\ spc = Start /\ waiting = FALSE

-----------------------------------------------------------------------------
(* Timer.                                                                  *)

Half == 2 ^ (TickBits - 1)

(* The conversion to int32_t.                                              *)
Int32(x) == ((x + Half) % (2 * Half)) - Half

(* The result of an int operation.                                         *)
Result(x) == IF build = "wraps" THEN Int32(x) ELSE x

Ticks(t) == t \div CYCLES_PER_TICK

conditionMet(m, t) == m.after => Result(Int32(Ticks(t)) - Int32(m.data)) > 0

(* Mutant of getEarliestReadyTime: the tick after the one wanted.          *)
getEarliestReadyTimeNext(m, t) ==
  IF conditionMet(m, t) THEN t
  ELSE t + Result(Result(Int32(m.data + 2) - Int32(Ticks(t))) * CYCLES_PER_TICK)

getEarliestReadyTime(m, t) ==
  IF conditionMet(m, t) THEN t
  ELSE t + Result(Result(Int32(m.data + 1) - Int32(Ticks(t))) * CYCLES_PER_TICK)

(* seeEventEnable of a timer that is not ready; an entry that lies in the  *)
(* past is run at once.                                                    *)
scheduleUpdate(m) ==
  LET ready == getEarliestReadyTime(m, now)
  IN [m EXCEPT !.due = {IF ready < now THEN now ELSE ready}]

-----------------------------------------------------------------------------
(* Events and interrupts.                                                  *)

Bit(m) == IF m.interrupt THEN "ieble" ELSE "eeble"

eventsPermitted(m) == m.enabled /\ Bit(m) \in sr

(* SystemState::takeEvent and completeEvent for timer m, on a thread with  *)
(* enable bits bits whose pc is at from.                                   *)
TakeEvent(m, bits, from) ==
  /\ op' = Start /\ waiting' = FALSE
  /\ IF m.interrupt THEN ssr' = bits /\ spc' = from /\ sr' = {}
     ELSE sr' = bits \ {"eeble"} /\ UNCHANGED <<ssr, spc>>

(* Thread::setSR: the resources of the lists whose bit becomes set are     *)
(* asked in turn, up to the first that is ready; WAITEU pauses if none is. *)
setSR(bits, from, pause) ==
  LET list  == (IF "eeble" \in bits \ sr THEN eer ELSE << >>)
                 \o (IF "ieble" \in bits \ sr THEN ier ELSE << >>)
      ready == {n \in 1 .. Len(list) : conditionMet(timers[list[n]], now)}
      first == CHOOSE n \in ready : \A k \in ready : n <= k
      asked == IF ready = {} THEN ToSet(list) ELSE ToSet(SubSeq(list, 1, first - 1))
  IN /\ timers' = [i \in Timer |-> IF i \in asked THEN scheduleUpdate(timers[i])
                                                  ELSE timers[i]]
     /\ IF ready # {} THEN TakeEvent(timers[list[first]], bits, from)
        ELSE sr' = bits /\ op' = from /\ waiting' = pause /\ UNCHANGED <<ssr, spc>>

(* eventEnable and setInterruptMode, for the timer m that i has become:    *)
(* a permitted event is taken if it is ready, and scheduled if it is not.  *)
CheckEvent(i, m) ==
  LET permitted == eventsPermitted(m)
      ready == conditionMet(m, now)
  IN /\ timers' = [timers EXCEPT ![i] = IF permitted /\ ~ready THEN scheduleUpdate(m) ELSE m]
     /\ IF permitted /\ ready THEN TakeEvent(m, sr, Start) ELSE UNCHANGED threadVars

-----------------------------------------------------------------------------
(* The instructions of the thread.  A program sets a timer while it is not *)
(* enabled, and enables its timers for events or for interrupts, not both. *)

Executing == ~waiting /\ op = Start

(* Timer::setData and Timer::setCondition.                                 *)
SetTimer(i, d, c) ==
  /\ Executing /\ ~timers[i].enabled
  /\ timers' = [timers EXCEPT ![i].data = d, ![i].after = c]
  /\ UNCHANGED <<listVars, threadVars>>

(* Timer::in, and the pause_on of IN.                                      *)
TimerIn(i) ==
  /\ ~waiting /\ op \in {Start, In(i)}
  /\ IF conditionMet(timers[i], now)
     THEN op' = Start /\ UNCHANGED <<timers, sr, ssr, spc, waiting>>
     ELSE /\ timers' = [timers EXCEPT ![i] = [scheduleUpdate(@) EXCEPT !.pausedIn = TRUE]]
          /\ op' = In(i) /\ waiting' = TRUE /\ UNCHANGED <<sr, ssr, spc>>
  /\ UNCHANGED listVars

(* setInterruptMode: an enabled timer changes lists.                       *)
setInterruptMode(i, mode) ==
  /\ Executing /\ mode # timers[i].interrupt /\ mode = (style = "interrupt")
  /\ CheckEvent(i, [timers[i] EXCEPT !.interrupt = mode])
  /\ IF ~timers[i].enabled THEN UNCHANGED listVars
     ELSE IF mode THEN eer' = Remove(eer, i) /\ ier' = <<i>> \o ier
     ELSE ier' = Remove(ier, i) /\ eer' = <<i>> \o eer

(* eventEnable.  EEU can event.                                            *)
eventEnable(i) ==
  /\ Executing /\ timers[i].interrupt = (style = "interrupt")
  /\ CheckEvent(i, [timers[i] EXCEPT !.enabled = TRUE])
  /\ IF timers[i].enabled THEN UNCHANGED listVars
     ELSE IF timers[i].interrupt THEN ier' = <<i>> \o ier /\ UNCHANGED eer
     ELSE eer' = <<i>> \o eer /\ UNCHANGED ier

eventDisable(i) ==
  /\ Executing /\ timers[i].enabled
  /\ timers' = [timers EXCEPT ![i].enabled = FALSE]
  /\ IF timers[i].interrupt THEN ier' = Remove(ier, i) /\ UNCHANGED eer
     ELSE eer' = Remove(eer, i) /\ UNCHANGED ier
  /\ UNCHANGED threadVars

clre ==
  /\ Executing
  /\ sr' = sr \ {"eeble"}
  /\ timers' = [i \in Timer |-> IF i \in ToSet(eer)
                                THEN [timers[i] EXCEPT !.enabled = FALSE] ELSE timers[i]]
  /\ eer' = << >> /\ UNCHANGED <<ier, ssr, op, spc, waiting>>

(* SETSR, CLRSR, WAITEU and KRET.                                          *)
SetSR(bit) == Executing /\ setSR(sr \cup {bit}, Start, FALSE) /\ UNCHANGED listVars
ClrSR(bit) == Executing /\ setSR(sr \ {bit}, Start, FALSE) /\ UNCHANGED listVars
WaitEUStep ==
  ~waiting /\ op \in {Start, WaitEU} /\ setSR(sr \cup {"eeble"}, WaitEU, TRUE) /\ UNCHANGED listVars
Kret == Executing /\ setSR(ssr, spc, FALSE) /\ UNCHANGED listVars

-----------------------------------------------------------------------------
(* Timer::run, at the time of its entry in the run queue.                  *)
TimerRun(i) ==
  LET m == [timers[i] EXCEPT !.due = {}]
  IN /\ now \in timers[i].due
     /\ IF ~conditionMet(m, now)
        THEN timers' = [timers EXCEPT ![i] = m] /\ UNCHANGED threadVars
        ELSE /\ timers' = [timers EXCEPT ![i] = [m EXCEPT !.pausedIn = FALSE]]
             /\ IF eventsPermitted(m) THEN TakeEvent(m, sr, op)
                ELSE waiting' = (waiting /\ ~m.pausedIn) /\ UNCHANGED <<sr, ssr, op, spc>>
     /\ UNCHANGED listVars

(* Time passes when nothing is to be run now.                              *)
TimerTick ==
  /\ now < EndTime /\ (waiting \/ op = Start)
  /\ \A i \in Timer : now \notin timers[i].due
  /\ now' = now + 1
  /\ UNCHANGED <<timers, listVars, threadVars>>

StyleBit == IF style = "interrupt" THEN "ieble" ELSE "eeble"

Instruction ==
  \/ \E i \in Timer : \/ \E a \in Ahead : SetTimer(i, (Ticks(now) + a) % (2 * Half), TRUE)
                      \/ SetTimer(i, 0, FALSE)
                      \/ TimerIn(i)
                      \/ setInterruptMode(i, style = "interrupt")
                      \/ eventEnable(i)
                      \/ eventDisable(i)
  \/ clre
  \/ SetSR(StyleBit)
  \/ ClrSR(StyleBit)
  \/ WaitEUStep
  \/ Kret

TimersNext ==
  /\ \/ Instruction /\ UNCHANGED now
     \/ (\E i \in Timer : TimerRun(i)) /\ UNCHANGED now
     \/ TimerTick
  /\ UNCHANGED <<build, style>>

TimersSpec == TimersInit /\ [][TimersNext]_timerVars

-----------------------------------------------------------------------------
(* The timer was ready a whole tick ago: it is after its data, as the      *)
(* count of ticks wraps around.                                            *)
Overdue(m) == m.after => (Ticks(now) - 1 - m.data) % (2 * Half) \in 1 .. Half - 1

(* A timer is never more than a tick late: not for a thread paused in in,  *)
(* nor for one that waits for its event, nor for one that has enabled its  *)
(* interrupt, whatever it does meanwhile.  Timer.h promises of             *)
(* getEarliestReadyTime that it is "the earliest time at which the timer   *)
(* will become ready"; the wake up depends on it, because Timer::run does  *)
(* not schedule the timer again when it is not ready.                      *)
TimersOnTime ==
  \A i \in Timer : Overdue(timers[i]) =>
    /\ ~(waiting /\ op = In(i))
    /\ ~eventsPermitted(timers[i])
=============================================================================
