-------------------------------- MODULE Clock --------------------------------
(***************************************************************************)
(* Time keeping (daemon/mc_time.cc): an uptime from the monotonic clock,   *)
(* an epoch that follows changes of the system clock, and the conversion   *)
(* of the expiry times of clients.                                         *)
(***************************************************************************)
EXTENDS Integers

CONSTANTS CheckTime,    \* memcached_check_system_time (60)
          MaxRelative,  \* memcached_maximum_relative_time (30 days)
          RelWidth,     \* values of a rel_time_t (2^32)
          Boot,         \* system time at the start of the process
          Jumps,        \* by how much somebody sets the system clock
          MaxJumps,     \* bound: changes of the system clock
          MaxLate,      \* bound: seconds a tick may be late
          MaxUptime     \* bound: seconds the process runs

\* A rel_time_t holds 136 years.
ASSUME ClockAssumption ==
  /\ CheckTime \in Nat /\ MaxRelative \in Nat /\ RelWidth \in Nat /\ MaxUptime \in Nat
  /\ Boot \in Nat /\ Jumps \subseteq Int
  /\ MaxRelative + MaxUptime < RelWidth

VARIABLE ck

Distance(a, b) == IF a > b THEN a - b ELSE b - a

\* The test of the system clock against its value at the previous check.
Changed(difference) == difference > CheckTime + 1 \/ difference < CheckTime - 1

mc_time_clock_tick(r) ==
  LET s == [r EXCEPT !.uptime = r.mono]
  IN IF s.uptime < r.check THEN s
     ELSE [s EXCEPT !.epoch = IF r.valid /\ Changed(Distance(r.wall, r.previous))
                              THEN r.wall - s.uptime ELSE @,
                    !.check = @ + CheckTime, !.valid = TRUE, !.previous = r.wall]

\* mc_time_init and mc_time_init_epoch; the handler it calls ticks again.
\* mono is counted from memcached_monotonic_start.
ClockInit ==
  ck = mc_time_clock_tick(mc_time_clock_tick(
         [mono |-> 0, wall |-> Boot, uptime |-> 0, epoch |-> Boot, check |-> 0,
          valid |-> FALSE, previous |-> 0, jumps |-> 0]))

\* mc_time_clock_event_handler: libevent calls it every second, or later.
mc_time_clock_event_handler ==
  /\ ck.uptime < ck.mono
  /\ ck' = mc_time_clock_tick(ck)

Second ==
  /\ ck.mono < MaxUptime
  /\ ck.mono - ck.uptime <= MaxLate
  /\ ck' = [ck EXCEPT !.mono = @ + 1, !.wall = @ + 1]

SystemClockSet ==
  /\ ck.jumps < MaxJumps
  /\ \E d \in Jumps : ck' = [ck EXCEPT !.wall = @ + d, !.jumps = @ + 1]

ClockNext == mc_time_clock_event_handler \/ Second \/ SystemClockSet

ClockSpec == ClockInit /\ [][ClockNext]_ck

PastUnderflows(r, t) ==
  IF t > MaxRelative THEN (t - r.epoch) % RelWidth
  ELSE IF t # 0 THEN (t + r.uptime) % RelWidth ELSE 0

\* A time of a client, which is relative, absolute or 0, as an uptime.
mc_time_convert_to_real_time(r, t) ==
  IF t > MaxRelative THEN IF t <= r.epoch THEN 1 ELSE (t - r.epoch) % RelWidth
  ELSE IF t # 0 THEN (t + r.uptime) % RelWidth
  ELSE 0

mc_time_convert_to_abs_time(r, rel) == r.epoch + rel

-----------------------------------------------------------------------------
(* Properties *)

\* What the expiry time t of a client means: it is 0, which stands for never, only
\* if the client said 0; it lies in the future exactly if it is relative or an
\* absolute time after the server's idea of now; and an absolute time after the
\* start converts back to itself.
Means(t) ==
  LET now == mc_time_convert_to_abs_time(ck, ck.uptime)
      rel == mc_time_convert_to_real_time(ck, t)
  IN /\ rel = 0 <=> t = 0
     /\ t > MaxRelative /\ ck.uptime > 0 => (rel > ck.uptime <=> t > now)
     /\ t \in 1 .. MaxRelative => rel > ck.uptime
     /\ t > MaxRelative /\ t > ck.epoch => mc_time_convert_to_abs_time(ck, rel) = t

(* However the system clock is set and however late the ticks are, every   *)
(* expiry time that is not too far from the epoch for a rel_time_t means   *)
(* what the client said (mc_time_convert_to_real_time).                    *)
ExpiryAsMeant == \A t \in 0 .. 2 * Boot : t - ck.epoch < RelWidth => Means(t)

=============================================================================
