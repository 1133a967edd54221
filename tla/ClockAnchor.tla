----------------------------- MODULE ClockAnchor -----------------------------
(***************************************************************************)
(* ClockAnchor of dataset_collection: it maps the ticks of a device onto   *)
(* the monotonic clock of the host.                                        *)
(*                                                                         *)
(* The first samples are buffered and come back as they were observed; a   *)
(* line fitted through them then fixes the anchor, and every later sample  *)
(* refines the slope of a line through that anchor.  Rates are rationals   *)
(* <<numerator, denominator>> with a positive denominator: the floats of   *)
(* the code, without their rounding.                                       *)
(***************************************************************************)
EXTENDS Integers, Sequences

\* int(): towards zero.
Truncate(r) == IF r[1] >= 0 THEN r[1] \div r[2] ELSE -((-r[1]) \div r[2])

\* round(): to the nearest, a half to the even one.
RoundHalfEven(r) ==
  LET q == r[1] \div r[2]
      twice == 2 * (r[1] % r[2])
  IN IF twice < r[2] \/ (twice = r[2] /\ q % 2 = 0) THEN q ELSE q + 1

\* The sum of a sequence of numbers.
Total(g) ==
  LET sum[n \in 0..Len(g)] == IF n = 0 THEN 0 ELSE sum[n - 1] + g[n]
  IN sum[Len(g)]

Products(f, g) == [i \in DOMAIN f |-> f[i] * g[i]]

NewAnchor(nominal, warmup) ==
  [nominal |-> nominal, warmup |-> IF warmup > 2 THEN warmup ELSE 2, buffer |-> << >>,
   anchored |-> FALSE, ticks0 |-> 0, host0 |-> 0, rate |-> <<nominal, 1>>, xx |-> 0, xy |-> 0]

Sample(ticks, host) == [ticks |-> ticks, host |-> host]

\* The two coordinates of samples, counted from an origin.
TicksFrom(samples, ticks0) == [i \in DOMAIN samples |-> samples[i].ticks - ticks0]
HostsFrom(samples, host0)  == [i \in DOMAIN samples |-> samples[i].host - host0]

\* Ordinary least squares through the buffered samples; where their ticks do not
\* differ, the nominal rate through the first of them.
FittedLine(buffer, nominal) ==
  LET n   == Len(buffer)
      xs  == TicksFrom(buffer, buffer[1].ticks)
      ys  == HostsFrom(buffer, 0)
      sx  == Total(xs)
      sy  == Total(ys)
      den == n * Total(Products(xs, xs)) - sx * sx
      num == n * Total(Products(xs, ys)) - sx * sy
  IN IF den # 0 THEN [slope |-> <<num, den>>, intercept |-> <<sy * den - num * sx, n * den>>]
                ELSE [slope |-> <<nominal, 1>>, intercept |-> <<buffer[1].host, 1>>]

\* Mutant: the fit starts from nothing once the anchor is fixed.
FinishWarmupForgetting(a) ==
  LET line == FittedLine(a.buffer, a.nominal)
  IN [a EXCEPT !.ticks0 = a.buffer[1].ticks, !.host0 = RoundHalfEven(line.intercept),
               !.rate = line.slope, !.xx = 0, !.xy = 0, !.buffer = << >>, !.anchored = TRUE]

\* Mutant: the nominal rate outlives the warm-up.
FinishWarmupKeepsRate(a) ==
  LET host0 == RoundHalfEven(FittedLine(a.buffer, a.nominal).intercept)
      xs    == TicksFrom(a.buffer, a.buffer[1].ticks)
      ys    == HostsFrom(a.buffer, host0)
  IN [a EXCEPT !.ticks0 = a.buffer[1].ticks, !.host0 = host0,
               !.xx = Total(Products(xs, xs)), !.xy = Total(Products(xs, ys)),
               !.buffer = << >>, !.anchored = TRUE]

\* _finish_warmup: the sums of the lasting fit begin with the warm-up samples.
FinishWarmup(a) ==
  LET line  == FittedLine(a.buffer, a.nominal)
      host0 == RoundHalfEven(line.intercept)
      xs    == TicksFrom(a.buffer, a.buffer[1].ticks)
      ys    == HostsFrom(a.buffer, host0)
  IN [a EXCEPT !.ticks0 = a.buffer[1].ticks, !.host0 = host0, !.rate = line.slope,
               !.xx = Total(Products(xs, xs)), !.xy = Total(Products(xs, ys)),
               !.buffer = << >>, !.anchored = TRUE]

\* The anchor after to_host_ns(ticks, host).
Observe(a, ticks, host) ==
  IF ~a.anchored
    THEN LET b == [a EXCEPT !.buffer = Append(@, Sample(ticks, host))]
         IN IF Len(b.buffer) >= b.warmup THEN FinishWarmup(b) ELSE b
    ELSE LET x == ticks - a.ticks0
             xx == a.xx + x * x
             xy == a.xy + x * (host - a.host0)
         IN [a EXCEPT !.xx = xx, !.xy = xy, !.rate = IF xx > 0 THEN <<xy, xx>> ELSE @]

\* What to_host_ns(ticks, host) returns: before is the anchor it was called on.
HostNs(before, ticks, host) ==
  LET after == Observe(before, ticks, host)
      x == ticks - after.ticks0
  IN IF before.anchored THEN after.host0 + Truncate(<<x * after.rate[1], after.rate[2]>>)
                        ELSE host

\* The sign of drift_from_nominal_ppm.
DriftSign(a) == a.rate[1] - a.nominal * a.rate[2]
=============================================================================
