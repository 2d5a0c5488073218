-------------------------------- MODULE Acpi --------------------------------
(***************************************************************************)
(* The ACPI tables and the power management timer (kernel/src/acpi.rs), and*)
(* how the LAPIC timer is calibrated with it (kernel/src/timer.rs). Time   *)
(* is counted in ticks of the PM timer. Between two of its accesses the    *)
(* CPU lets up to MaxGap ticks pass.                                       *)
(***************************************************************************)
EXTENDS Integers, Sequences, FiniteSetsExt

CONSTANTS
  PM_TIMER_FREQ,   \* 3579545
  TIMER_FREQ,      \* 100
  COUNT_MAX,       \* 0xffffffff, the largest u32
  W24, W32,        \* 2^24 and 2^32, where the PM timer wraps
  Ratio,           \* counts of the LAPIC timer in a tick of the PM timer
  MaxGap

VARIABLES
  pm,      \* the PM timer
  lapic,   \* the LAPIC timer: current and initial count, masked, vector
  wait     \* start and end in wait_millis

timers == <<pm, lapic, wait>>

-----------------------------------------------------------------------------
(* Tables. A sum is that of a table's bytes, modulo 256.                    *)
rsdp_is_valid(rsdp) ==
  /\ rsdp.signature = "RSD PTR " /\ rsdp.revision = 2
  /\ rsdp.sum20 = 0 /\ rsdp.sum36 = 0

header_is_valid(header, expected_signature) == header.signature = expected_signature /\ header.sum = 0

\* The length of a DescriptionHeader is 36; a shorter table makes the subtraction panic.
count(xsdt) == (xsdt.length - 36) \div 8

fadts(xsdt) == {i \in 1 .. count(xsdt) : header_is_valid(xsdt.entries[i], "FACP")}

\* initialize does not panic.
tables_found(acpi) ==
  /\ rsdp_is_valid(acpi.rsdp)
  /\ header_is_valid(acpi.xsdt, "XSDT")
  /\ acpi.xsdt.length >= 36 /\ fadts(acpi.xsdt) # {}
fadt(acpi) == acpi.xsdt.entries[Min(fadts(acpi.xsdt))]

-----------------------------------------------------------------------------
(* Time. W is where this machine's PM timer wraps.                          *)
W(acpi) == IF fadt(acpi).pm_timer_is_32 THEN W32 ELSE W24

Pass(acpi, gap) ==
  /\ pm' = (pm + gap) % W(acpi)
  /\ lapic' = [lapic EXCEPT !.current = Max({0, @ - Ratio * gap})]

InitTimers ==
  /\ pm = 0 /\ wait = [start |-> 0, end |-> 0]
  /\ lapic = [current |-> 0, initial |-> 0, masked |-> TRUE, vector |-> 0]

\* Up to the call of wait_millis. The PM timer may have any value by then.
start_lapic_timer(acpi) ==
  /\ pm' \in 0 .. W(acpi) - 1
  /\ lapic' = [lapic EXCEPT !.masked = TRUE, !.initial = COUNT_MAX, !.current = COUNT_MAX]
  /\ UNCHANGED wait

\* The ticks of 100 milliseconds.
delta == (PM_TIMER_FREQ * 100) \div 1000

wait_start(acpi) ==
  \E gap \in 0 .. MaxGap :
    /\ Pass(acpi, gap)
    /\ LET end == (pm' + delta) % W32
       IN  wait' = [start |-> pm', end |-> IF fadt(acpi).pm_timer_is_32 THEN end ELSE end % W24]

\* Wrong: the wait does not begin with the wrap.
wraps_never == FALSE

wraps == wait.end < wait.start

\* A reading in one of the two loops, and whether it is the loop's last.
read_pm(acpi) == \E gap \in 0 .. MaxGap : Pass(acpi, gap) /\ UNCHANGED wait
has_wrapped == pm' < wait.start
has_ended == pm' >= wait.end

lapic_timer_elapsed(current) == COUNT_MAX - current

\* After the wait: the LAPIC timer is read, stopped, and started as a periodic one.
\* Neither timer is read after this.
calibrated(gap) == lapic_timer_elapsed(Max({0, lapic.current - Ratio * gap})) * 10
start_periodic(freq, index) ==
  /\ lapic' = [current |-> 0, initial |-> freq \div TIMER_FREQ, masked |-> FALSE, vector |-> index]
  /\ pm' = 0 /\ UNCHANGED wait
=============================================================================
