----------------------------- MODULE RecordGate -----------------------------
(***************************************************************************)
(* The decision record() of io_monitor/io_monitor.c takes for every        *)
(* intercepted call of one single-threaded process: is the call reported?  *)
(* Its gates are, in the code's order, the dead TCP peer, the standard     *)
(* descriptors, the domain mask, the opens of "." and "..", the pause      *)
(* (START_ON_OPEN, START_ON_ELAPSED), the count-based sampling and the     *)
(* time-based sampling.  Every way out of record() is an action.           *)
(*                                                                         *)
(* env is the environment of the process as initialize_monitor() and       *)
(* load_library_functions() read it, once, at start:                       *)
(*   start_on_open    START_ON_OPEN is set                                 *)
(*   start_on_elapsed START_ON_ELAPSED is set to more than 0.1             *)
(*   count_frequency  COUNT_SAMPLE_FREQUENCY as the int it is stored in,   *)
(*                    0 when unset; atol() into an unsigned long lets      *)
(*                    negative numbers through                             *)
(*   time_frequency, time_duration   what atol() makes of the two, 0 when  *)
(*                    unset: longs, which the code stores as unsigned long *)
(*   domains          MONITOR_DOMAINS as a set                             *)
(*   mq               MESSAGE_QUEUE_PATH is set (otherwise TCP is used)    *)
(* A call is what record() is given: its domain and operation, whether fd  *)
(* is one of 0..2, whether s1 is "." or ".." (dot) or contains             *)
(* START_ON_OPEN (match), whether it took longer than the elapsed          *)
(* threshold (slow).                                                       *)
(***************************************************************************)
EXTENDS Integers

CONSTANTS
  Envs,      \* the environments the process may be started in
  Calls,     \* the calls the application makes
  Times,     \* the values time(NULL) may return
  LONG_MAX,  \* the largest long
  MaxGap     \* bound on the unreported calls between two reports

Domains == {"FILE_OPEN_CLOSE", "FILE_READ", "SOCKETS", "START_STOP"}

(* The values of a long, and the number of values of an unsigned long. *)
Long == (-LONG_MAX - 1) .. LONG_MAX
ULONG == 2 * (LONG_MAX + 1)

EnvType == [start_on_open : BOOLEAN, start_on_elapsed : BOOLEAN,
            count_frequency : Int, time_frequency : Long, time_duration : Long,
            domains : SUBSET Domains, mq : BOOLEAN]

CallType == [dom : Domains, op : {"OPEN", "OTHER"}, std_fd : BOOLEAN,
             dot : BOOLEAN, match : BOOLEAN, slow : BOOLEAN]

(* Over TCP the monitor's own socket() call is intercepted too, so an      *)
(* environment that monitors SOCKETS without a message queue is another    *)
(* (recursive) program and is left out here.                               *)
ASSUME LongAssumption == LONG_MAX \in Nat

ASSUME EnvsAssumption ==
  /\ Envs \subseteq EnvType
  /\ \A e \in Envs : ~e.mq => "SOCKETS" \notin e.domains

ASSUME CallsAssumption == Calls \subseteq CallType

(* time(NULL) is a long past the epoch: 0 is the code's "no sample yet". *)
ASSUME TimesAssumption == Times \subseteq 1 .. LONG_MAX

ASSUME MaxGapAssumption == MaxGap \in Nat

VARIABLES
  env,
  paused,
  count_intercepts_since_last_report,
  start_time_based_sample,
  within_time_based_sample,
  failed_socket_connections,
  \* History variables: not state of the program.
  gap,      \* calls that passed the pause since the last report
  opened,   \* a matching open has been intercepted
  latest,   \* largest clock value read so far
  steady,   \* the clock has never gone back
  last      \* how the latest call ended: reported?, calls it stands for, time

program == <<env, paused, count_intercepts_since_last_report,
             start_time_based_sample, within_time_based_sample,
             failed_socket_connections>>
vars == <<program, gap, opened, latest, steady, last>>

-----------------------------------------------------------------------------
count_based_sampling == env.count_frequency # 0

(* The long of atol() becomes an unsigned long: a negative number becomes  *)
(* a huge one and passes the test for being greater than 0.                *)
time_based_sample_frequency == env.time_frequency % ULONG

time_based_sample_duration == env.time_duration % ULONG

time_based_sampling ==
  time_based_sample_frequency > 0 /\ time_based_sample_duration > 0

\* Mutant: START_ON_ELAPSED is looked at even when START_ON_OPEN is set.
have_elapsed_threshold_always == env.start_on_elapsed

(* START_ON_ELAPSED is only looked at when START_ON_OPEN is not set. *)
have_elapsed_threshold == ~env.start_on_open /\ env.start_on_elapsed

Unreported == [sent |-> FALSE, spacing |-> 0, ts |-> 0]

Init ==
  /\ env \in Envs
  /\ paused = (env.start_on_open \/ env.start_on_elapsed)
  /\ count_intercepts_since_last_report = 0
  /\ start_time_based_sample = 0
  /\ within_time_based_sample = FALSE
  /\ failed_socket_connections = 0
  /\ gap = 0
  /\ opened = FALSE
  /\ latest = 0
  /\ steady = TRUE
  /\ last = Unreported

-----------------------------------------------------------------------------
\* Mutant: a failed connection is forgotten.
IgnoredLive(c) ==
  \/ c.std_fd /\ c.dom # "START_STOP"
  \/ c.dom \notin env.domains
  \/ c.op = "OPEN" /\ c.dot

(* The gates that come before the pause. *)
Ignored(c) ==
  \/ failed_socket_connections > 0
  \/ c.std_fd /\ c.dom # "START_STOP"
  \/ c.dom \notin env.domains
  \/ c.op = "OPEN" /\ c.dot

Resumes(c) ==
  \/ env.start_on_open /\ c.op = "OPEN" /\ c.match
  \/ have_elapsed_threshold /\ c.slow

\* Mutant: the comparison is off by one.
SkippedByCountLate ==
  /\ count_based_sampling
  /\ count_intercepts_since_last_report + 1 <= env.count_frequency

SkippedByCount ==
  /\ count_based_sampling
  /\ count_intercepts_since_last_report + 1 < env.count_frequency

\* Mutant: the frequency is subtracted instead of the count reset.
CountAfterPassSubtract ==
  IF count_based_sampling
  THEN count_intercepts_since_last_report - env.count_frequency
  ELSE count_intercepts_since_last_report

(* What the count-based sampling leaves behind when it lets a call pass. *)
CountAfterPass ==
  IF count_based_sampling THEN 0 ELSE count_intercepts_since_last_report

NoteOpen(c) == opened' = (opened \/ (c.op = "OPEN" /\ c.match))

NoteTime(ts) ==
  /\ steady' = (steady /\ latest <= ts)
  /\ latest' = IF latest <= ts THEN ts ELSE latest

-----------------------------------------------------------------------------
(* The steps of the time-based sampling window at clock value ts. Both     *)
(* sums are of unsigned longs and wrap.                                    *)
turn_off_time == (start_time_based_sample + time_based_sample_duration) % ULONG

turn_on_time == (start_time_based_sample + time_based_sample_frequency) % ULONG

FirstWindow(ts) ==
  /\ start_time_based_sample = 0
  /\ start_time_based_sample' = ts
  /\ within_time_based_sample' = TRUE

\* Mutant: the window is open one second too long.
StayOpenLonger(ts) ==
  /\ start_time_based_sample # 0 /\ within_time_based_sample
  /\ ts <= turn_off_time
  /\ UNCHANGED <<start_time_based_sample, within_time_based_sample>>

StayOpen(ts) ==
  /\ start_time_based_sample # 0 /\ within_time_based_sample
  /\ ts < turn_off_time
  /\ UNCHANGED <<start_time_based_sample, within_time_based_sample>>

CloseWindow(ts) ==
  /\ start_time_based_sample # 0 /\ within_time_based_sample
  /\ ts >= turn_off_time
  /\ within_time_based_sample' = FALSE
  /\ UNCHANGED start_time_based_sample

StayClosed(ts) ==
  /\ start_time_based_sample # 0 /\ ~within_time_based_sample
  /\ ts < turn_on_time
  /\ UNCHANGED <<start_time_based_sample, within_time_based_sample>>

\* Mutant: a closed window is opened again at once.
ReopenWindowAtOnce(ts) ==
  /\ start_time_based_sample # 0 /\ ~within_time_based_sample
  /\ start_time_based_sample' = ts
  /\ within_time_based_sample' = TRUE

ReopenWindow(ts) ==
  /\ start_time_based_sample # 0 /\ ~within_time_based_sample
  /\ ts >= turn_on_time
  /\ start_time_based_sample' = ts
  /\ within_time_based_sample' = TRUE

NoWindow ==
  /\ ~time_based_sampling
  /\ UNCHANGED <<start_time_based_sample, within_time_based_sample>>

-----------------------------------------------------------------------------
(* record() returns before the pause is looked at. *)
Ignore(c) ==
  /\ Ignored(c)
  /\ NoteOpen(c)
  /\ last' = Unreported
  /\ UNCHANGED <<program, gap, latest, steady>>

StayPaused(c) ==
  /\ ~Ignored(c)
  /\ paused /\ ~Resumes(c)
  /\ NoteOpen(c)
  /\ last' = Unreported
  /\ UNCHANGED <<program, gap, latest, steady>>

(* The call is past the pause, which it may itself have ended. *)
Awake(c) ==
  /\ ~Ignored(c)
  /\ paused => Resumes(c)
  /\ paused' = FALSE
  /\ NoteOpen(c)
  /\ UNCHANGED env

SkipByCount(c) ==
  /\ Awake(c)
  /\ gap < MaxGap
  /\ SkippedByCount
  /\ count_intercepts_since_last_report' = count_intercepts_since_last_report + 1
  /\ gap' = gap + 1
  /\ last' = Unreported
  /\ UNCHANGED <<start_time_based_sample, within_time_based_sample,
                 failed_socket_connections, latest, steady>>

(* The count is spent even though the closed window drops the call. *)
SkipByTime(c, ts) ==
  /\ Awake(c)
  /\ gap < MaxGap
  /\ ~SkippedByCount
  /\ count_intercepts_since_last_report' = CountAfterPass
  /\ time_based_sampling
  /\ CloseWindow(ts) \/ StayClosed(ts)
  /\ NoteTime(ts)
  /\ gap' = gap + 1
  /\ last' = Unreported
  /\ UNCHANGED failed_socket_connections

(* send_tcp_socket() reaches its peer, or counts that it did not; a write  *)
(* that fails changes no gate.  A message queue changes none either.       *)
Send ==
  \/ UNCHANGED failed_socket_connections
  \/ /\ ~env.mq
     /\ failed_socket_connections' = failed_socket_connections + 1

(* The record is built and handed to the IPC. *)
Report(c, ts) ==
  /\ Awake(c)
  /\ ~SkippedByCount
  /\ count_intercepts_since_last_report' = CountAfterPass
  /\ \/ NoWindow
     \/ time_based_sampling
        /\ (FirstWindow(ts) \/ StayOpen(ts) \/ ReopenWindow(ts))
  /\ Send
  /\ NoteTime(ts)
  /\ gap' = 0
  /\ last' = [sent |-> TRUE, spacing |-> gap + 1, ts |-> ts]

Next ==
  \E c \in Calls :
    \/ Ignore(c)
    \/ StayPaused(c)
    \/ SkipByCount(c)
    \/ \E ts \in Times : SkipByTime(c, ts) \/ Report(c, ts)

Spec == Init /\ [][Next]_vars

-----------------------------------------------------------------------------
(* Every variable of record() keeps its type: the counters stay natural    *)
(* numbers and the environment is never changed after start.               *)
TypeOK ==
  /\ env \in Envs
  /\ paused \in BOOLEAN
  /\ count_intercepts_since_last_report \in Nat
  /\ start_time_based_sample \in 0 .. LONG_MAX
  /\ within_time_based_sample \in BOOLEAN
  /\ failed_socket_connections \in Nat
  /\ gap \in Nat
  /\ opened \in BOOLEAN
  /\ latest \in Nat
  /\ steady \in BOOLEAN
  /\ last \in [sent : BOOLEAN, spacing : Nat, ts : Nat]

(* Count-based sampling reports at most one call in count_frequency, also  *)
(* when time-based sampling drops calls that the count let pass, and       *)
(* exactly one in count_frequency when it works alone; a frequency of 1 or *)
(* less reports every call.                                                *)
SampleSpacing ==
  last.sent =>
    /\ count_based_sampling => last.spacing >= env.count_frequency
    /\ ~time_based_sampling =>
         last.spacing = IF env.count_frequency > 1 THEN env.count_frequency
                                                   ELSE 1

(* The end of the window and the earliest start of the next one, as the    *)
(* settings mean them: sums that do not wrap.                              *)
WindowEnd == start_time_based_sample + time_based_sample_duration
NextStart == start_time_based_sample + time_based_sample_frequency

(* Time-based sampling only reports calls that fall into the window it     *)
(* remembers: not at or after its end and, while the clock does not go     *)
(* back, not before its start.  A duration so long that the end wraps (a   *)
(* negative number in the environment) does not keep the window open: of   *)
(* each window only the call that opens it is reported.                    *)
WindowSound ==
  last.sent /\ time_based_sampling =>
    /\ last.ts < WindowEnd
    /\ steady => start_time_based_sample <= last.ts
    /\ steady /\ WindowEnd >= ULONG => last.ts = start_time_based_sample

(* While the clock does not go back, a window is only ever moved forward,  *)
(* and never to a start that is less than the frequency, or less than the  *)
(* duration, after the start of the one before it: windows neither overlap *)
(* nor bunch up, even when the duration is set longer than the frequency.  *)
(* Only a setting whose sum wraps loses its bound, and only its own.       *)
WindowsApart ==
  [][steady' /\ start_time_based_sample # 0
       /\ start_time_based_sample' # start_time_based_sample
     => /\ start_time_based_sample' > start_time_based_sample
        /\ NextStart < ULONG => start_time_based_sample' >= NextStart
        /\ WindowEnd < ULONG => start_time_based_sample' >= WindowEnd]_vars

(* A process started with START_ON_OPEN reports nothing before the first   *)
(* matching open, however slow its calls are and whatever START_ON_ELAPSED *)
(* says.                                                                   *)
QuietUntilOpen ==
  env.start_on_open /\ ~opened => paused /\ ~last.sent /\ gap = 0

(* A process whose TCP peer cannot be reached pays for one failed          *)
(* connection and never tries a second one.                                *)
OneFailedConnect ==
  failed_socket_connections <= 1 /\ (env.mq => failed_socket_connections = 0)

(* README.md on START_ON_OPEN: the monitor remains paused "until a file is *)
(* opened whose path contains" the value; from such an open on it runs.    *)
ResumesOnOpen == env.start_on_open /\ opened => ~paused

=============================================================================
