------------------------- MODULE RecordGate_proofs -------------------------
(***************************************************************************)
(* Proofs of the properties of RecordGate, for every environment, every    *)
(* set of calls, every clock and every bound.                              *)
(***************************************************************************)
EXTENDS RecordGate, TLAPS

(* What the counter of count-based sampling knows about the calls passed   *)
(* over since the last report: it never claims more of them than there     *)
(* were, and is exact while time-based sampling drops none.                *)
CountInv ==
  /\ count_intercepts_since_last_report <= gap
  /\ ~time_based_sampling => gap = count_intercepts_since_last_report
  /\ \/ count_intercepts_since_last_report = 0
     \/ count_intercepts_since_last_report < env.count_frequency

(* Where the window lies relative to the clock: it has started, and once   *)
(* closed it lies wholly in the past, unless its end wraps.                *)
WindowInv ==
  steady /\ start_time_based_sample # 0 =>
    /\ start_time_based_sample <= latest
    /\ ~within_time_based_sample /\ WindowEnd < ULONG => WindowEnd <= latest

IInv ==
  /\ TypeOK
  /\ CountInv
  /\ WindowInv
  /\ SampleSpacing
  /\ WindowSound
  /\ QuietUntilOpen
  /\ OneFailedConnect

USE LongAssumption, EnvsAssumption, CallsAssumption, TimesAssumption,
    MaxGapAssumption

(* The sum of two unsigned longs, which wraps at most once. *)
LEMMA SumWraps ==
  ASSUME NEW a \in 0 .. ULONG - 1, NEW b \in 0 .. ULONG - 1
  PROVE  (a + b) % ULONG = IF a + b < ULONG THEN a + b ELSE a + b - ULONG
  <1> DEFINE n == a + b
  <1>1. n \in 0 .. ULONG - 1 \/ n \in ULONG .. 2 * ULONG - 1
    BY DEF ULONG
  <1>2. n \in 0 .. ULONG - 1 => n % ULONG = n
    BY DEF ULONG
  <1>3. n \in ULONG .. 2 * ULONG - 1 => n % ULONG = n - ULONG
    BY DEF ULONG
  <1> QED
    BY <1>1, <1>2, <1>3 DEF ULONG

(* The long of atol() is stored as an unsigned long. *)
LEMMA UnsignedLong == ASSUME NEW n \in Long PROVE n % ULONG \in 0 .. ULONG - 1
  BY DEF Long, ULONG

(* The fields of the environment of a process, from its type. *)
LEMMA EnvFields ==
  ASSUME NEW e \in Envs
  PROVE  /\ e.count_frequency \in Int
         /\ e.time_frequency \in Long
         /\ e.time_duration \in Long
         /\ e.start_on_open \in BOOLEAN
         /\ e.start_on_elapsed \in BOOLEAN
         /\ e.mq \in BOOLEAN
  BY DEF EnvType

(* Where the window ends and the next may start, and what the code's sums  *)
(* make of it.                                                             *)
LEMMA WindowSums ==
  ASSUME TypeOK
  PROVE  /\ time_based_sample_duration \in 0 .. ULONG - 1
         /\ time_based_sample_frequency \in 0 .. ULONG - 1
         /\ WindowEnd \in Nat /\ NextStart \in Nat
         /\ turn_off_time = IF WindowEnd < ULONG THEN WindowEnd ELSE WindowEnd - ULONG
         /\ turn_on_time = IF NextStart < ULONG THEN NextStart ELSE NextStart - ULONG
  <1>1. /\ time_based_sample_duration \in 0 .. ULONG - 1
        /\ time_based_sample_frequency \in 0 .. ULONG - 1
    BY EnvFields, UnsignedLong
    DEF TypeOK, time_based_sample_duration, time_based_sample_frequency
  <1>2. start_time_based_sample \in 0 .. ULONG - 1
    BY DEF TypeOK, ULONG
  <1>3. WindowEnd \in Nat /\ NextStart \in Nat
    BY <1>1, <1>2 DEF WindowEnd, NextStart, ULONG
  <1>4. ASSUME NEW d \in 0 .. ULONG - 1
        PROVE  (start_time_based_sample + d) % ULONG
                 = IF start_time_based_sample + d < ULONG
                   THEN start_time_based_sample + d
                   ELSE start_time_based_sample + d - ULONG
    BY <1>2, SumWraps
  <1>5. turn_off_time = IF WindowEnd < ULONG THEN WindowEnd ELSE WindowEnd - ULONG
    <2>1. (start_time_based_sample + time_based_sample_duration) % ULONG
            = IF start_time_based_sample + time_based_sample_duration < ULONG
              THEN start_time_based_sample + time_based_sample_duration
              ELSE start_time_based_sample + time_based_sample_duration - ULONG
      BY <1>1, <1>4
    <2> QED
      BY <1>1, <1>2, <2>1 DEF WindowEnd, turn_off_time, ULONG
  <1>6. turn_on_time = IF NextStart < ULONG THEN NextStart ELSE NextStart - ULONG
    <2>1. (start_time_based_sample + time_based_sample_frequency) % ULONG
            = IF start_time_based_sample + time_based_sample_frequency < ULONG
              THEN start_time_based_sample + time_based_sample_frequency
              ELSE start_time_based_sample + time_based_sample_frequency - ULONG
      BY <1>1, <1>4
    <2> QED
      BY <1>1, <1>2, <2>1 DEF NextStart, turn_on_time, ULONG
  <1> QED
    BY <1>1, <1>3, <1>5, <1>6

(* Windows and their sums are a matter of two variables. *)
LEMMA SumsFixed ==
  ASSUME env' = env
  PROVE  /\ time_based_sampling' = time_based_sampling
         /\ time_based_sample_duration' = time_based_sample_duration
         /\ time_based_sample_frequency' = time_based_sample_frequency
         /\ start_time_based_sample' = start_time_based_sample =>
              WindowEnd' = WindowEnd /\ NextStart' = NextStart
         /\ WindowEnd' = start_time_based_sample' + time_based_sample_duration
  BY Zenon DEF time_based_sampling, time_based_sample_duration,
               time_based_sample_frequency, WindowEnd, NextStart

(* record() starts in a state that satisfies the inductive invariant. *)
LEMMA InitInv == Init => IInv
  <1> SUFFICES ASSUME Init PROVE IInv
    OBVIOUS
  <1> USE DEF Init, Unreported
  <1>1. TypeOK
    <2>1. /\ env \in Envs /\ paused \in BOOLEAN
          /\ within_time_based_sample \in BOOLEAN /\ opened \in BOOLEAN
          /\ steady \in BOOLEAN
      BY EnvFields
    <2>2. /\ count_intercepts_since_last_report \in Nat
          /\ start_time_based_sample \in 0 .. LONG_MAX
          /\ failed_socket_connections \in Nat /\ gap \in Nat /\ latest \in Nat
          /\ last \in [sent : BOOLEAN, spacing : Nat, ts : Nat]
      OBVIOUS
    <2> QED
      BY <2>1, <2>2, Zenon DEF TypeOK
  <1>2. CountInv /\ WindowInv
    BY EnvFields DEF CountInv, WindowInv
  <1>3. SampleSpacing /\ WindowSound
    BY DEF SampleSpacing, WindowSound
  <1>4. QuietUntilOpen
    <2>1. env.start_on_open => paused
      BY Zenon
    <2>2. ~last.sent /\ gap = 0
      OBVIOUS
    <2> QED
      BY <2>1, <2>2, Zenon DEF QuietUntilOpen
  <1>5. OneFailedConnect
    BY DEF OneFailedConnect
  <1> QED
    BY <1>1, <1>2, <1>3, <1>4, <1>5 DEF IInv

(* The history variables keep their types. *)
LEMMA NoteTypes ==
  /\ \A c : NoteOpen(c) => opened' \in BOOLEAN
  /\ \A ts \in Times : NoteTime(ts) => steady' \in BOOLEAN
  /\ \A ts \in Times : latest \in Nat /\ NoteTime(ts) => latest' \in Nat
  <1>1. \A c : NoteOpen(c) => opened' \in BOOLEAN
    BY Zenon DEF NoteOpen
  <1>2. \A ts \in Times : NoteTime(ts) => steady' \in BOOLEAN
    BY Zenon DEF NoteTime
  <1>3. \A ts \in Times : latest \in Nat /\ NoteTime(ts) => latest' \in Nat
    BY DEF NoteTime
  <1> QED
    BY <1>1, <1>2, <1>3

(* The outcome noted for a call that is not reported has its type. *)
LEMMA UnreportedType == Unreported \in [sent : BOOLEAN, spacing : Nat, ts : Nat]
  BY DEF Unreported

(* Every way out of record() keeps the types. *)
LEMMA TypeStep == TypeOK /\ [Next]_vars => TypeOK'
  <1> SUFFICES ASSUME TypeOK, [Next]_vars PROVE TypeOK'
    OBVIOUS
  <1> USE DEF TypeOK
  <1>1. ASSUME NEW c \in Calls, Ignore(c) \/ StayPaused(c) PROVE TypeOK'
    <2>1. opened' \in BOOLEAN
      BY <1>1, NoteTypes, Zenon DEF Ignore, StayPaused
    <2>2. last' \in [sent : BOOLEAN, spacing : Nat, ts : Nat]
      BY <1>1, UnreportedType, Zenon DEF Ignore, StayPaused
    <2> QED
      BY <1>1, <2>1, <2>2 DEF Ignore, StayPaused, program
  <1>2. ASSUME NEW c \in Calls, SkipByCount(c) PROVE TypeOK'
    <2>1. opened' \in BOOLEAN
      BY <1>2, NoteTypes, Zenon DEF SkipByCount, Awake
    <2>2. last' \in [sent : BOOLEAN, spacing : Nat, ts : Nat]
      BY <1>2, UnreportedType, Zenon DEF SkipByCount
    <2>3. count_intercepts_since_last_report' \in Nat /\ gap' \in Nat
      BY <1>2 DEF SkipByCount
    <2> QED
      BY <1>2, <2>1, <2>2, <2>3, Zenon DEF SkipByCount, Awake
  <1>3. ASSUME NEW c \in Calls, NEW ts \in Times, SkipByTime(c, ts) PROVE TypeOK'
    <2>1. opened' \in BOOLEAN /\ steady' \in BOOLEAN /\ latest' \in Nat
      BY <1>3, NoteTypes, Zenon DEF SkipByTime, Awake
    <2>2. last' \in [sent : BOOLEAN, spacing : Nat, ts : Nat]
      BY <1>3, UnreportedType, Zenon DEF SkipByTime
    <2>3. count_intercepts_since_last_report' \in Nat /\ gap' \in Nat
      BY <1>3 DEF SkipByTime, CountAfterPass
    <2>4. /\ start_time_based_sample' \in 0 .. LONG_MAX
          /\ within_time_based_sample' \in BOOLEAN
      BY <1>3, Zenon DEF SkipByTime, CloseWindow, StayClosed
    <2> QED
      BY <1>3, <2>1, <2>2, <2>3, <2>4, Zenon DEF SkipByTime, Awake
  <1>4. ASSUME NEW c \in Calls, NEW ts \in Times, Report(c, ts) PROVE TypeOK'
    <2>1. opened' \in BOOLEAN /\ steady' \in BOOLEAN /\ latest' \in Nat
      BY <1>4, NoteTypes, Zenon DEF Report, Awake
    <2>2. start_time_based_sample' \in 0 .. LONG_MAX
      BY <1>4 DEF Report, NoWindow, FirstWindow, StayOpen, ReopenWindow
    <2>3. within_time_based_sample' \in BOOLEAN
      BY <1>4, Zenon DEF Report, NoWindow, FirstWindow, StayOpen, ReopenWindow
    <2>4. last' \in [sent : BOOLEAN, spacing : Nat, ts : Nat]
      BY <1>4 DEF Report
    <2>5. /\ env' \in Envs /\ paused' \in BOOLEAN /\ gap' \in Nat
          /\ count_intercepts_since_last_report' \in Nat
      BY <1>4 DEF Report, Awake, CountAfterPass
    <2>6. failed_socket_connections' \in Nat
      BY <1>4 DEF Report, Send
    <2> QED
      BY <2>1, <2>2, <2>3, <2>4, <2>5, <2>6
  <1>5. CASE UNCHANGED vars
    BY <1>5 DEF vars, program
  <1> QED
    BY <1>1, <1>2, <1>3, <1>4, <1>5 DEF Next

(* The sampling counter stays in step with the calls passed over. *)
LEMMA CountStep == TypeOK /\ CountInv /\ [Next]_vars => CountInv'
  <1> SUFFICES ASSUME TypeOK, CountInv, [Next]_vars PROVE CountInv'
    OBVIOUS
  <1>0. env' = env
    BY DEF Next, Ignore, StayPaused, SkipByCount, SkipByTime, Report, Awake, vars, program
  <1> USE <1>0, SumsFixed, EnvFields DEF TypeOK, CountInv, count_based_sampling
  <1>1. ASSUME NEW c \in Calls, Ignore(c) \/ StayPaused(c) PROVE CountInv'
    BY <1>1 DEF Ignore, StayPaused, program
  <1>2. ASSUME NEW c \in Calls, SkipByCount(c) PROVE CountInv'
    BY <1>2 DEF SkipByCount, Awake, SkippedByCount
  <1>3. ASSUME NEW c \in Calls, NEW ts \in Times, SkipByTime(c, ts) PROVE CountInv'
    BY <1>3 DEF SkipByTime, Awake, CountAfterPass
  <1>4. ASSUME NEW c \in Calls, NEW ts \in Times, Report(c, ts) PROVE CountInv'
    BY <1>4 DEF Report, Awake, CountAfterPass, SkippedByCount
  <1>5. CASE UNCHANGED vars
    BY <1>5 DEF vars, program
  <1> QED
    BY <1>1, <1>2, <1>3, <1>4, <1>5 DEF Next

(* The window stays where the clock says it is. *)
LEMMA WindowStep == TypeOK /\ WindowInv /\ [Next]_vars => WindowInv'
  <1> SUFFICES ASSUME TypeOK, WindowInv, [Next]_vars PROVE WindowInv'
    OBVIOUS
  <1>0. env' = env
    BY DEF Next, Ignore, StayPaused, SkipByCount, SkipByTime, Report, Awake, vars, program
  <1> USE DEF TypeOK, WindowInv
  <1>1. ASSUME UNCHANGED <<start_time_based_sample, within_time_based_sample>>,
               latest' \in Nat, steady' => steady /\ latest <= latest'
        PROVE  WindowInv'
    BY <1>0, <1>1, SumsFixed, WindowSums
  <1>2. ASSUME NEW c \in Calls, Ignore(c) \/ StayPaused(c) \/ SkipByCount(c)
        PROVE  WindowInv'
    <2>1. UNCHANGED <<start_time_based_sample, within_time_based_sample, latest, steady>>
      BY <1>2 DEF Ignore, StayPaused, SkipByCount, program
    <2> QED
      BY <1>1, <2>1
  <1>3. ASSUME NEW ts \in Times, NoteTime(ts)
        PROVE  /\ latest' \in Nat /\ ts <= latest'
               /\ steady' => steady /\ latest <= latest' /\ latest' = ts
    <2>1. steady' => steady /\ latest <= ts
      BY <1>3, Zenon DEF NoteTime
    <2>2. latest' = IF latest <= ts THEN ts ELSE latest
      BY <1>3, Zenon DEF NoteTime
    <2>3. /\ latest' \in Nat /\ ts <= latest'
          /\ latest <= ts => latest <= latest' /\ latest' = ts
      BY <2>2
    <2> QED
      BY <2>1, <2>3, Zenon
  <1>4. ASSUME NEW c \in Calls, NEW ts \in Times, SkipByTime(c, ts) PROVE WindowInv'
    <2>1. CASE StayClosed(ts)
      BY <1>1, <1>3, <1>4, <2>1 DEF SkipByTime, StayClosed
    <2>2. CASE CloseWindow(ts)
      <3>1. /\ start_time_based_sample' = start_time_based_sample
            /\ start_time_based_sample # 0 /\ ts >= turn_off_time /\ NoteTime(ts)
        BY <1>4, <2>2 DEF SkipByTime, CloseWindow
      <3>2. WindowEnd < ULONG => WindowEnd <= ts
        BY <3>1, WindowSums
      <3>3. WindowEnd' = WindowEnd
        BY <1>0, <3>1, SumsFixed
      <3> QED
        BY <1>3, <3>1, <3>2, <3>3, WindowSums
    <2> QED
      BY <1>4, <2>1, <2>2 DEF SkipByTime
  <1>5. ASSUME NEW c \in Calls, NEW ts \in Times, Report(c, ts) PROVE WindowInv'
    <2>1. CASE NoWindow \/ StayOpen(ts)
      BY <1>1, <1>3, <1>5, <2>1 DEF Report, NoWindow, StayOpen
    <2>2. CASE FirstWindow(ts) \/ ReopenWindow(ts)
      BY <1>3, <1>5, <2>2 DEF Report, FirstWindow, ReopenWindow
    <2> QED
      BY <1>5, <2>1, <2>2 DEF Report
  <1>6. CASE UNCHANGED vars
    BY <1>1, <1>6 DEF vars, program
  <1> QED
    BY <1>2, <1>4, <1>5, <1>6 DEF Next

(* A call that is reported is one the sampling should report. *)
LEMMA SampleStep ==
  IInv /\ [Next]_vars => SampleSpacing' /\ WindowSound'
  <1> SUFFICES ASSUME IInv, [Next]_vars PROVE SampleSpacing' /\ WindowSound'
    OBVIOUS
  <1> USE DEF IInv, TypeOK, SampleSpacing, WindowSound
  <1>1. ASSUME NEW c \in Calls, Ignore(c) \/ StayPaused(c) \/ SkipByCount(c)
        PROVE  ~last'.sent
    BY <1>1 DEF Ignore, StayPaused, SkipByCount, Unreported
  <1>2. ASSUME NEW c \in Calls, NEW ts \in Times, SkipByTime(c, ts)
        PROVE  ~last'.sent
    BY <1>2 DEF SkipByTime, Unreported
  <1>3. ASSUME NEW c \in Calls, NEW ts \in Times, Report(c, ts)
        PROVE  SampleSpacing' /\ WindowSound'
    <2>1. env' = env /\ last'.spacing = gap + 1 /\ last'.ts = ts /\ ts \in 1 .. LONG_MAX
      BY <1>3 DEF Report, Awake
    <2>2. SampleSpacing'
      <3>1. count_based_sampling' = count_based_sampling
        BY <2>1 DEF count_based_sampling
      <3> QED
        BY <1>3, <2>1, <3>1, SumsFixed, EnvFields
        DEF Report, SkippedByCount, CountInv, count_based_sampling
    <2>3. CASE NoWindow
      BY <2>1, <2>2, <2>3, SumsFixed DEF NoWindow
    <2>4. CASE FirstWindow(ts) \/ ReopenWindow(ts)
      <3>1. time_based_sampling => time_based_sample_duration > 0
        BY DEF time_based_sampling
      <3>2. start_time_based_sample' = ts
        BY <2>4 DEF FirstWindow, ReopenWindow
      <3>3. time_based_sampling => ts < WindowEnd'
        BY <2>1, <3>1, <3>2, SumsFixed, WindowSums DEF ULONG
      <3> QED
        BY <2>1, <2>2, <3>2, <3>3, SumsFixed
    <2>5. CASE StayOpen(ts)
      <3>1. steady' => steady /\ latest <= ts
        BY <1>3, Zenon DEF Report, NoteTime
      <3>2. start_time_based_sample' = start_time_based_sample /\ ts < turn_off_time
        BY <2>5 DEF StayOpen
      <3>3. ts < WindowEnd
        BY <2>1, <3>2, WindowSums DEF ULONG
      <3>4. steady' => start_time_based_sample <= ts
        BY <2>1, <2>5, <3>1 DEF StayOpen, WindowInv
      <3>5. WindowEnd >= ULONG => ts < start_time_based_sample
        BY <2>1, <3>2, WindowSums DEF WindowEnd, ULONG
      <3> QED
        BY <2>1, <2>2, <3>2, <3>3, <3>4, <3>5, SumsFixed
    <2> QED
      BY <1>3, <2>2, <2>3, <2>4, <2>5 DEF Report
  <1>4. CASE UNCHANGED vars
    <2>1. env' = env /\ start_time_based_sample' = start_time_based_sample
      BY <1>4 DEF vars, program
    <2> QED
      BY <1>4, <2>1, SumsFixed DEF vars, program, count_based_sampling
  <1> QED
    BY <1>1, <1>2, <1>3, <1>4 DEF Next

(* The pause and the dead-peer gate hold. *)
LEMMA GateStep ==
  IInv /\ [Next]_vars => QuietUntilOpen' /\ OneFailedConnect'
  <1> SUFFICES ASSUME IInv, [Next]_vars
               PROVE QuietUntilOpen' /\ OneFailedConnect'
    OBVIOUS
  <1> USE EnvFields DEF IInv, TypeOK, QuietUntilOpen, OneFailedConnect, NoteOpen,
                        Unreported, Resumes, have_elapsed_threshold, Ignored
  <1>1. ASSUME NEW c \in Calls, Ignore(c) \/ StayPaused(c)
        PROVE  QuietUntilOpen' /\ OneFailedConnect'
    BY <1>1 DEF Ignore, StayPaused, program
  <1>2. ASSUME NEW c \in Calls, SkipByCount(c)
        PROVE  QuietUntilOpen' /\ OneFailedConnect'
    BY <1>2 DEF SkipByCount, Awake
  <1>3. ASSUME NEW c \in Calls, NEW ts \in Times, SkipByTime(c, ts)
        PROVE  QuietUntilOpen' /\ OneFailedConnect'
    BY <1>3 DEF SkipByTime, Awake
  <1>4. ASSUME NEW c \in Calls, NEW ts \in Times, Report(c, ts)
        PROVE  QuietUntilOpen' /\ OneFailedConnect'
    BY <1>4 DEF Report, Send, Awake
  <1>5. CASE UNCHANGED vars
    BY <1>5 DEF vars, program
  <1> QED
    BY <1>1, <1>2, <1>3, <1>4, <1>5 DEF Next

(* The inductive invariant of record(). *)
THEOREM Invariance == Spec => []IInv
  <1>1. IInv /\ [Next]_vars => IInv'
    BY TypeStep, CountStep, WindowStep, SampleStep, GateStep DEF IInv
  <1> QED
    BY InitInv, <1>1, PTL DEF Spec

(* record() keeps every variable in its type. *)
THEOREM TypeCorrect == Spec => []TypeOK
  BY Invariance, PTL DEF IInv

(* Count-based sampling never reports more than one call in                *)
(* count_frequency, and reports exactly one when it works alone.           *)
THEOREM SpacingCorrect == Spec => []SampleSpacing
  BY Invariance, PTL DEF IInv

(* Nothing is reported outside of the time-based sampling window, for      *)
(* every pair of longs as its settings, and a window whose end wraps       *)
(* reports the call that opens it and no other.                            *)
THEOREM WindowCorrect == Spec => []WindowSound
  BY Invariance, PTL DEF IInv

(* START_ON_OPEN keeps the monitor silent until a matching open. *)
THEOREM QuietCorrect == Spec => []QuietUntilOpen
  BY Invariance, PTL DEF IInv

(* At most one connection to a dead TCP peer is paid for. *)
THEOREM FailedConnectCorrect == Spec => []OneFailedConnect
  BY Invariance, PTL DEF IInv

(* Successive sampling windows are at least the frequency and at least the *)
(* duration apart while the clock does not go back, each as far as its sum *)
(* does not wrap.                                                          *)
THEOREM WindowsApartCorrect == Spec => WindowsApart
  <1> DEFINE Apart ==
        steady' /\ start_time_based_sample # 0
          /\ start_time_based_sample' # start_time_based_sample
        => /\ start_time_based_sample' > start_time_based_sample
           /\ NextStart < ULONG => start_time_based_sample' >= NextStart
           /\ WindowEnd < ULONG => start_time_based_sample' >= WindowEnd
  <1>1. IInv /\ [Next]_vars => [Apart]_vars
    <2> SUFFICES ASSUME IInv, [Next]_vars PROVE [Apart]_vars
      OBVIOUS
    <2> USE DEF IInv, TypeOK
    <2>1. ASSUME NEW c \in Calls, NEW ts \in Times, Report(c, ts) PROVE Apart
      <3>1. steady' => steady /\ latest <= ts
        BY <2>1, Zenon DEF Report, NoteTime
      <3>2. CASE ReopenWindow(ts)
        <4>1. /\ start_time_based_sample' = ts /\ ts >= turn_on_time
              /\ start_time_based_sample # 0 /\ ~within_time_based_sample
          BY <3>2, Zenon DEF ReopenWindow
        <4>2. steady' => /\ start_time_based_sample <= latest /\ latest <= ts
                         /\ WindowEnd < ULONG => WindowEnd <= latest
          BY <3>1, <4>1, Zenon DEF WindowInv
        <4>3. /\ start_time_based_sample \in Nat /\ latest \in Nat /\ ts \in Nat
              /\ WindowEnd \in Nat /\ NextStart \in Nat
          BY WindowSums, TimesAssumption
        <4>4. NextStart < ULONG => ts >= NextStart
          BY <4>1, <4>3, WindowSums
        <4>5. ASSUME steady', start_time_based_sample' # start_time_based_sample
              PROVE  /\ start_time_based_sample' > start_time_based_sample
                     /\ WindowEnd < ULONG => start_time_based_sample' >= WindowEnd
          <5>1. start_time_based_sample <= latest /\ latest <= ts
            BY <4>2, <4>5, Zenon
          <5>2. WindowEnd < ULONG => WindowEnd <= latest
            BY <4>2, <4>5, Zenon
          <5>3. ts # start_time_based_sample
            BY <4>1, <4>5
          <5>4. ts > start_time_based_sample /\ (WindowEnd < ULONG => ts >= WindowEnd)
            <6> HIDE DEF IInv, TypeOK
            <6> QED
              BY <4>3, <5>1, <5>2, <5>3
          <5> QED
            BY <4>1, <5>4, Zenon
        <4> QED
          BY <4>1, <4>4, <4>5, Zenon
      <3> QED
        BY <2>1, <3>2 DEF Report, NoWindow, FirstWindow, StayOpen
    <2>2. ASSUME NEW c \in Calls, NEW ts \in Times, SkipByTime(c, ts) PROVE Apart
      BY <2>2 DEF SkipByTime, CloseWindow, StayClosed
    <2>3. ASSUME NEW c \in Calls, Ignore(c) \/ StayPaused(c) \/ SkipByCount(c)
          PROVE  Apart
      BY <2>3 DEF Ignore, StayPaused, SkipByCount, program
    <2> QED
      BY <2>1, <2>2, <2>3 DEF Next
  <1>2. Spec => [][Next]_vars
    BY DEF Spec
  <1> QED
    BY Invariance, <1>1, <1>2, PTL DEF WindowsApart

-----------------------------------------------------------------------------
(* Where a matching open does end the pause. *)

(* Every matching open passes the gates before the pause: its domain is    *)
(* monitored, its path is not "." or ".." and it does not get one of the   *)
(* standard descriptors.                                                   *)
OpensPass ==
  \A c \in Calls : c.op = "OPEN" /\ c.match =>
    /\ c.dom \in env.domains
    /\ ~c.dot
    /\ c.std_fd => c.dom = "START_STOP"

(* The gate for the dead peer cannot come in the way of the first open: no *)
(* connection is tried during the pause.                                   *)
PauseInv ==
  /\ paused => failed_socket_connections = 0
  /\ OpensPass => ResumesOnOpen

LEMMA PauseStep == IInv /\ PauseInv /\ [Next]_vars => PauseInv'
  <1> SUFFICES ASSUME IInv, PauseInv, [Next]_vars PROVE PauseInv'
    OBVIOUS
  <1>0. env' = env
    BY DEF Next, Ignore, StayPaused, SkipByCount, SkipByTime, Report, Awake, vars, program
  <1>1. ASSUME NEW c \in Calls, Ignore(c) \/ StayPaused(c) PROVE PauseInv'
    <2>1. UNCHANGED <<paused, failed_socket_connections>> /\ NoteOpen(c)
      BY <1>1 DEF Ignore, StayPaused, program
    <2>2. ASSUME OpensPass, env.start_on_open, c.op = "OPEN", c.match, paused PROVE FALSE
      <3>1. failed_socket_connections = 0
        BY <2>2 DEF PauseInv
      <3>2. ~Ignored(c)
        BY <2>2, <3>1 DEF Ignored, OpensPass
      <3>3. Resumes(c)
        BY <2>2 DEF Resumes
      <3> QED
        BY <1>1, <3>2, <3>3 DEF Ignore, StayPaused
    <2> QED
      BY <1>0, <2>1, <2>2 DEF PauseInv, ResumesOnOpen, NoteOpen, OpensPass
  <1>2. ASSUME ~paused' PROVE PauseInv'
    BY <1>2 DEF PauseInv, ResumesOnOpen
  <1>3. CASE UNCHANGED vars
    BY <1>0, <1>3 DEF vars, program, PauseInv, ResumesOnOpen, OpensPass
  <1> QED
    BY <1>1, <1>2, <1>3 DEF Next, SkipByCount, SkipByTime, Report, Awake

(* README.md's description of START_ON_OPEN holds for every process whose  *)
(* matching opens pass the gates before the pause: the first of them ends  *)
(* the pause for good, over TCP as well, where a failed connection stops   *)
(* all reports but cannot come before that open.                           *)
THEOREM ResumesWhenOpensPass == Spec => [](OpensPass => ResumesOnOpen)
  <1>1. Init => PauseInv
    BY DEF Init, PauseInv, ResumesOnOpen
  <1>2. PauseInv => (OpensPass => ResumesOnOpen)
    BY DEF PauseInv
  <1> QED
    BY <1>1, <1>2, PauseStep, Invariance, PTL DEF Spec
=============================================================================
