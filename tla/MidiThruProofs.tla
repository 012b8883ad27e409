--------------------------- MODULE MidiThruProofs ---------------------------
(***************************************************************************)
(* PortTime for any number of sources: what Pt_Stop leaves behind, and     *)
(* what the statics of the five implementations name.  Then midithru for   *)
(* any length of the queues, of the delays and of the input: the callback  *)
(* uses no stream and no queue that is gone, neither source cuts into the  *)
(* beginning of a sysex message of the other, and the timer is used as     *)
(* PtTime allows, so that what is proved of PtTime holds in midithru.      *)
(***************************************************************************)
EXTENDS MidiThru, SequenceTheorems, TLAPS

(***************************************************************************)
(* The inductive invariant.  Where Pt_Stop joins the thread, a thread that *)
(* has not ended is the one that pt_thread_pid names, and the timer is     *)
(* marked as started as long as it lives.  The other way round, a handle   *)
(* that Pt_Stop is going to use names a thread whose id is still the       *)
(* current one, which it therefore does not leave by itself; only Pt_Stop  *)
(* makes it out of date, and waits at once for the thread.                 *)
(***************************************************************************)
Joins == platform \in {"linux", "mach"}

OnlyHandleLives ==
  (Joins /\ wrong = "no") => \A k \in Source : Live(k) => k = handle /\ started

Current(k) == Live(k) /\ id[k] = procId

HandleIsThere ==
  wrong = "no" =>
    /\ (platform = "linux" /\ pc = "idle" /\ handle # 0) => Current(handle)
    /\ (platform = "mach" /\ plain /\ pc = "idle" /\ started) => Current(handle)
    /\ (platform = "haiku" /\ plain /\ started) => handle # 0

TimerInv == TimerTypeOK /\ OnlyHandleLives /\ HandleIsThere /\ NothingIsMissing

-----------------------------------------------------------------------------
\* The invariant holds before the first Pt_Start.
LEMMA TimerStarts == TimerInit => TimerInv
<1> SUFFICES ASSUME TimerInit PROVE TimerInv
  OBVIOUS
<1> USE DEF TimerInit
<1>1. TimerTypeOK
  <2>1. NumberTypes /\ SourceTypes
    BY PtTimeAssumption DEF NumberTypes, SourceTypes, MaxId
  <2>3. FlagTypes
    BY DEF FlagTypes
  <2>2. CreatedInOrder
    BY DEF CreatedInOrder, Source
  <2> QED
    BY <2>1, <2>2, <2>3 DEF TimerTypeOK
<1>2. OnlyHandleLives /\ HandleIsThere /\ NothingIsMissing
  BY DEF OnlyHandleLives, HandleIsThere, NothingIsMissing, Live
<1> QED
  BY <1>1, <1>2 DEF TimerInv

\* Pt_Start: a source is created only where none of the application is left.
LEMMA StartKeeps == TimerInv /\ (\E cb \in BOOLEAN : Pt_Start(cb)) => TimerInv'
<1> SUFFICES ASSUME TimerInv, NEW cb \in BOOLEAN, Pt_Start(cb) PROVE TimerInv'
  OBVIOUS
<1> USE PtTimeAssumption DEF TimerInv, Pt_Start, LinuxStart, MachStart, CfStart, WinStart,
        HaikuStart, StartOne, Create, NoSource, On
<1>1. TimerTypeOK'
  <2>1. NumberTypes'
    BY DEF TimerTypeOK, NumberTypes, SourceTypes, MaxId, Source
  <2>4. FlagTypes'
    BY DEF TimerTypeOK, FlagTypes
  <2>2. SourceTypes'
    BY DEF TimerTypeOK, NumberTypes, SourceTypes, MaxId, Source
  <2>3. CreatedInOrder'
    <3>1. \/ sources' = sources /\ state' = state
          \/ sources' = sources + 1 /\ state' = [state EXCEPT ![sources + 1] = "begin"]
      OBVIOUS
    <3> QED
      BY <3>1 DEF TimerTypeOK, NumberTypes, SourceTypes, CreatedInOrder, Source
  <2> QED
    BY <2>1, <2>2, <2>3, <2>4 DEF TimerTypeOK
<1>2. OnlyHandleLives'
  BY DEF TimerTypeOK, NumberTypes, SourceTypes, CreatedInOrder, Source, OnlyHandleLives, Live, Joins
<1>3. HandleIsThere'
  BY DEF TimerTypeOK, NumberTypes, FlagTypes, SourceTypes, CreatedInOrder, Source, HandleIsThere,
     Current, Live
<1>4. NothingIsMissing'
  BY DEF TimerTypeOK, NumberTypes, SourceTypes, Source, NothingIsMissing
<1> QED
  BY <1>1, <1>2, <1>3, <1>4

\* The numbers of the application keep their types when Pt_Stop changes them.
LEMMA NumbersStay ==
  ASSUME NumberTypes, procId < MaxId,
         procId' \in {procId, procId + 1}, handle' \in {handle, 0}, sources' = sources
  PROVE  NumberTypes'
BY PtTimeAssumption DEF NumberTypes, MaxId

\* Pt_Stop: the thread that it is going to join is there.
LEMMA StopKeeps == TimerInv /\ procId < MaxId /\ Pt_Stop => TimerInv'
<1> SUFFICES ASSUME TimerInv, procId < MaxId, Pt_Stop PROVE TimerInv'
  OBVIOUS
<1> USE PtTimeAssumption DEF TimerInv, Pt_Stop, LinuxStop, MachStop, CfStop, WinStop, HaikuStop,
        JoinThread, Undefined, Quiet, Harmless, Incremented, Forgotten, On
<1>1. TimerTypeOK'
  <2>1. NumberTypes'
    <3>1. procId' \in {procId, procId + 1} /\ handle' \in {handle, 0} /\ sources' = sources
      BY Zenon
    <3> QED
      BY <3>1, NumbersStay DEF TimerTypeOK
  <2>4. FlagTypes'
    BY DEF TimerTypeOK, FlagTypes, Live
  <2>2. SourceTypes'
    BY DEF TimerTypeOK, NumberTypes, SourceTypes, MaxId, Live, Source
  <2>3. CreatedInOrder'
    BY DEF TimerTypeOK, NumberTypes, FlagTypes, SourceTypes, CreatedInOrder, Live, Source
  <2> QED
    BY <2>1, <2>2, <2>3, <2>4 DEF TimerTypeOK
<1>2. OnlyHandleLives'
  <2> SUFFICES ASSUME Joins, wrong' = "no", NEW k \in Source, Live(k) PROVE (k = handle /\ started)'
    <3>1. platform' = platform /\ (Joins => state' = state)
      BY DEF Joins
    <3> QED
      BY <3>1 DEF OnlyHandleLives, Joins, Live
  <2>1. k = handle /\ started
    BY DEF OnlyHandleLives, On, Joins
  <2>2. handle # 0
    BY <2>1 DEF Source
  <2> QED
    BY <2>1, <2>2 DEF Joins
<1>3. HandleIsThere'
  BY DEF TimerTypeOK, NumberTypes, SourceTypes, Source, HandleIsThere, Current, Live
<1>4. NothingIsMissing'
  BY DEF TimerTypeOK, NumberTypes, SourceTypes, Source, NothingIsMissing, HandleIsThere, Current,
     Live
<1> QED
  BY <1>1, <1>2, <1>3, <1>4

\* The join of Pt_Stop.
LEMMA JoinedKeeps == TimerInv /\ Joined => TimerInv'
<1> SUFFICES ASSUME TimerInv, Joined PROVE TimerInv'
  OBVIOUS
<1> USE PtTimeAssumption DEF TimerInv, Joined, JoinedSource, Forgotten
<1>1. TimerTypeOK'
  <2>1. NumberTypes'
    BY DEF TimerTypeOK, NumberTypes, SourceTypes, MaxId, Source
  <2>4. FlagTypes'
    BY DEF TimerTypeOK, FlagTypes
  <2>2. SourceTypes'
    BY DEF TimerTypeOK, NumberTypes, SourceTypes, MaxId, Source
  <2>3. CreatedInOrder'
    BY DEF TimerTypeOK, NumberTypes, FlagTypes, SourceTypes, CreatedInOrder, Source
  <2> QED
    BY <2>1, <2>2, <2>3, <2>4 DEF TimerTypeOK
<1>2. OnlyHandleLives'
  BY DEF TimerTypeOK, NumberTypes, SourceTypes, Source, OnlyHandleLives, Live, Joins
<1>3. HandleIsThere'
  BY DEF TimerTypeOK, NumberTypes, SourceTypes, Source, HandleIsThere, Current, Live
<1>4. NothingIsMissing'
  BY DEF TimerTypeOK, NumberTypes, SourceTypes, Source, NothingIsMissing
<1> QED
  BY <1>1, <1>2, <1>3, <1>4

\* A step of a thread, of the timer of the system, or of the callback.
LEMMA StepKeeps == TimerInv /\ (\E k \in Source : Step(k)) => TimerInv'
<1> SUFFICES ASSUME TimerInv, NEW k \in Source, Step(k) PROVE TimerInv'
  OBVIOUS
<1> USE PtTimeAssumption DEF TimerInv, Step, Tick, Return, LinuxThread, MachThread, CfThread,
        WinTick, HaikuTick, Loop, Goes, Others, AfterCall, On, app
<1>1. TimerTypeOK'
  <2>1. NumberTypes'
    <3>1. procId' = procId /\ sources' = sources
      OBVIOUS
    <3>2. handle' = handle \/ (handle' = k /\ state[k] = "begin")
      OBVIOUS
    <3>3. state[k] = "begin" => k <= sources
      BY DEF TimerTypeOK, CreatedInOrder, NumberTypes, Source
    <3> HIDE DEF Step
    <3> QED
      BY <3>1, <3>2, <3>3 DEF TimerTypeOK, NumberTypes, MaxId, Source
  <2>4. FlagTypes'
    BY DEF TimerTypeOK, FlagTypes
  <2>2. SourceTypes'
    BY DEF TimerTypeOK, NumberTypes, SourceTypes, MaxId, Source
  <2>3. CreatedInOrder'
    BY DEF TimerTypeOK, NumberTypes, FlagTypes, SourceTypes, CreatedInOrder, Source
  <2> QED
    BY <2>1, <2>2, <2>3, <2>4 DEF TimerTypeOK
<1>2. OnlyHandleLives'
  BY DEF TimerTypeOK, NumberTypes, SourceTypes, CreatedInOrder, Source, OnlyHandleLives, Live, Joins
<1>3. HandleIsThere'
  BY DEF TimerTypeOK, NumberTypes, SourceTypes, Source, HandleIsThere, Current, Live
<1>4. NothingIsMissing'
  BY DEF TimerTypeOK, NumberTypes, SourceTypes, Source, NothingIsMissing
<1> QED
  BY <1>1, <1>2, <1>3, <1>4

\* Every step of PortTime.
LEMMA TimerKeeps == TimerInv /\ [TimerNext]_timer => TimerInv'
<1>1. TimerInv /\ UNCHANGED timer => TimerInv'
  <2> SUFFICES ASSUME TimerInv, UNCHANGED timer PROVE TimerInv'
    OBVIOUS
  <2>1. TimerTypeOK'
    BY DEF TimerInv, timer, app, TimerTypeOK, NumberTypes, FlagTypes, SourceTypes, CreatedInOrder
  <2>2. (OnlyHandleLives /\ HandleIsThere /\ NothingIsMissing)'
    BY DEF TimerInv, timer, app, OnlyHandleLives, HandleIsThere, NothingIsMissing, Current, Live,
       Joins
  <2> QED
    BY <2>1, <2>2 DEF TimerInv
<1> QED
  BY <1>1, StartKeeps, StopKeeps, JoinedKeeps, StepKeeps DEF TimerNext

\* The invariant of PortTime on its own.
LEMMA TimerInductive == TimerSpec => []TimerInv
BY TimerStarts, TimerKeeps, PTL DEF TimerSpec

-----------------------------------------------------------------------------
\* Every variable of PortTime keeps its type, for any number of sources.
THEOREM TimerTypeCorrect == TimerSpec => []TimerTypeOK
<1>1. TimerInv => TimerTypeOK
  BY DEF TimerInv
<1> QED
  BY <1>1, TimerInductive, PTL

\* Once Pt_Stop has returned on Linux or macOS no thread of the timer is left that could call
\* the callback (ptlinux.c:109-118, ptmacosx_mach.c:178-184), however often the timer has been
\* started and stopped before.
THEOREM StopIsQuiet == TimerSpec => []StoppedIsQuiet
<1>1. TimerInv => StoppedIsQuiet
  BY DEF TimerInv, OnlyHandleLives, StoppedIsQuiet, Joins
<1> QED
  BY <1>1, TimerInductive, PTL

\* On Linux no order of calls makes Pt_Stop join a thread that is not there, nor on macOS and
\* Haiku one stop for each start that succeeded (ptlinux.c:110-113, ptmacosx_mach.c:181).
THEOREM NothingMissing == TimerSpec => []NothingIsMissing
<1>1. TimerInv => NothingIsMissing
  BY DEF TimerInv
<1> QED
  BY <1>1, TimerInductive, PTL

-----------------------------------------------------------------------------
Echoes == [kind : Kind, left : 0..Delay]

Buffers == {"in_queue", "out_queue", "midi_in"}

Types ==
  /\ tpc \in {"enter", "input", "echo", "return"}
  /\ mpc \in {"start", "open", "run", "clear", "wait", "stopped", "close", "closed", "end"}
  /\ midi_in \in Seq(Messages) /\ in_queue \in Seq(Messages) /\ held \in Seq(Messages)
  /\ out_queue \in Seq(Echoes)
  /\ Len(in_queue) <= QueueSize /\ Len(out_queue) <= QueueSize
  /\ Len(midi_in) <= InputSize /\ Len(held) <= 1
  /\ full \subseteq Buffers /\ open \subseteq {"queues", "midi_in", "midi_out"}
  /\ quiet \in 0..Timeout + 1 /\ silence \in 0..Timeout /\ sysex \in 0..MaxEvents
  /\ owner \in {"none", "thru", "main"}
  /\ active \in BOOLEAN /\ process_midi_exit_flag \in BOOLEAN
  /\ thru_sysex_in_progress \in BOOLEAN /\ app_sysex_in_progress \in BOOLEAN
  /\ cut \in BOOLEAN

\* What main does at the end, and the callback: the flag that main waits for is put down while
\* the callback cannot raise it, and once it is up the callback does nothing more.
Ending ==
  /\ mpc \in {"run", "clear", "wait", "stopped"} => open = {"queues", "midi_in", "midi_out"}
  /\ active <=> mpc \in {"run", "clear"}
  /\ mpc = "clear" => ~process_midi_exit_flag
  /\ tpc \in {"input", "echo"} =>
       mpc \in {"run", "clear"} \/ (mpc = "wait" /\ ~process_midi_exit_flag)

\* A source whose sysex message has begun has its flag up, and the flags are never up together:
\* while that of the main thread is, the callback reads no input.  That nothing has been cut is
\* part of it because Pm_Write looks no further than the owner.
Owners ==
  /\ owner = "thru" => thru_sysex_in_progress
  /\ owner = "main" => app_sysex_in_progress
  /\ app_sysex_in_progress => ~thru_sysex_in_progress /\ tpc # "input"
  /\ ~cut

IInv == Types /\ Ending

-----------------------------------------------------------------------------
(* Sequences of messages.                                                  *)

\* Taking a message off the front, and adding one at the end.
LEMMA TailFacts ==
  ASSUME NEW S, NEW s \in Seq(S), s # <<>>
  PROVE  /\ Len(s) \in Nat \ {0} /\ Tail(s) \in Seq(S) /\ Head(s) = s[1] /\ Head(s) \in S
         /\ Len(Tail(s)) = Len(s) - 1
         /\ \A i \in 1..Len(Tail(s)) : Tail(s)[i] = s[i + 1]
BY EmptySeq, HeadTailProperties, ElementOfSeq

\* A queue never holds more than it was made for.
LEMMA EnqueueFacts ==
  ASSUME NEW S, NEW name, NEW queue \in Seq(S), NEW message \in S, Len(queue) <= Capacity(name)
  PROVE  /\ Pm_Enqueue(name, queue, message) \in Seq(S)
         /\ Len(Pm_Enqueue(name, queue, message)) <= Capacity(name)
<1>1. CASE Refused(name, queue)
  BY <1>1 DEF Pm_Enqueue
<1>2. CASE ~Refused(name, queue)
  <2>1. Pm_Enqueue(name, queue, message) = Append(queue, message)
    BY <1>2 DEF Pm_Enqueue
  <2>0. Capacity(name) \in Nat
    BY MidiThruAssumption DEF Capacity
  <2>2. Len(queue) < Capacity(name)
    BY <1>2, <2>0, LenProperties DEF Refused, IsFull
  <2>3. /\ Append(queue, message) \in Seq(S)
        /\ Len(Append(queue, message)) = Len(queue) + 1 /\ Len(queue) \in Nat
    BY AppendProperties, LenProperties
  <2>4. Len(queue) + 1 <= Capacity(name)
    BY <2>0, <2>2, <2>3
  <2> QED
    BY <2>1, <2>3, <2>4
<1> QED
  BY <1>1, <1>2

\* A function on 1..n is a sequence of its values.
LEMMA SeqOfFunction ==
  ASSUME NEW S, NEW n \in Nat, NEW f \in [1..n -> S]
  PROVE  f \in Seq(S) /\ Len(f) = n
<1>1. f \in Seq(S)
  BY SeqDef
<1>2. DOMAIN f = 1..n /\ DOMAIN f = 1..Len(f) /\ Len(f) \in Nat
  BY <1>1, LenProperties
<1> QED
  BY <1>1, <1>2

\* A tick makes messages older and echoes due, and changes nothing else of them.
LEMMA TickFacts ==
  /\ \A s \in Seq(Messages) : /\ Older(s) \in Seq(Messages) /\ Len(Older(s)) = Len(s)
                              /\ \A i \in 1..Len(s) : Older(s)[i].kind = s[i].kind
  /\ \A s \in Seq(Echoes) : /\ Sooner(s) \in Seq(Echoes) /\ Len(Sooner(s)) = Len(s)
                            /\ \A i \in 1..Len(s) : Sooner(s)[i].kind = s[i].kind
<1>1. ASSUME NEW s \in Seq(Messages)
      PROVE  /\ Older(s) \in Seq(Messages) /\ Len(Older(s)) = Len(s)
             /\ \A i \in 1..Len(s) : Older(s)[i].kind = s[i].kind
  <2> DEFINE Aged(m) == [m EXCEPT !.age = Min2(@ + 1, Delay)]
  <2>1. \A m \in Messages : Aged(m) \in Messages /\ Aged(m).kind = m.kind
    BY MidiThruAssumption DEF Messages, Min2
  <2>2. \A i \in 1..Len(s) : s[i] \in Messages
    BY ElementOfSeq
  <2>3. Older(s) = [i \in 1..Len(s) |-> Aged(s[i])]
    BY LenProperties DEF Older
  <2> HIDE DEF Aged
  <2>4. Older(s) \in [1..Len(s) -> Messages] /\ \A i \in 1..Len(s) : Older(s)[i] = Aged(s[i])
    BY <2>1, <2>2, <2>3
  <2>5. Len(s) \in Nat
    BY LenProperties
  <2>6. Older(s) \in Seq(Messages) /\ Len(Older(s)) = Len(s)
    BY <2>4, <2>5, SeqOfFunction
  <2> QED
    BY <2>1, <2>2, <2>4, <2>6
<1>2. ASSUME NEW s \in Seq(Echoes)
      PROVE  /\ Sooner(s) \in Seq(Echoes) /\ Len(Sooner(s)) = Len(s)
             /\ \A i \in 1..Len(s) : Sooner(s)[i].kind = s[i].kind
  <2> DEFINE Due(m) == [m EXCEPT !.left = IF @ = 0 THEN 0 ELSE @ - 1]
  <2>1. ASSUME NEW m \in Echoes PROVE Due(m) \in Echoes /\ Due(m).kind = m.kind
    <3>1. (IF m.left = 0 THEN 0 ELSE m.left - 1) \in 0..Delay
      BY MidiThruAssumption DEF Echoes
    <3> QED
      BY <3>1 DEF Echoes
  <2>2. \A i \in 1..Len(s) : s[i] \in Echoes
    BY ElementOfSeq
  <2>3. Sooner(s) = [i \in 1..Len(s) |-> Due(s[i])]
    BY LenProperties DEF Sooner
  <2> HIDE DEF Due
  <2>4. Sooner(s) \in [1..Len(s) -> Echoes] /\ \A i \in 1..Len(s) : Sooner(s)[i] = Due(s[i])
    BY <2>1, <2>2, <2>3
  <2>5. Len(s) \in Nat
    BY LenProperties
  <2>6. Sooner(s) \in Seq(Echoes) /\ Len(Sooner(s)) = Len(s)
    BY <2>4, <2>5, SeqOfFunction
  <2> QED
    BY <2>1, <2>2, <2>4, <2>6
<1> QED
  BY <1>1, <1>2

-----------------------------------------------------------------------------
\* The first state.
LEMMA InitIInv == Init => IInv
<1> SUFFICES ASSUME Init PROVE IInv
  OBVIOUS
<1>1. Types
  <2>1. << >> \in Seq(Messages) /\ << >> \in Seq(Echoes) /\ Len(<< >>) = 0
    BY EmptySeq
  <2>2. /\ midi_in \in Seq(Messages) /\ in_queue \in Seq(Messages) /\ held \in Seq(Messages)
        /\ out_queue \in Seq(Echoes)
        /\ Len(in_queue) = 0 /\ Len(out_queue) = 0 /\ Len(held) = 0 /\ Len(midi_in) = 0
    BY <2>1 DEF Init
  <2>3. quiet \in 0..Timeout + 1 /\ silence \in 0..Timeout /\ sysex \in 0..MaxEvents
    BY MidiThruAssumption DEF Init
  <2>4. /\ Len(in_queue) <= QueueSize /\ Len(out_queue) <= QueueSize
        /\ Len(midi_in) <= InputSize /\ Len(held) <= 1
    BY <2>2, MidiThruAssumption
  <2>5. full \subseteq Buffers /\ open \subseteq {"queues", "midi_in", "midi_out"}
    BY DEF Init
  <2> QED
    BY <2>2, <2>3, <2>4, <2>5 DEF Init, Types
<1>2. Ending
  BY DEF Init, Ending
<1> QED
  BY <1>1, <1>2 DEF IInv

\* A tick.
LEMMA EnterKeeps == IInv /\ Enter => IInv'
<1> SUFFICES ASSUME IInv, Enter PROVE IInv'
  OBVIOUS
<1> USE DEF IInv
<1>1. Types'
  <2>1. /\ midi_in' \in Seq(Messages) /\ in_queue' \in Seq(Messages)
        /\ held' \in Seq(Messages) /\ out_queue' \in Seq(Echoes)
        /\ Len(in_queue') = Len(in_queue) /\ Len(out_queue') = Len(out_queue)
        /\ Len(held') = Len(held) /\ Len(midi_in') = Len(midi_in)
    BY TickFacts DEF Enter, Types
  <2>2. quiet' \in 0..Timeout + 1 /\ silence' \in 0..Timeout
    BY MidiThruAssumption DEF Enter, Types, Min2
  <2>3. tpc' \in {"enter", "input", "echo", "return"} /\ process_midi_exit_flag' \in BOOLEAN
    BY DEF Enter, Types
  <2> QED
    BY <2>1, <2>2, <2>3 DEF Enter, Types
<1>2. Ending'
  BY DEF Enter, Ending, Types
<1> QED
  BY <1>1, <1>2

\* A message of the input.
LEMMA InputKeeps == IInv /\ Input => IInv'
<1> SUFFICES ASSUME IInv, Input PROVE IInv'
  OBVIOUS
<1> USE DEF IInv
<1>1. Types'
  <2>1. CASE midi_in = <<>>
    <3>1. UNCHANGED <<mpc, held, flags, midi, open, sender>> /\ tpc' = "echo"
      BY <2>1 DEF Input
    <3> QED
      BY <3>1 DEF Types, midi, flags, sender
  <2>2. CASE midi_in # <<>>
    <3> DEFINE message == Head(midi_in)
    <3>1. /\ message \in Messages /\ midi_in' \in Seq(Messages) /\ midi_in' = Tail(midi_in)
          /\ Len(midi_in') <= InputSize
      <4>1. midi_in' = Tail(midi_in)
        BY <2>2 DEF Input
      <4>2. midi_in \in Seq(Messages) /\ Len(midi_in) <= InputSize
        BY DEF Types
      <4>3. /\ Head(midi_in) \in Messages /\ Tail(midi_in) \in Seq(Messages)
            /\ Len(Tail(midi_in)) = Len(midi_in) - 1 /\ Len(midi_in) \in Nat
        BY <2>2, <4>2, TailFacts
      <4> QED
        BY <4>1, <4>2, <4>3, MidiThruAssumption
    <3>2. /\ in_queue' \in Seq(Messages) /\ Len(in_queue') <= QueueSize
          /\ full' \subseteq Buffers
      <4>1. CASE IsData(message.kind) /\ ~thru_sysex_in_progress
        BY <2>2, <4>1 DEF Input, Types
      <4>2. CASE ~(IsData(message.kind) /\ ~thru_sysex_in_progress)
        <5>1. /\ in_queue' = Pm_Enqueue("in_queue", in_queue, message)
              /\ full' = Overflowed("in_queue", in_queue)
          BY <2>2, <4>2 DEF Input
        <5>2. in_queue \in Seq(Messages) /\ Len(in_queue) <= QueueSize
          BY DEF Types
        <5>3. in_queue' \in Seq(Messages) /\ Len(in_queue') <= QueueSize
          BY <3>1, <5>1, <5>2, EnqueueFacts DEF Capacity
        <5>4. full' \subseteq Buffers
          BY <5>1 DEF Overflowed, Buffers, Types
        <5> QED
          BY <5>3, <5>4
      <4> QED
        BY <4>1, <4>2
    <3>3. owner' \in {"none", "thru", "main"} /\ cut' \in BOOLEAN
      BY <2>2, <3>1 DEF Input, Types, Pm_Write
    <3>4. thru_sysex_in_progress' \in BOOLEAN
      BY <2>2, <3>1 DEF Input, Types, SysexAfter
    <3>5. /\ tpc' = tpc /\ quiet' = 0 /\ out_queue' = out_queue
          /\ app_sysex_in_progress' = app_sysex_in_progress
          /\ UNCHANGED <<mpc, held, flags, open, sender>>
      BY <2>2 DEF Input
    <3> QED
      BY <3>1, <3>2, <3>3, <3>4, <3>5, MidiThruAssumption DEF Types, flags, sender
  <2> QED
    BY <2>1, <2>2
<1>2. Ending'
  BY DEF Input, At, Ending, flags, midi
<1> QED
  BY <1>1, <1>2

\* A message of the main thread.
LEMMA EchoKeeps == IInv /\ Echo => IInv'
<1> SUFFICES ASSUME IInv, Echo PROVE IInv'
  OBVIOUS
<1> USE DEF IInv
<1>1. Types'
  <2>1. CASE UNCHANGED midi /\ tpc' = "return"
    BY <2>1 DEF Echo, Types, midi, flags, sender
  <2>2. CASE ~(UNCHANGED midi /\ tpc' = "return")
    <3>1. /\ out_queue # <<>> /\ out_queue' = Tail(out_queue)
          /\ \E before \in {"none", owner} : Pm_Write("main", out_queue[1].kind, before)
          /\ thru_sysex_in_progress'
                = (thru_sysex_in_progress /\ out_queue[1].kind = "realtime")
          /\ app_sysex_in_progress' = SysexAfter(app_sysex_in_progress, out_queue[1].kind)
          /\ UNCHANGED <<tpc, quiet, midi_in, in_queue, full, mpc, held, flags, open, sender>>
      BY <2>2 DEF Echo
    <3>2. out_queue' \in Seq(Echoes) /\ Len(out_queue') <= QueueSize
      BY <3>1, TailFacts, MidiThruAssumption DEF Types
    <3>3. owner' \in {"none", "thru", "main"} /\ cut' \in BOOLEAN
      BY <3>1 DEF Types, Pm_Write
    <3>4. app_sysex_in_progress' \in BOOLEAN
      BY <3>1 DEF Types, SysexAfter
    <3> QED
      BY <3>1, <3>2, <3>3, <3>4 DEF Types, flags, sender
  <2> QED
    BY <2>1, <2>2
<1>2. Ending'
  BY DEF Echo, Ending, flags, midi
<1> QED
  BY <1>1, <1>2

\* A message is sent to the program.
LEMMA SendKeeps == IInv /\ Send => IInv'
<1> SUFFICES ASSUME IInv, Send PROVE IInv'
  OBVIOUS
<1> USE DEF IInv
<1>1. PICK kind \in Kinds :
         /\ midi_in' = Pm_Enqueue("midi_in", midi_in, [kind |-> kind, age |-> 0])
         /\ full' = Overflowed("midi_in", midi_in)
         /\ sysex' = CASE kind = "realtime" -> sysex
                       [] kind = "more" -> sysex + 1
                       [] kind = "first" -> 1
                       [] OTHER -> 0
  BY DEF Send
<1>2. [kind |-> kind, age |-> 0] \in Messages
  BY MidiThruAssumption DEF Kinds, Kind, Messages
<1>3. midi_in' \in Seq(Messages) /\ Len(midi_in') <= InputSize
  BY <1>1, <1>2, EnqueueFacts DEF Capacity, Types
<1>4. sysex' \in 0..MaxEvents
  <2>1. sysex \in 0..MaxEvents
    BY DEF Types
  <2>2. kind = "more" => sysex + 1 \in 0..MaxEvents
    BY <2>1, MidiThruAssumption DEF Kinds
  <2>3. sysex' \in {sysex, 0, 1} \/ (kind = "more" /\ sysex' = sysex + 1)
    BY <1>1
  <2> QED
    BY <2>1, <2>2, <2>3, MidiThruAssumption
<1>5. silence' \in 0..Timeout /\ full' \subseteq Buffers
  BY <1>1, MidiThruAssumption DEF Send, Types, Overflowed, Buffers
<1>6. Types'
  BY <1>3, <1>4, <1>5 DEF Send, Types, flags
<1>7. Ending'
  BY DEF Send, Ending, flags
<1> QED
  BY <1>6, <1>7

\* The main thread, and the timer's.
LEMMA MainKeeps == IInv /\ (Main \/ Leave \/ TimerTick) => IInv'
<1> SUFFICES ASSUME IInv, Main \/ Leave \/ TimerTick PROVE IInv'
  OBVIOUS
<1> USE DEF IInv
<1>1. CASE Leave \/ TimerTick \/ Join
  <2>1. UNCHANGED <<mpc, held, flags, midi, open, sender>> /\ tpc' \in {tpc, "enter"}
    BY <1>1 DEF Leave, TimerTick, Join
  <2>2. Types'
    BY <2>1 DEF Types, flags, midi, sender
  <2>3. Ending'
    BY <2>1 DEF Ending, flags
  <2> QED
    BY <2>2, <2>3
<1>2. CASE StartTimer \/ OpenStreams
  <2>1. /\ UNCHANGED <<tpc, held, process_midi_exit_flag, midi, sender>>
        /\ \/ mpc = "start" /\ mpc' = "open" /\ active' = active /\ open' = {"queues"}
           \/ /\ mpc = "open" /\ mpc' = "run" /\ active' = TRUE
              /\ open' = {"queues", "midi_in", "midi_out"}
    BY <1>2 DEF StartTimer, OpenStreams, Goto, flags
  <2>2. Types'
    BY <2>1 DEF Types, midi, sender
  <2>3. Ending'
    BY <2>1 DEF Ending
  <2> QED
    BY <2>2, <2>3
<1>3. CASE Take
  <2>1. /\ held' \in Seq(Messages) /\ in_queue' \in Seq(Messages)
        /\ Len(in_queue') <= QueueSize /\ Len(held') <= 1
        /\ full' \subseteq Buffers
    <3>1. in_queue \in Seq(Messages)
      BY DEF Types
    <3>2. \/ /\ in_queue # << >> /\ held' = <<Head(in_queue)>> /\ in_queue' = Tail(in_queue)
             /\ full' = full
          \/ held' = held /\ in_queue' = in_queue /\ full' = full \ {"in_queue"}
      BY <1>3 DEF Take
    <3>3. in_queue # << >> => /\ <<Head(in_queue)>> \in Seq(Messages)
                             /\ Len(<<Head(in_queue)>>) = 1
                             /\ Tail(in_queue) \in Seq(Messages)
                             /\ Len(Tail(in_queue)) = Len(in_queue) - 1 /\ Len(in_queue) \in Nat
      BY <3>1, TailFacts
    <3>4. full' \subseteq Buffers
      BY <3>2 DEF Types
    <3>5. in_queue # << >> => Len(Tail(in_queue)) <= QueueSize
      BY <3>3, MidiThruAssumption DEF Types
    <3>6. in_queue' \in Seq(Messages) /\ Len(in_queue') <= QueueSize
      <4>1. CASE in_queue' = in_queue
        BY <4>1 DEF Types
      <4>2. CASE in_queue # << >> /\ in_queue' = Tail(in_queue)
        BY <3>3, <3>5, <4>2
      <4> QED
        BY <3>2, <4>1, <4>2
    <3>7. held' \in Seq(Messages) /\ Len(held') <= 1
      <4>1. CASE held' = held
        BY <4>1 DEF Types
      <4>2. CASE in_queue # << >> /\ held' = <<Head(in_queue)>>
        BY <3>3, <4>2
      <4> QED
        BY <3>2, <4>1, <4>2
    <3> QED
      BY <3>4, <3>6, <3>7
  <2> QED
    BY <1>3, <2>1 DEF Take, Types, Ending, flags, sender
<1>4. CASE Requeue
  <2>1. held[1] \in Messages /\ [kind |-> held[1].kind, left |-> Delay - held[1].age] \in Echoes
    <3>1. held[1] \in Messages
      BY <1>4, TailFacts DEF Requeue, Types
    <3> QED
      BY <3>1, MidiThruAssumption DEF Messages, Echoes, Kind
  <2>2. /\ out_queue' \in Seq(Echoes) /\ Len(out_queue') <= QueueSize
        /\ full' \subseteq Buffers
    <3> DEFINE echo == [kind |-> held[1].kind, left |-> Delay - held[1].age]
    <3>1. /\ out_queue' = Pm_Enqueue("out_queue", out_queue, echo)
          /\ full' = Overflowed("out_queue", out_queue)
      BY <1>4 DEF Requeue
    <3>2. out_queue \in Seq(Echoes) /\ Len(out_queue) <= QueueSize
      BY DEF Types
    <3>3. out_queue' \in Seq(Echoes) /\ Len(out_queue') <= QueueSize
      BY <2>1, <3>1, <3>2, EnqueueFacts DEF Capacity
    <3>4. full' \subseteq Buffers
      BY <3>1 DEF Overflowed, Buffers, Types
    <3> QED
      BY <3>3, <3>4
  <2> QED
    BY <1>4, <2>2 DEF Requeue, Types, Ending, flags, sender
<1>5. CASE Finalize
  <2>1. UNCHANGED <<tpc, held, midi, sender>> /\ open' \subseteq open
    BY <1>5 DEF Finalize
  <2>2. active' \in BOOLEAN /\ process_midi_exit_flag' \in BOOLEAN
        /\ mpc' \in {"clear", "wait", "stopped", "close", "closed", "end"}
    BY <1>5 DEF Finalize, Goto, Types, flags
  <2>3. Types'
    BY <2>1, <2>2 DEF Types, midi, sender
  <2>4. Ending'
    BY <1>5 DEF Finalize, Goto, Ending, Types, FlagIsSet, flags
  <2> QED
    BY <2>3, <2>4
<1> QED
  BY <1>1, <1>2, <1>3, <1>4, <1>5 DEF Main

\* IInv is inductive.
LEMMA NextKeeps == IInv /\ [Next]_vars => IInv'
<1>1. IInv /\ UNCHANGED vars => IInv'
  BY DEF IInv, Types, Ending, vars, flags, midi, sender
<1> QED
  BY <1>1, EnterKeeps, InputKeeps, EchoKeeps, SendKeeps, MainKeeps DEF Next, process_midi

-----------------------------------------------------------------------------
(* Sysex messages.                                                         *)

\* What a message does to the owner and to its flag: they follow each other.
LEMMA WriteFacts ==
  ASSUME NEW who \in {"thru", "main"}, NEW kind \in Kind, NEW before \in {"none", who},
         NEW flag \in BOOLEAN, before = who => flag, ~cut, Pm_Write(who, kind, before)
  PROVE  /\ ~cut' /\ owner' \in {"none", who}
         /\ owner' = who => SysexAfter(flag, kind)
BY DEF Pm_Write, SysexAfter, Kind

\* A message of the input: the main thread is in no sysex message.
LEMMA InputKeepsOwners == IInv /\ Owners /\ Input => Owners'
<1> SUFFICES ASSUME IInv, Owners, Input PROVE Owners'
  OBVIOUS
<1>1. tpc = "input" /\ ~app_sysex_in_progress /\ owner \in {"none", "thru"}
  BY DEF Input, At, Owners, IInv, Types
<1>2. CASE midi_in = << >>
  <2>1. UNCHANGED midi /\ tpc' = "echo"
    BY <1>2 DEF Input
  <2> QED
    BY <1>1, <2>1 DEF Owners, midi
<1>3. CASE midi_in # << >>
  <2> DEFINE message == Head(midi_in)
  <2>1. app_sysex_in_progress' = app_sysex_in_progress
    BY <1>3 DEF Input
  <2>2. CASE IsData(message.kind) /\ ~thru_sysex_in_progress
    <3>1. UNCHANGED <<thru_sysex_in_progress, owner, cut>>
      BY <1>3, <2>2 DEF Input
    <3> QED
      BY <1>1, <2>1, <3>1 DEF Owners
  <2>3. CASE ~(IsData(message.kind) /\ ~thru_sysex_in_progress)
    <3>1. /\ Pm_Write("thru", message.kind, owner)
          /\ thru_sysex_in_progress' = SysexAfter(thru_sysex_in_progress, message.kind)
      BY <1>3, <2>3 DEF Input
    <3>2. message.kind \in Kind
      <4>1. message \in Messages
        BY <1>3, TailFacts DEF IInv, Types
      <4> QED
        BY <4>1 DEF Messages
    <3>3. ~cut' /\ owner' \in {"none", "thru"} /\ (owner' = "thru" => thru_sysex_in_progress')
      BY <1>1, <3>1, <3>2, WriteFacts DEF Owners, IInv, Types
    <3> QED
      BY <1>1, <2>1, <3>3 DEF Owners
  <2> QED
    BY <2>2, <2>3
<1> QED
  BY <1>2, <1>3

\* A message of the main thread: the input is in no sysex message, or has been given up, or the
\* message is a real-time one.
LEMMA EchoKeepsOwners == IInv /\ Owners /\ Echo => Owners'
<1> SUFFICES ASSUME IInv, Owners, Echo PROVE Owners'
  OBVIOUS
<1>1. CASE UNCHANGED midi /\ tpc' = "return"
  BY <1>1 DEF Owners, midi
<1>2. CASE ~(UNCHANGED midi /\ tpc' = "return")
  <2> DEFINE kind == out_queue[1].kind
             before == IF Released(kind) THEN "none" ELSE owner
  <2>1. /\ out_queue # << >> /\ ~NotYet(Head(out_queue))
        /\ Pm_Write("main", kind, before)
        /\ thru_sysex_in_progress' = (thru_sysex_in_progress /\ kind = "realtime")
        /\ app_sysex_in_progress' = SysexAfter(app_sysex_in_progress, kind)
        /\ tpc = "echo" /\ tpc' = tpc
    BY <1>2 DEF Echo, At
  <2>2. kind \in Kind /\ Head(out_queue) = out_queue[1]
    <3>1. out_queue \in Seq(Echoes)
      BY DEF IInv, Types
    <3>2. out_queue[1] \in Echoes /\ Head(out_queue) = out_queue[1]
      BY <2>1, <3>1, TailFacts
    <3> QED
      BY <3>2 DEF Echoes
  <2>3. quiet \in Int /\ Timeout \in Int
    BY MidiThruAssumption DEF IInv, Types
  <2>4. kind = "realtime" \/ ~Blocked
    BY <2>1, <2>2 DEF NotYet
  <2> HIDE DEF kind
  <2>5. thru_sysex_in_progress => kind = "realtime" \/ Released(kind)
    BY <2>3, <2>4 DEF Blocked, Released
  <2>6. CASE kind = "realtime"
    <3>1. ~Released(kind) /\ before = owner
      BY <2>6 DEF Released
    <3>2. owner' = owner /\ cut' = cut
      BY <2>1, <2>6, <3>1 DEF Pm_Write, Owners, IInv, Types
    <3>3. UNCHANGED <<thru_sysex_in_progress, app_sysex_in_progress>>
      BY <2>1, <2>6 DEF SysexAfter, IInv, Types
    <3> QED
      BY <2>1, <3>2, <3>3 DEF Owners
  <2>7. CASE kind # "realtime"
    <3>1. before \in {"none", "main"} /\ (before = "main" => app_sysex_in_progress)
      BY <2>5, <2>7 DEF Owners, IInv, Types
    <3>2. ~cut' /\ owner' \in {"none", "main"} /\ (owner' = "main" => app_sysex_in_progress')
      <4> HIDE DEF before
      <4> QED
        BY <2>1, <2>2, <3>1, WriteFacts DEF Owners, IInv, Types
    <3>3. ~thru_sysex_in_progress'
      BY <2>1, <2>7
    <3> QED
      BY <2>1, <3>2, <3>3 DEF Owners
  <2> QED
    BY <2>6, <2>7
<1> QED
  BY <1>1, <1>2

\* Owners is inductive, given IInv.
LEMMA NextKeepsOwners == IInv /\ Owners /\ [Next]_vars => Owners'
<1> SUFFICES ASSUME IInv, Owners, [Next]_vars PROVE Owners'
  OBVIOUS
<1> DEFINE Same == UNCHANGED <<thru_sysex_in_progress, app_sysex_in_progress, owner, cut>>
<1>1. CASE Enter
  <2>1. Same /\ (app_sysex_in_progress => tpc' # "input")
    BY <1>1 DEF Enter
  <2> QED
    BY <2>1 DEF Owners
<1>2. CASE Main \/ Leave \/ TimerTick \/ Send \/ UNCHANGED vars
  <2>1. Same /\ tpc' \in {tpc, "enter"}
    <3>1. CASE Take \/ Requeue \/ Send
      BY <3>1 DEF Take, Requeue, Send
    <3>2. CASE StartTimer \/ OpenStreams \/ Finalize \/ Join \/ Leave \/ TimerTick \/ UNCHANGED vars
      <4>1. UNCHANGED midi /\ tpc' \in {tpc, "enter"}
        BY <3>2 DEF StartTimer, OpenStreams, Finalize, Join, Leave, TimerTick, vars
      <4> QED
        BY <4>1 DEF midi
    <3> QED
      BY <1>2, <3>1, <3>2 DEF Main
  <2> QED
    BY <2>1 DEF Owners
<1> QED
  BY <1>1, <1>2, InputKeepsOwners, EchoKeepsOwners DEF Next, process_midi

-----------------------------------------------------------------------------
\* Types of the callback, the main thread and the sender; in particular neither queue holds
\* more than it was made for (midithru.c:300-306, pmutil.c:187-197).
THEOREM TypeCorrect == Spec => []TypeOK
<1>1. IInv => TypeOK
  <2> SUFFICES ASSUME IInv PROVE TypeOK
    OBVIOUS
  <2>1. \A s \in Seq(Messages) : \A i \in DOMAIN s : s[i] \in Messages
    BY ElementOfSeq, LenProperties
  <2>2. \A i \in DOMAIN out_queue : out_queue[i] \in Echoes
    BY ElementOfSeq, LenProperties DEF IInv, Types
  <2>3. \A i \in DOMAIN out_queue : out_queue[i].left \in 0..Delay
    BY <2>2 DEF Echoes
  <2> QED
    BY <2>1, <2>3 DEF IInv, Types, Buffers, TypeOK
<1> QED
  BY <1>1, InitIInv, NextKeeps, PTL DEF Spec

\* When finalize (midithru.c:378-394) frees the queues and closes the streams the callback is
\* past using them and never comes back to them, on every platform.
THEOREM CallbackIsDone == Spec => []NoCallAfterClose
<1>1. IInv => NoCallAfterClose
  BY DEF IInv, Ending, NoCallAfterClose
<1> QED
  BY <1>1, InitIInv, NextKeeps, PTL DEF Spec

\* Between the first event of a sysex message and the second the output gets nothing of the
\* other source but real-time messages (midithru.c:46-54), unless the message has been given up
\* (232).  Whatever the sender does, whatever overflows, and for any delays and sizes; but of a
\* message of more than two events the rest is not protected (204).
THEOREM SourcesTakeTurns == Spec => []SysexIsNotInterrupted
<1>1. Init => Owners
  BY DEF Init, Owners
<1>2. Owners => SysexIsNotInterrupted
  BY DEF Owners, SysexIsNotInterrupted
<1> QED
  BY <1>1, <1>2, InitIInv, NextKeeps, NextKeepsOwners, PTL DEF Spec

-----------------------------------------------------------------------------
(***************************************************************************)
(* midithru uses the timer as PtTime allows.  Of its actions PtTime bounds *)
(* Pt_Stop only, by the number of sources; main stops the timer once, and  *)
(* not before the callback has been called, so that there is a source.     *)
(***************************************************************************)
StopsOnce ==
  /\ mpc \in {"start", "open", "run", "clear", "wait"} => procId = 0
  /\ process_midi_exit_flag => MaxStarts > 0

\* A step of midithru leaves the timer alone or is a step of the timer.
LEMMA TimerStep == TimerInv /\ StopsOnce /\ [Next]_vars => [TimerNext]_timer /\ StopsOnce'
<1> SUFFICES ASSUME TimerInv, StopsOnce, [Next]_vars PROVE [TimerNext]_timer /\ StopsOnce'
  OBVIOUS
<1>1. DOMAIN state = Source
  BY DEF TimerInv, TimerTypeOK, SourceTypes
<1>3. CASE Enter
  <2>1. UNCHANGED <<timer, mpc>>
    BY <1>3 DEF Enter
  <2>2. MaxStarts > 0
    <3>1. PICK k \in Source : state[k] = "call"
      BY <1>1, <1>3 DEF Enter, At, InCallback
    <3> QED
      BY <3>1, PtTimeAssumption DEF Source
  <2> QED
    BY <2>1, <2>2 DEF StopsOnce, timer, app
<1>4. CASE Leave \/ TimerTick
  <2>1. UNCHANGED <<mpc, process_midi_exit_flag>> /\ \E k \in Source : Step(k)
    BY <1>1, <1>4 DEF Leave, TimerTick, flags, Step
  <2>2. procId' = procId
    BY <2>1 DEF Step, Tick, Return, LinuxThread, MachThread, CfThread, WinTick, HaikuTick, Loop,
       Others, app
  <2>3. StopsOnce'
    BY <2>1, <2>2 DEF StopsOnce
  <2> QED
    BY <2>1, <2>3 DEF TimerNext
<1>5. CASE StartTimer
  <2>1. mpc = "start" /\ mpc' = "open" /\ UNCHANGED process_midi_exit_flag /\ Pt_Start(TRUE)
    BY <1>5 DEF StartTimer, Goto, flags
  <2>2. procId' = procId
    BY <2>1 DEF Pt_Start
  <2>3. StopsOnce'
    BY <2>1, <2>2 DEF StopsOnce
  <2> QED
    BY <2>1, <2>3 DEF TimerNext
<1>6. CASE Finalize
  <2>1. CASE UNCHANGED timer
    <3>1. procId' = procId
      BY <2>1 DEF timer, app
    <3>2. \/ mpc' \in {"clear", "stopped"} /\ mpc \in {"run", "wait"}
          \/ mpc' = "wait" /\ mpc = "clear"
          \/ mpc' \in {"close", "closed", "end"}
      BY <1>6 DEF Finalize, Goto
    <3>3. process_midi_exit_flag' = process_midi_exit_flag \/ ~process_midi_exit_flag'
      BY <1>6 DEF Finalize, flags
    <3>4. mpc' \in {"start", "open", "run", "clear", "wait"} => procId' = 0
      BY <3>1, <3>2 DEF StopsOnce
    <3>5. process_midi_exit_flag' => MaxStarts > 0
      BY <3>3 DEF StopsOnce
    <3>6. StopsOnce'
      BY <3>4, <3>5 DEF StopsOnce
    <3> QED
      BY <2>1, <3>6
  <2>2. CASE mpc = "wait" /\ mpc' = "stopped" /\ FlagIsSet /\ Pt_Stop /\ UNCHANGED flags
    <3>1. procId = 0 /\ MaxStarts > 0
      BY <2>2 DEF StopsOnce, FlagIsSet
    <3>2. procId < MaxId
      BY <3>1, PtTimeAssumption DEF MaxId
    <3>3. StopsOnce'
      BY <2>2 DEF StopsOnce, flags
    <3> QED
      BY <2>2, <3>2, <3>3 DEF TimerNext
  <2> QED
    BY <1>6, <2>1, <2>2 DEF Finalize, Goto
<1>7. CASE Join
  <2>1. Joined /\ UNCHANGED <<mpc, process_midi_exit_flag>> /\ procId' = procId
    BY <1>7 DEF Join, Joined, flags
  <2>2. StopsOnce'
    BY <2>1 DEF StopsOnce
  <2> QED
    BY <2>1, <2>2 DEF TimerNext
<1>8. CASE Input \/ Echo \/ OpenStreams \/ Take \/ Requeue \/ Send \/ UNCHANGED vars
  <2>1. UNCHANGED timer
    <3>1. CASE UNCHANGED vars
      BY <3>1 DEF vars
    <3> QED
      BY <1>8, <3>1 DEF Input, Echo, OpenStreams, Take, Requeue, Send
  <2>2. procId' = procId /\ process_midi_exit_flag' = process_midi_exit_flag
    <3>1. procId' = procId
      BY <2>1 DEF timer, app
    <3>2. CASE UNCHANGED vars
      BY <3>1, <3>2 DEF vars, flags
    <3>3. CASE Input \/ Echo \/ Take \/ Requeue \/ Send
      <4>1. UNCHANGED flags
        BY <3>3 DEF Input, Echo, Take, Requeue, Send
      <4> QED
        BY <3>1, <4>1 DEF flags
    <3>4. CASE OpenStreams
      BY <3>1, <3>4 DEF OpenStreams
    <3> QED
      BY <1>8, <3>1, <3>2, <3>3, <3>4
  <2>3. mpc' = mpc \/ mpc = "open"
    BY <1>8 DEF Input, Echo, OpenStreams, Take, Requeue, Send, vars, Goto
  <2> QED
    BY <2>1, <2>2, <2>3 DEF StopsOnce
<1> QED
  BY <1>3, <1>4, <1>5, <1>6, <1>7, <1>8 DEF Next, process_midi, Main

\* midithru drives the timer as PtTime allows, so that all that is proved of PtTime holds in it.
THEOREM ThruRunsTimer == Spec => TimerInit /\ [][TimerNext]_timer /\ []TimerInv
<1>1. Init => TimerInit /\ TimerInv /\ StopsOnce
  BY TimerStarts DEF Init, TimerInit, StopsOnce
<1>2. TimerInv /\ StopsOnce /\ [Next]_vars => TimerInv' /\ StopsOnce'
  BY TimerStep, TimerKeeps
<1> QED
  BY <1>1, <1>2, TimerStep, PTL DEF Spec

\* When finalize goes on to free the queues, on Linux or macOS, the timer's thread is gone.
THEOREM ThruStopIsQuiet == Spec => []StoppedIsQuiet
<1>1. TimerInv => StoppedIsQuiet
  BY DEF TimerInv, OnlyHandleLives, StoppedIsQuiet, Joins
<1> QED
  BY <1>1, ThruRunsTimer, PTL
=============================================================================
