------------------------------- MODULE PtTime -------------------------------
(***************************************************************************)
(* PortTime (src/porttime): Pt_Start, Pt_Stop and what calls the callback, *)
(* on its five platforms: a thread that sleeps between calls ("linux",     *)
(* "mach"), a thread with a run loop ("cf"), the system's timer thread     *)
(* ("winmm") or a looper that is sent messages ("haiku").  The clock is    *)
(* left out: a tick comes when it comes.                                   *)
(*                                                                         *)
(* A source is what one Pt_Start with a callback has set going.  It passes *)
(*   begin    created, its loop not entered                                *)
(*   test     about to evaluate the condition of its loop                  *)
(*   wait     asleep until the next tick                                   *)
(*   fire     the tick has come, time_callback is not read yet             *)
(*   call     inside the callback                                          *)
(*   gone     ended                                                        *)
(***************************************************************************)
EXTENDS Integers

CONSTANTS Platforms,   \* a subset of {"linux", "mach", "cf", "winmm", "haiku"}
          MaxStarts    \* bound: sources created

ASSUME PtTimeAssumption ==
  Platforms \subseteq {"linux", "mach", "cf", "winmm", "haiku"} /\ MaxStarts \in Nat

VARIABLES
  platform,
  pc,            \* the application: outside ("idle"), or in the join of Pt_Stop ("join")
  started,       \* time_started_flag
  procId,        \* pt_callback_proc_id
  handle,        \* the source that the statics name, 0 if none: pt_thread_pid (linux: with
                 \* pt_thread_created), timerRunLoop, timer_id, timerRunner and timerLooper
  callback,      \* winmm: time_callback is not NULL
  sources,       \* how many sources have been created
  state, id,     \* of each source: where it is; parms->id
  told,          \* the system has been told to end it
  \* history
  wrong,         \* a call that C or the system leaves undefined, after which nothing is known
  plain          \* every Pt_Start has passed a callback, and succeeded; every Pt_Stop followed one

app  == <<pc, started, procId, handle, callback, sources, id>>
timer == <<platform, app, state, told, wrong, plain>>

Source == 1..MaxStarts
Live(k) == k \in Source /\ state[k] \notin {"none", "gone"}

-----------------------------------------------------------------------------
Create ==
  /\ sources < MaxStarts
  /\ sources' = sources + 1
  /\ state' = [state EXCEPT ![sources + 1] = "begin"]
  /\ id' = [id EXCEPT ![sources + 1] = procId]
  /\ UNCHANGED told

NoSource == UNCHANGED <<sources, state, id, told>>
On(name) == platform = name /\ wrong = "no"

\* One source at a time; what cannot be created leaves the timer stopped.
StartOne(cb) ==
  /\ \/ (started \/ cb) /\ NoSource /\ UNCHANGED <<started, handle>>
     \/ ~started /\ ~cb /\ started' = TRUE /\ NoSource /\ UNCHANGED handle
     \/ ~started /\ cb /\ Create /\ handle' = sources + 1 /\ started' = TRUE
  /\ UNCHANGED callback

\* Linux answers ptNoError also when the timer has been started before.
LinuxStart(cb) == On("linux") /\ StartOne(cb)

\* The branch taken when pthread_setschedparam answers -1 is dead: it answers an errno.
MachStart(cb) == On("mach") /\ StartOne(cb)

\* The thread sets timerRunLoop itself.  What pthread_create answers is not looked at.
CfStart(cb) ==
  /\ On("cf")
  /\ IF started THEN UNCHANGED started /\ NoSource
                ELSE started' = TRUE /\ IF cb THEN Create \/ NoSource ELSE NoSource
  /\ UNCHANGED <<handle, callback>>

\* A timer that cannot be set leaves time_started_flag and time_callback set.
WinStart(cb) ==
  /\ On("winmm")
  /\ IF started
       THEN NoSource /\ UNCHANGED <<started, callback, handle>>
       ELSE /\ started' = TRUE /\ callback' = cb
            /\ IF cb THEN \/ Create /\ handle' = sources + 1
                          \/ NoSource /\ handle' = 0
                     ELSE NoSource /\ UNCHANGED handle

\* Without a message runner the looper that has been started is told to quit.
HaikuStart(cb) == On("haiku") /\ StartOne(cb)

Pt_Start(cb) ==
  /\ pc = "idle"
  /\ LinuxStart(cb) \/ MachStart(cb) \/ CfStart(cb) \/ WinStart(cb) \/ HaikuStart(cb)
  /\ plain' = (plain /\ cb /\ ~started /\ sources' > sources)
  /\ UNCHANGED <<platform, pc, procId, wrong>>

-----------------------------------------------------------------------------
Quiet == UNCHANGED <<state, told>>
Undefined(what) == wrong' = what /\ Quiet /\ UNCHANGED <<started, handle, callback, procId, pc>>
Harmless == UNCHANGED wrong

SameId == procId                                    \* mutant of Incremented
Decremented == procId - 1                           \* mutant of Incremented
Incremented == procId + 1

Remembered == handle                                \* mutant of Forgotten
Forgotten == 0

\* The thread is told to end by a new id, and waited for.
JoinThread ==
  IF Live(handle) THEN /\ procId' = Incremented /\ pc' = "join"
                       /\ Quiet /\ Harmless /\ UNCHANGED <<started, handle, callback>>
                  ELSE Undefined("join of no thread")

LinuxStop ==
  /\ On("linux")
  /\ IF handle # 0 THEN JoinThread
     ELSE /\ procId' = Incremented /\ started' = FALSE
          /\ Quiet /\ Harmless /\ UNCHANGED <<pc, handle, callback>>

\* Here whatever pt_thread_pid names is joined, also when it is nothing or has been joined.
MachStop == On("mach") /\ JoinThread

\* CFRunLoopStop ends the run that is going on, and does nothing to a loop that is not running.
CfStop ==
  /\ On("cf")
  /\ IF Live(handle)
       THEN /\ started' = FALSE
            /\ told' = [told EXCEPT ![handle] = @ \/ state[handle] \in {"wait", "call"}]
            /\ Harmless /\ UNCHANGED <<state, handle, callback, procId, pc>>
       ELSE Undefined("stop of no run loop")

\* timeKillEvent does not wait for a tick that is on its way or in the callback.
WinStop ==
  /\ On("winmm")
  /\ started' = FALSE
  /\ IF started /\ callback /\ handle # 0
       THEN told' = [told EXCEPT ![handle] = TRUE] /\ callback' = FALSE /\ handle' = Forgotten
       ELSE UNCHANGED <<told, callback, handle>>
  /\ Harmless /\ UNCHANGED <<state, procId, pc>>

\* Neither does the quit message: it goes behind a tick that is already in the looper's queue.
HaikuStop ==
  /\ On("haiku")
  /\ IF ~started THEN Quiet /\ Harmless /\ UNCHANGED <<started, handle>>
     ELSE IF handle = 0 THEN Undefined("message to no looper")
     ELSE /\ started' = FALSE /\ handle' = Forgotten
          /\ told' = [told EXCEPT ![handle] = TRUE]
          /\ Harmless /\ UNCHANGED state
  /\ UNCHANGED <<callback, procId, pc>>

Pt_Stop ==
  /\ pc = "idle"
  /\ LinuxStop \/ MachStop \/ CfStop \/ WinStop \/ HaikuStop
  /\ plain' = (plain /\ started)
  /\ UNCHANGED <<platform, sources, id>>

AnySource == TRUE                                   \* mutant of JoinedSource
JoinedSource == state[handle] = "gone"

Joined ==
  /\ pc = "join" /\ JoinedSource
  /\ pc' = "idle" /\ started' = FALSE
  /\ handle' = IF platform = "linux" THEN Forgotten ELSE handle
  /\ UNCHANGED <<platform, procId, callback, sources, id, state, told, wrong, plain>>

-----------------------------------------------------------------------------
(* What a source does.                                                     *)

Goes(k, from, to) == state[k] = from /\ state' = [state EXCEPT ![k] = to]
Others == UNCHANGED <<platform, app, told, wrong, plain>>

\* The two threads with a loop of their own.
Loop(k) ==
  /\ \/ Goes(k, "begin", "test")
     \/ Goes(k, "test", IF procId = id[k] THEN "wait" ELSE "gone")
     \/ Goes(k, "wait", "call")
  /\ Others

LinuxThread(k) == On("linux") /\ Loop(k)
MachThread(k)  == On("mach") /\ Loop(k)

\* "test" is the time between the statement that sets timerRunLoop and the run of the loop.
CfThread(k) ==
  /\ On("cf")
  /\ \/ /\ Goes(k, "begin", "test") /\ handle' = k
        /\ UNCHANGED <<platform, pc, started, procId, callback, sources, id, told, wrong, plain>>
     \/ Goes(k, "test", "wait") /\ Others
     \/ Goes(k, "wait", IF told[k] THEN "gone" ELSE "call") /\ Others

\* The system calls winmm_time_callback, which calls through time_callback.
WinTick(k) ==
  /\ On("winmm")
  /\ \/ Goes(k, "begin", "wait") /\ Others
     \/ Goes(k, "wait", IF told[k] THEN "gone" ELSE "fire") /\ Others
     \/ callback /\ Goes(k, "fire", "call") /\ Others
     \/ /\ ~callback /\ state[k] = "fire"
        /\ wrong' = "call through NULL" /\ UNCHANGED <<platform, app, state, told, plain>>

\* A timer message that is in the queue ("fire") is handled before the quit message.
HaikuTick(k) ==
  /\ On("haiku")
  /\ \/ Goes(k, "begin", "wait")
     \/ Goes(k, "wait", IF told[k] THEN "gone" ELSE "fire")
     \/ Goes(k, "fire", "call")
  /\ Others

Tick(k) == LinuxThread(k) \/ MachThread(k) \/ CfThread(k) \/ WinTick(k) \/ HaikuTick(k)

AfterCall == IF platform \in {"linux", "mach"} THEN "test" ELSE "wait"

\* The callback returns.
Return(k) == wrong = "no" /\ Goes(k, "call", AfterCall) /\ Others

Step(k) == Tick(k) \/ Return(k)

-----------------------------------------------------------------------------
TimerInit ==
  /\ platform \in Platforms
  /\ pc = "idle" /\ started = FALSE /\ procId = 0 /\ handle = 0 /\ callback = FALSE
  /\ sources = 0
  /\ state = [k \in Source |-> "none"]
  /\ id = [k \in Source |-> 0]
  /\ told = [k \in Source |-> FALSE]
  /\ wrong = "no" /\ plain = TRUE

MaxId == 2 * MaxStarts   \* bound: calls of Pt_Stop that change pt_callback_proc_id

TimerNext == \/ \E cb \in BOOLEAN : Pt_Start(cb)
             \/ procId < MaxId /\ Pt_Stop
             \/ Joined
             \/ \E k \in Source : Step(k)

\* A thread runs, a tick comes and a callback returns; Pt_Stop goes on when its join does.
TimerSpec == /\ TimerInit /\ [][TimerNext]_timer
             /\ WF_timer(Joined) /\ \A k \in Source : WF_timer(Step(k))

-----------------------------------------------------------------------------
NumberTypes == procId \in 0..MaxId /\ handle \in 0..sources /\ sources \in 0..MaxStarts
FlagTypes ==
  /\ platform \in Platforms /\ pc \in {"idle", "join"}
  /\ started \in BOOLEAN /\ callback \in BOOLEAN /\ plain \in BOOLEAN
  /\ wrong \in {"no", "join of no thread", "stop of no run loop", "message to no looper",
                "call through NULL"}
SourceTypes ==
  /\ state \in [Source -> {"none", "begin", "test", "wait", "fire", "call", "gone"}]
  /\ id \in [Source -> 0..MaxId] /\ told \in [Source -> BOOLEAN]
CreatedInOrder == \A k \in Source : state[k] = "none" <=> k > sources

TimerTypeOK == NumberTypes /\ FlagTypes /\ SourceTypes /\ CreatedInOrder

\* When Pt_Stop has returned on Linux or macOS nothing of the timer runs any more, so that
\* the application may free what its callback uses (midithru.c:378-383, mm.c:183-185).
StoppedIsQuiet ==
  (platform \in {"linux", "mach"} /\ pc = "idle" /\ ~started /\ wrong = "no") =>
     \A k \in Source : ~Live(k)

\* The statics never lead to a thread, looper or timer that is not there: on Linux whatever
\* the application calls, on macOS and Haiku as long as it calls Pt_Stop once for each
\* Pt_Start that had a callback and succeeded (ptlinux.c:110-113, ptmacosx_mach.c:181).
NothingIsMissing ==
  (platform = "linux" \/ (plain /\ platform \in {"mach", "haiku"})) => wrong = "no"

\* Pt_Stop returns, and however the calls of the application, the ticks and the callbacks
\* interleave, no source goes on ticking after it, except in the run loop version, where
\* CFRunLoopStop is lost on a thread that has not entered its loop (ptmacosx_cf.c:118).
StopTakesEffect ==
  /\ pc = "join" ~> pc = "idle"
  /\ \A k \in Source :
       (Live(k) /\ handle # k /\ platform # "cf") ~> (~Live(k) \/ wrong # "no")
=============================================================================
