------------------------------ MODULE MidiThru ------------------------------
(***************************************************************************)
(* src/pm_test/midithru.c, the repository's model of an application that   *)
(* leaves all MIDI to the callback of PortTime: the callback copies input  *)
(* to output and merges it with what the main thread sends, which is the   *)
(* input once more, 2 seconds later.  Two PmQueues join the threads.       *)
(*                                                                         *)
(* Time is counted in ticks (calls of the callback), and only as far as    *)
(* the program looks: a message has an age or a time left, and quiet is    *)
(* the time since the last input.  A message is one event:                 *)
(*   "short", "realtime", "whole" (a sysex message of one event),          *)
(*   "first", "more", "last" (the events of a longer one),                 *)
(*   "eox" (a last event that begins with the EOX).                        *)
(***************************************************************************)
EXTENDS PtTime, Sequences

CONSTANTS Delay,       \* ticks until the main thread's echo is due (2000 ms)
          Timeout,     \* ticks until an unfinished sysex message is given up (5000 ms)
          QueueSize,   \* messages in in_queue and out_queue (1024)
          InputSize,   \* messages in the buffer of midi_in (256)
          MaxEvents,   \* events of one sysex message
          MaxInput     \* bound: messages sent to the program

ASSUME MidiThruAssumption ==
  /\ Delay \in Nat \ {0} /\ Timeout \in Nat /\ Delay < Timeout
  /\ QueueSize \in Nat \ {0} /\ InputSize \in Nat \ {0}
  /\ MaxEvents \in Nat \ {0, 1} /\ MaxInput \in Nat

VARIABLES
  tpc,           \* where the callback is: "enter", "input", "echo" or "return"
  mpc,           \* where the main thread is
  held,          \* the message main has taken from in_queue, at most one
  active, process_midi_exit_flag,
  in_queue, out_queue,
  full,          \* which of the two and of midi_in refuse messages after an overflow
  thru_sysex_in_progress, app_sysex_in_progress,
  quiet,         \* current_timestamp - last_timestamp, up to Timeout + 1; looked at only in sysex
  midi_in,       \* the input stream's buffer
  open,          \* what may be used of "queues", "midi_in", "midi_out"
  \* the sender
  prompt,        \* it never lets a sysex message rest for longer than Timeout nor drops one
  sysex,         \* events it has sent of an unfinished sysex message
  silence, input,
  \* history
  owner,         \* whose sysex message midi_out has the first event of, and no other event
  cut,           \* the other source has sent something between these two events
  ignored,       \* something that came in has been ignored
  lost,          \* a queue or midi_in has overflowed
  long           \* a sysex message of more than two events has been sent

midi   == <<thru_sysex_in_progress, app_sysex_in_progress, quiet, midi_in, in_queue, out_queue,
             full, owner, cut, ignored, lost>>
sender == <<prompt, sysex, silence, input, long>>
flags  == <<active, process_midi_exit_flag>>
vars   == <<timer, tpc, mpc, held, flags, midi, open, sender>>

Min2(a, b) == IF a < b THEN a ELSE b

-----------------------------------------------------------------------------
(* One message more in a queue or in midi_in.  After an overflow it takes   *)
(* no message until its reader has been told, which is when it calls       *)
(* Pm_Dequeue on it empty.                                                 *)

Capacity(name) == IF name = "midi_in" THEN InputSize ELSE QueueSize
OneMore(name, queue) == Len(queue) > Capacity(name)   \* mutant of IsFull
IsFull(name, queue) == Len(queue) >= Capacity(name)
Refused(name, queue) == name \in full \/ IsFull(name, queue)
Pm_Enqueue(name, queue, message) ==
  IF Refused(name, queue) THEN queue ELSE Append(queue, message)
Overflowed(name, queue) == IF Refused(name, queue) THEN full \union {name} ELSE full

\* One Pm_Write, with whose message the output is in before it.
Pm_Write(who, kind, before) ==
  /\ cut' = (cut \/ (before \notin {"none", who} /\ kind # "realtime"))
  /\ owner' = CASE kind = "first" -> who
                [] kind = "realtime" -> before
                [] OTHER -> "none"

NotReset(inProgress, kind) ==                         \* mutant of SysexAfter
  CASE kind = "first" -> TRUE
    [] kind = "whole" -> TRUE
    [] OTHER -> inProgress /\ kind = "realtime"
EvenRealTime(inProgress, kind) == kind = "first"      \* mutant of SysexAfter

\* The first byte of "more" and of "last" is data: not 0xF0, and not real-time either.  So the
\* second event of a sysex message puts the flag down, be it the last or not.
SysexAfter(inProgress, kind) ==
  CASE kind = "first" -> TRUE
    [] kind = "realtime" -> inProgress
    [] OTHER -> FALSE

-----------------------------------------------------------------------------
(* process_midi: the callback.                                             *)

InCallback == \E k \in DOMAIN state : state[k] = "call"
At(label) == InCallback /\ tpc = label

Older(messages) == [i \in DOMAIN messages |-> [messages[i] EXCEPT !.age = Min2(@ + 1, Delay)]]
Sooner(messages) ==
  [i \in DOMAIN messages |-> [messages[i] EXCEPT !.left = IF @ = 0 THEN 0 ELSE @ - 1]]

\* A tick.  The time that passes is the sender's time too.
Enter ==
  /\ At("enter")
  /\ prompt => ~(sysex > 0 /\ silence = Timeout)
  /\ quiet' = IF thru_sysex_in_progress THEN Min2(quiet + 1, Timeout + 1) ELSE 0
  /\ silence' = IF prompt THEN Min2(silence + 1, Timeout) ELSE 0
  /\ midi_in' = Older(midi_in) /\ in_queue' = Older(in_queue) /\ held' = Older(held)
  /\ out_queue' = Sooner(out_queue)
  /\ IF active THEN /\ tpc' = IF app_sysex_in_progress THEN "echo" ELSE "input"
                    /\ UNCHANGED process_midi_exit_flag
               ELSE tpc' = "return" /\ process_midi_exit_flag' = TRUE
  /\ UNCHANGED <<timer, mpc, active, thru_sysex_in_progress, app_sysex_in_progress, full, owner,
                 cut, ignored, lost, open, prompt, sysex, input, long>>

\* Data with the flag down is the rest of a message that has been given up.  An EOX is not data.
IsData(kind) == kind \in {"more", "last"}

\* Pm_Poll and Pm_Read.  Pm_Poll looks for a message only, so that with no more than the news of
\* an overflow in the buffer the loop ends: Pm_Read is never told of it (172), and midi_in takes
\* no message ever again.
Input ==
  /\ At("input")
  /\ IF midi_in = <<>>
       THEN tpc' = "echo" /\ UNCHANGED midi
       ELSE LET message == Head(midi_in) IN
            /\ midi_in' = Tail(midi_in)
            /\ quiet' = 0
            /\ IF IsData(message.kind) /\ ~thru_sysex_in_progress
                 THEN /\ ignored' = TRUE
                      /\ UNCHANGED <<in_queue, full, lost, thru_sysex_in_progress, owner, cut>>
                 ELSE /\ Pm_Write("thru", message.kind, owner)
                      /\ in_queue' = Pm_Enqueue("in_queue", in_queue, message)
                      /\ full' = Overflowed("in_queue", in_queue)
                      /\ lost' = (lost \/ Refused("in_queue", in_queue))
                      /\ thru_sysex_in_progress' = SysexAfter(thru_sysex_in_progress, message.kind)
                      /\ UNCHANGED ignored
            /\ UNCHANGED <<tpc, app_sysex_in_progress, out_queue>>
  /\ UNCHANGED <<timer, mpc, held, flags, open, sender>>

Blocked == thru_sysex_in_progress /\ quiet <= Timeout
NotYet(echo) == echo.left > 0 \/ (echo.kind # "realtime" /\ Blocked)

\* The sysex message of the input has been given up (232): the output is nobody's.
Released(kind) == thru_sysex_in_progress /\ quiet > Timeout /\ kind # "realtime"

\* What is due in out_queue, unless a sysex message of the input blocks it.
Echo ==
  /\ At("echo")
  /\ IF out_queue = <<>> \/ NotYet(Head(out_queue))
       THEN tpc' = "return" /\ UNCHANGED midi
       ELSE LET kind == out_queue[1].kind IN
            /\ out_queue' = Tail(out_queue)
            /\ Pm_Write("main", kind, IF Released(kind) THEN "none" ELSE owner)
            /\ thru_sysex_in_progress' = (thru_sysex_in_progress /\ kind = "realtime")
            /\ app_sysex_in_progress' = SysexAfter(app_sysex_in_progress, kind)
            /\ UNCHANGED <<tpc, quiet, midi_in, in_queue, full, ignored, lost>>
  /\ UNCHANGED <<timer, mpc, held, flags, open, sender>>

Leave ==
  /\ At("return")
  /\ tpc' = "enter"
  /\ \E k \in DOMAIN state : Return(k)
  /\ UNCHANGED <<mpc, held, flags, midi, open, sender>>

process_midi == Enter \/ Input \/ Echo \/ Leave

\* The rest of the timer's thread.
TimerTick == /\ \E k \in DOMAIN state : Tick(k)
             /\ UNCHANGED <<tpc, mpc, held, flags, midi, open, sender>>

-----------------------------------------------------------------------------
(* The main thread.                                                        *)

Goto(from, to) == mpc = from /\ mpc' = to

\* The queues are made, then the timer is started; what Pt_Start answers is not looked at.
StartTimer ==
  /\ Goto("start", "open")
  /\ open' = {"queues"}
  /\ Pt_Start(TRUE)
  /\ UNCHANGED <<tpc, held, flags, midi, sender>>

OpenStreams ==
  /\ Goto("open", "run")
  /\ open' = {"queues", "midi_in", "midi_out"}
  /\ active' = TRUE
  /\ UNCHANGED <<timer, tpc, held, process_midi_exit_flag, midi, sender>>

\* Pm_Dequeue: a message, or the news of an overflow.
Take ==
  /\ mpc = "run" /\ held = <<>>
  /\ \/ /\ in_queue # <<>>
        /\ held' = <<Head(in_queue)>> /\ in_queue' = Tail(in_queue)
        /\ UNCHANGED full
     \/ /\ in_queue = <<>> /\ "in_queue" \in full
        /\ full' = full \ {"in_queue"}
        /\ UNCHANGED <<held, in_queue>>
  /\ UNCHANGED <<timer, tpc, mpc, flags, thru_sysex_in_progress, app_sysex_in_progress, quiet,
                 midi_in, out_queue, owner, cut, ignored, lost, open, sender>>

Requeue ==
  /\ mpc = "run" /\ held # <<>>
  /\ LET echo == [kind |-> held[1].kind, left |-> Delay - held[1].age] IN
     out_queue' = Pm_Enqueue("out_queue", out_queue, echo)
  /\ full' = Overflowed("out_queue", out_queue)
  /\ lost' = (lost \/ Refused("out_queue", out_queue))
  /\ held' = <<>>
  /\ UNCHANGED <<timer, tpc, mpc, flags, thru_sysex_in_progress, app_sysex_in_progress, quiet,
                 midi_in, in_queue, owner, cut, ignored, open, sender>>

AtOnce == TRUE                                        \* mutant of FlagIsSet
FlagIsSet == process_midi_exit_flag

\* finalize.  The end is a note, or 60 seconds.
Finalize ==
  /\ \/ /\ Goto("run", "clear") /\ held = <<>>
        /\ process_midi_exit_flag' = FALSE
        /\ UNCHANGED <<timer, active, open>>
     \/ /\ Goto("clear", "wait")
        /\ active' = FALSE
        /\ UNCHANGED <<timer, process_midi_exit_flag, open>>
     \/ /\ Goto("wait", "stopped") /\ FlagIsSet
        /\ Pt_Stop
        /\ UNCHANGED <<flags, open>>
     \/ /\ Goto("stopped", "close") /\ pc = "idle"
        /\ open' = open \ {"queues"}
        /\ UNCHANGED <<timer, flags>>
     \/ /\ Goto("close", "closed") /\ open' = open \ {"midi_in"} /\ UNCHANGED <<timer, flags>>
     \/ /\ Goto("closed", "end") /\ open' = open \ {"midi_out"} /\ UNCHANGED <<timer, flags>>
  /\ wrong = "no"
  /\ UNCHANGED <<tpc, held, midi, sender>>

Join == Joined /\ UNCHANGED <<tpc, mpc, held, flags, midi, open, sender>>

-----------------------------------------------------------------------------
(* The sender at the other end of the input.                               *)

\* A sender that is not prompt may also drop the rest of a sysex message.
Kinds == {"realtime"}
         \union (IF sysex = 0 \/ ~prompt THEN {"short", "whole", "first"} ELSE {})
         \union (IF sysex > 0 THEN {"last", "eox"} ELSE {})
         \union (IF sysex \in 1..MaxEvents - 2 THEN {"more"} ELSE {})

\* The rest of a sysex message does not count.
Continues(kind) == kind \in {"more", "last", "eox"}

Send ==
  /\ mpc = "run"
  /\ \E kind \in Kinds :
        /\ Continues(kind) \/ input < MaxInput
        /\ input' = IF Continues(kind) THEN input ELSE input + 1
        /\ midi_in' = Pm_Enqueue("midi_in", midi_in, [kind |-> kind, age |-> 0])
        /\ full' = Overflowed("midi_in", midi_in)
        /\ lost' = (lost \/ Refused("midi_in", midi_in))
        /\ sysex' = CASE kind = "realtime" -> sysex
                      [] kind = "more" -> sysex + 1
                      [] kind = "first" -> 1
                      [] OTHER -> 0
        /\ long' = (long \/ kind = "more")
  /\ silence' = IF sysex' > 0 THEN 0 ELSE silence
  /\ UNCHANGED <<timer, tpc, mpc, held, flags, thru_sysex_in_progress, app_sysex_in_progress,
                 quiet, in_queue, out_queue, owner, cut, ignored, open, prompt>>

-----------------------------------------------------------------------------
Init ==
  /\ TimerInit
  /\ tpc = "enter" /\ mpc = "start" /\ held = <<>>
  /\ active = FALSE /\ process_midi_exit_flag = FALSE
  /\ in_queue = <<>> /\ out_queue = <<>> /\ full = {}
  /\ thru_sysex_in_progress = FALSE /\ app_sysex_in_progress = FALSE /\ quiet = 0
  /\ midi_in = <<>> /\ open = {}
  /\ prompt \in BOOLEAN /\ sysex = 0 /\ silence = 0 /\ input = 0
  /\ owner = "none" /\ cut = FALSE /\ ignored = FALSE /\ lost = FALSE /\ long = FALSE

Main == StartTimer \/ OpenStreams \/ Take \/ Requeue \/ Finalize \/ Join
Next == process_midi \/ TimerTick \/ Main \/ Send

\* Both threads run.  The sender owes the rest of a sysex message only if it is prompt.
Fairness == /\ WF_vars(process_midi) /\ WF_vars(TimerTick)
            /\ WF_vars(Take \/ Requeue)
            /\ WF_vars(prompt /\ sysex > 0 /\ Send)

Spec == Init /\ [][Next]_vars /\ Fairness

-----------------------------------------------------------------------------
Kind == {"short", "realtime", "whole", "first", "more", "last", "eox"}
Messages == [kind : Kind, age : 0..Delay]

TypeOK ==
  /\ tpc \in {"enter", "input", "echo", "return"}
  /\ mpc \in {"start", "open", "run", "clear", "wait", "stopped", "close", "closed", "end"}
  /\ \A messages \in {midi_in, in_queue, held} : \A i \in DOMAIN messages : messages[i] \in Messages
  /\ \A i \in DOMAIN out_queue : out_queue[i].left \in 0..Delay
  /\ Len(in_queue) <= QueueSize /\ Len(out_queue) <= QueueSize
  /\ Len(midi_in) <= InputSize /\ Len(held) <= 1
  /\ full \subseteq {"in_queue", "out_queue", "midi_in"}
  /\ open \subseteq {"queues", "midi_in", "midi_out"}
  /\ quiet \in 0..Timeout + 1 /\ silence \in 0..Timeout
  /\ owner \in {"none", "thru", "main"}

\* The callback never uses a stream or a queue that main has closed or freed, on whatever
\* platform: the exit flag cannot be left over from before, and Pt_Stop need not wait.
NoCallAfterClose ==
  (InCallback /\ tpc \in {"input", "echo"}) => open = {"queues", "midi_in", "midi_out"}

\* Between the first event of a sysex message and the second the output gets nothing of the
\* other source but real-time messages, in both directions (midithru.c:46-54, 149-150), whoever
\* overflows, stops or drops a message; unless the five seconds have passed (49-51).  That is all
\* of a message of two events.  The events after the second of a longer one are not protected,
\* against 46-48: the flag goes down at the first event that is data (204).
SysexIsNotInterrupted == ~cut

Pending == midi_in # <<>> \/ in_queue # <<>> \/ out_queue # <<>>
Over == mpc \notin {"start", "open", "run"} \/ sources = 0 \/ lost \/ ~prompt

\* Neither of the two sources blocks the other forever: all that waits in midi_in and in the
\* queues leaves them, and nothing of a message of one or two events is ignored on the way
\* (midithru.c:46-56, 183-186).  As long as nothing overflows and the sender is prompt; of a
\* longer sysex message the events after the second are ignored (184, 204).
ThruIsLive == Pending ~> ((~Pending /\ (ignored => long)) \/ Over)
=============================================================================
