------------------------- MODULE PmInputThreadsProofs -------------------------
(***************************************************************************)
(* PmInputThreads for any number of streams, packets, buffers and          *)
(* failures: no callback works on a stream that has been freed, and an     *)
(* open stream is served.                                                  *)
(***************************************************************************)
EXTENDS PmInputThreads, TLAPS

(***************************************************************************)
(* The inductive invariant.                                                *)
(*   Shape    What belongs to one backend only, and when the device is     *)
(*            marked as open.                                              *)
(*   Present  From pm_create_internal to Pm_Close the stream exists and is *)
(*            the one that the device names; its api_info exists while the *)
(*            backend may use it.                                          *)
(*   Served   Whoever delivers delivers to this stream, and only before    *)
(*            the backend's close function has returned.  With sndio this  *)
(*            rests on the mode, which has "in" as long as the stream is   *)
(*            open: otherwise its close function would not join.  It holds *)
(*            until a close gives up (forced) or a call fails (failed).    *)
(*   Connection  A backend that calls back does so for the open stream     *)
(*            also after failures, and the buffers of a Windows input add  *)
(*            up.                                                          *)
(*   Patience No close request can reach an open stream unless it is       *)
(*            stray; and of its own there is at most one, and the close    *)
(*            that sent it still waits: so none is left for the next open  *)
(*            unless a close gave up (forced) or another program has sent  *)
(*            one (foreign).                                               *)
(*   Handle   Unless the application uses the same port for output, the    *)
(*            handle of sndio stays open for input, and its thread runs if *)
(*            nothing has stopped it.                                      *)
(***************************************************************************)
Virtual == backend = "virtual"

Shape ==
  /\ Virtual => source = 0
  /\ ~Virtual => checked = "none" /\ port = <<>>
  /\ checked # "none" => using = {}
  /\ backend = "sndio" => using = {} /\ source = 0
  /\ backend # "sndio" => /\ pc \notin {"set_mode", "new_thread", "joining"}
                          /\ \A s \in Streams : thread[s] = "none"
  /\ backend # "winmm" => pc # "resetting"
  /\ ~Virtual => pc # "waiting"
  /\ opened => pc \in {"open", "closing", "waiting", "resetting", "joining", "set_mode", "quiet",
                       "released"}
  /\ Virtual /\ opened => pc \in {"open", "closing", "waiting"}
  /\ ~Virtual /\ pc \in {"open", "closing", "resetting", "joining"} => opened
  /\ pc = "set_mode" => /\ task \in {"in_open", "in_close", "out_open", "out_close"}
                        /\ task = "in_open" => ~opened
                        /\ task = "in_close" => opened

Busy == \/ pc \notin {"closed", "cleared", "set_mode"}
        \/ pc = "set_mode" /\ (opened \/ task = "in_open")
Holding == \/ pc \in {"connected", "open", "closing", "waiting", "resetting", "joining"}
           \/ pc = "set_mode" /\ opened

Present ==
  /\ Busy => stream \in Streams /\ stream \in live /\ internal = stream
  /\ Holding => stream \in info
  /\ pc \in {"released", "cleared"} => stream \notin info

Serving == pc \in {"connected", "open", "closing", "waiting", "resetting"}
Running(s) == thread[s] \notin {"none", "ended"}
Wanted == \/ pc \in {"new_thread", "connected", "open", "closing"}
          \/ pc = "set_mode" /\ (task = "in_open" \/ (opened /\ task # "in_close"))

Served ==
  /\ using # {} => using = {stream} /\ Serving
  /\ source # 0 => source = stream /\ Serving
  /\ ~Virtual /\ using # {} => source = stream
  /\ Virtual /\ (checked # "none" \/ using # {}) => opened
  /\ \A s \in Streams : Running(s) => s = stream /\ Holding
  /\ backend = "sndio" /\ Wanted => "in" \in (IF pc = "set_mode" THEN target ELSE mode)

Connection ==
  /\ Connected \/ backend = "winmm" =>
       (pc \in {"connected", "open", "closing", "resetting"} => source = stream)
  /\ held # "none" => backend = "winmm" /\ using # {} /\ source # 0
  /\ held = "filled" => pc # "resetting"
  /\ held = "empty" => pc = "resetting"
  /\ backend = "winmm" /\ source # 0 /\ pc # "resetting" =>
       buffers + (IF held = "none" THEN 0 ELSE 1) + lost = NumBuffers

Patience ==
  /\ ~stray /\ Virtual /\ pc \in {"opening", "connected", "open", "closing"} => ~CloseIsComing
  /\ ~stray /\ Virtual /\ pc \in {"open", "closing"} => opened
  /\ ~forced /\ ~foreign =>
       /\ ~stray
       /\ CloseIsComing => pc = "waiting" /\ opened
       /\ \A i \in 1..Len(port) : IsCloseRequest(port[i]) =>
            /\ checked # "close"
            /\ \A j \in 1..Len(port) : IsCloseRequest(port[j]) => j = i

Handle ==
  /\ backend = "sndio" /\ pc = "set_mode" /\ task \in {"out_open", "out_close"} => switched
  /\ backend = "sndio" /\ ~switched =>
       /\ pc \in {"new_thread", "connected", "open"} => "in" \in mode
       /\ pc = "set_mode" /\ task = "in_open" => "in" \in target
       /\ pc \in {"connected", "open"} /\ ~stopped => thread[stream] \notin {"none", "ended"}

IInv == /\ TypeOK /\ Shape /\ Present /\ Connection /\ Patience /\ Handle
        /\ ~forced /\ ~failed => Served

USE PmInputThreadsAssumption DEF marks

\* Close requests: a step that leaves them alone, and a backend that has none.
LEMMA PatienceUndisturbed ==
  ASSUME Patience, UNCHANGED <<backend, pc, opened, port, checked, forced, foreign, stray>>
  PROVE  Patience'
BY DEF Patience, CloseIsComing, Virtual

LEMMA PatienceElsewhere ==
  ASSUME Shape, Patience, ~Virtual, UNCHANGED <<backend, port, checked, forced, foreign, stray>>
  PROVE  Patience'
<1>1. ~Virtual' /\ port' = <<>> /\ checked' = "none"
  BY DEF Shape, Virtual
<1>2. ~CloseIsComing'
  BY <1>1 DEF CloseIsComing
<1>3. ~forced' /\ ~foreign' => ~stray'
  BY DEF Patience
<1> QED  BY <1>1, <1>2, <1>3 DEF Patience

\* One step per part of the invariant.
LEMMA pm_create_internalKeeps ==
  ASSUME IInv, pm_create_internal PROVE IInv'
<1> USE DEF IInv, Shape, Virtual, TypeOK
<1>1. TypeOK'
  <2>1. PhaseTypes'
    BY DEF PhaseTypes, pm_create_internal, app, mac, win, sndio, past
  <2>2. StreamTypes'
    <3>1. opens + 1 \in Streams /\ opens + 1 \in 0..MaxOpens
      BY DEF StreamTypes, Streams, pm_create_internal
    <3>2. live \union {opens + 1} \subseteq Streams /\ info \subseteq live \union {opens + 1}
      BY <3>1 DEF StreamTypes
    <3> QED
      BY <3>1, <3>2 DEF StreamTypes, pm_create_internal, mac
  <2>3. DataTypes'
    BY DEF DataTypes, Connection, Connected, Streams, pm_create_internal, app, mac, win, sndio, past
  <2> QED  BY <2>1, <2>2, <2>3
<1>2. Shape'
  BY DEF pm_create_internal, app, mac, win, sndio, past
<1>3. Present'
  BY DEF Present, Busy, Holding, Streams, StreamTypes, pm_create_internal, app, mac, win, sndio,
         past
<1>4. (~forced /\ ~failed => Served)'
  BY DEF Present, Busy, Served, Serving, Running, Wanted, Holding, Connection, Connected,
         pm_create_internal, app, mac, win, sndio, past
<1>5. Connection'
  BY DEF PhaseTypes, DataTypes, Present, Busy, Streams, Connection, Connected, pm_create_internal,
         app, mac, win, sndio, past
<1>6. Patience'
  BY DEF Patience, CloseIsComing, IsCloseRequest, pm_create_internal, app, mac, win, sndio, past
<1>7. Handle'
  BY DEF Present, Busy, Handle, pm_create_internal, app, mac, win, sndio, past
<1> QED  BY <1>1, <1>2, <1>3, <1>4, <1>5, <1>6, <1>7

\* The application's part.  One step per action.
LEMMA CommonKeeps ==
  ASSUME IInv, Common PROVE IInv'
<1> USE DEF IInv, TypeOK, PhaseTypes, StreamTypes, DataTypes, Shape, Virtual, Present, Busy,
            Holding, Served, Serving, Running, Wanted, Connection, Connected, Patience, Handle,
            CloseIsComing, IsCloseRequest, Streams, app, mac, win, sndio, past
<1>1. CASE pm_create_internal
  BY <1>1, pm_create_internalKeeps
<1>2. CASE OpenDone
  BY <1>2, SMTT(40) DEF OpenDone
<1>3. CASE OpenFailed
  BY <1>3, SMTT(40) DEF OpenFailed
<1>4. CASE Pm_Close
  BY <1>4, SMTT(40) DEF Pm_Close
<1>5. CASE ReleaseInfo
  BY <1>5, SMTT(40) DEF ReleaseInfo
<1>6. CASE ClearDevice
  BY <1>6, SMTT(40) DEF ClearDevice
<1>7. CASE FreeStream
  BY <1>7, SMTT(40) DEF FreeStream
<1> QED  BY <1>1, <1>2, <1>3, <1>4, <1>5, <1>6, <1>7 DEF Common

\* One step per part of the invariant.
LEMMA midi_in_openKeeps ==
  ASSUME IInv, midi_in_open PROVE IInv'
<1> USE DEF IInv, Shape, Virtual, TypeOK
<1>1. TypeOK'
  <2>1. PhaseTypes'
    BY DEF PhaseTypes, midi_in_open, Connect, NotConnected, Trouble, app, mac, win, sndio, past
  <2>2. StreamTypes'
    BY DEF PhaseTypes, StreamTypes, Streams, Present, Busy, midi_in_open, Connect, NotConnected,
           Trouble, app, mac, win, sndio, past
  <2>3. DataTypes'
    BY DEF DataTypes, Connection, Connected, Streams, midi_in_open, Connect, NotConnected, Trouble,
           app, mac, win, sndio, past
  <2> QED  BY <2>1, <2>2, <2>3
<1>2. Shape'
  BY DEF midi_in_open, Connect, NotConnected, Trouble, app, mac, win, sndio, past
<1>3. Present'
  BY DEF Present, Busy, Holding, Streams, StreamTypes, midi_in_open, Connect, NotConnected,
         Trouble, app, mac, win, sndio, past
<1>4. (~forced /\ ~failed => Served)'
  BY DEF Present, Busy, Served, Serving, Running, Wanted, Holding, Connection, Connected,
         midi_in_open, Connect, NotConnected, Trouble, app, mac, win, sndio, past
<1>5. Connection'
  BY DEF PhaseTypes, DataTypes, Present, Busy, Streams, Connection, Connected, midi_in_open,
         Connect, NotConnected, Trouble, app, mac, win, sndio, past
<1>6. Patience'
  BY DEF Patience, CloseIsComing, IsCloseRequest, midi_in_open, Connect, NotConnected, Trouble, app,
         mac, win, sndio, past
<1>7. Handle'
  BY DEF Present, Busy, Handle, midi_in_open, Connect, NotConnected, Trouble, app, mac, win,
         sndio, past
<1> QED  BY <1>1, <1>2, <1>3, <1>4, <1>5, <1>6, <1>7

\* One step per part of the invariant.
LEMMA SendCloseKeeps ==
  ASSUME IInv, SendClose PROVE IInv'
<1> USE DEF IInv, Shape, Virtual, TypeOK
<1>1. TypeOK'
  <2>1. PhaseTypes'
    BY DEF PhaseTypes, SendClose, Trouble, app, mac, win, sndio, past
  <2>2. StreamTypes'
    BY DEF PhaseTypes, StreamTypes, Streams, Present, Busy, SendClose, Trouble, app, mac, win,
           sndio, past
  <2>3. DataTypes'
    <3>1. port' \in Seq({"data", "close"})
      <4>1. port \in Seq({"data", "close"})
        BY DEF DataTypes
      <4>2. port' = port \/ port' = Append(port, "close")
        BY DEF SendClose
      <4> QED
        BY <4>1, <4>2
    <3> QED
      BY <3>1 DEF DataTypes, SendClose, app, win, sndio, past
  <2> QED  BY <2>1, <2>2, <2>3
<1>2. Shape'
  BY DEF SendClose, Trouble, app, mac, win, sndio, past
<1>3. Present'
  BY DEF Present, Busy, Holding, Streams, StreamTypes, SendClose, Trouble, app, mac, win, sndio,
         past
<1>4. (~forced /\ ~failed => Served)'
  BY DEF Present, Busy, Served, Serving, Running, Wanted, Holding, Connection, Connected,
         SendClose, Trouble, app, mac, win, sndio, past
<1>5. Connection'
  BY DEF PhaseTypes, DataTypes, Present, Busy, Streams, Connection, Connected, SendClose, Trouble,
         app, mac, win, sndio, past
<1>6. Patience'
  <2>1. /\ Virtual /\ pc = "closing" /\ pc' = "waiting"
        /\ UNCHANGED <<opened, checked, forced, foreign, stray>>
    BY DEF SendClose, Trouble, past
  <2>2. CASE port' = port
    BY <2>1, <2>2 DEF Patience, CloseIsComing
  <2>3. CASE port' = Append(port, "close")
    <3>1. SUFFICES ASSUME ~forced, ~foreign
                   PROVE  /\ opened /\ checked # "close"
                          /\ \A i \in 1..Len(port') : IsCloseRequest(port'[i]) => i = Len(port')
      BY <2>1, <2>3 DEF Patience, DataTypes
    <3>2. ~CloseIsComing /\ opened
      BY <2>1, <3>1 DEF Patience
    <3>3. \A i \in 1..Len(port') : i = Len(port') \/ (i \in 1..Len(port) /\ port'[i] = port[i])
      BY <2>3 DEF DataTypes
    <3> QED  BY <3>2, <3>3 DEF CloseIsComing
  <2> QED  BY <2>2, <2>3 DEF SendClose, Trouble
<1>7. Handle'
  BY DEF Present, Busy, Handle, SendClose, Trouble, app, mac, win, sndio, past
<1> QED  BY <1>1, <1>2, <1>3, <1>4, <1>5, <1>6, <1>7

\* One step per part of the invariant.
LEMMA virtual_read_callbackKeeps ==
  ASSUME IInv, virtual_read_callback PROVE IInv'
<1> USE DEF IInv, Shape, Virtual, TypeOK
<1>1. TypeOK'
  <2>1. PhaseTypes'
    BY DEF PhaseTypes, virtual_read_callback, IsCloseRequest, app, mac, win, sndio, past
  <2>2. StreamTypes'
    BY DEF PhaseTypes, StreamTypes, Streams, Present, Busy, virtual_read_callback, IsCloseRequest,
           app, mac, win, sndio, past
  <2>3. DataTypes'
    BY DEF DataTypes, Connection, Connected, Streams, virtual_read_callback, IsCloseRequest, app,
           mac, win, sndio, past
  <2> QED  BY <2>1, <2>2, <2>3
<1>2. Shape'
  BY DEF virtual_read_callback, IsCloseRequest, app, mac, win, sndio, past
<1>3. Present'
  BY DEF Present, Busy, Holding, Streams, StreamTypes, virtual_read_callback, IsCloseRequest, app,
         mac, win, sndio, past
<1>4. (~forced /\ ~failed => Served)'
  BY DEF Present, Busy, Served, Serving, Running, Wanted, Holding, Connection, Connected,
         virtual_read_callback, IsCloseRequest, app, mac, win, sndio, past
<1>5. Connection'
  BY DEF PhaseTypes, DataTypes, Present, Busy, Streams, Connection, Connected,
         virtual_read_callback, IsCloseRequest, app, mac, win, sndio, past
<1>6. Patience'
  <2>1. /\ UNCHANGED <<backend, pc, opened, forced, foreign, stray>>
        /\ checked = "none" /\ checked' \in {port[1], "none"}
    BY DEF virtual_read_callback, app, past, DataTypes
  <2>2. port \in Seq({"data", "close"}) /\ port # <<>> /\ port' = Tail(port)
    BY DEF virtual_read_callback, DataTypes
  <2>3. /\ 1 \in 1..Len(port)
        /\ \A i \in 1..Len(port') : /\ port'[i] = port[i + 1] /\ i \in Int
                                    /\ i + 1 \in 1..Len(port) /\ i + 1 # 1
    BY <2>2
  <2>4. CloseIsComing' => CloseIsComing
    BY <2>1, <2>3 DEF CloseIsComing, IsCloseRequest
  <2>5. ASSUME ~forced, ~foreign, NEW i \in 1..Len(port'), IsCloseRequest(port'[i])
        PROVE  /\ checked' # "close"
               /\ \A j \in 1..Len(port') : IsCloseRequest(port'[j]) => j = i
    <3>1. IsCloseRequest(port[i + 1]) /\ ~IsCloseRequest(port[1])
      BY <2>3, <2>5 DEF Patience
    <3>2. ASSUME NEW j \in 1..Len(port'), IsCloseRequest(port'[j])
          PROVE  j = i
      <4>1. j + 1 = i + 1
        BY <2>3, <2>5, <3>1, <3>2 DEF Patience
      <4> QED  BY <4>1, <2>3
    <3> QED  BY <2>1, <3>1, <3>2 DEF IsCloseRequest
  <2> QED  BY <2>1, <2>4, <2>5 DEF Patience
<1>7. Handle'
  BY DEF Present, Busy, Handle, virtual_read_callback, IsCloseRequest, app, mac, win, sndio, past
<1> QED  BY <1>1, <1>2, <1>3, <1>4, <1>5, <1>6, <1>7

\* The packets of another program can include close requests.
LEMMA ArriveKeeps ==
  ASSUME IInv, Arrive PROVE IInv'
<1> USE DEF IInv, Shape, Virtual, TypeOK
<1>1. port' \in Seq({"data", "close"})
  <2>1. port \in Seq({"data", "close"})
    BY DEF DataTypes
  <2>2. port' = Append(port, "data") \/ port' = Append(port, "close")
    BY DEF Arrive
  <2> QED  BY <2>1, <2>2
<1>2. TypeOK'
  BY <1>1 DEF PhaseTypes, StreamTypes, DataTypes, Arrive, app, win, sndio
<1>3. Shape' /\ Present' /\ Connection'
  BY DEF Present, Busy, Holding, Connection, Connected, Arrive, app, win, sndio
<1>4. (~forced /\ ~failed => Served)'
  BY DEF Served, Serving, Running, Wanted, Holding, Arrive, app, past, sndio
<1>5. Patience'
  <2>1. UNCHANGED <<backend, pc, opened, checked, forced>>
    BY DEF Arrive, app, past
  <2>2. CASE port' = Append(port, "data") /\ UNCHANGED past
    <3>1. /\ Len(port') = Len(port) + 1 /\ port'[Len(port')] = "data"
          /\ \A i \in 1..Len(port) : port'[i] = port[i] /\ i \in 1..Len(port')
          /\ \A i \in 1..Len(port') : i = Len(port') \/ i \in 1..Len(port)
      BY <2>2 DEF DataTypes
    <3>2. \A i \in 1..Len(port') : IsCloseRequest(port'[i]) =>
             i \in 1..Len(port) /\ IsCloseRequest(port[i])
      BY <3>1 DEF IsCloseRequest
    <3>3. CloseIsComing' => CloseIsComing
      BY <2>1, <3>2 DEF CloseIsComing
    <3> QED  BY <2>1, <2>2, <3>2, <3>3 DEF Patience, past
  <2>3. CASE foreign' = TRUE /\ stray' = TRUE
    BY <2>3 DEF Patience
  <2> QED  BY <2>2, <2>3 DEF Arrive
<1>6. Handle'
  BY DEF Handle, Arrive, app, past, sndio
<1> QED  BY <1>2, <1>3, <1>4, <1>5, <1>6

\* The only close request that was coming has come.
LEMMA ClearOpenedKeeps ==
  ASSUME IInv, ClearOpened PROVE IInv'
<1> USE DEF IInv, Shape, Virtual, TypeOK, IsCloseRequest, ClearOpened
<1>1. TypeOK'
  BY DEF PhaseTypes, StreamTypes, DataTypes, app, win, sndio, past
<1>2. Shape' /\ Present' /\ Connection'
  BY DEF Present, Busy, Holding, Connection, Connected, app, win, sndio, past
<1>3. (~forced /\ ~failed => Served)'
  BY DEF Served, Serving, Running, Wanted, Holding, app, past, sndio
<1>4. Patience'
  <2>1. Virtual /\ CloseIsComing
    BY DEF CloseIsComing
  <2>2. UNCHANGED <<backend, pc, port, forced, foreign, stray>> /\ checked' = "none"
    BY DEF app, past
  <2>3. ~forced /\ ~foreign => ~CloseIsComing'
    BY <2>2 DEF Patience, CloseIsComing
  <2>4. ~stray => pc \notin {"opening", "connected", "open", "closing"}
    BY <2>1 DEF Patience
  <2> QED  BY <2>2, <2>3, <2>4 DEF Patience
<1>5. Handle'
  BY DEF Handle, app, past, sndio
<1> QED  BY <1>1, <1>2, <1>3, <1>4, <1>5

\* Core MIDI.  Close requests in the port are at most one, and go before the next open.
LEMMA CoreMidiKeeps ==
  ASSUME IInv, CoreMidi PROVE IInv'
<1> USE DEF IInv, TypeOK, PhaseTypes, StreamTypes, DataTypes, Shape, Virtual, Present, Busy,
            Holding, Served, Serving, Running, Wanted, Connection, Connected, Patience, Handle,
            CloseIsComing, IsCloseRequest, Streams, app, mac, win, sndio, past
<1>1. CASE midi_in_open
  BY <1>1, midi_in_openKeeps
<1>2. CASE DisconnectSource
  BY <1>2, SMTT(40) DEF DisconnectSource, Disconnect, StaysConnected, StreamIsQuiet, Trouble
<1>3. CASE SendClose
  BY <1>3, SendCloseKeeps
<1>4. CASE WaitForClose
  BY <1>4, SMTT(40) DEF WaitForClose, Acknowledged, Trouble
<1>5. CASE Arrive
  BY <1>5, ArriveKeeps
<1>6. CASE virtual_read_callback
  BY <1>6, virtual_read_callbackKeeps
<1>7. CASE TakeInternal
  BY <1>7, SMTT(40) DEF TakeInternal
<1>8. CASE device_read_callback
  BY <1>8, SMTT(40) DEF device_read_callback
<1>9. CASE ClearOpened
  BY <1>9, ClearOpenedKeeps
<1> QED  BY <1>1, <1>2, <1>3, <1>4, <1>5, <1>6, <1>7, <1>8, <1>9 DEF CoreMidi

\* One step per part of the invariant.
LEMMA in_openKeeps ==
  ASSUME IInv, in_open PROVE IInv'
<1> USE DEF IInv, Shape, Virtual, TypeOK
<1>1. TypeOK'
  BY DEF PhaseTypes, StreamTypes, DataTypes, Streams, Present, Busy, in_open, Connect, NotConnected,
         Trouble, app, mac, win, sndio, past
<1>2. Shape'
  BY DEF in_open, Connect, NotConnected, Trouble, app, mac, win, sndio, past
<1>3. Present'
  BY DEF Present, Busy, Holding, Streams, StreamTypes, in_open, Connect, NotConnected, Trouble, app,
         mac, win, sndio, past
<1>4. (~forced /\ ~failed => Served)'
  BY DEF Present, Busy, Served, Serving, Running, Wanted, Holding, Connection, Connected,
         in_open, Connect, NotConnected, Trouble, app, mac, win, sndio, past
<1>5. Connection'
  BY DEF Present, Busy, Streams, Connection, Connected, in_open, Connect, NotConnected, Trouble,
         app, mac, win, sndio, past
<1>6. Patience'
  BY PatienceElsewhere DEF in_open, Connect, NotConnected, Trouble, mac, past
<1>7. Handle'
  BY DEF Present, Busy, Handle, in_open, Connect, NotConnected, Trouble, app, mac, win, sndio, past
<1> QED  BY <1>1, <1>2, <1>3, <1>4, <1>5, <1>6, <1>7

\* Haiku.
LEMMA HaikuKeeps ==
  ASSUME IInv, Haiku PROVE IInv'
<1> USE DEF IInv, TypeOK, PhaseTypes, StreamTypes, DataTypes, Shape, Virtual, Present, Busy,
            Holding, Served, Serving, Running, Wanted, Connection, Connected, Patience, Handle,
            CloseIsComing, IsCloseRequest, Streams, app, mac, win, sndio, past
<1>1. CASE in_open
  BY <1>1, in_openKeeps
<1>2. CASE in_close
  BY <1>2, SMTT(40) DEF in_close, Disconnect, StaysConnected, StreamIsQuiet, Trouble
<1> QED  BY <1>1, <1>2 DEF Haiku

\* One step per part of the invariant.
LEMMA winmm_in_openKeeps ==
  ASSUME IInv, winmm_in_open PROVE IInv'
<1> USE DEF IInv, Shape, Virtual, TypeOK
<1>1. TypeOK'
  <2>1. PhaseTypes'
    BY DEF PhaseTypes, winmm_in_open, Connect, Trouble, InputBuffers, app, mac, win, sndio, past
  <2>2. StreamTypes'
    BY DEF PhaseTypes, StreamTypes, Streams, Present, Busy, winmm_in_open, Connect, Trouble,
           InputBuffers, app, mac, win, sndio, past
  <2>3. DataTypes'
    BY DEF DataTypes, Connection, Connected, Streams, winmm_in_open, Connect, Trouble, InputBuffers,
           app, mac, win, sndio, past
  <2> QED  BY <2>1, <2>2, <2>3
<1>2. Shape'
  BY DEF winmm_in_open, Connect, Trouble, InputBuffers, app, mac, win, sndio, past
<1>3. Present'
  BY DEF Present, Busy, Holding, Streams, StreamTypes, winmm_in_open, Connect, Trouble,
         InputBuffers, app, mac, win, sndio, past
<1>4. (~forced /\ ~failed => Served)'
  BY DEF Present, Busy, Served, Serving, Running, Wanted, Holding, Connection, Connected,
         winmm_in_open, Connect, Trouble, InputBuffers, app, mac, win, sndio, past
<1>5. Connection'
  BY DEF PhaseTypes, DataTypes, Present, Busy, Streams, Connection, Connected, winmm_in_open,
         Connect, Trouble, InputBuffers, app, mac, win, sndio, past
<1>6. Patience'
  BY DEF Patience, CloseIsComing, IsCloseRequest, winmm_in_open, Connect, Trouble, InputBuffers,
         app, mac, win, sndio, past
<1>7. Handle'
  BY DEF Present, Busy, Handle, winmm_in_open, Connect, Trouble, InputBuffers, app, mac, win,
         sndio, past
<1> QED  BY <1>1, <1>2, <1>3, <1>4, <1>5, <1>6, <1>7

\* One step per part of the invariant.
LEMMA winmm_in_callbackKeeps ==
  ASSUME IInv, winmm_in_callback PROVE IInv'
<1> USE DEF IInv, Shape, Virtual, TypeOK
<1>1. TypeOK'
  <2>1. PhaseTypes'
    BY DEF PhaseTypes, winmm_in_callback, Trouble, app, mac, win, sndio, past
  <2>2. StreamTypes'
    BY DEF PhaseTypes, StreamTypes, Streams, Present, Busy, winmm_in_callback, Trouble, app, mac,
           win, sndio, past
  <2>3. DataTypes'
    BY DEF DataTypes, Connection, Connected, Streams, winmm_in_callback, Trouble, app, mac, win,
           sndio, past
  <2> QED  BY <2>1, <2>2, <2>3
<1>2. Shape'
  BY DEF winmm_in_callback, Trouble, app, mac, win, sndio, past
<1>3. Present'
  BY DEF Present, Busy, Holding, Streams, StreamTypes, winmm_in_callback, Trouble, app, mac, win,
         sndio, past
<1>4. (~forced /\ ~failed => Served)'
  BY DEF Present, Busy, Served, Serving, Running, Wanted, Holding, Connection, Connected,
         winmm_in_callback, Trouble, app, mac, win, sndio, past
<1>5. Connection'
  <2>1. held = "none"  BY DEF DataTypes, Connection, winmm_in_callback
  <2>2. CASE using' = {source} /\ UNCHANGED <<win, past>>
    BY <2>1, <2>2 DEF DataTypes, Connection, Connected, winmm_in_callback, app, mac, win
  <2>3. CASE buffers > 0 /\ buffers' = buffers - 1 /\ held' = "filled" /\ using' = {source}
             /\ lost' = lost
    BY <2>1, <2>3 DEF DataTypes, Connection, Connected, winmm_in_callback, app, mac
  <2>4. CASE buffers > 0 /\ buffers' = buffers - 1 /\ lost' = lost + 1 /\ held' = held
             /\ using' = using
    BY <2>1, <2>4 DEF DataTypes, Connection, Connected, winmm_in_callback, app, mac
  <2> QED  BY <2>2, <2>3, <2>4 DEF winmm_in_callback, win
<1>6. Patience'
  BY DEF Patience, CloseIsComing, IsCloseRequest, winmm_in_callback, Trouble, app, mac, win, sndio,
         past
<1>7. Handle'
  BY DEF Present, Busy, Handle, winmm_in_callback, Trouble, app, mac, win, sndio, past
<1> QED  BY <1>1, <1>2, <1>3, <1>4, <1>5, <1>6, <1>7

\* One step per part of the invariant.
LEMMA LongDataDoneKeeps ==
  ASSUME IInv, LongDataDone PROVE IInv'
<1> USE DEF IInv, Shape, Virtual, TypeOK
<1>1. TypeOK'
  <2>1. PhaseTypes'
    BY DEF PhaseTypes, LongDataDone, GivenBack, app, mac, win, sndio, past
  <2>2. StreamTypes'
    BY DEF PhaseTypes, StreamTypes, Streams, Present, Busy, LongDataDone, GivenBack, app, mac, win,
           sndio, past
  <2>3. DataTypes'
    BY DEF DataTypes, Connection, Connected, Streams, PhaseTypes, Present, Busy, LongDataDone,
           GivenBack, app, mac, win, sndio, past
  <2> QED  BY <2>1, <2>2, <2>3
<1>2. Shape'
  BY DEF LongDataDone, GivenBack, app, mac, win, sndio, past
<1>3. Present'
  BY DEF Present, Busy, Holding, Streams, StreamTypes, LongDataDone, GivenBack, app, mac, win,
         sndio, past
<1>4. (~forced /\ ~failed => Served)'
  BY DEF Present, Busy, Served, Serving, Running, Wanted, Holding, Connection, Connected,
         LongDataDone, GivenBack, app, mac, win, sndio, past
<1>5. Connection'
  BY DEF PhaseTypes, DataTypes, Present, Busy, Streams, Connection, Connected, LongDataDone,
         GivenBack, app, mac, win, sndio, past
<1>6. Patience'
  BY DEF Patience, CloseIsComing, IsCloseRequest, LongDataDone, GivenBack, app, mac, win, sndio,
         past
<1>7. Handle'
  BY DEF Present, Busy, Handle, LongDataDone, GivenBack, app, mac, win, sndio, past
<1> QED  BY <1>1, <1>2, <1>3, <1>4, <1>5, <1>6, <1>7

\* One step per part of the invariant.
LEMMA midiInResetKeeps ==
  ASSUME IInv, midiInReset PROVE IInv'
<1> USE DEF IInv, Shape, Virtual, TypeOK
<1>1. TypeOK'
  <2>1. PhaseTypes'
    BY DEF PhaseTypes, midiInReset, app, mac, win, sndio, past
  <2>2. StreamTypes'
    BY DEF PhaseTypes, StreamTypes, Streams, Present, Busy, midiInReset, app, mac, win, sndio, past
  <2>3. DataTypes'
    BY DEF DataTypes, Connection, Connected, Streams, midiInReset, app, mac, win, sndio, past
  <2> QED  BY <2>1, <2>2, <2>3
<1>2. Shape'
  BY DEF midiInReset, app, mac, win, sndio, past
<1>3. Present'
  BY DEF Present, Busy, Holding, Streams, StreamTypes, midiInReset, app, mac, win, sndio, past
<1>4. (~forced /\ ~failed => Served)'
  BY DEF Present, Busy, Served, Serving, Running, Wanted, Holding, Connection, Connected,
         midiInReset, app, mac, win, sndio, past
<1>5. Connection'
  <2>1. backend = "winmm" /\ source # 0 /\ held = "none" /\ pc = "resetting"
    BY DEF Present, Busy, Streams, Connection, Connected, midiInReset
  <2>2. CASE /\ buffers' = buffers - 1 /\ held' = "empty" /\ using' = {source}
             /\ UNCHANGED <<pc, source>>
    BY <2>1, <2>2 DEF DataTypes, Connection, Connected, midiInReset
  <2>3. CASE pc' = "quiet" /\ source' = 0 /\ UNCHANGED <<buffers, held, using>>
    BY <2>1, <2>3 DEF DataTypes, Connection, Connected, midiInReset
  <2> QED  BY <2>2, <2>3 DEF midiInReset
<1>6. Patience'
  BY DEF Patience, CloseIsComing, IsCloseRequest, midiInReset, app, mac, win, sndio, past
<1>7. Handle'
  BY DEF Present, Busy, Handle, midiInReset, app, mac, win, sndio, past
<1> QED  BY <1>1, <1>2, <1>3, <1>4, <1>5, <1>6, <1>7

\* WinMM.  A buffer in the callback counts as one of the driver's.
LEMMA WinMMKeeps ==
  ASSUME IInv, WinMM PROVE IInv'
<1> USE DEF IInv, TypeOK, PhaseTypes, StreamTypes, DataTypes, Shape, Virtual, Present, Busy,
            Holding, Served, Serving, Running, Wanted, Connection, Connected, Patience, Handle,
            CloseIsComing, IsCloseRequest, Streams, app, mac, win, sndio, past
<1>1. CASE winmm_in_open
  BY <1>1, winmm_in_openKeeps
<1>2. CASE winmm_in_callback
  BY <1>2, winmm_in_callbackKeeps
<1>3. CASE LongDataDone
  BY <1>3, LongDataDoneKeeps
<1>4. CASE winmm_in_close
  BY <1>4, SMTT(40) DEF winmm_in_close, Trouble
<1>5. CASE midiInReset
  BY <1>5, midiInResetKeeps
<1> QED  BY <1>1, <1>2, <1>3, <1>4, <1>5 DEF WinMM

\* One round of the loop of an input thread.
LEMMA input_threadKeeps ==
  ASSUME IInv, NEW s \in Streams, input_thread(s) PROVE IInv'
<1> USE DEF IInv, Shape, Virtual, TypeOK
<1>1. TypeOK'
  BY DEF PhaseTypes, StreamTypes, DataTypes, input_thread, app, mac, win, sndio, past
<1>2. Shape' /\ Present' /\ Connection'
  BY DEF Present, Busy, Holding, Connection, Connected, input_thread, app, mac, win
<1>3. Patience'
  <2>1. UNCHANGED <<backend, pc, opened, port, checked, forced, foreign, stray>>
    BY DEF input_thread, app, mac, past
  <2> QED  BY <2>1, PatienceUndisturbed
<1>4. (~forced /\ ~failed => Served)'
  <2>1. UNCHANGED <<backend, app, opened, using, mac, mode, target, forced, failed>>
    BY DEF input_thread, past
  <2>2. \A t \in Streams : Running(t)' => Running(t)
    BY DEF DataTypes, Running, input_thread
  <2> QED
    BY <2>1, <2>2 DEF Served, Serving, Wanted, Holding, app, mac
<1>5. Handle'
  <2>1. UNCHANGED <<backend, pc, task, stream, mode, target, switched>> /\ (stopped => stopped')
    BY DEF input_thread, app, past
  <2> SUFFICES ASSUME backend = "sndio", ~switched, ~stopped', pc \in {"connected", "open"}
               PROVE  thread'[stream] \notin {"none", "ended"}
    BY <2>1 DEF Handle
  <2>2. stream \in Streams /\ thread[stream] \notin {"none", "ended"} /\ "in" \in mode
    BY <2>1 DEF Handle, Present, Busy
  <2> QED  BY <2>2 DEF DataTypes, input_thread
<1> QED  BY <1>1, <1>2, <1>3, <1>4, <1>5

\* One step per part of the invariant.
LEMMA SwitchOutputKeeps ==
  ASSUME IInv, SwitchOutput PROVE IInv'
<1> USE DEF IInv, Shape, Virtual, TypeOK
<1>1. TypeOK'
  BY DEF PhaseTypes, StreamTypes, DataTypes, Streams, Present, Busy, SwitchOutput, Call, app, mac,
         win, sndio, past
<1>2. Shape'
  BY DEF SwitchOutput, Call, app, mac, win, sndio, past
<1>3. Present'
  BY DEF Present, Busy, Holding, Streams, StreamTypes, SwitchOutput, Call, app, mac, win,
         sndio, past
<1>4. (~forced /\ ~failed => Served)'
  BY DEF Present, Busy, Served, Serving, Running, Wanted, Holding, Connection, Connected,
         SwitchOutput, Call, app, mac, win, sndio, past
<1>5. Connection'
  BY DEF Present, Busy, Streams, Connection, Connected, SwitchOutput, Call, app, mac, win,
         sndio, past
<1>6. Patience'
  BY PatienceElsewhere DEF SwitchOutput, Call, mac, past
<1>7. Handle'
  BY DEF Present, Busy, Handle, SwitchOutput, Call, app, mac, win, sndio, past
<1> QED  BY <1>1, <1>2, <1>3, <1>4, <1>5, <1>6, <1>7

\* One step per part of the invariant.
LEMMA set_modeKeeps ==
  ASSUME IInv, set_mode PROVE IInv'
<1> USE DEF IInv, Shape, Virtual, TypeOK
<1>1. TypeOK'
  BY DEF PhaseTypes, StreamTypes, DataTypes, Streams, Present, Busy, set_mode, Returns, Trouble,
         app, mac, win, sndio, past
<1>2. Shape'
  BY DEF set_mode, Returns, Trouble, app, mac, win, sndio, past
<1>3. Present'
  BY DEF Present, Busy, Holding, Streams, StreamTypes, set_mode, Returns, Trouble, app, mac, win,
         sndio, past
<1>4. (~forced /\ ~failed => Served)'
  BY DEF Present, Busy, Served, Serving, Running, Wanted, Holding, Connection, Connected,
         set_mode, Returns, Trouble, app, mac, win, sndio, past
<1>5. Connection'
  BY DEF Present, Busy, Streams, Connection, Connected, set_mode, Returns, Trouble, app, mac, win,
         sndio, past
<1>6. Patience'
  BY PatienceElsewhere DEF set_mode, Returns, Trouble, mac, past
<1>7. Handle'
  BY DEF Present, Busy, Handle, set_mode, Returns, Trouble, app, mac, win, sndio, past
<1> QED  BY <1>1, <1>2, <1>3, <1>4, <1>5, <1>6, <1>7

\* sndio.  A thread that runs belongs to the stream that is open, which joins it.
LEMMA SndioKeeps ==
  ASSUME IInv, Sndio PROVE IInv'
<1> USE DEF IInv, TypeOK, PhaseTypes, StreamTypes, DataTypes, Shape, Virtual, Present, Busy,
            Holding, Served, Serving, Running, Wanted, Connection, Connected, Patience, Handle,
            CloseIsComing, IsCloseRequest, Streams, app, mac, win, sndio, past
<1>1. CASE sndio_in_open
  BY <1>1, SMTT(40) DEF sndio_in_open, Call
<1>2. CASE sndio_in_close
  BY <1>2, ZenonT(40) DEF sndio_in_close, Call
<1>3. CASE SwitchOutput
  BY <1>3, SwitchOutputKeeps
<1>4. CASE set_mode
  BY <1>4, set_modeKeeps
<1>5. CASE pthread_create
  BY <1>5, SMTT(40) DEF pthread_create
<1>6. CASE pthread_join
  BY <1>6, SMTT(40) DEF pthread_join, Joined
<1>7. CASE \E s \in Streams : input_thread(s)
  BY <1>7, input_threadKeeps
<1> QED  BY <1>1, <1>2, <1>3, <1>4, <1>5, <1>6, <1>7 DEF Sndio

LEMMA CallbackDoneKeeps ==
  ASSUME IInv, CallbackDone PROVE IInv'
<1> USE DEF IInv, Shape, Virtual, TypeOK
<1>1. TypeOK' /\ Shape' /\ Present' /\ Connection' /\ Handle'
  BY DEF PhaseTypes, StreamTypes, DataTypes, Present, Busy, Holding, Connection, Connected, Handle,
         CallbackDone, app, mac, win, sndio, past
<1>2. Patience'
  BY PatienceUndisturbed DEF CallbackDone, app, mac, past
<1>3. (~forced /\ ~failed => Served)'
  BY DEF Served, Serving, Running, Wanted, Holding, CallbackDone, app, mac, win, sndio, past
<1> QED  BY <1>1, <1>2, <1>3

LEMMA StutterKeeps ==
  ASSUME IInv, UNCHANGED vars PROVE IInv'
<1> USE DEF IInv, Shape, Virtual, TypeOK
<1>1. TypeOK' /\ Shape' /\ Present' /\ Connection' /\ Handle'
  BY DEF PhaseTypes, StreamTypes, DataTypes, Present, Busy, Holding, Connection, Connected, Handle,
         vars, app, mac, win, sndio, past
<1>2. Patience'
  BY PatienceUndisturbed DEF vars, app, mac, past
<1>3. (~forced /\ ~failed => Served)'
  BY DEF Served, Serving, Running, Wanted, Holding, vars, app, mac, win, sndio, past
<1> QED  BY <1>1, <1>2, <1>3

LEMMA Initially == Init => IInv
<1> SUFFICES ASSUME Init PROVE IInv
  OBVIOUS
<1> USE DEF Init, Virtual
<1>1. TypeOK
  BY DEF TypeOK, PhaseTypes, StreamTypes, DataTypes
<1>2. Shape /\ Present /\ Connection /\ Handle
  BY DEF Shape, Present, Busy, Holding, Connection, Connected, Handle, Streams
<1>3. Patience
  BY DEF Patience, CloseIsComing, IsCloseRequest
<1>4. Served
  BY DEF Served, Serving, Running, Wanted, Holding
<1> QED  BY <1>1, <1>2, <1>3, <1>4 DEF IInv

LEMMA Inductive == Spec => []IInv
<1>1. IInv /\ [Next]_vars => IInv'
  BY CommonKeeps, CoreMidiKeeps, HaikuKeeps, CallbackDoneKeeps, WinMMKeeps, SndioKeeps, StutterKeeps
     DEF Next
<1> QED  BY <1>1, Initially, PTL DEF Spec

\* The types of the application's state and that of the five backends, for any bounds; in
\* particular the driver never has more buffers than winmm_in_open has given it.
THEOREM TypeCorrect == Spec => []TypeOK
<1>1. IInv => TypeOK
  BY DEF IInv
<1> QED  BY <1>1, Inductive, PTL

\* No callback, and no input thread that has data, ever works on a stream that has been freed or
\* whose api_info has; the exceptions are in the comment of CallbackFindsStream.
THEOREM StreamIsFound == Spec => []CallbackFindsStream
<1>1. IInv => CallbackFindsStream
  BY DEF IInv, Present, Busy, Holding, Served, Serving, Running, CallbackFindsStream
<1> QED  BY <1>1, Inductive, PTL

\* An open input stream is served: the device names it, its backend calls back for it, no buffer of
\* WinMM is missing but those of MIM_LONGERROR; and unless one of the events happened that the
\* comment of ServedWhileOpen lists, it is marked as open and the thread of sndio runs.  Stray close
\* requests come only from closes that gave up and from other programs.
THEOREM OpenIsServed == Spec => []ServedWhileOpen
<1>1. IInv => ServedWhileOpen
  BY DEF IInv, TypeOK, PhaseTypes, StreamTypes, DataTypes, Shape, Virtual, Present, Busy,
         Connection, Connected, Patience, Handle, ServedWhileOpen, Streams
<1> QED  BY <1>1, Inductive, PTL
===============================================================================
