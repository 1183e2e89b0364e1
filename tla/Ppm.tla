-------------------------------- MODULE Ppm --------------------------------
(* The PPM receiver (rc/pif_rc_ppm.c): the channels of a frame are the times     *)
(* between edges, a longer time separates two frames; an edge may be lost or one *)
(* too many come.                                                                *)
EXTENDS Integers, Sequences

CONSTANTS
  Channels,    \* channels the transmitter sends
  MaxChannel,  \* channels the receiver has room for
  Pulses,      \* the times a channel may have
  Sync,        \* the time between two frames
  Threshold,   \* a time that long separates two frames
  ValidRange,  \* the times that are taken, {} when every time is
  Faults       \* edges that are lost or too many, one in a frame

VARIABLES
  sent,        \* the channels of the frame that have been sent
  broken,      \* whether an edge of the frame was lost or one too many came
  open,        \* time to be added to the next one, as an edge was lost or too many
  faults,
  valid,       \* __time_valid
  step, learn, \* __process_step, __learn_count
  count,       \* _channel_count
  channel,     \* pulses since the last sync: _channel + 1
  error,       \* __frame_error
  work,        \* __p_work
  taken        \* what the last edge has handed out

sender == <<sent, broken, faults>>
decoder == <<valid, step, learn, count, channel, error, work, taken>>
vars == <<sender, open, decoder>>

Init ==
  /\ sent = <<>> /\ broken = TRUE /\ open = 0 /\ faults = Faults
  /\ valid = FALSE /\ step = "wait" /\ learn = 0 /\ count = 0 /\ channel = 0 /\ error = FALSE
  /\ work = [c \in 1..MaxChannel |-> 0] /\ taken = <<>>

-----------------------------------------------------------------------------
(* pifRcPpm_sigTick().                                                       *)

\* _processSync().
ProcessSync ==
  LET n == IF channel > MaxChannel THEN MaxChannel ELSE channel
  IN /\ step' = CASE step = "wait" -> "learn"
                  [] step = "learn" /\ n > 0 /\ n = learn -> "decode"
                  [] OTHER -> step
     /\ learn' = IF step = "learn" THEN n ELSE learn
     /\ count' = IF step = "learn" /\ step' = "decode" THEN n ELSE count
     /\ channel' = 0 /\ error' = FALSE /\ taken' = <<>>
     /\ UNCHANGED work

\* _processPulse(): the frame is handed out with its last channel.
ProcessPulse(time) ==
  LET n == channel + 1
      decodes == step = "decode" /\ n <= MaxChannel
      fits == decodes /\ n <= count /\ (ValidRange # {} => time \in ValidRange)
  IN /\ channel' = IF step = "wait" \/ channel > MaxChannel THEN channel ELSE n
     /\ error' = (error \/ (decodes /\ ~fits))
     /\ work' = IF fits THEN [work EXCEPT ![n] = time] ELSE work
     /\ taken' = IF fits /\ n = count /\ ~error THEN SubSeq(work', 1, count) ELSE <<>>
     /\ UNCHANGED <<step, learn, count>>

\* The first edge has no time.
Edge(time) ==
  /\ valid' = TRUE
  /\ IF ~valid THEN taken' = <<>> /\ UNCHANGED <<step, learn, count, channel, error, work>>
     ELSE IF time >= Threshold THEN ProcessSync ELSE ProcessPulse(time)

\* pifRcPpm_ResetMeasureValue().
ResetMeasureValue ==
  /\ step # "wait"
  /\ valid' = FALSE /\ step' = "wait" /\ learn' = 0 /\ count' = 0 /\ channel' = 0
  /\ error' = FALSE /\ taken' = <<>>
  /\ UNCHANGED <<work, sender, open>>

-----------------------------------------------------------------------------
(* The transmitter and its line.                                             *)

\* The next time the transmitter sends: a channel, or what separates two frames.
Sends(time) ==
  IF Len(sent) < Channels THEN time \in Pulses /\ sent' = Append(sent, time)
                          ELSE time = Sync /\ sent' = <<>>

\* An edge of the transmitter comes; the next frame is broken when the end of this one was
\* not to be seen.
Comes ==
  \E time \in Pulses \cup {Sync} :
  /\ Sends(time) /\ open + time > 0 /\ Edge(open + time)
  /\ open' = 0 /\ broken' = IF time = Sync THEN open + Sync < Threshold ELSE broken
  /\ UNCHANGED faults

Fault == faults > 0 /\ faults' = faults - 1 /\ ~broken /\ broken' = TRUE

Lost == \E time \in Pulses \cup {Sync} :
  /\ Fault /\ Sends(time) /\ open' = time /\ taken' = <<>>
  /\ UNCHANGED <<valid, step, learn, count, channel, error, work>>

\* The edge comes right behind another one, where it makes no time of a channel.
TooMany ==
  /\ Fault /\ Edge(1) /\ open' = -1
  /\ UNCHANGED sent

Next == Comes \/ Lost \/ TooMany \/ ResetMeasureValue

Spec == Init /\ [][Next]_vars

-----------------------------------------------------------------------------
\* What is handed out is the frame that is being sent, and one that is not broken is handed
\* out when its last channel comes.
HandsOutFrames ==
  /\ taken' # <<>> => count <= Len(sent') /\ taken' = SubSeq(sent', 1, count)
  /\ step = "decode" /\ Len(sent') = count /\ Len(sent) < count /\ ~broken' => taken' = sent'

\* One frame that is broken does not set the number of channels.
LearnsRight ==
  step = "decode" => count = IF Channels > MaxChannel THEN MaxChannel ELSE Channels
=============================================================================
