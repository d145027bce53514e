--------------------------- MODULE AudioPipeline ---------------------------
(***************************************************************************)
(* The audio path of a media source that preview and export share          *)
(* (src/audio/production_audio_media_pipeline.cpp): one decoder, one       *)
(* published snapshot, and the revision an export freezes. A pipeline is a *)
(* record; each operator is a call under its render_mutex. The decoder     *)
(* (FFmpeg) is external: it gives the packets of the source one after      *)
(* another and seeks to the packet of a time or to the one before.         *)
(* Times are in units of which Second make a second.                       *)
(***************************************************************************)
EXTENDS Integers, Sequences, FiniteSetsExt

CONSTANTS Rate, Second,   \* samples and time units in a second
          Packets         \* the samples of each packet of the source

ASSUME AudioAssumption ==
  /\ Rate \in Nat \ {0} /\ Second \in Nat \ {0} /\ Rate <= Second
  /\ Packets \in Seq(Nat \ {0}) /\ Packets # <<>>

(* Packet i holds the samples from PacketEnd[i - 1] up to PacketEnd[i].    *)
PacketEnd[i \in 0..Len(Packets)] == IF i = 0 THEN 0 ELSE PacketEnd[i - 1] + Packets[i]
Total == PacketEnd[Len(Packets)]

(* Mutant: the time of a sample is rounded up. *)
TimeRoundedUp(sample) == (sample * Second + Rate - 1) \div Rate

(* The first sample at or after a time, and the time of a sample.          *)
AtOrAfter(us)  == (us * Rate + Second - 1) \div Second
TimeOf(sample) == (sample * Second) \div Rate

(* The decoder cursor: streaming, next = the packet the decoder gives, the *)
(* carried packet or 0, and the sample at which the next request would be  *)
(* contiguous. block is what was rendered last.                            *)
NewPipeline ==
  [streaming |-> FALSE, next |-> 1, carry |-> 0, nextRequest |-> 0,
   mode |-> "unknown", locked |-> FALSE, revision |-> 1, duration |-> 0, gain |-> 0,
   block |-> [start |-> 0, frames |-> 0, copied |-> {}]]

(* Where the decoder stands means nothing once it has to be sought.        *)
Reset(p) == [p EXCEPT !.streaming = FALSE, !.next = 1, !.carry = 0, !.nextRequest = 0]

(* Mutant: a snapshot can be published under a running export. *)
CanPublishAlways(p) == TRUE

CanPublish(p) == ~ p.locked
Publish(p, revision, duration, gain) ==
  [Reset(p) EXCEPT !.revision = revision, !.duration = duration, !.gain = gain,
                   !.mode = "unknown"]

CanFreeze(p, revision) == ~ p.locked /\ p.revision = revision
Freeze(p) == [Reset(p) EXCEPT !.locked = TRUE, !.mode = "unknown"]
Thaw(p)   == [Reset(p) EXCEPT !.locked = FALSE, !.mode = "unknown"]

(* The packets a seek may land on. *)
Landings(us) ==
  LET at == Max({1} \union {i \in DOMAIN Packets : TimeOf(PacketEnd[i - 1]) <= us})
  IN {at} \union ({at - 1} \ {0})

(* Mutant: a cursor that streams is never sought again. *)
SoughtOnce(p, us, start) ==
  IF p.streaming THEN {p}
  ELSE {[p EXCEPT !.streaming = TRUE, !.carry = 0, !.next = i] : i \in Landings(us)}

(* The decoder is sought unless the request continues the last one.        *)
Sought(p, us, start) ==
  IF p.streaming /\ start = p.nextRequest THEN {p}
  ELSE {[p EXCEPT !.streaming = TRUE, !.carry = 0, !.next = i] : i \in Landings(us)}

(* render_source after the seek: packets are taken until one reaches the   *)
(* end of the request and is carried over if it goes beyond; without such  *)
(* a packet the source has ended and streaming with it.                    *)
Read(p, start, frames) ==
  LET end   == start + frames
      first == IF p.carry # 0 THEN p.carry ELSE p.next
      given == first..Len(Packets)
      reach == {i \in given : PacketEnd[i] >= end}
      last  == IF reach = {} THEN Len(Packets) ELSE Min(reach)
      taken == {s \in start..end - 1 :
                  \E i \in first..last : s \in PacketEnd[i - 1] .. PacketEnd[i] - 1}
  IN [p EXCEPT !.streaming   = reach # {},
               !.next        = last + 1,
               !.carry       = IF reach # {} /\ PacketEnd[last] > end THEN last ELSE 0,
               !.nextRequest = end,
               !.block       = [start |-> start, frames |-> frames, copied |-> taken]]

(* render(): a change between playback and export drops the cursor; past   *)
(* the end of the only clip the source is not asked.                       *)
InMode(p, mode) == IF p.mode = mode THEN p ELSE [Reset(p) EXCEPT !.mode = mode]
Render(p, mode, us, frames) ==
  LET q == InMode(p, mode)
      start == AtOrAfter(us)
  IN IF q.duration > 0 /\ us >= q.duration
     THEN {[q EXCEPT !.block = [start |-> start, frames |-> 0, copied |-> {}]]}
     ELSE {Read(r, start, frames) : r \in Sought(q, us, start)}
RenderFails(p, mode) == Reset(InMode(p, mode))

(* Every block is the source: all its samples in the range the caller      *)
(* asked for and silence past the end, whatever cursor the last client,    *)
(* seek or snapshot left behind (render_source, the carried packet).       *)
BlockIsSource(p) ==
  p.block.copied = (p.block.start .. p.block.start + p.block.frames - 1)
                     \intersect 0..Total - 1
=============================================================================
