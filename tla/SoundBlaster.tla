----------------------------- MODULE SoundBlaster -----------------------------
(***************************************************************************)
(* The Sound Blaster drivers (device/sound/soundblaster) and the DMA       *)
(* controller that they program (device/isa): playPcmData() of the four    *)
(* cards with its two halves of the DMA buffer, and stopPlayback() from    *)
(* another thread.  Calls of playPcmData() are serialised by soundLock.    *)
(*                                                                         *)
(* The data are blocks of half a buffer, numbered from 1; the last one is  *)
(* filled up with silence.  A file shorter than the buffer is one block.   *)
(***************************************************************************)
EXTENDS Integers, Sequences, SequencesExt

CONSTANTS
  Cards,       \* "1", "2", "Pro" and "16": initialize() goes by the major version
  Formats,     \* PCM formats: channels, bits, rate, and the number of blocks
  MaxPlays,    \* bound: calls of playPcmData()
  Base,        \* physical address of dmaMemory
  Half         \* 0x8000

Silence == 0

VARIABLES
  card,
  pc, pcm,             \* playPcmData()
  next, firstBlock,    \* the block to copy next, and whether into the first half
  stop, stopPlaying, receivedInterrupt,
  dmaMemory,           \* the block in each half
  channel,             \* registers of the DMA channel: address and count
  dsp,                 \* what the card is doing
  stereo,              \* the mixer
  played, missed,      \* blocks that the card has played; the card was ahead of the thread
  plays

playVars == <<pc, pcm, next, firstBlock, stop>>
cardVars == <<card, channel, dsp, stereo>>
vars == <<playVars, stopPlaying, receivedInterrupt, dmaMemory, cardVars, played, missed, plays>>

Silent == [busy |-> FALSE, auto |-> FALSE, ending |-> FALSE, half |-> 0, speaker |-> card = "16"]

Init ==
  /\ card \in Cards
  /\ pc = "idle" /\ pcm = (CHOOSE f \in Formats : TRUE) /\ next = 0 /\ firstBlock = TRUE /\ stop = FALSE
  /\ stopPlaying = FALSE /\ receivedInterrupt = FALSE
  /\ dmaMemory = <<Silence, Silence>>
  /\ channel = [address |-> 0, count |-> 0]
  /\ dsp = Silent
  /\ stereo = FALSE
  /\ played = <<>> /\ missed = FALSE
  /\ plays = 0

-----------------------------------------------------------------------------
(* The first test of playPcmData() of each card.                            *)
accepts(f) ==
  CASE card = "1" -> f.channels = 1 /\ f.bits = 8 /\ f.rate \in 4000 .. 23000
    [] card = "2" -> f.channels = 1 /\ f.bits = 8 /\ f.rate \in 4000 .. 44100
    [] card = "Pro" -> /\ f.channels <= 2 /\ f.bits = 8 /\ f.rate \in 4000 .. 44100
                       /\ f.channels = 2 => f.rate \in {11025, 22050}
    [] card = "16" -> f.channels <= 2 /\ f.bits \in {8, 16} /\ f.rate \in 5000 .. 44100

(* Isa::setAddress(): two bytes and four bits of page, for addresses of the *)
(* first 16 MB; setCount(): 16 bits.                                        *)
setAddress(address) == (address % 65536) + 65536 * ((address \div 65536) % 16)
setCount(count) == count % 65536

(* prepareDma(): a single transfer from the address on.                     *)
prepareDma(offset, size) ==
  channel' = [address |-> setAddress(Base + offset), count |-> setCount(size - 1)]

(* The half of the buffer that the channel starts with.                     *)
firstHalf == (channel'.address - Base) \div Half

(* How many halves the channel goes through before it starts again.         *)
halves == IF channel.count < Half THEN 1 ELSE 2

(* playPcmData() up to its loop, for the Pro with enableStereo() in it.     *)
Play(f) ==
  /\ pc = "idle" /\ plays < MaxPlays
  /\ plays' = plays + 1
  /\ IF accepts(f)
       THEN /\ pcm' = f /\ stopPlaying' = FALSE
            /\ played' = <<>> /\ missed' = dsp.busy
            /\ dsp' = [dsp EXCEPT !.speaker = TRUE]
            /\ pc' = IF card = "Pro" /\ f.channels = 2 THEN "stereo" ELSE "first"
       ELSE UNCHANGED <<pc, pcm, stopPlaying, played, missed, dsp>>
  /\ UNCHANGED <<card, next, firstBlock, stop, receivedInterrupt, dmaMemory, channel, stereo>>

(* enableStereo(): a silent byte is played, and its interrupt waited for.   *)
EnableStereo ==
  /\ pc = "stereo"
  /\ stereo' = TRUE
  /\ dmaMemory' = <<Silence, dmaMemory[2]>>
  /\ prepareDma(0, 2)
  /\ dsp' = [dsp EXCEPT !.busy = TRUE, !.auto = FALSE, !.ending = FALSE, !.half = 0]
  /\ pc' = "stereoClear"
  /\ UNCHANGED <<card, pcm, next, firstBlock, stop, stopPlaying, receivedInterrupt, played, missed, plays>>

StereoReady ==
  /\ \/ pc = "stereoClear" /\ receivedInterrupt' = FALSE /\ pc' = "stereoWait"
     \/ pc = "stereoWait" /\ receivedInterrupt /\ pc' = "first" /\ UNCHANGED receivedInterrupt
  /\ UNCHANGED <<card, pcm, next, firstBlock, stop, stopPlaying, dmaMemory, channel, dsp, stereo, played, missed, plays>>

(* The first blocks are copied.  The first card starts in the loop, the     *)
(* others are started here, to go round the buffer.                         *)
First ==
  /\ pc = "first"
  /\ firstBlock' = TRUE /\ stop' = FALSE
  /\ IF card = "1"
       THEN /\ dmaMemory' = <<1, dmaMemory[2]>>
            /\ next' = 2
            /\ UNCHANGED <<channel, dsp>>
       ELSE /\ dmaMemory' = <<1, IF pcm.blocks >= 2 THEN 2 ELSE dmaMemory[2]>>
            /\ next' = 3
            /\ prepareDma(0, IF pcm.blocks < 2 THEN Half ELSE 2 * Half)
            /\ dsp' = [dsp EXCEPT !.busy = TRUE, !.auto = TRUE, !.ending = FALSE, !.half = firstHalf]
  /\ pc' = "loop"
  /\ UNCHANGED <<card, pcm, stopPlaying, receivedInterrupt, stereo, played, missed, plays>>

More == next <= pcm.blocks

(* SoundBlaster1: one round of the loop starts the block that was copied,   *)
(* forgets an interrupt, copies the next block and waits.                   *)
Start1 ==
  /\ card = "1" /\ pc = "loop" /\ More /\ ~stopPlaying
  /\ firstBlock' = ~firstBlock
  /\ prepareDma(IF firstBlock THEN 0 ELSE Half, Half)
  /\ dsp' = [dsp EXCEPT !.busy = TRUE, !.auto = FALSE, !.ending = FALSE, !.half = firstHalf]
  /\ pc' = "clear"
  /\ UNCHANGED <<card, pcm, next, stop, stopPlaying, receivedInterrupt, dmaMemory, stereo, played, missed, plays>>

Clear1 ==
  /\ card = "1" /\ pc = "clear"
  /\ receivedInterrupt' = FALSE
  /\ pc' = "copy"
  /\ UNCHANGED <<card, pcm, next, firstBlock, stop, stopPlaying, dmaMemory, channel, dsp, stereo, played, missed, plays>>

Copy1 ==
  /\ card = "1" /\ pc = "copy"
  /\ dmaMemory' = [dmaMemory EXCEPT ![IF firstBlock THEN 1 ELSE 2] = next]
  /\ next' = next + 1
  /\ pc' = "wait"
  /\ UNCHANGED <<card, pcm, firstBlock, stop, stopPlaying, receivedInterrupt, channel, dsp, stereo, played, missed, plays>>

Wait1 ==
  /\ card = "1" /\ pc = "wait" /\ receivedInterrupt
  /\ pc' = "loop"
  /\ UNCHANGED <<card, pcm, next, firstBlock, stop, stopPlaying, receivedInterrupt, dmaMemory, channel, dsp, stereo, played, missed, plays>>

-----------------------------------------------------------------------------
(* The other cards: with the last block the card is told to stop after the  *)
(* half it is playing; an interrupt is forgotten, the next one waited for,  *)
(* and the half that was played is filled again.                            *)
Round ==
  /\ card # "1" /\ pc = "loop" /\ More /\ ~stop
  /\ stop' = (next = pcm.blocks \/ stopPlaying)
  /\ dsp' = [dsp EXCEPT !.ending = @ \/ stop']
  /\ pc' = "clear"
  /\ UNCHANGED <<card, pcm, next, firstBlock, stopPlaying, receivedInterrupt, dmaMemory, channel, stereo, played, missed, plays>>

Clear ==
  /\ card # "1" /\ pc = "clear"
  /\ receivedInterrupt' = FALSE
  /\ pc' = "wait"
  /\ UNCHANGED <<card, pcm, next, firstBlock, stop, stopPlaying, dmaMemory, channel, dsp, stereo, played, missed, plays>>

(* Variant: the halves are not taken in turn.                               *)
CopySame ==
  /\ card # "1" /\ pc = "wait" /\ receivedInterrupt
  /\ dmaMemory' = [dmaMemory EXCEPT ![1] = next]
  /\ next' = next + 1
  /\ pc' = "loop"
  /\ UNCHANGED <<card, pcm, firstBlock, stop, stopPlaying, receivedInterrupt, channel, dsp, stereo, played, missed, plays>>

Copy ==
  /\ card # "1" /\ pc = "wait" /\ receivedInterrupt
  /\ dmaMemory' = [dmaMemory EXCEPT ![IF firstBlock THEN 1 ELSE 2] = next]
  /\ next' = next + 1
  /\ firstBlock' = ~firstBlock
  /\ pc' = "loop"
  /\ UNCHANGED <<card, pcm, stop, stopPlaying, receivedInterrupt, channel, dsp, stereo, played, missed, plays>>

(* The end of playPcmData(): all cards but the 16 stop the card and turn    *)
(* the speaker off.                                                         *)
Finish ==
  /\ pc = "loop"
  /\ ~More \/ (IF card = "1" THEN stopPlaying ELSE stop)
  /\ dsp' = IF card = "16" THEN dsp ELSE [dsp EXCEPT !.ending = TRUE, !.speaker = FALSE]
  /\ stereo' = (stereo /\ ~(card = "Pro" /\ pcm.channels = 2))
  /\ pc' = "idle"
  /\ UNCHANGED <<card, pcm, next, firstBlock, stop, stopPlaying, receivedInterrupt, dmaMemory, channel, played, missed, plays>>

(* stopPlayback(), which on the second card ends the DMA at once.           *)
StopPlayback ==
  /\ stopPlaying' = TRUE
  /\ dsp' = IF card = "2" THEN [dsp EXCEPT !.ending = TRUE] ELSE dsp
  /\ UNCHANGED <<card, playVars, receivedInterrupt, dmaMemory, channel, stereo, played, missed, plays>>

-----------------------------------------------------------------------------
(* The card has played a block; it goes on with the other half, or stops.   *)
(* trigger() notes the interrupt, which is only of use if it is waited for. *)
BlockEnd ==
  /\ dsp.busy
  /\ receivedInterrupt' = TRUE
  /\ missed' = (missed \/ receivedInterrupt \/ pc \notin {"wait", "stereoWait", "copy"})
  /\ played' = IF dsp.speaker /\ ~missed' /\ pc \notin {"stereoClear", "stereoWait"}
                 THEN Append(played, dmaMemory[dsp.half + 1]) ELSE played
  /\ dsp' = [dsp EXCEPT !.busy = dsp.auto /\ ~dsp.ending,
                        !.half = (@ + 1) % halves]
  /\ UNCHANGED <<card, playVars, stopPlaying, dmaMemory, channel, stereo, plays>>

Next ==
  \/ \E f \in Formats : Play(f)
  \/ EnableStereo \/ StereoReady \/ First
  \/ Start1 \/ Clear1 \/ Copy1 \/ Wait1
  \/ Round \/ Clear \/ Copy \/ Finish
  \/ StopPlayback \/ BlockEnd

Spec == Init /\ [][Next]_vars

-----------------------------------------------------------------------------
(* The card plays the file: the blocks from the first on, in order, and     *)
(* each of them once, with the half that is being played left alone, as     *)
(* long as the thread waits for an interrupt before it comes (missed).      *)
PlayedInOrder ==
  ~missed => IsPrefix(played, [i \in 1 .. pcm.blocks |-> i])
=============================================================================
