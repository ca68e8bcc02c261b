------------------------------ MODULE RattaRle -------------------------------
(***************************************************************************)
(* The run-length encoding of a page's bitmap (ratta_rle.py): the loop of  *)
(* the encoder over the pixels and that of _encode_run over the chunks of  *)
(* a run, and the loop of the decoder over the encoded pairs.              *)
(*                                                                         *)
(*   bitmap   the pixels, grey values                                      *)
(*   codec    what runs: the count of a run of pixels, the writing of a    *)
(*            run, the reading of pairs, or nothing any more               *)
(*   counted  the pixels that the encoder has been through                 *)
(*   run      the current run, and while it is written what is left of it  *)
(*   data     the encoded pairs <<colour, length byte>>                    *)
(*   decoded  the pairs that the decoder has read                          *)
(*   holder   the pair that it holds until the next one, or NoHolder       *)
(*   image    the pixels that it has made                                  *)
(*                                                                         *)
(* A colour is the grey value of the palette that stands for it.  A length *)
(* byte has Base values without its high bit and Base with it: Base is 128 *)
(* in the code.  The highest byte marks a run of a whole chunk, which the  *)
(* encoder avoids.                                                         *)
(***************************************************************************)
EXTENDS Naturals, Sequences
LOCAL INSTANCE FiniteSetsExt

CONSTANTS
  Base,
  Palette,     \* the grey values of the palette, in its order
  Background,  \* the one of them that pads a short image
  Bitmaps      \* the bitmaps that are encoded

ASSUME BytesHaveAHighBit == Base \in Nat \ {0, 1}
ASSUME BitmapsAreGrey == \A pixels \in Bitmaps : pixels \in Seq(Nat)

VARIABLES bitmap, codec, counted, run, data, decoded, holder, image

encoderVars == <<counted, run, data>>
decoderVars == <<decoded, holder, image>>
rleVars == <<bitmap, codec, counted, run, data, decoded, holder, image>>

MaxChunk == Base * Base
SpecialLengthMarker == 2 * Base - 1

Distance(a, b) == IF a < b THEN b - a ELSE a - b

\* The nearest value of the palette, the first of two.
ColorOf(pixel) ==
  LET best == Min({Distance(pixel, Palette[i]) : i \in DOMAIN Palette})
  IN  Palette[Min({i \in DOMAIN Palette : Distance(pixel, Palette[i]) = best})]

Repeat(color, length) == [i \in 1..length |-> color]

NoHolder == <<>>

(***************************************************************************)
(* encode.                                                                 *)
(***************************************************************************)

\* The run of the first pixel begins when the one before is written.
CountPixel ==
  /\ codec = "count" /\ counted < Len(bitmap)
  /\ LET color == ColorOf(bitmap[counted + 1])
     IN  /\ run.length > 0 => color = run.color
         /\ run' = [color |-> color, length |-> run.length + 1]
  /\ counted' = counted + 1
  /\ UNCHANGED <<bitmap, codec, data, decoderVars>>

RunEnds ==
  /\ codec = "count" /\ run.length > 0
  /\ counted < Len(bitmap) => ColorOf(bitmap[counted + 1]) # run.color
  /\ codec' = "write"
  /\ UNCHANGED <<bitmap, encoderVars, decoderVars>>

\* Mutant: the chunk is taken for one pixel longer than it is.
EncodeChunkOffByOne(color, chunk) ==
  IF chunk <= Base
    THEN <<(<<color, chunk - 1>>)>>
    ELSE <<<<color, (chunk \div Base - 1) + Base>>, <<color, chunk % Base>>>>

\* One pair, or a pair that is held and the one that continues it.
EncodeChunk(color, chunk) ==
  IF chunk <= Base
    THEN <<(<<color, chunk - 1>>)>>
    ELSE <<<<color, ((chunk - 1) \div Base - 1) + Base>>, <<color, (chunk - 1) % Base>>>>

EncodeRun ==
  LET chunk == IF run.length < MaxChunk THEN run.length ELSE MaxChunk
  IN  /\ codec = "write"
      /\ data' = data \o EncodeChunk(run.color, chunk)
      /\ run' = [run EXCEPT !.length = @ - chunk]
      /\ codec' = IF run.length = chunk THEN "count" ELSE "write"
      /\ UNCHANGED <<bitmap, counted, decoderVars>>

(***************************************************************************)
(* decode.                                                                 *)
(***************************************************************************)

StartDecoding ==
  /\ codec = "count" /\ counted = Len(bitmap) /\ run.length = 0
  /\ codec' = "read"
  /\ UNCHANGED <<bitmap, encoderVars, decoderVars>>

\* The pixels that a held pair stands for.
HeldLength == (holder[2] - Base + 1) * Base

\* A held pair and one of its colour are one run; a held pair before another
\* colour is a run of its own.
DecodePair ==
  LET pair    == data[decoded + 1]
      held    == holder # NoHolder
      joined  == held /\ holder[1] = pair[1]
      flushed == IF held THEN image \o Repeat(holder[1], HeldLength) ELSE image
  IN  /\ codec = "read" /\ decoded < Len(data) /\ Len(image) < Len(bitmap)
      /\ decoded' = decoded + 1
      /\ IF joined
           THEN /\ holder' = NoHolder
                /\ image' = image \o Repeat(pair[1], HeldLength + pair[2] + 1)
         ELSE IF pair[2] = SpecialLengthMarker
           THEN /\ holder' = NoHolder
                /\ image' = flushed \o Repeat(pair[1], MaxChunk)
         ELSE IF pair[2] >= Base
           THEN /\ holder' = pair
                /\ image' = flushed
           ELSE /\ holder' = NoHolder
                /\ image' = flushed \o Repeat(pair[1], pair[2] + 1)
      /\ UNCHANGED <<bitmap, codec, encoderVars>>

\* A holder at the end fills the image; it is cut, or padded with background.
FinishImage ==
  LET fill == IF holder # NoHolder THEN holder[1] ELSE Background
  IN  /\ codec = "read"
      /\ decoded < Len(data) => Len(image) >= Len(bitmap)
      /\ codec' = "done"
      /\ image' = [i \in 1..Len(bitmap) |-> IF i <= Len(image) THEN image[i] ELSE fill]
      /\ UNCHANGED <<bitmap, encoderVars, decoded, holder>>

(***************************************************************************)
(* Specification.                                                          *)
(***************************************************************************)

RleInit ==
  /\ bitmap \in Bitmaps
  /\ codec = "count" /\ counted = 0 /\ run = [color |-> Background, length |-> 0]
  /\ data = <<>> /\ decoded = 0 /\ holder = NoHolder /\ image = <<>>

RleNext ==
  \/ CountPixel \/ RunEnds \/ EncodeRun
  \/ StartDecoding \/ DecodePair \/ FinishImage

RleSpec == RleInit /\ [][RleNext]_rleVars

\* What is uploaded decodes to what was drawn, in the colours of the palette,
\* with runs of every length around the limits of a length byte and of a chunk;
\* and the encoder writes no byte that decoders read in different ways.
BitmapRoundTrips ==
  /\ codec = "done" => image = [i \in DOMAIN bitmap |-> ColorOf(bitmap[i])]
  /\ \A i \in DOMAIN data : data[i][2] # SpecialLengthMarker

=============================================================================
