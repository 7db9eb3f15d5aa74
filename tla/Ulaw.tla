-------------------------------- MODULE Ulaw --------------------------------
(***************************************************************************)
(* The mu-law companding of one sample (src/codec/ulaw.js): a byte holds a *)
(* sign, the segment (exponent) that the biased magnitude lies in and the  *)
(* four bits below its leading one, all of them inverted.  BadClipped is   *)
(* not the code: it has a mistake that AudioPath must notice.              *)
(***************************************************************************)
EXTENDS Integers

BIAS == 132
CLIP == 32635

Codes == 0 .. 255

Exponents == 0 .. 7

\* 1 << exponent
Power == [e \in Exponents |->
    CASE e = 0 -> 1 [] e = 1 -> 2 [] e = 2 -> 4 [] e = 3 -> 8
      [] e = 4 -> 16 [] e = 5 -> 32 [] e = 6 -> 64 [] e = 7 -> 128]

Magnitude(x) == IF x < 0 THEN -x ELSE x

Expanded(exponent, mantissa) == (mantissa * 8 + BIAS) * Power[exponent] - BIAS

\* The sample of a code: its bits are those of 255 - value.
UlawToPcm16Sample(value) ==
    LET u == 255 - value
        sample == Expanded((u \div 16) % 8, u % 16)
    IN IF u >= 128 THEN -sample ELSE sample

BadClipped(sample) == sample

Clipped(sample) ==
    IF sample > CLIP THEN CLIP ELSE IF sample < -CLIP THEN -CLIP ELSE sample

Reaches(pcm, bit) == IF pcm >= bit THEN 1 ELSE 0

\* The exponent of a biased magnitude: the place of its leading one above bit 7.
Segment(pcm) ==
    Reaches(pcm, 256) + Reaches(pcm, 512) + Reaches(pcm, 1024) + Reaches(pcm, 2048)
      + Reaches(pcm, 4096) + Reaches(pcm, 8192) + Reaches(pcm, 16384)

Mantissa(pcm, power) == (pcm \div (8 * power)) % 16

\* The code of a sample.
Pcm16SampleToUlaw(sample) ==
    LET pcm == Magnitude(Clipped(sample)) + BIAS
        exponent == Segment(pcm)
        sign == IF Clipped(sample) < 0 THEN 128 ELSE 0
    IN 255 - (sign + 16 * exponent + Mantissa(pcm, Power[exponent]))
=============================================================================
