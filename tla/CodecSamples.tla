---------------------------- MODULE CodecSamples ----------------------------
(***************************************************************************)
(* One input of one of the codecs, and what must be true of it.  Here are  *)
(* the codecs that can be reasoned about for every input; MCCodecs adds    *)
(* those of values within values, and says which inputs TLC tries.         *)
(***************************************************************************)
EXTENDS Transactions, Envelopes

VARIABLE sample   \* [of, v]: the topic and the input

\* Every form gives a number back that fits it, and what a number of one bit more becomes is
\* stated (NumberSurvives, NumberShortest).
NumbersSound == sample.of = "number" => NumberSurvives(sample.v) /\ NumberShortest(sample.v)

\* Transactions survive, and verify for those who signed them (StepsSound, HelperSound).
TransactionsVerify ==
    /\ sample.of = "steps" => StepsSound(sample.v[1], sample.v[2], {1, 2})
    /\ sample.of = "helped" => HelperSound(sample.v[1], sample.v[2], sample.v[3])

\* Envelopes go out signed by those who must, and as they were planned (EnvelopeSound, PlanFits).
EnvelopesSound ==
    /\ sample.of = "message" =>
         EnvelopeSound(sample.v[1], sample.v[2]) /\ PlanFits(sample.v[1], sample.v[2])
    /\ sample.of = "built" => BuiltSound(sample.v)
=============================================================================
