------------------------- MODULE OutputBufferProofs -------------------------
(***************************************************************************)
(* What OutputBuffer.Write leaves in the buffer, for every capacity.       *)
(***************************************************************************)
EXTENDS OutputBuffer, SequenceTheorems, TLAPS

\* Write keeps bytes of the kind it was given.
LEMMA BufWriteType ==
  ASSUME NEW S, NEW data \in Seq(S), NEW more \in Seq(S)
  PROVE  BufWrite(data, more) \in Seq(S)
<1> DEFINE all == data \o more
<1>1. all \in Seq(S) /\ Len(all) \in Nat
  OBVIOUS
<1>2. CASE Len(all) > BufCap
  <2>1. Len(all) - BufCap + 1 \in 1..Len(all)
    BY <1>1, <1>2, BufCapAssumption
  <2>2. SubSeq(all, Len(all) - BufCap + 1, Len(all)) \in Seq(S)
    BY <1>1, <2>1, SubSeqProperties
  <2> QED
    BY <1>2, <2>2 DEF BufWrite
<1>3. CASE ~(Len(all) > BufCap)
  BY <1>1, <1>3 DEF BufWrite
<1> QED
  BY <1>2, <1>3

\* After a Write the buffer is within its capacity, whatever was in it.
LEMMA BufWriteBound ==
  ASSUME NEW S, NEW data \in Seq(S), NEW more \in Seq(S)
  PROVE  Len(BufWrite(data, more)) <= BufCap
<1> DEFINE all == data \o more
<1>1. all \in Seq(S) /\ Len(all) \in Nat
  OBVIOUS
<1>2. CASE Len(all) > BufCap
  <2> DEFINE tail == SubSeq(all, Len(all) - BufCap + 1, Len(all))
  <2>1. Len(all) - BufCap + 1 \in 1..Len(all)
    BY <1>1, <1>2, BufCapAssumption
  <2>2. Len(tail) = BufCap
    BY <1>1, <2>1, BufCapAssumption, SubSeqProperties
  <2> QED
    BY <1>2, <2>2, BufCapAssumption DEF BufWrite
<1>3. CASE ~(Len(all) > BufCap)
  BY <1>1, <1>3, BufCapAssumption DEF BufWrite
<1> QED
  BY <1>2, <1>3

\* What is left is the end of what was there followed by what was written.
LEMMA BufWriteTail ==
  ASSUME NEW S, NEW data \in Seq(S), NEW more \in Seq(S)
  PROVE  LET all == data \o more
             now == BufWrite(data, more)
         IN  \A i \in 1..Len(now) : now[i] = all[Len(all) - Len(now) + i]
<1> DEFINE all == data \o more
           now == BufWrite(data, more)
<1>1. all \in Seq(S) /\ Len(all) \in Nat
  OBVIOUS
<1>2. CASE Len(all) > BufCap
  <2>1. Len(all) - BufCap + 1 \in 1..Len(all)
    BY <1>1, <1>2, BufCapAssumption
  <2>2. now = SubSeq(all, Len(all) - BufCap + 1, Len(all))
    BY <1>2 DEF BufWrite
  <2>3. Len(now) = BufCap
    BY <1>1, <2>1, <2>2, BufCapAssumption, SubSeqProperties
  <2>4. \A i \in 1..BufCap : now[i] = all[Len(all) - BufCap + 1 + i - 1]
    BY <1>1, <2>1, <2>2, BufCapAssumption, SubSeqProperties
  <2> HIDE DEF now, all
  <2>5. \A i \in 1..BufCap : Len(all) - BufCap + 1 + i - 1 = Len(all) - BufCap + i
    BY <1>1, BufCapAssumption
  <2>6. \A i \in 1..Len(now) : now[i] = all[Len(all) - Len(now) + i]
    BY <2>3, <2>4, <2>5
  <2> QED
    BY <2>6 DEF now, all
<1>3. CASE ~(Len(all) > BufCap)
  <2>1. now = all
    BY <1>3 DEF BufWrite
  <2> QED
    BY <1>1, <2>1
<1> QED
  BY <1>2, <1>3
=============================================================================
