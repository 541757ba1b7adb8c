--------------------------- MODULE MonitorLoopProofs ---------------------------
(***************************************************************************)
(* Facts about the Sends of MonitorLoop, and about the prefixes that stand *)
(* for checkpoints beside every kind of log.  The theorems about RekorV1,  *)
(* RekorV2 and CTLog rest on them.                                         *)
(*                                                                         *)
(* S is the set of entries, and Seq(S) what a tree is.                     *)
(***************************************************************************)
EXTENDS MonitorLoop, SequenceTheorems, TLAPS

-----------------------------------------------------------------------------
(* Prefixes.                                                               *)

\* A checkpoint is consistent with itself.
LEMMA PrefixReflexive ==
  ASSUME NEW S, NEW c \in Seq(S)
  PROVE  IsPrefix(c, c)
  BY LenProperties DEF IsPrefix

\* A prefix has the entries of the whole, in their places.
LEMMA PrefixElements ==
  ASSUME NEW S, NEW c \in Seq(S), NEW d \in Seq(S), IsPrefix(c, d)
  PROVE  /\ Len(c) <= Len(d)
         /\ \A i \in 1..Len(c) : d[i] = c[i]
<1>1. Len(c) \in Nat /\ Len(d) \in Nat /\ Len(c) <= Len(d)
  BY LenProperties DEF IsPrefix
<1>2. ASSUME NEW e \in Seq(S), Len(c) <= Len(e)
      PROVE  \A i \in 1..Len(c) : SubSeq(e, 1, Len(c))[i] = e[i]
  <2>1. \A i \in 1..Len(c) : e[i] \in S
    BY <1>1, <1>2, ElementOfSeq, LenProperties
  <2>2. \A i \in 1..(Len(c) - 1 + 1) : SubSeq(e, 1, Len(c))[i] = e[1 + i - 1]
    BY <1>1, <2>1, SubSeqProperties
  <2> QED  BY <1>1, <2>2
<1>3. SubSeq(c, 1, Len(c)) = SubSeq(d, 1, Len(c))
  BY DEF IsPrefix
<1> QED  BY <1>1, <1>2, <1>3

\* And what has them is one.
LEMMA ElementsPrefix ==
  ASSUME NEW S, NEW c \in Seq(S), NEW d \in Seq(S), Len(c) <= Len(d),
         \A i \in 1..Len(c) : d[i] = c[i]
  PROVE  IsPrefix(c, d)
<1>1. Len(c) \in Nat /\ Len(d) \in Nat
  BY LenProperties
<1>2. /\ \A i \in 1..Len(c) : c[i] \in S
      /\ \A i \in 1..Len(c) : d[i] \in S
  BY <1>1, ElementOfSeq, LenProperties
<1>3. /\ SubSeq(c, 1, Len(c)) \in Seq(S)
      /\ Len(SubSeq(c, 1, Len(c))) = Len(c)
      /\ \A i \in 1..Len(c) : SubSeq(c, 1, Len(c))[i] = c[i]
  <2>1. /\ SubSeq(c, 1, Len(c)) \in Seq(S)
        /\ Len(SubSeq(c, 1, Len(c))) = IF 1 <= Len(c) THEN Len(c) - 1 + 1 ELSE 0
        /\ \A i \in 1..(Len(c) - 1 + 1) : SubSeq(c, 1, Len(c))[i] = c[1 + i - 1]
    BY <1>1, <1>2, SubSeqProperties
  <2> QED  BY <1>1, <2>1
<1>4. /\ SubSeq(d, 1, Len(c)) \in Seq(S)
      /\ Len(SubSeq(d, 1, Len(c))) = Len(c)
      /\ \A i \in 1..Len(c) : SubSeq(d, 1, Len(c))[i] = d[i]
  <2>1. /\ SubSeq(d, 1, Len(c)) \in Seq(S)
        /\ Len(SubSeq(d, 1, Len(c))) = IF 1 <= Len(c) THEN Len(c) - 1 + 1 ELSE 0
        /\ \A i \in 1..(Len(c) - 1 + 1) : SubSeq(d, 1, Len(c))[i] = d[1 + i - 1]
    BY <1>1, <1>2, SubSeqProperties
  <2> QED  BY <1>1, <2>1
<1>5. SubSeq(c, 1, Len(c)) = SubSeq(d, 1, Len(c))
  BY <1>3, <1>4, SeqEqual
<1> QED  BY <1>5 DEF IsPrefix

\* Prefixes of prefixes are prefixes.
LEMMA PrefixTransitive ==
  ASSUME NEW S, NEW c \in Seq(S), NEW d \in Seq(S), NEW e \in Seq(S),
         IsPrefix(c, d), IsPrefix(d, e)
  PROVE  IsPrefix(c, e)
<1>1. /\ Len(c) \in Nat /\ Len(d) \in Nat /\ Len(e) \in Nat
      /\ Len(c) <= Len(d) /\ Len(d) <= Len(e)
      /\ \A i \in 1..Len(c) : d[i] = c[i]
      /\ \A i \in 1..Len(d) : e[i] = d[i]
  BY PrefixElements, LenProperties
<1>2. Len(c) <= Len(e) /\ \A i \in 1..Len(c) : e[i] = c[i]
  BY <1>1
<1> QED  BY <1>2, ElementsPrefix

\* Of two consistent checkpoints of the same size, either may be kept: they are
\* the same (why the Write functions may compare sizes only).
LEMMA EqualLengthPrefix ==
  ASSUME NEW S, NEW c \in Seq(S), NEW d \in Seq(S), IsPrefix(c, d), Len(c) = Len(d)
  PROVE  c = d
<1>1. SubSeq(c, 1, Len(c)) = c /\ SubSeq(d, 1, Len(d)) = d
  BY SubSeqFull
<1> QED  BY <1>1 DEF IsPrefix

\* A log that grows by an entry keeps those it had.
LEMMA AppendPrefix ==
  ASSUME NEW S, NEW c \in Seq(S), NEW e \in S
  PROVE  Append(c, e) \in Seq(S) /\ Len(Append(c, e)) = Len(c) + 1
         /\ IsPrefix(c, Append(c, e))
<1>1. /\ Append(c, e) \in Seq(S) /\ Len(Append(c, e)) = Len(c) + 1
      /\ \A i \in 1..Len(c) : Append(c, e)[i] = c[i]
  BY AppendProperties
<1>2. Len(c) \in Nat
  BY LenProperties
<1>3. Len(c) <= Len(Append(c, e))
  BY <1>1, <1>2
<1>4. IsPrefix(c, Append(c, e))
  BY <1>1, <1>3, ElementsPrefix
<1> QED  BY <1>1, <1>4

-----------------------------------------------------------------------------
(* The Sends.                                                              *)

\* The list a payload is sent from.
Listed(payload) == IF payload = "found" THEN found ELSE failed

\* A Send is still to be made, or its reports were accepted.
Pending(payload, platform, sends) ==
  \E k \in 1..Len(sends) : sends[k] = [payload |-> payload, platform |-> platform]

\* The Sends of one payload.
LEMMA SendsOfPayload ==
  ASSUME NEW p \in Payloads
  PROVE  /\ SendsOf(p) \in Seq(Sends)
         /\ Len(SendsOf(p)) = Len(Platforms)
         /\ \A i \in 1..Len(Platforms) :
              SendsOf(p)[i] = [payload |-> p, platform |-> Platforms[i]]
<1>1. /\ Len(Platforms) \in Nat
      /\ \A i \in 1..Len(Platforms) : Platforms[i] \in STRING
  BY PlatformsAssumption, LenProperties, ElementOfSeq
<1>2. SendsOf(p) \in [1..Len(Platforms) -> Sends]
  BY <1>1 DEF SendsOf, Sends
<1>3. SendsOf(p) \in Seq(Sends)
  BY <1>1, <1>2, SeqDef
<1>4. Len(SendsOf(p)) = Len(Platforms)
  BY <1>1, <1>2, <1>3, LenProperties
<1> QED  BY <1>3, <1>4 DEF SendsOf

\* The list of Sends is a sequence of Sends.
LEMMA ToSendType ==
  ASSUME NEW F, NEW G
  PROVE  ToSend(F, G) \in Seq(Sends)
<1>1. SendsOf("found") \in Seq(Sends) /\ SendsOf("failed") \in Seq(Sends)
  BY SendsOfPayload DEF Payloads
<1>2. <<>> \in Seq(Sends)
  BY EmptySeq
<1>3. \A s, t \in Seq(Sends) : s \o t \in Seq(Sends)
  BY ConcatProperties
<1> QED  BY <1>1, <1>2, <1>3 DEF ToSend

\* CreateNotificationPool and the two TriggerNotifications calls leave out no
\* list that is not empty, and no platform.
LEMMA ToSendHasAll ==
  ASSUME NEW payload \in Payloads, NEW n \in 1..Len(Platforms), NEW F, NEW G,
         (IF payload = "found" THEN F ELSE G) # {}
  PROVE  Pending(payload, Platforms[n], ToSend(F, G))
<1> DEFINE A == IF F = {} THEN <<>> ELSE SendsOf("found")
           B == IF G = {} THEN <<>> ELSE SendsOf("failed")
<1>1. Len(Platforms) \in Nat
  BY PlatformsAssumption, LenProperties
<1>2. A \in Seq(Sends) /\ B \in Seq(Sends) /\ Len(A) \in Nat /\ Len(B) \in Nat
  BY SendsOfPayload, EmptySeq, LenProperties DEF Payloads
<1>3. /\ Len(A \o B) = Len(A) + Len(B)
      /\ \A i \in 1..(Len(A) + Len(B)) :
           (A \o B)[i] = IF i <= Len(A) THEN A[i] ELSE B[i - Len(A)]
  BY <1>2, ConcatProperties
<1>4. ToSend(F, G) = A \o B
  BY DEF ToSend
<1>5. CASE payload = "found"
  <2>1. A = SendsOf("found") /\ Len(A) = Len(Platforms)
    BY <1>5, SendsOfPayload DEF Payloads
  <2> HIDE DEF A, B
  <2>2. n \in 1..(Len(A) + Len(B)) /\ n <= Len(A)
    BY <1>1, <1>2, <2>1
  <2>3. A[n] = [payload |-> payload, platform |-> Platforms[n]]
    BY <1>5, <2>1, SendsOfPayload DEF Payloads
  <2>4. (A \o B)[n] = A[n]
    BY <1>3, <2>2
  <2> QED  BY <1>3, <1>4, <2>2, <2>3, <2>4 DEF Pending
<1>6. CASE payload = "failed"
  <2>1. B = SendsOf("failed") /\ Len(B) = Len(Platforms)
    BY <1>6, SendsOfPayload DEF Payloads
  <2> HIDE DEF A, B
  <2>2. /\ Len(A) + n \in 1..(Len(A) + Len(B)) /\ ~(Len(A) + n <= Len(A))
        /\ Len(A) + n - Len(A) = n
    BY <1>1, <1>2, <2>1
  <2>3. B[n] = [payload |-> payload, platform |-> Platforms[n]]
    BY <1>6, <2>1, SendsOfPayload DEF Payloads
  <2>4. (A \o B)[Len(A) + n] = B[n]
    BY <1>3, <2>2
  <2> QED  BY <1>3, <1>4, <2>2, <2>3, <2>4 DEF Pending
<1> QED  BY <1>5, <1>6 DEF Payloads

\* In a round, the lists are those the loop holds.
LEMMA ToSendComplete ==
  ASSUME NEW payload \in Payloads, NEW n \in 1..Len(Platforms), Listed(payload) # {}
  PROVE  Pending(payload, Platforms[n], ToSend(found, failed))
  BY ToSendHasAll DEF Listed
=============================================================================
