------------------------- MODULE HeaderSearchProofs -------------------------
(***************************************************************************)
(* Proofs about HeaderSearch, for every magic and every set of byte values: *)
(* the search stops only behind a complete header, and misses one only     *)
(* when the beginning of another stands directly before it.                *)
(***************************************************************************)
EXTENDS HeaderSearch, TLAPS

-----------------------------------------------------------------------------
(* The inductive invariant: j counts a suffix of the bytes that is a       *)
(* prefix of the magic, and it counts the whole of it unless another       *)
(* prefix stands right before.                                             *)
CountsPrefix == pc # "main" => EndsWith(j, 0)
CountsAll ==
    pc = "search" =>
        \A i \in 0 .. Len(Magic) :
            EndsWith(i, 0) /\ (\A k \in 1 .. Len(Magic) - 1 : ~EndsWith(k, i)) => j = i
SearchInv == CountsPrefix /\ CountsAll

LEMMA HeaderTypeInit == Init => TypeOK
  BY HeaderAssumption DEF Init, TypeOK

LEMMA HeaderTypeStep == TypeOK /\ [Next]_vars => TypeOK'
<1> SUFFICES ASSUME TypeOK, [Next]_vars PROVE TypeOK'
  OBVIOUS
<1> USE HeaderAssumption
<1>1. CASE Call        BY <1>1 DEF TypeOK, Call
<1>2. CASE TakeByte
  <2>1. PICK c \in Values : /\ seen' = Append(seen, c)
                            /\ j' = IF Magic[j + 1] = c THEN j + 1 ELSE 0
    BY <1>2 DEF TakeByte
  <2>2. seen' \in Seq(Values)
    BY <2>1 DEF TypeOK
  <2>3. j' \in 0 .. Len(Magic)
    BY <1>2, <2>1 DEF TypeOK, TakeByte
  <2> QED  BY <1>2, <2>2, <2>3 DEF TypeOK, TakeByte
<1>3. CASE Timeout     BY <1>3 DEF TypeOK, Timeout
<1>4. CASE ReadStruct  BY <1>4 DEF TypeOK, ReadStruct
<1>5. CASE UNCHANGED vars  BY <1>5 DEF TypeOK, vars
<1> QED  BY <1>1, <1>2, <1>3, <1>4, <1>5 DEF Next

(* The variables keep their types and the matcher never reads past the     *)
(* magic, whatever bytes come.                                             *)
THEOREM HeaderTypeCorrect == Spec => []TypeOK
  BY HeaderTypeInit, HeaderTypeStep, PTL DEF Spec

-----------------------------------------------------------------------------
(* A byte more: the bytes end with k + 1 of the magic when they ended with *)
(* k and the byte is the next one, and in no other case.                   *)
LEMMA ByteMore ==
  ASSUME TypeOK, NEW c \in Values, seen' = Append(seen, c)
  PROVE  /\ EndsWith(0, 0)'
         /\ \A k \in 0 .. Len(Magic) - 1 :
               EndsWith(k + 1, 0)' <=> EndsWith(k, 0) /\ Magic[k + 1] = c
<1> USE HeaderAssumption
<1>1. /\ Len(seen) \in Nat /\ Len(seen') = Len(seen) + 1
      /\ seen'[Len(seen) + 1] = c
      /\ \A n \in 1 .. Len(seen) : seen'[n] = seen[n]
  BY DEF TypeOK
<1>2. EndsWith(0, 0)'
  BY <1>1 DEF EndsWith
<1>3. ASSUME NEW k \in 0 .. Len(Magic) - 1
      PROVE  EndsWith(k + 1, 0)' <=> EndsWith(k, 0) /\ Magic[k + 1] = c
  <2>1. ASSUME EndsWith(k, 0), Magic[k + 1] = c
        PROVE  EndsWith(k + 1, 0)'
    <3>1. (k + 1) + 0 <= Len(seen')
      BY <1>1, <2>1 DEF EndsWith
    <3>2. ASSUME NEW n \in 1 .. k + 1
          PROVE  seen'[Len(seen') - 0 - (k + 1) + n] = Magic[n]
      <4>1. CASE n = k + 1
        <5>1. Len(seen') - 0 - (k + 1) + n = Len(seen) + 1
          BY <1>1, <4>1
        <5>2. Magic[n] = c /\ seen'[Len(seen) + 1] = c
          BY <1>1, <2>1, <4>1
        <5> QED  BY <5>1, <5>2, Zenon
      <4>2. CASE n \in 1 .. k
        <5>1. seen[Len(seen) - 0 - k + n] = Magic[n] /\ k <= Len(seen)
          BY <2>1, <4>2 DEF EndsWith
        <5>2. /\ Len(seen') - 0 - (k + 1) + n = Len(seen) - 0 - k + n
              /\ Len(seen) - 0 - k + n \in 1 .. Len(seen)
          BY <1>1, <4>2, <5>1
        <5> QED  BY <1>1, <5>1, <5>2
      <4>3. n = k + 1 \/ n \in 1 .. k
        <5>1. k \in Nat
          OBVIOUS
        <5> QED  BY <5>1
      <4> QED  BY <4>1, <4>2, <4>3
    <3> QED  BY <3>1, <3>2 DEF EndsWith
  <2>2. ASSUME EndsWith(k + 1, 0)'
        PROVE  EndsWith(k, 0) /\ Magic[k + 1] = c
    <3>1. k <= Len(seen)
      BY <1>1, <2>2 DEF EndsWith
    <3>2. \A n \in 1 .. k + 1 : seen'[Len(seen') - 0 - (k + 1) + n] = Magic[n]
      BY <2>2 DEF EndsWith
    <3>3. Magic[k + 1] = c
      <4>1. Len(seen') - 0 - (k + 1) + (k + 1) = Len(seen) + 1 /\ k + 1 \in 1 .. k + 1
        BY <1>1
      <4> QED  BY <1>1, <3>2, <4>1
    <3>4. ASSUME NEW n \in 1 .. k
          PROVE  seen[Len(seen) - 0 - k + n] = Magic[n]
      <4>1. /\ Len(seen') - 0 - (k + 1) + n = Len(seen) - 0 - k + n
            /\ Len(seen) - 0 - k + n \in 1 .. Len(seen)
            /\ n \in 1 .. k + 1
        BY <1>1, <3>1
      <4> QED  BY <1>1, <3>2, <4>1
    <3> QED  BY <3>1, <3>3, <3>4 DEF EndsWith
  <2> QED  BY <2>1, <2>2
<1> QED  BY <1>2, <1>3

(* What stands before the last i + 1 bytes stood before the last i.        *)
LEMMA BeforeStays ==
  ASSUME TypeOK, NEW c \in Values, seen' = Append(seen, c),
         NEW i \in Nat, NEW k \in Nat
  PROVE  EndsWith(k, i + 1)' <=> EndsWith(k, i)
<1> USE HeaderAssumption
<1>1. /\ Len(seen) \in Nat /\ Len(seen') = Len(seen) + 1
      /\ \A n \in 1 .. Len(seen) : seen'[n] = seen[n]
  BY DEF TypeOK
<1>2. k + (i + 1) <= Len(seen') <=> k + i <= Len(seen)
  BY <1>1
<1>3. ASSUME k + i <= Len(seen), NEW n \in 1 .. k
      PROVE  /\ Len(seen') - (i + 1) - k + n = Len(seen) - i - k + n
             /\ Len(seen) - i - k + n \in 1 .. Len(seen)
  BY <1>1, <1>3
<1> QED  BY <1>1, <1>2, <1>3 DEF EndsWith

-----------------------------------------------------------------------------
LEMMA SearchInit == Init => SearchInv
  BY DEF Init, SearchInv, CountsPrefix, CountsAll

LEMMA TakeByteKeeps == TypeOK /\ SearchInv /\ TakeByte => SearchInv'
<1> SUFFICES ASSUME TypeOK, SearchInv, TakeByte PROVE SearchInv'
  OBVIOUS
<1> USE HeaderAssumption
<1>1. /\ pc = "search" /\ j \in 0 .. Len(Magic) - 1 /\ EndsWith(j, 0)
      /\ pc' = IF j' < Len(Magic) THEN "search" ELSE "found"
  BY DEF TakeByte, TypeOK, SearchInv, CountsPrefix
<1>2. PICK c \in Values : /\ seen' = Append(seen, c)
                          /\ j' = IF Magic[j + 1] = c THEN j + 1 ELSE 0
  BY DEF TakeByte
<1>3. CountsPrefix'
  <2>1. EndsWith(j, 0)'
    <3>1. CASE Magic[j + 1] = c
      BY <1>1, <1>2, <3>1, ByteMore
    <3>2. CASE Magic[j + 1] # c
      BY <1>1, <1>2, <3>2, ByteMore
    <3> QED  BY <3>1, <3>2
  <2> QED  BY <2>1 DEF CountsPrefix, EndsWith
<1>4. CountsAll'
  <2> SUFFICES ASSUME pc' = "search", NEW i \in 0 .. Len(Magic), EndsWith(i, 0)',
                      \A k \in 1 .. Len(Magic) - 1 : ~EndsWith(k, i)'
               PROVE  j' = i
    BY DEF CountsAll
  <2>1. j' \in Nat /\ j' < Len(Magic)
    BY <1>1, <1>2
  <2>2. CASE i = 0
    <3>1. EndsWith(j, 0)'
      BY <1>1, <1>3 DEF CountsPrefix, EndsWith
    <3>2. ASSUME NEW k \in 1 .. Len(Magic) - 1
          PROVE  ~(/\ k + 0 <= Len(seen')
                   /\ \A n \in 1 .. k : seen'[Len(seen') - 0 - k + n] = Magic[n])
      BY <2>2 DEF EndsWith
    <3>3. ~(j' \in 1 .. Len(Magic) - 1)
      BY <3>1, <3>2 DEF EndsWith
    <3> QED  BY <2>1, <2>2, <3>3
  <2>3. CASE i > 0
    <3>1. i - 1 \in 0 .. Len(Magic) - 1 /\ (i - 1) + 1 = i
      BY <2>3
    <3>2. EndsWith(i - 1, 0) /\ Magic[i] = c
      BY <1>2, <3>1, ByteMore
    <3>3. \A k \in 1 .. Len(Magic) - 1 : ~EndsWith(k, i - 1)
      BY <1>2, <3>1, BeforeStays
    <3>4. j = i - 1
      BY <1>1, <3>1, <3>2, <3>3 DEF SearchInv, CountsAll
    <3> QED  BY <1>2, <3>1, <3>2, <3>4
  <2> QED  BY <2>2, <2>3
<1> QED  BY <1>3, <1>4 DEF SearchInv

LEMMA SearchStep == TypeOK /\ SearchInv /\ [Next]_vars => SearchInv'
<1> SUFFICES ASSUME TypeOK, SearchInv, [Next]_vars PROVE SearchInv'
  OBVIOUS
<1> USE HeaderAssumption
<1>1. CASE Call
  <2>1. pc' = "search" /\ j' = 0 /\ seen' = <<>>
    BY <1>1 DEF Call
  <2>2. EndsWith(j, 0)'
    BY <2>1 DEF EndsWith
  <2>3. \A i \in 0 .. Len(Magic) : EndsWith(i, 0)' => i = 0
    BY <2>1 DEF EndsWith
  <2> QED  BY <2>1, <2>2, <2>3 DEF SearchInv, CountsPrefix, CountsAll
<1>2. CASE TakeByte
  BY <1>2, TakeByteKeeps
<1>3. CASE Timeout
  BY <1>3 DEF Timeout, SearchInv, CountsPrefix, CountsAll
<1>4. CASE ReadStruct
  BY <1>4 DEF ReadStruct, SearchInv, CountsPrefix, CountsAll
<1>5. CASE UNCHANGED vars
  BY <1>5 DEF vars, SearchInv, CountsPrefix, CountsAll, EndsWith
<1> QED  BY <1>1, <1>2, <1>3, <1>4, <1>5 DEF Next

(* j always counts a suffix of the bytes taken that is a prefix of the     *)
(* magic, and all of it unless another prefix stands directly before.      *)
THEOREM SearchInvariance == Spec => []SearchInv
  BY SearchInit, SearchStep, HeaderTypeCorrect, PTL DEF Spec

(* uart_read_message reads a struct only behind four bytes that are the    *)
(* header.                                                                 *)
THEOREM FindsOnlyHeaders == Spec => []FoundIsHeader
<1>1. TypeOK /\ SearchInv => FoundIsHeader
  <2> SUFFICES ASSUME TypeOK, SearchInv, pc = "found" PROVE EndsWith(Len(Magic), 0)
    BY DEF FoundIsHeader
  <2>1. EndsWith(j, 0)
    BY DEF SearchInv, CountsPrefix
  <2> QED  BY <2>1 DEF TypeOK
<1> QED  BY <1>1, HeaderTypeCorrect, SearchInvariance, PTL

(* A header is missed only behind the beginning of another one.            *)
THEOREM FindsCleanHeaders == Spec => []CleanHeaderFound
<1>1. TypeOK /\ SearchInv => CleanHeaderFound
  <2> SUFFICES ASSUME TypeOK, SearchInv, pc = "search", EndsWith(Len(Magic), 0),
                      \A k \in 1 .. Len(Magic) - 1 : ~EndsWith(k, Len(Magic))
               PROVE  FALSE
    BY DEF CleanHeaderFound
  <2>1. j = Len(Magic)
    BY HeaderAssumption DEF SearchInv, CountsAll
  <2> QED  BY <2>1, HeaderAssumption DEF TypeOK
<1> QED  BY <1>1, HeaderTypeCorrect, SearchInvariance, PTL

=============================================================================
