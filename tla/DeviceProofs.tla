---------------------------- MODULE DeviceProofs ----------------------------
(***************************************************************************)
(* What the I2C devices, the drivers of ADC and DAC, the calibration in    *)
(* the EEPROM, the position of the station, the rate of its events and the *)
(* thread that waits for edges promise, for every set of devices, channels *)
(* and voltages, buffer, burst, layout of the items, width of the counter, *)
(* window, dead time, number of workers (the DAC's driver: one) and limit. *)
(***************************************************************************)
EXTENDS AdcDriver, GeoPos, Calibration, I2cDevice, Dac, CounterRate, GpioDriver, TLAPS,
        SequenceTheorems, FiniteSetTheorems, WellFoundedInduction

-----------------------------------------------------------------------------
(* A set of numbers has a least one: this stands for induction below.       *)

LEMMA LeastNumber ==
    ASSUME NEW T, T \subseteq Nat, T # {}
    PROVE  \E n \in T : \A m \in T : n <= m
<1>1. IsWellFoundedOn(OpToRel(<, Nat), Nat) BY NatLessThanWellFounded
<1>2. PICK n \in T : \A m \in T : ~(<<m, n>> \in OpToRel(<, Nat))
  <2> HIDE DEF OpToRel
  <2> QED BY <1>1, WFMin
<1>3. \A m \in T : ~(m < n) BY <1>2 DEF OpToRel
<1> QED BY <1>3

-----------------------------------------------------------------------------
(* The base class of the I2C devices.                                       *)

\* What an index takes out of a sequence.
LEMMA RemovedAt ==
    ASSUME NEW S, NEW s \in Seq(S), NEW k \in 1 .. Len(s)
    PROVE  LET r == RemoveAt(s, k)
           IN /\ r \in Seq(S) /\ Len(r) = Len(s) - 1
              /\ \A i \in 1 .. Len(s) - 1 : r[i] = IF i < k THEN s[i] ELSE s[i + 1]
<1>1. Len(s) \in Nat /\ k \in 1 .. Len(s) BY LenProperties
<1> DEFINE r == RemoveAt(s, k)
<1>2. /\ r \in Seq(S) /\ Len(r) = Len(s) - 1
      /\ \A i \in 1 .. Len(s) - 1 : r[i] = IF i < k THEN s[i] ELSE s[i + 1]
  <2> DEFINE a == SubSeq(s, 1, k - 1)
             b == SubSeq(s, k + 1, Len(s))
  <2>1. /\ a \in Seq(S) /\ Len(a) = k - 1 /\ \A i \in 1 .. k - 1 : a[i] = s[i]
    BY <1>1, SubSeqProperties
  <2>2. /\ b \in Seq(S) /\ Len(b) = Len(s) - k /\ \A i \in 1 .. Len(s) - k : b[i] = s[k + i]
    <3>1. k + 1 \in 1 .. Len(s) + 1 /\ Len(s) \in (k + 1) - 1 .. Len(s) BY <1>1
    <3>2. /\ b \in Seq(S) /\ Len(b) = Len(s) - (k + 1) + 1
          /\ \A i \in 1 .. Len(s) - (k + 1) + 1 : b[i] = s[(k + 1) + i - 1]
      BY <3>1, SubSeqProperties
    <3>3. Len(s) - (k + 1) + 1 = Len(s) - k /\ \A i \in Int : (k + 1) + i - 1 = k + i BY <1>1
    <3> HIDE DEF b
    <3> QED BY <3>2, <3>3
  <2> HIDE DEF a, b
  <2>3. /\ a \o b \in Seq(S) /\ Len(a \o b) = Len(a) + Len(b)
        /\ \A i \in 1 .. Len(a) + Len(b) : (a \o b)[i] = IF i <= Len(a) THEN a[i] ELSE b[i - Len(a)]
    BY <2>1, <2>2, ConcatProperties
  <2>4. r = a \o b BY DEF RemoveAt, a, b
  <2> HIDE DEF r
  <2>5. Len(r) = Len(s) - 1
    <3>1. Len(r) = Len(a) + Len(b) BY <2>3, <2>4
    <3>2. k \in Int /\ Len(s) \in Int BY <1>1
    <3> QED BY <3>1, <3>2, <2>1, <2>2
  <2>6. ASSUME NEW i \in 1 .. Len(s) - 1 PROVE r[i] = IF i < k THEN s[i] ELSE s[i + 1]
    <3>1. r[i] = IF i <= k - 1 THEN a[i] ELSE b[i - (k - 1)]
      BY <2>1, <2>2, <2>3, <2>4, <1>1
    <3>2. CASE i < k BY <3>1, <3>2, <2>1, <1>1
    <3>3. CASE ~(i < k)
      <4>1. i - (k - 1) \in 1 .. Len(s) - k /\ k + (i - (k - 1)) = i + 1 BY <3>3, <1>1
      <4> QED BY <4>1, <3>1, <3>3, <2>2, <1>1
    <3> QED BY <3>2, <3>3
  <2> QED BY <2>3, <2>4, <2>5, <2>6
<1> QED BY <1>2

\* std::find() and erase(): of a list without repetitions the object is gone and the others stay.
LEMMA ErasedFromList ==
    ASSUME NEW S, NEW s \in Seq(S), IsInjective(s), NEW e \in ToSet(s)
    PROVE  LET r == RemoveFirst(s, e)
           IN r \in Seq(S) /\ Len(r) = Len(s) - 1 /\ IsInjective(r) /\ ToSet(r) = ToSet(s) \ {e}
<1>1. Len(s) \in Nat /\ DOMAIN s = 1 .. Len(s) BY LenProperties
<1>2. PICK k \in 1 .. Len(s) : s[k] = e BY <1>1 DEF ToSet
<1>3. \A i \in 1 .. Len(s) : s[i] = e => i = k BY <1>1, <1>2 DEF IsInjective
<1>4. RemoveFirst(s, e) = RemoveAt(s, k)
  <2>1. {i \in 1 .. Len(s) : s[i] = e} = {k} BY <1>2, <1>3
  <2>2. Min({k}) = k BY <1>1 DEF Min
  <2>3. SelectInSeq(s, LAMBDA v : v = e) = k BY <2>1, <2>2 DEF SelectInSeq
  <2> QED BY <2>3, <1>2 DEF RemoveFirst
<1> DEFINE r == RemoveAt(s, k)
<1>5. /\ r \in Seq(S) /\ Len(r) = Len(s) - 1
      /\ \A i \in 1 .. Len(s) - 1 : r[i] = IF i < k THEN s[i] ELSE s[i + 1]
  BY <1>2, RemovedAt
<1> HIDE DEF r
<1>6. DOMAIN r = 1 .. Len(s) - 1 BY <1>5, LenProperties
<1>7. IsInjective(r)
  <2> SUFFICES ASSUME NEW i \in 1 .. Len(s) - 1, NEW j \in 1 .. Len(s) - 1, r[i] = r[j] PROVE i = j
    BY <1>6 DEF IsInjective
  <2> DEFINE at(n) == IF n < k THEN n ELSE n + 1
  <2>1. \A n \in 1 .. Len(s) - 1 : at(n) \in DOMAIN s /\ r[n] = s[at(n)] BY <1>1, <1>5
  <2>2. at(i) = at(j)
    <3> HIDE DEF at
    <3> QED BY <2>1 DEF IsInjective
  <2> QED BY <2>2, <1>1
<1>8. ToSet(r) = ToSet(s) \ {e}
  <2>1. ASSUME NEW x \in ToSet(r) PROVE x \in ToSet(s) \ {e}
    <3> PICK i \in 1 .. Len(s) - 1 : x = r[i] BY <1>6 DEF ToSet
    <3> DEFINE j == IF i < k THEN i ELSE i + 1
    <3>1. j \in 1 .. Len(s) /\ j # k /\ x = s[j] BY <1>1, <1>5
    <3> QED BY <3>1, <1>1, <1>3 DEF ToSet
  <2>2. ASSUME NEW x \in ToSet(s) \ {e} PROVE x \in ToSet(r)
    <3> PICK j \in 1 .. Len(s) : x = s[j] BY <1>1 DEF ToSet
    <3> DEFINE i == IF j < k THEN j ELSE j - 1
    <3>1. j # k BY <1>2
    <3>2. i \in 1 .. Len(s) - 1 /\ r[i] = x BY <3>1, <1>1, <1>5
    <3> QED BY <3>2, <1>6 DEF ToSet
  <2> QED BY <2>1, <2>2
<1>9. RemoveFirst(s, e) = r BY <1>4 DEF r
<1> QED BY <1>5, <1>7, <1>8, <1>9

Flags == {"NORMAL", "FORCE", "FAILED", "LOCKED", "UNREACHABLE"}
Ends == {"none", "complete", "short", "error"}

I2cTypeOK ==
    /\ i2cHandle \in [I2cObjects -> {"none", "open", "closed"}]
    /\ i2cMode \in [I2cObjects -> SUBSET Flags] /\ i2cLast \in [I2cObjects -> Ends]
    /\ fNrDevices \in Int /\ fGlobalDeviceList \in Seq(I2cObjects)

\* The parts of the invariant: the list, the flag (an object that is not constructed has seen no
\* transfer) and the last call.
ListIsRight ==
    /\ ToSet(fGlobalDeviceList) = {o \in I2cObjects : i2cHandle[o] = "open"}
    /\ IsInjective(fGlobalDeviceList) /\ fNrDevices = Len(fGlobalDeviceList)
FlagIsRight ==
    \A o \in I2cObjects :
        /\ ("UNREACHABLE" \in i2cMode[o]) = (i2cLast[o] = "error")
        /\ i2cHandle[o] = "none" => i2cLast[o] = "none"
CallIsRight == i2cCall.op \notin {"none", "writeByte"} => i2cCall.result = (i2cCall.ended = "complete")

I2cIInv == I2cTypeOK /\ ListIsRight /\ FlagIsRight /\ CallIsRight

\* A call that makes plain transfers and says how the last one ended.
LEMMA PlainKeeps ==
    ASSUME I2cIInv, NEW o \in I2cObjects, i2cHandle[o] # "none",
           UNCHANGED <<i2cHandle, fNrDevices, fGlobalDeviceList>>,
           Unaccounted \/ \E s : Last(s) \in Ends /\ Accounted(o, s),
           CallIsRight'
    PROVE  I2cIInv'
<1>1. CASE Unaccounted
  BY <1>1 DEF I2cIInv, Unaccounted, I2cTypeOK, ListIsRight, FlagIsRight
<1>2. ASSUME NEW s, Last(s) \in Ends, Accounted(o, s) PROVE I2cIInv'
  <2> DEFINE last == Last(s)
  <2>1. /\ i2cMode' = [i2cMode EXCEPT ![o] = IF last = "error" THEN @ \cup {"UNREACHABLE"} ELSE @ \ {"UNREACHABLE"}]
        /\ i2cLast' = [i2cLast EXCEPT ![o] = last] /\ last \in Ends
    BY <1>2 DEF Accounted
  <2> HIDE DEF last
  <2>2. i2cMode \in [I2cObjects -> SUBSET Flags] /\ i2cLast \in [I2cObjects -> Ends]
    BY DEF I2cIInv, I2cTypeOK
  <2>3. /\ i2cMode' \in [I2cObjects -> SUBSET Flags] /\ i2cLast' \in [I2cObjects -> Ends]
        /\ "UNREACHABLE" \in i2cMode'[o] <=> last = "error"
        /\ i2cLast'[o] = last
        /\ \A p \in I2cObjects \ {o} : i2cMode'[p] = i2cMode[p] /\ i2cLast'[p] = i2cLast[p]
    <3> DEFINE flags == IF last = "error" THEN i2cMode[o] \cup {"UNREACHABLE"} ELSE i2cMode[o] \ {"UNREACHABLE"}
    <3>1. flags \in SUBSET Flags /\ ("UNREACHABLE" \in flags <=> last = "error") BY <2>2 DEF Flags
    <3>2. i2cMode' = [i2cMode EXCEPT ![o] = flags] BY <2>1
    <3> HIDE DEF flags
    <3> QED BY <3>1, <3>2, <2>1, <2>2
  <2>4. I2cTypeOK' BY <2>3 DEF I2cIInv, I2cTypeOK
  <2>5. FlagIsRight' BY <2>3 DEF I2cIInv, FlagIsRight
  <2> QED BY <2>4, <2>5 DEF I2cIInv, ListIsRight
<1> QED BY <1>1, <1>2

LEMMA ResultIsRight ==
    ASSUME NEW op, NEW ended, Returns(op, ended, Complete(ended))
    PROVE  CallIsRight'
<1>1. i2cCall'.result = Complete(ended) /\ i2cCall'.ended = ended BY Zenon DEF Returns
<1> QED BY <1>1, Zenon DEF Complete, CallIsRight

\* What a call made of plain transfers leaves is right if its result is.
LEMMA CallKeeps ==
    ASSUME I2cIInv, NEW o \in I2cObjects,
           \/ devicePresent(o) \/ readPlainWord(o) \/ writeWord(o) \/ writeByte(o)
    PROVE  I2cIInv'
<1>1. ASSUME NEW s \in Attempts({"complete", "short", "error"}) PROVE Last(s) \in Ends
  <2>1. s \in UNION {[1 .. n -> {"complete", "short", "error"}] : n \in 1 .. fNrRetries + 1}
    BY DEF Attempts
  <2>2. PICK n \in 1 .. fNrRetries + 1 : s \in [1 .. n -> {"complete", "short", "error"}] BY <2>1
  <2>3. n \in Nat /\ n \in 1 .. n BY I2cAssumption
  <2>4. Len(s) = n BY <2>2, <2>3
  <2> QED BY <2>2, <2>3, <2>4 DEF Last, Ends
<1>2. \A x : Last(<<x>>) = x BY DEF Last
<1>r. ASSUME NEW op, NEW ended, Returns(op, ended, Complete(ended)) PROVE CallIsRight'
  BY <1>r, ResultIsRight
<1>e. ASSUME NEW ended, NEW result, Returns("writeByte", ended, result) PROVE CallIsRight'
  BY <1>e DEF Returns, CallIsRight
<1>3. CASE devicePresent(o)
  <2>1. /\ i2cHandle[o] # "none" /\ UNCHANGED <<i2cHandle, fNrDevices, fGlobalDeviceList>>
        /\ Unaccounted \/ \E s : Last(s) \in Ends /\ Accounted(o, s)
        /\ CallIsRight'
    BY <1>2, <1>3, <1>r DEF devicePresent, Plain, Ends
  <2> QED BY <2>1, PlainKeeps
<1>4. CASE readPlainWord(o)
  <2>1. /\ i2cHandle[o] # "none" /\ UNCHANGED <<i2cHandle, fNrDevices, fGlobalDeviceList>>
        /\ Unaccounted \/ \E s : Last(s) \in Ends /\ Accounted(o, s)
        /\ CallIsRight'
    BY <1>1, <1>4, <1>r DEF readPlainWord, Again, Plain
  <2> QED BY <2>1, PlainKeeps
<1>5. CASE writeWord(o)
  <2>1. /\ i2cHandle[o] # "none" /\ UNCHANGED <<i2cHandle, fNrDevices, fGlobalDeviceList>>
        /\ Unaccounted \/ \E s : Last(s) \in Ends /\ Accounted(o, s)
        /\ CallIsRight'
    BY <1>1, <1>5, <1>r DEF writeWord, Again, Plain
  <2> QED BY <2>1, PlainKeeps
<1>6. CASE writeByte(o)
  <2>1. /\ i2cHandle[o] # "none" /\ UNCHANGED <<i2cHandle, fNrDevices, fGlobalDeviceList>>
        /\ Unaccounted \/ \E s : Last(s) \in Ends /\ Accounted(o, s)
        /\ CallIsRight'
    BY <1>1, <1>6, <1>e DEF writeByte, Again, Plain
  <2> QED BY <2>1, PlainKeeps
<1> QED BY <1>3, <1>4, <1>5, <1>6

LEMMA ObjectKeeps ==
    ASSUME I2cIInv, NEW o \in I2cObjects, Construct(o) \/ Destroy(o)
    PROVE  I2cIInv'
<1>1. CallIsRight' BY DEF Construct, Destroy, NoCall, CallIsRight
<1>2. /\ i2cHandle \in [I2cObjects -> {"none", "open", "closed"}]
      /\ i2cMode \in [I2cObjects -> SUBSET Flags] /\ i2cLast \in [I2cObjects -> Ends]
      /\ fNrDevices \in Int /\ fGlobalDeviceList \in Seq(I2cObjects)
  BY DEF I2cIInv, I2cTypeOK
<1>3. CASE Construct(o)
  <2>1. i2cHandle[o] = "none" /\ i2cLast' = i2cLast /\ i2cLast[o] = "none"
    BY <1>3 DEF Construct, I2cIInv, FlagIsRight
  <2>2. PICK m \in {{"NORMAL"}, {"FORCE"}, {"FAILED"}} : i2cMode' = [i2cMode EXCEPT ![o] = m]
    BY <1>3 DEF Construct, setAddress
  <2>3. PICK h \in {"open", "closed"} : i2cHandle' = [i2cHandle EXCEPT ![o] = h] BY <1>3 DEF Construct
  <2>4. FlagIsRight'
    <3>1. "UNREACHABLE" \notin m /\ m \in SUBSET Flags BY <2>2 DEF Flags
    <3> QED BY <3>1, <2>1, <2>2, <2>3, <1>2 DEF I2cIInv, FlagIsRight
  <2>5. i2cMode' \in [I2cObjects -> SUBSET Flags] /\ i2cHandle' \in [I2cObjects -> {"none", "open", "closed"}]
    <3>1. m \in SUBSET Flags BY <2>2 DEF Flags
    <3> QED BY <3>1, <2>2, <2>3, <1>2
  <2>6. o \notin ToSet(fGlobalDeviceList) BY <2>1 DEF I2cIInv, ListIsRight
  <2>7. CASE h = "open"
    <3>1. fNrDevices' = fNrDevices + 1 /\ fGlobalDeviceList' = Append(fGlobalDeviceList, o)
      BY <1>3, <2>3, <2>7, <1>2 DEF Construct
    <3> DEFINE l == fGlobalDeviceList
    <3>2. /\ Append(l, o) \in Seq(I2cObjects) /\ Len(Append(l, o)) = Len(l) + 1
          /\ \A i \in 1 .. Len(l) : Append(l, o)[i] = l[i]
          /\ Append(l, o)[Len(l) + 1] = o
          /\ Len(l) \in Nat /\ DOMAIN l = 1 .. Len(l) /\ DOMAIN Append(l, o) = 1 .. Len(l) + 1
      BY <1>2, AppendProperties, LenProperties
    <3>3. ToSet(Append(l, o)) = ToSet(l) \cup {o} BY <3>2 DEF ToSet
    <3>4. IsInjective(Append(l, o))
      <4>1. IsInjective(l) /\ \A i \in 1 .. Len(l) : l[i] # o
        BY <2>6, <3>2 DEF I2cIInv, ListIsRight, ToSet
      <4> QED BY <4>1, <3>2 DEF IsInjective
    <3>5. {p \in I2cObjects : i2cHandle'[p] = "open"} = {p \in I2cObjects : i2cHandle[p] = "open"} \cup {o}
      BY <2>3, <2>7, <1>2
    <3>6. ListIsRight' BY <3>1, <3>2, <3>3, <3>4, <3>5 DEF I2cIInv, ListIsRight
    <3>7. I2cTypeOK' BY <3>1, <3>2, <2>1, <2>5, <1>2 DEF I2cTypeOK
    <3> QED BY <3>6, <3>7, <2>4, <1>1 DEF I2cIInv
  <2>8. CASE h = "closed"
    <3>1. fNrDevices' = fNrDevices /\ fGlobalDeviceList' = fGlobalDeviceList
      BY <1>3, <2>3, <2>8, <1>2 DEF Construct
    <3>2. {p \in I2cObjects : i2cHandle'[p] = "open"} = {p \in I2cObjects : i2cHandle[p] = "open"}
      BY <2>1, <2>3, <2>8, <1>2
    <3>3. ListIsRight' BY <3>1, <3>2 DEF I2cIInv, ListIsRight
    <3>4. I2cTypeOK' BY <3>1, <2>1, <2>5, <1>2 DEF I2cTypeOK
    <3> QED BY <3>3, <3>4, <2>4, <1>1 DEF I2cIInv
  <2> QED BY <2>7, <2>8
<1>4. CASE Destroy(o)
  <2>1. /\ i2cHandle' = [i2cHandle EXCEPT ![o] = "none"] /\ i2cMode' = [i2cMode EXCEPT ![o] = {}]
        /\ i2cLast' = [i2cLast EXCEPT ![o] = "none"]
        /\ fNrDevices' = fNrDevices - (IF i2cHandle[o] = "open" THEN 1 ELSE 0)
        /\ fGlobalDeviceList' = RemoveFirst(fGlobalDeviceList, o)
    BY <1>4 DEF Destroy
  <2>2. /\ i2cMode' \in [I2cObjects -> SUBSET Flags] /\ i2cHandle' \in [I2cObjects -> {"none", "open", "closed"}]
        /\ i2cLast' \in [I2cObjects -> Ends]
    <3>1. {} \in SUBSET Flags /\ "none" \in Ends BY DEF Ends
    <3> QED BY <3>1, <2>1, <1>2
  <2>3. FlagIsRight' BY <2>1, <1>2 DEF I2cIInv, FlagIsRight
  <2>4. {p \in I2cObjects : i2cHandle'[p] = "open"} = {p \in I2cObjects : i2cHandle[p] = "open"} \ {o}
    BY <2>1, <1>2
  <2>5. CASE i2cHandle[o] = "open"
    <3>1. o \in ToSet(fGlobalDeviceList) /\ IsInjective(fGlobalDeviceList) BY <2>5 DEF I2cIInv, ListIsRight
    <3> DEFINE r == RemoveFirst(fGlobalDeviceList, o)
    <3>2. /\ r \in Seq(I2cObjects) /\ Len(r) = Len(fGlobalDeviceList) - 1 /\ IsInjective(r)
          /\ ToSet(r) = ToSet(fGlobalDeviceList) \ {o}
      BY <3>1, <1>2, ErasedFromList
    <3>3. fGlobalDeviceList' = r BY <2>1
    <3> HIDE DEF r
    <3>4. fNrDevices' = fNrDevices - 1 BY <2>1, <2>5
    <3>5. ListIsRight' BY <3>2, <3>3, <3>4, <2>4 DEF I2cIInv, ListIsRight
    <3>6. I2cTypeOK' BY <3>2, <3>3, <3>4, <2>2, <1>2 DEF I2cTypeOK
    <3> QED BY <3>5, <3>6, <2>3, <1>1 DEF I2cIInv
  <2>6. CASE i2cHandle[o] # "open"
    <3>1. o \notin ToSet(fGlobalDeviceList) BY <2>6 DEF I2cIInv, ListIsRight
    <3>2. ~\E i \in 1 .. Len(fGlobalDeviceList) : fGlobalDeviceList[i] = o
      BY <3>1, <1>2, LenProperties DEF ToSet
    <3>3. fGlobalDeviceList' = fGlobalDeviceList BY <2>1, <3>2 DEF RemoveFirst
    <3>4. fNrDevices' = fNrDevices BY <2>1, <2>6, <1>2
    <3>5. ListIsRight' BY <3>1, <3>3, <3>4, <2>4 DEF I2cIInv, ListIsRight
    <3>6. I2cTypeOK' BY <3>3, <3>4, <2>2, <1>2 DEF I2cTypeOK
    <3> QED BY <3>5, <3>6, <2>3, <1>1 DEF I2cIInv
  <2> QED BY <2>5, <2>6
<1> QED BY <1>3, <1>4

LEMMA I2cStep == I2cIInv /\ [I2cNext]_i2cVars => I2cIInv'
<1> SUFFICES ASSUME I2cIInv, [I2cNext]_i2cVars PROVE I2cIInv' OBVIOUS
<1>1. ASSUME NEW o \in I2cObjects, Construct(o) \/ Destroy(o) PROVE I2cIInv' BY <1>1, ObjectKeeps
<1>2. ASSUME NEW o \in I2cObjects, \/ devicePresent(o) \/ readPlainWord(o) \/ writeWord(o) \/ writeByte(o)
      PROVE  I2cIInv'
  BY <1>2, CallKeeps
<1>3. ASSUME NEW o \in I2cObjects, NEW locked \in BOOLEAN, lock(o, locked) PROVE I2cIInv'
  <2> DEFINE flags == IF locked THEN i2cMode[o] \cup {"LOCKED"} ELSE i2cMode[o] \ {"LOCKED"}
  <2>1. i2cMode \in [I2cObjects -> SUBSET Flags] BY DEF I2cIInv, I2cTypeOK
  <2>2. flags \in SUBSET Flags /\ ("UNREACHABLE" \in flags <=> "UNREACHABLE" \in i2cMode[o]) BY <2>1 DEF Flags
  <2>3. i2cMode' = [i2cMode EXCEPT ![o] = flags] BY <1>3 DEF lock
  <2> HIDE DEF flags
  <2>4. UNCHANGED <<i2cHandle, fNrDevices, fGlobalDeviceList, i2cLast>> /\ i2cCall' = NoCall
    BY <1>3 DEF lock
  <2>5. i2cMode' \in [I2cObjects -> SUBSET Flags] BY <2>1, <2>2, <2>3
  <2>6. FlagIsRight' BY <2>1, <2>2, <2>3, <2>4 DEF I2cIInv, FlagIsRight
  <2>7. I2cTypeOK' BY <2>4, <2>5 DEF I2cIInv, I2cTypeOK
  <2> QED BY <2>4, <2>6, <2>7 DEF I2cIInv, ListIsRight, CallIsRight, NoCall
<1>4. ASSUME NEW o \in I2cObjects, readRegister(o) \/ writeBits(o) PROVE I2cIInv'
  <2>1. Unaccounted /\ UNCHANGED <<i2cHandle, fNrDevices, fGlobalDeviceList>>
    BY <1>4 DEF readRegister, writeBits
  <2>2. CASE readRegister(o)
    <3> PICK ended : Returns("readByte", ended, Complete(ended)) BY <2>2 DEF readRegister
    <3>1. CallIsRight' BY ResultIsRight
    <3> QED BY <3>1, <2>1 DEF I2cIInv, Unaccounted, I2cTypeOK, ListIsRight, FlagIsRight
  <2>3. CASE writeBits(o)
    <3>1. CallIsRight' BY <2>3 DEF writeBits, Returns, CallIsRight
    <3> QED BY <3>1, <2>1 DEF I2cIInv, Unaccounted, I2cTypeOK, ListIsRight, FlagIsRight
  <2> QED BY <1>4, <2>2, <2>3
<1>5. CASE UNCHANGED i2cVars
  BY <1>5 DEF i2cVars, I2cIInv, I2cTypeOK, ListIsRight, FlagIsRight, CallIsRight
<1> QED BY <1>1, <1>2, <1>3, <1>4, <1>5 DEF I2cNext

\* i2cDevice (i2cdevice.cpp): the counter, the global list, the unreachable flag and the results of
\* the calls tell the truth, for every set of objects and number of retries.
THEOREM I2cDevicesAreAsShown == I2cSpec => []DevicesAreAsShown
<1>1. I2cInit => I2cIInv
  <2> SUFFICES ASSUME I2cInit PROVE I2cIInv OBVIOUS
  <2>1. I2cTypeOK BY EmptySeq DEF I2cInit, I2cTypeOK, Flags, Ends
  <2>2. ListIsRight BY EmptySeq DEF I2cInit, ListIsRight, ToSet, IsInjective
  <2> QED BY <2>1, <2>2 DEF I2cInit, I2cIInv, FlagIsRight, CallIsRight, NoCall
<1>2. I2cIInv => DevicesAreAsShown
  BY DEF I2cIInv, ListIsRight, FlagIsRight, CallIsRight, DevicesAreAsShown
<1> QED BY <1>1, <1>2, I2cStep, PTL DEF I2cSpec

-----------------------------------------------------------------------------
(* The ADC.                                                                 *)

\* The trace: while the mode is TRACE the driver's index counts the samples since the trigger, and
\* all that the buffer holds is of the present period, however often it was overwritten.
TraceIInv ==
    /\ adcSamplingMode \in {"DISABLED", "PEAK", "TRACE"}
    /\ adcPeriod \in Int /\ adcSince \in Int /\ adcSamplesBuffer \in Seq(Int)
    /\ currentAdcSampleIndex \in Untriggered .. BufferSize - Pretrigger - 1
    /\ adcSamplingMode = "TRACE" => currentAdcSampleIndex = adcSince
    /\ Len(adcSamplesBuffer) <= BufferSize
    /\ \A i \in DOMAIN adcSamplesBuffer : adcSamplesBuffer[i] = adcPeriod

\* The burst: a wait that may still call back is that of some startBurst(), and one sample more
\* never exceeds what was asked for last, even when the callback is that of an earlier burst.
BurstIInv ==
    /\ adcTimers \in [{"trace", "burst"} -> [armed : BOOLEAN, expired : Nat]]
    /\ remaining \in Int /\ burstSamples \in Seq(Int) /\ adcAsked \in Nat
    /\ adcAsked = 0 =>
          /\ burstSamples = <<>> /\ remaining <= 0
          /\ ~adcTimers["burst"].armed /\ adcTimers["burst"].expired = 0
          /\ adcIo \notin {"burst", "missed"}
    /\ adcAsked > 0 => Len(burstSamples) < adcAsked
    /\ remaining > 0 => Len(burstSamples) + remaining <= adcAsked

\* What was published last.
PublishedIInv ==
    /\ adcPublished \in [of : {"none", "trigger", "burst"}, samples : Seq(Int), count : Int]
    /\ adcPublished.of = "trigger" =>
          /\ adcPublished.count = BufferSize - Pretrigger
          /\ Len(adcPublished.samples) <= BufferSize
          /\ \A i, j \in DOMAIN adcPublished.samples : adcPublished.samples[i] = adcPublished.samples[j]
    /\ adcPublished.of = "burst" => Len(adcPublished.samples) <= adcPublished.count

AdcIInv == TraceIInv /\ BurstIInv /\ PublishedIInv

\* The buffer stays as full as it may be and of one period.
LEMMA NewestIsOfPeriod ==
    ASSUME NEW s \in Seq(Int), NEW p \in Int, Len(s) <= BufferSize,
           \A i \in DOMAIN s : s[i] = p
    PROVE  LET b == Newest(Append(s, p))
           IN b \in Seq(Int) /\ Len(b) <= BufferSize /\ \A i \in DOMAIN b : b[i] = p
<1> DEFINE a == Append(s, p)
<1>1. /\ a \in Seq(Int) /\ Len(a) = Len(s) + 1
      /\ \A i \in DOMAIN a : a[i] = p
  BY AppendProperties
<1> HIDE DEF a
<1>2. CASE Len(a) > BufferSize
  <2>1. a # <<>> /\ Len(s) \in Nat BY <1>1, LenProperties
  <2>2. Tail(a) \in Seq(Int) /\ Len(Tail(a)) = Len(a) - 1
        /\ \A i \in 1 .. Len(Tail(a)) : Tail(a)[i] = a[i + 1]
    BY <2>1, <1>1, HeadTailProperties
  <2>3. \A i \in DOMAIN Tail(a) : Tail(a)[i] = p
    <3> TAKE i \in DOMAIN Tail(a)
    <3>1. i \in 1 .. Len(Tail(a)) BY <2>2, LenProperties
    <3>2. i + 1 \in DOMAIN a BY <3>1, <2>2, <1>1, LenProperties, SMTT(30)
    <3> QED BY <3>1, <3>2, <2>2, <1>1
  <2>4. Newest(a) = Tail(a) BY <1>2 DEF Newest
  <2> QED BY <2>1, <2>2, <2>3, <2>4, <1>1, AdcAssumption, SMTT(30) DEF a
<1>3. CASE ~(Len(a) > BufferSize)
  <2>1. Newest(a) = a BY <1>3 DEF Newest
  <2> QED BY <2>1, <1>1, <1>3, AdcAssumption, LenProperties DEF a
<1> QED BY <1>2, <1>3

\* A sample on whichever thread keeps the trace's invariant, and what it publishes is a whole trace.
LEMMA SampleKeepsTrace ==
    ASSUME TraceIInv, PublishedIInv, getSample
    PROVE  TraceIInv' /\ PublishedIInv'
<1>1. CASE UNCHANGED <<adcState, adcPublished>>
  BY <1>1 DEF TraceIInv, PublishedIInv, adcState
<1>2. CASE onSampleReady /\ adcSamplingMode = "DISABLED"
  BY <1>2 DEF TraceIInv, PublishedIInv, adcState, onSampleReady
<1>3. CASE onSampleReady /\ adcSamplingMode = "PEAK"
  BY <1>3, AdcAssumption DEF TraceIInv, PublishedIInv, adcState, onSampleReady, Untriggered
<1>4. CASE onSampleReady /\ adcSamplingMode = "TRACE"
  <2> DEFINE buffer == Newest(Append(adcSamplesBuffer, adcPeriod))
             since == IF adcSince = Untriggered THEN Untriggered ELSE adcSince + 1
  <2>1. /\ buffer \in Seq(Int) /\ Len(buffer) <= BufferSize
        /\ \A i \in DOMAIN buffer : buffer[i] = adcPeriod
    BY NewestIsOfPeriod DEF TraceIInv
  <2>2. /\ adcSamplesBuffer' = buffer /\ adcSamplingMode' = "TRACE" /\ adcPeriod' = adcPeriod
    BY <1>4 DEF onSampleReady
  <2>3. adcSince \in Int /\ currentAdcSampleIndex = adcSince /\ adcSince \in Untriggered .. BufferSize - Pretrigger - 1
    BY <1>4 DEF TraceIInv
  <2>4. CASE currentAdcSampleIndex = Untriggered
    <3>1. currentAdcSampleIndex' = Untriggered /\ adcSince' = Untriggered /\ adcPublished' = adcPublished
      BY <1>4, <2>4, <2>3 DEF onSampleReady
    <3> HIDE DEF buffer
    <3> QED BY <3>1, <2>1, <2>2, <2>3, AdcAssumption DEF TraceIInv, PublishedIInv, Untriggered
  <2>5. CASE currentAdcSampleIndex # Untriggered /\ currentAdcSampleIndex + 1 >= BufferSize - Pretrigger
    <3>1. /\ currentAdcSampleIndex' = Untriggered /\ adcSince' = Untriggered
          /\ adcPublished' = [of |-> "trigger", samples |-> buffer, count |-> adcSince + 1]
      BY <1>4, <2>5, <2>3 DEF onSampleReady
    <3>2. adcSince + 1 = BufferSize - Pretrigger BY <2>5, <2>3, AdcAssumption DEF Untriggered
    <3>3. adcSince + 1 \in Int BY <2>3
    <3> HIDE DEF buffer
    <3>4. TraceIInv' BY <3>1, <2>1, <2>2, <2>3, AdcAssumption DEF TraceIInv, Untriggered
    <3>5. /\ adcPublished' \in [of : {"none", "trigger", "burst"}, samples : Seq(Int), count : Int]
          /\ adcPublished'.of = "trigger" /\ adcPublished'.samples = buffer
          /\ adcPublished'.count = adcSince + 1
      BY <3>1, <3>3, <2>1
    <3>6. \A i, j \in DOMAIN buffer : buffer[i] = buffer[j] BY <2>1, Zenon
    <3>7. PublishedIInv' BY <3>5, <3>6, <3>2, <2>1 DEF PublishedIInv
    <3> QED BY <3>4, <3>7
  <2>6. CASE currentAdcSampleIndex # Untriggered /\ ~(currentAdcSampleIndex + 1 >= BufferSize - Pretrigger)
    <3>1. /\ currentAdcSampleIndex' = currentAdcSampleIndex + 1 /\ adcSince' = adcSince + 1
          /\ adcPublished' = adcPublished
      BY <1>4, <2>6, <2>3 DEF onSampleReady
    <3> HIDE DEF buffer
    <3>2. currentAdcSampleIndex' \in Untriggered .. BufferSize - Pretrigger - 1
      BY <3>1, <2>6, <2>3, AdcAssumption DEF Untriggered
    <3> QED BY <3>1, <3>2, <2>1, <2>2, <2>3, AdcAssumption DEF TraceIInv, PublishedIInv
  <2> QED BY <2>4, <2>5, <2>6
<1> QED BY <1>1, <1>2, <1>3, <1>4 DEF getSample, onSampleReady

\* A wait that is armed or expires was asked for.
LEMMA BurstTimers ==
    ASSUME BurstIInv, UNCHANGED <<adcBurst, adcIo>>,
           \/ adcTimers' = Cancelled(adcTimers, "trace") \/ adcTimers' = Rearmed(adcTimers, "trace")
           \/ adcTimers' = adcTimers
           \/ remaining > 0 /\ adcTimers' = Rearmed(adcTimers, "burst")
    PROVE  BurstIInv'
<1>1. UNCHANGED <<remaining, burstSamples, adcAsked, adcIo>> BY DEF adcBurst
<1>2. adcTimers' \in [{"trace", "burst"} -> [armed : BOOLEAN, expired : Nat]]
  BY DEF BurstIInv, Cancelled, Rearmed
<1>3. adcAsked = 0 => remaining <= 0 /\ remaining \in Int BY DEF BurstIInv
<1>4. adcAsked = 0 => adcTimers'["burst"] = adcTimers["burst"]
  BY <1>3 DEF BurstIInv, Cancelled, Rearmed
<1> QED BY <1>1, <1>2, <1>4 DEF BurstIInv

LEMMA AdcStep == AdcIInv /\ [AdcNext]_adcVars => AdcIInv'
<1> SUFFICES ASSUME AdcIInv, [AdcNext]_adcVars PROVE AdcIInv' OBVIOUS
<1> USE DEF AdcIInv
<1>a. ASSUME UNCHANGED <<adcState, adcPublished>> PROVE TraceIInv' /\ PublishedIInv'
  BY <1>a DEF TraceIInv, PublishedIInv, adcState
<1>b. ASSUME UNCHANGED <<adcBurst, adcTimers, adcIo>> PROVE BurstIInv'
  BY <1>b DEF BurstIInv, adcBurst
<1>1. CASE \E t \in {"trace", "burst"} : TimerExpires(t)
  <2> PICK t \in {"trace", "burst"} : TimerExpires(t) BY <1>1
  <2>1. BurstIInv' BY DEF TimerExpires, BurstIInv, adcBurst
  <2> QED BY <2>1, <1>a DEF TimerExpires
<1>2. CASE AdcUpdate BY <1>2, <1>b, SampleKeepsTrace DEF AdcUpdate
<1>3. CASE TraceCallback
  <2>1. BurstIInv' BY <1>3 DEF TraceCallback, Callback, BurstIInv, adcBurst
  <2> QED BY <2>1, <1>3, <1>a DEF TraceCallback
<1>4. CASE sampleTrace
  <2>1. BurstIInv' BY <1>4 DEF sampleTrace, BurstIInv, adcBurst, Rearmed
  <2> QED BY <2>1, <1>4, <1>a, SampleKeepsTrace DEF sampleTrace
<1>5. CASE BurstCallback
  <2>1. BurstIInv' BY <1>5 DEF BurstCallback, Callback, BurstIInv, adcBurst
  <2> QED BY <2>1, <1>5, <1>a, SampleKeepsTrace DEF BurstCallback, getSample
<1>6. CASE BurstCounted
  <2> DEFINE got == IF adcIo = "burst" THEN Append(burstSamples, adcPeriod) ELSE burstSamples
  <2>1. /\ got \in Seq(Int) /\ Len(got) <= Len(burstSamples) + 1
    BY AppendProperties, LenProperties DEF BurstIInv, TraceIInv
  <2>2. /\ adcIo \in {"burst", "missed"} /\ adcIo' = "idle" /\ remaining' = remaining - 1
        /\ adcAsked' = adcAsked /\ UNCHANGED adcState
        /\ \/ /\ remaining - 1 <= 0 /\ burstSamples' = <<>> /\ adcTimers' = adcTimers
              /\ \/ adcPublished' = adcPublished
                 \/ adcPublished' = [of |-> "burst", samples |-> got, count |-> adcAsked]
           \/ /\ ~(remaining - 1 <= 0) /\ burstSamples' = got /\ adcTimers' = Rearmed(adcTimers, "burst")
              /\ adcPublished' = adcPublished
    BY <1>6 DEF BurstCounted
  <2> HIDE DEF got
  <2>3. adcAsked \in Nat /\ adcAsked > 0 /\ Len(burstSamples) < adcAsked /\ Len(burstSamples) \in Nat /\ Len(got) \in Nat
        /\ (remaining > 0 => Len(burstSamples) + remaining <= adcAsked) /\ remaining \in Int
        /\ adcTimers \in [{"trace", "burst"} -> [armed : BOOLEAN, expired : Nat]]
    BY <2>1, <2>2, LenProperties DEF BurstIInv
  <2>4. TraceIInv' BY <2>2 DEF TraceIInv, adcState
  <2>5. CASE remaining - 1 <= 0
    <3>1. burstSamples' = <<>> /\ adcTimers' = adcTimers BY <2>2, <2>5
    <3>2. BurstIInv' BY <3>1, <2>2, <2>3, <2>5, EmptySeq DEF BurstIInv
    <3>3. CASE adcPublished' = adcPublished BY <3>2, <3>3, <2>4 DEF PublishedIInv
    <3>4. CASE adcPublished' = [of |-> "burst", samples |-> got, count |-> adcAsked]
      <4>1. Len(got) <= adcAsked BY <2>1, <2>3
      <4> QED BY <3>2, <3>4, <2>4, <4>1, <2>1, <2>3 DEF PublishedIInv
    <3> QED BY <3>3, <3>4, <2>2, <2>5
  <2>6. CASE ~(remaining - 1 <= 0)
    <3>1. burstSamples' = got /\ adcTimers' = Rearmed(adcTimers, "burst") /\ adcPublished' = adcPublished
      BY <2>2, <2>6
    <3>2. adcTimers' \in [{"trace", "burst"} -> [armed : BOOLEAN, expired : Nat]]
      BY <3>1, <2>3 DEF Rearmed
    <3>3. Len(got) + (remaining - 1) <= adcAsked /\ Len(got) < adcAsked BY <2>1, <2>3, <2>6
    <3>4. BurstIInv' BY <3>1, <3>2, <3>3, <2>1, <2>2, <2>3, <2>6 DEF BurstIInv
    <3> QED BY <3>4, <3>1, <2>4 DEF PublishedIInv
  <2> QED BY <2>5, <2>6
<1>7. ASSUME NEW w \in AdcWorkers, NEW mode \in {"DISABLED", "PEAK", "TRACE"}, setAdcSamplingMode(w, mode)
      PROVE AdcIInv'
  <2>1. TraceIInv' BY <1>7, EmptySeq, AdcAssumption DEF setAdcSamplingMode, TraceIInv, Untriggered
  <2> QED BY <1>7, <1>b, <2>1 DEF setAdcSamplingMode, PublishedIInv
<1>8. ASSUME NEW w \in AdcWorkers, NEW samples \in BurstSizes, startBurst(w, samples) PROVE AdcIInv'
  <2>1. samples \in Nat BY AdcAssumption
  <2>2. CASE samples = 0
    <3>1. /\ adcTimers' = Cancelled(adcTimers, "burst") /\ remaining' = 0
          /\ UNCHANGED <<burstSamples, adcAsked, adcIo>>
      BY <1>8, <2>2 DEF startBurst
    <3>2. /\ adcTimers' \in [{"trace", "burst"} -> [armed : BOOLEAN, expired : Nat]]
          /\ ~adcTimers'["burst"].armed /\ adcTimers'["burst"].expired = adcTimers["burst"].expired
      BY <3>1 DEF Cancelled, BurstIInv
    <3>3. BurstIInv' BY <3>1, <3>2 DEF BurstIInv
    <3> QED BY <3>3, <1>8, <1>a DEF startBurst
  <2>3. CASE samples # 0
    <3>1. BurstIInv' BY <1>8, <2>1, <2>3, EmptySeq DEF startBurst, BurstIInv
    <3> QED BY <3>1, <1>8, <1>a DEF startBurst
  <2> QED BY <2>2, <2>3
<1>9. ASSUME NEW w \in AdcWorkers, Trigger(w) PROVE AdcIInv'
  <2>1. TraceIInv' BY <1>9, AdcAssumption DEF Trigger, TraceIInv, Untriggered
  <2> QED BY <1>9, <1>b, <2>1 DEF Trigger, PublishedIInv
<1>10. ASSUME NEW w \in AdcWorkers, SampleTrigger(w) PROVE AdcIInv'
  BY <1>10, <1>a, <1>b DEF SampleTrigger
<1>11. ASSUME NEW w \in AdcWorkers, sampleAdcEvent(w) PROVE AdcIInv'
  BY <1>11, <1>a, <1>b, SampleKeepsTrace DEF sampleAdcEvent
<1>12. ASSUME NEW w \in AdcWorkers, SetTraceTimer(w) PROVE AdcIInv'
  BY <1>12, <1>a, BurstTimers DEF SetTraceTimer
<1>13. ASSUME NEW w \in AdcWorkers, scheduleBurst(w) PROVE AdcIInv'
  <2>1. remaining <= 0 \/ remaining > 0 BY DEF BurstIInv
  <2> QED BY <2>1, <1>13, <1>a, BurstTimers DEF scheduleBurst
<1>14. CASE UNCHANGED adcVars BY <1>14, <1>a, <1>b DEF adcVars, adcState, adcBurst
<1> QED BY <1>1, <1>2, <1>3, <1>4, <1>5, <1>6, <1>7, <1>8, <1>9, <1>10, <1>11, <1>12, <1>13, <1>14 DEF AdcNext

\* ADS1115Driver (ads1115_driver.cpp): whichever threads sample, trigger, change the mode and run
\* the timers' callbacks meanwhile, a published trace belongs to its last trigger and to the present
\* mode, and a burst holds no more than what was asked for.
THEOREM AdcTracesAreOfTheirTrigger == AdcSpec => []TracesAreOfTheirTrigger
<1>1. AdcInit => AdcIInv
  BY AdcAssumption, EmptySeq
  DEF AdcInit, AdcIInv, TraceIInv, BurstIInv, PublishedIInv, NoTrace, Untriggered
<1>2. AdcIInv => TracesAreOfTheirTrigger
  BY LenProperties DEF AdcIInv, BurstIInv, PublishedIInv, TracesAreOfTheirTrigger
<1> QED BY <1>1, <1>2, AdcStep, PTL DEF AdcSpec

-----------------------------------------------------------------------------
(* The DAC.  Codes and voltages first: what rounding to a code and cutting  *)
(* to a voltage may lose.                                                   *)

LEMMA VddError ==
    ASSUME NEW V \in Nat, NEW N \in Nat, N > 0, V >= N, V <= 4 * N, NEW v \in Nat
    PROVE  LET c == (v * N + V \div 2) \div V IN ((c * V) \div N) - v \in -2 .. 2
<1> DEFINE h == V \div 2
           c == (v * N + h) \div V
           d == (c * V) \div N
<1>1. h \in Nat /\ 2 * h <= V /\ V <= 2 * h + 1 OBVIOUS
<1>2. v * N \in Nat OBVIOUS
<1>3. c \in Nat /\ c * V <= v * N + h /\ v * N + h < c * V + V
  BY <1>1, <1>2
<1>4. c * V \in Nat BY <1>3
<1>5. d \in Nat /\ d * N <= c * V /\ c * V < d * N + N BY <1>4
<1> HIDE DEF h, c, d
<1>6. d * N \in Nat BY <1>5
<1>7. d * N <= v * N + 2 * N BY <1>1, <1>2, <1>3, <1>4, <1>5, <1>6
<1>8. v * N < d * N + 3 * N BY <1>1, <1>2, <1>3, <1>4, <1>5, <1>6
<1>9. d <= v + 2
  <2> SUFFICES ASSUME d >= v + 3 PROVE FALSE BY <1>5
  <2>1. d * N >= (v + 3) * N BY <1>5
  <2>2. (v + 3) * N = v * N + 3 * N OBVIOUS
  <2> QED BY <2>1, <2>2, <1>7, <1>2, <1>6
<1>10. v < d + 3
  <2> SUFFICES ASSUME v >= d + 3 PROVE FALSE BY <1>5
  <2>1. v * N >= (d + 3) * N BY <1>5
  <2> QED BY <2>1, <1>8, <1>5
<1>11. d - v \in -2 .. 2 BY <1>9, <1>10, <1>5
<1> QED BY <1>11 DEF c, d, h

LEMMA VddFits ==
    ASSUME NEW V \in Nat, NEW N \in Nat, N > 0, V >= N, NEW M \in Nat, NEW v \in Nat, v < M
    PROVE  LET c == (v * N + V \div 2) \div V IN c \in Nat /\ c < M
<1> DEFINE h == V \div 2
           c == (v * N + h) \div V
<1>1. h \in Nat /\ 2 * h <= V OBVIOUS
<1>2. v * N \in Nat OBVIOUS
<1>3. c \in Nat /\ c * V <= v * N + h
  BY <1>1, <1>2
<1> HIDE DEF h, c
<1>4. v * N <= v * V OBVIOUS
<1>5. v * V \in Nat /\ c * V \in Nat BY <1>3
<1>6. c * V < (v + 1) * V
  BY <1>1, <1>2, <1>3, <1>4, <1>5
<1>7. c < v + 1
  <2> SUFFICES ASSUME c >= v + 1 PROVE FALSE BY <1>3
  <2>1. c * V >= (v + 1) * V BY <1>3
  <2> QED BY <2>1, <1>6, <1>5
<1> QED BY <1>7, <1>3 DEF c, h

\* A code that is accepted is near the voltage, as far as 16 bits carry it.
LEMMA CodedIsNear ==
    ASSUME NEW v \in Nat, NEW r \in {"2V", "Vdd"}, Coded(r, v).value <= MaxCode,
           r = "2V" \/ v < Modulus
    PROVE  Near(Coded(r, v), v % Modulus)
<1>1. MaxCode \in Nat /\ Modulus \in Nat \ {0} /\ VddUnits \in Nat /\ VddUnits >= MaxCode + 1
      /\ VddUnits <= 4 * (MaxCode + 1)
  BY DacAssumption
<1>2. v % Modulus \in Nat BY <1>1
<1>3. CASE r = "2V"
  <2> DEFINE code == v % Modulus
  <2>1. CASE code > MaxCode
    <3>1. Coded(r, v) = [value |-> code \div 2, gain |-> 2, vref |-> r] BY <1>3, <2>1 DEF Coded
    <3>2. code2voltage(Coded(r, v)) = (code \div 2) * 2 BY <3>1, <1>3 DEF code2voltage
    <3> HIDE DEF code
    <3>3. code \in Nat BY <1>2 DEF code
    <3>4. (code \div 2) * 2 - code \in -2 .. 2 BY <3>3
    <3> QED BY <3>2, <3>4 DEF Near, code
  <2>2. CASE ~(code > MaxCode)
    <3>1. Coded(r, v) = [value |-> code, gain |-> 1, vref |-> r] BY <1>3, <2>2 DEF Coded
    <3>2. code2voltage(Coded(r, v)) = code * 1 BY <3>1, <1>3 DEF code2voltage
    <3> HIDE DEF code
    <3>3. code \in Nat BY <1>2 DEF code
    <3>4. code * 1 - code \in -2 .. 2 BY <3>3
    <3> QED BY <3>2, <3>4 DEF Near, code
  <2> QED BY <2>1, <2>2
<1>4. CASE r = "Vdd"
  <2> DEFINE N == MaxCode + 1
             c == (v * N + VddUnits \div 2) \div VddUnits
  <2>1. v < Modulus /\ v % Modulus = v BY <1>1, <1>4
  <2>2. N \in Nat /\ N > 0 /\ VddUnits >= N /\ VddUnits <= 4 * N BY <1>1
  <2> HIDE DEF N
  <2>3. c \in Nat /\ c < Modulus BY <2>1, <2>2, <1>1, VddFits
  <2>4. ((c * VddUnits) \div N) - v \in -2 .. 2 BY <2>2, <1>1, VddError
  <2>5. VddCode(v) = c % Modulus BY DEF VddCode, N
  <2> HIDE DEF c
  <2>6. c % Modulus = c BY <2>3, <1>1
  <2>7. Coded(r, v) = [value |-> c, gain |-> 1, vref |-> r] BY <1>4, <2>5, <2>6 DEF Coded
  <2>8. code2voltage(Coded(r, v)) = (c * VddUnits) \div N BY <2>7, <1>4 DEF code2voltage, N
  <2> QED BY <2>8, <2>4, <2>1 DEF Near
<1> QED BY <1>3, <1>4

DacRegisters == [DacChannels -> [value : Nat, gain : {1, 2}, vref : {"2V", "Vdd"}]]
DacGot == {<<>>} \cup DacRegisters \X DacRegisters \X BOOLEAN
DacSteps == {"read", "parse", "go", "written"}
SetCalls ==
    [op : {"setVoltage"}, channel : DacChannels, voltage : Nat,
     data : [value : Nat, gain : {1, 2}, vref : {"2V", "Vdd"}], then : {"no", "read", "readIfSet"},
     step : DacSteps, got : DacGot, lost : SUBSET DacChannels]
OtherCalls ==
    [op : {"readDac", "storeSettings"}, step : DacSteps, got : DacGot, lost : SUBSET DacChannels]

DacTypeOK ==
    /\ dacReg \in DacRegisters /\ dacEep \in DacRegisters /\ dacBusy \in BOOLEAN
    /\ fChannelSetting \in DacRegisters /\ fChannelSettingEep \in DacRegisters /\ fBusy \in BOOLEAN
    /\ dacFresh \in BOOLEAN /\ dacDo \in [DacWorkers -> {Idle} \cup SetCalls \cup OtherCalls]

\* What the worker holds in the middle of a call: registers that were read are still those of the
\* device, the data of a voltage are its code, and what was written is on the channel.
CallIsSound(call) ==
    /\ call.step = "parse" => call.got \in DacRegisters \X DacRegisters \X BOOLEAN
                              /\ call.got[1] = dacReg /\ call.got[2] = dacEep
    /\ call.op = "setVoltage" =>
          call.data.value <= MaxCode /\ \E r \in {"2V", "Vdd"} : call.data = Coded(r, call.voltage)
    /\ call.step = "written" => call.op = "setVoltage" /\ dacReg[call.channel] = call.data
    /\ call.op # "readDac" => dacDone.op = "none"
    /\ call.op = "readDac" /\ call.step = "read" => call.lost # DacChannels

\* A copy taken for recent is the device's, but for a channel that was just written.
CopyIsRecent ==
    dacFresh /\ (\A w \in DacWorkers : dacDo[w] = Idle \/ dacDo[w].step # "written") =>
        fChannelSetting = dacReg /\ fChannelSettingEep = dacEep

\* What the last call says of the device.
DoneIsSo ==
    /\ dacDone.op = "setVoltage" /\ dacDone.ok =>
          (dacReg[dacDone.call.channel].vref = "2V" \/ dacDone.call.voltage < Modulus =>
              Near(dacReg[dacDone.call.channel], dacDone.call.voltage % Modulus))
    /\ dacDone.op = "storeSettings" /\ dacDone.ok => dacEep = dacReg

DacIInv ==
    /\ DacTypeOK /\ CopyIsRecent /\ DoneIsSo
    /\ \A w \in DacWorkers : dacDo[w] # Idle => CallIsSound(dacDo[w])

\* A call goes on: its step is another, and the registers it read may be.
GoesOn(w, st, g, l) == dacDo' = [dacDo EXCEPT ![w].step = st, ![w].got = g, ![w].lost = l]

LEMMA DacGoesOn ==
    ASSUME DacTypeOK, NEW w, DacWorkers = {w}, dacDo[w] # Idle,
           NEW st \in DacSteps, NEW g \in DacGot, NEW l \in SUBSET DacChannels, GoesOn(w, st, g, l)
    PROVE  /\ dacDo' \in [DacWorkers -> {Idle} \cup SetCalls \cup OtherCalls] /\ dacDo'[w] # Idle
           /\ dacDo'[w].step = st /\ dacDo'[w].got = g /\ dacDo'[w].lost = l /\ dacDo'[w].op = dacDo[w].op
           /\ dacDo[w].op = "setVoltage" =>
                 /\ dacDo'[w].channel = dacDo[w].channel /\ dacDo'[w].data = dacDo[w].data
                 /\ dacDo'[w].voltage = dacDo[w].voltage
<1> DEFINE call == dacDo[w]
           next == [call EXCEPT !.step = st, !.got = g, !.lost = l]
<1>1. dacDo \in [DacWorkers -> {Idle} \cup SetCalls \cup OtherCalls] /\ w \in DacWorkers BY DEF DacTypeOK
<1>2. dacDo'[w] = next /\ dacDo' = [x \in DacWorkers |-> next]
  <2>1. dacDo' = [dacDo EXCEPT ![w] = next] BY <1>1 DEF GoesOn
  <2> HIDE DEF next
  <2> QED BY <2>1, <1>1
<1>3. CASE call \in SetCalls
  <2>1. /\ next \in SetCalls /\ next.step = st /\ next.got = g /\ next.lost = l /\ next.op = call.op
        /\ next.channel = call.channel /\ next.data = call.data /\ next.voltage = call.voltage
    BY <1>3 DEF SetCalls
  <2>2. next.op = "setVoltage" BY <2>1 DEF SetCalls
  <2> HIDE DEF next
  <2>3. next # Idle BY <2>2 DEF Idle
  <2> QED BY <2>1, <2>3, <1>2
<1>4. CASE call \in OtherCalls
  <2>1. next \in OtherCalls /\ next.step = st /\ next.got = g /\ next.lost = l /\ next.op = call.op
    BY <1>4 DEF OtherCalls
  <2>2. next.op \in {"readDac", "storeSettings"} BY <2>1 DEF OtherCalls
  <2> HIDE DEF next
  <2>3. next # Idle BY <2>2 DEF Idle
  <2>4. call.op # "setVoltage" BY <2>1, <2>2
  <2> QED BY <2>1, <2>3, <2>4, <1>2
<1> QED BY <1>1, <1>3, <1>4

\* Step() changes nothing but the step.
LEMMA OnlyTheStep ==
    ASSUME DacTypeOK, NEW w, DacWorkers = {w}, dacDo[w] # Idle, NEW st, Step(w, st)
    PROVE  GoesOn(w, st, dacDo[w].got, dacDo[w].lost)
<1> USE DEF GoesOn
<1> DEFINE call == dacDo[w]
           one == [call EXCEPT !.step = st]
           all == [call EXCEPT !.step = st, !.got = call.got, !.lost = call.lost]
<1>1. dacDo \in [DacWorkers -> {Idle} \cup SetCalls \cup OtherCalls] /\ w \in DacWorkers BY DEF DacTypeOK
<1>2. CASE call \in SetCalls BY <1>1, <1>2 DEF Step, SetCalls
<1>3. CASE call \in OtherCalls BY <1>1, <1>3 DEF Step, OtherCalls
<1> QED BY <1>1, <1>2, <1>3

\* A call returns: the worker is idle or reads the DAC next.
LEMMA DacReturns ==
    ASSUME DacTypeOK, NEW w, DacWorkers = {w}, dacDo[w] # Idle, NEW ok \in BOOLEAN, Returned(w, ok)
    PROVE  /\ dacDo' \in [DacWorkers -> {Idle} \cup SetCalls \cup OtherCalls]
           /\ dacDo'[w] \in {Idle, ReadCall}
           /\ dacDone' = [op |-> dacDo[w].op, ok |-> ok, call |-> dacDo[w]]
<1>1. dacDo \in [DacWorkers -> {Idle} \cup SetCalls \cup OtherCalls] /\ w \in DacWorkers BY DEF DacTypeOK
<1>2. ReadCall \in OtherCalls BY DEF ReadCall, OtherCalls, DacSteps, DacGot
<1>3. PICK next \in {Idle, ReadCall} : dacDo' = [dacDo EXCEPT ![w] = next]
  BY DEF Returned
<1>4. dacDone' = [op |-> dacDo[w].op, ok |-> ok, call |-> dacDo[w]] BY DEF Returned
<1> QED BY <1>1, <1>2, <1>3, <1>4


LEMMA CodedType ==
    ASSUME NEW v \in Nat, NEW r \in {"2V", "Vdd"}
    PROVE  Coded(r, v) \in [value : Nat, gain : {1, 2}, vref : {"2V", "Vdd"}] /\ Coded(r, v).vref = r
<1>1. v % Modulus \in Nat /\ (v % Modulus) \div 2 \in Nat BY DacAssumption
<1>2. VddCode(v) \in Nat
  <2>1. MaxCode + 1 \in Nat /\ VddUnits \in Nat \ {0} /\ Modulus \in Nat \ {0} BY DacAssumption
  <2>2. v * (MaxCode + 1) \in Nat /\ VddUnits \div 2 \in Nat BY <2>1
  <2>3. \A a \in Nat, b \in Nat \ {0} : a \div b \in Nat /\ a % b \in Nat OBVIOUS
  <2>4. v * (MaxCode + 1) + VddUnits \div 2 \in Nat BY <2>2
  <2>5. (v * (MaxCode + 1) + VddUnits \div 2) \div VddUnits \in Nat BY <2>1, <2>3, <2>4, Zenon
  <2> QED BY <2>1, <2>3, <2>5, Zenon DEF VddCode
<1> QED BY <1>1, <1>2 DEF Coded

\* A new call of the driver.
LEMMA DacCalled ==
    ASSUME DacIInv, NEW w, DacWorkers = {w}, NEW call \in SetCalls \cup OtherCalls, DacCall(w, call),
           call.step = "read", call.lost = {},
           call.op = "setVoltage" =>
               call.data.value <= MaxCode /\ \E r \in {"2V", "Vdd"} : call.data = Coded(r, call.voltage)
    PROVE  DacIInv'
<1>1. /\ dacDo[w] = Idle /\ dacDo' = [dacDo EXCEPT ![w] = call] /\ dacDone' = Idle
      /\ UNCHANGED <<dacReg, dacEep, dacBusy, fChannelSetting, fChannelSettingEep, fBusy, dacFresh>>
  BY DEF DacCall, dacDevice, dacCopy
<1>2. dacDo'[w] = call /\ dacDo' \in [DacWorkers -> {Idle} \cup SetCalls \cup OtherCalls]
  BY <1>1 DEF DacIInv, DacTypeOK
<1>3. DacTypeOK' BY <1>1, <1>2 DEF DacIInv, DacTypeOK
<1>4. CopyIsRecent' BY <1>1 DEF DacIInv, CopyIsRecent
<1>5. DoneIsSo' BY <1>1 DEF DoneIsSo, Idle
<1>6. CallIsSound(dacDo[w])' BY <1>1, <1>2, DacAssumption DEF CallIsSound, Idle
<1> QED BY <1>3, <1>4, <1>5, <1>6 DEF DacIInv

LEMMA SetCalled ==
    ASSUME DacIInv, NEW w, DacWorkers = {w}, NEW c \in DacChannels, NEW v \in Nat,
           NEW then \in {"no", "read", "readIfSet"},
           ~Refused(SetCall(c, v, then)), DacCall(w, SetCall(c, v, then))
    PROVE  DacIInv'
<1> DEFINE call == SetCall(c, v, then)
           r == fChannelSetting[c].vref
<1>1. r \in {"2V", "Vdd"} BY DEF DacIInv, DacTypeOK, DacRegisters
<1>2. /\ call.op = "setVoltage" /\ call.step = "read" /\ call.lost = {} /\ call.data = Coded(r, v) /\ call.voltage = v
  BY DEF SetCall
<1> HIDE DEF r
<1>3. Coded(r, v) \in [value : Nat, gain : {1, 2}, vref : {"2V", "Vdd"}] BY <1>1, CodedType
<1>4. call \in SetCalls BY <1>3 DEF SetCall, SetCalls, DacSteps, DacGot, r
<1>5. call.data.value <= MaxCode
  <2>1. Coded(r, v).value \in Nat BY <1>3
  <2> QED BY <2>1, <1>2, DacAssumption DEF Refused
<1> HIDE DEF call
<1>6. \E q \in {"2V", "Vdd"} : call.data = Coded(q, call.voltage) BY <1>1, <1>2
<1>7. DacCall(w, call) BY DEF call
<1> QED BY <1>2, <1>4, <1>5, <1>6, <1>7, DacCalled

LEMMA DacStep == ASSUME NEW w, DacWorkers = {w} PROVE DacIInv /\ [DacNext]_dacVars => DacIInv'
<1> SUFFICES ASSUME DacIInv, [DacNext]_dacVars PROVE DacIInv' OBVIOUS
<1>t. /\ dacReg \in DacRegisters /\ dacEep \in DacRegisters /\ dacBusy \in BOOLEAN
      /\ fChannelSetting \in DacRegisters /\ fChannelSettingEep \in DacRegisters /\ fBusy \in BOOLEAN
      /\ dacFresh \in BOOLEAN /\ dacDo \in [DacWorkers -> {Idle} \cup SetCalls \cup OtherCalls]
      /\ DacTypeOK
  BY DEF DacIInv, DacTypeOK
<1>s. dacDo[w] # Idle => CallIsSound(dacDo[w]) /\ dacDo[w] \in SetCalls \cup OtherCalls
  BY <1>t DEF DacIInv
<1>n. dacDo[w] # Idle => dacDo[w].op # "none" /\ dacDo[w].got \in DacGot /\ dacDo[w].lost \in SUBSET DacChannels
                         /\ dacDo[w].step \in DacSteps
  BY <1>s DEF SetCalls, OtherCalls
\* A step that leaves the registers and the EEPROM alone and in which the call goes on.
<1>g. ASSUME dacDo[w] # Idle, NEW st \in DacSteps, NEW g \in DacGot, NEW l \in SUBSET DacChannels,
             GoesOn(w, st, g, l),
             UNCHANGED <<dacReg, dacEep, dacDone>>, dacBusy' \in BOOLEAN,
             fChannelSetting' \in DacRegisters, fChannelSettingEep' \in DacRegisters, fBusy' \in BOOLEAN,
             dacFresh' \in BOOLEAN, CopyIsRecent', st # "written",
             st = "parse" => g = <<dacReg, dacEep, g[3]>> /\ g[3] \in BOOLEAN,
             st = "read" => dacDo[w].op # "readDac" \/ l # DacChannels
      PROVE  DacIInv'
  <2>1. /\ dacDo' \in [DacWorkers -> {Idle} \cup SetCalls \cup OtherCalls] /\ dacDo'[w] # Idle
        /\ dacDo'[w].step = st /\ dacDo'[w].got = g /\ dacDo'[w].lost = l /\ dacDo'[w].op = dacDo[w].op
        /\ dacDo[w].op = "setVoltage" =>
              /\ dacDo'[w].channel = dacDo[w].channel /\ dacDo'[w].data = dacDo[w].data
              /\ dacDo'[w].voltage = dacDo[w].voltage
    BY <1>g, <1>t, DacGoesOn
  <2>2. DacTypeOK' BY <2>1, <1>g, <1>t DEF DacTypeOK
  <2>3. DoneIsSo' BY <1>g DEF DacIInv, DoneIsSo
  <2>4. st = "parse" => /\ g \in DacRegisters \X DacRegisters \X BOOLEAN
                        /\ g[1] = dacReg' /\ g[2] = dacEep'
    BY <1>g, <1>t
  <2>5. CallIsSound(dacDo[w])' BY <2>1, <2>4, <1>g, <1>s DEF CallIsSound
  <2> QED BY <2>2, <2>3, <2>5, <1>g DEF DacIInv
\* A step in which the call returns.
<1>r. ASSUME dacDo[w] # Idle, NEW ok \in BOOLEAN, Returned(w, ok),
             dacReg' \in DacRegisters, dacEep' \in DacRegisters, dacBusy' \in BOOLEAN,
             fChannelSetting' \in DacRegisters, fChannelSettingEep' \in DacRegisters, fBusy' \in BOOLEAN,
             dacFresh' \in BOOLEAN, CopyIsRecent', ok => DoneIsSo'
      PROVE  DacIInv'
  <2>1. /\ dacDo' \in [DacWorkers -> {Idle} \cup SetCalls \cup OtherCalls]
        /\ dacDo'[w] \in {Idle, ReadCall}
        /\ dacDone' = [op |-> dacDo[w].op, ok |-> ok, call |-> dacDo[w]]
    BY <1>r, <1>t, DacReturns
  <2>2. DacTypeOK' BY <2>1, <1>r DEF DacTypeOK
  <2>3. DoneIsSo'
    <3>1. dacDone'.ok = ok BY <2>1
    <3> QED BY <3>1, <1>r DEF DoneIsSo
  <2>4. dacDo'[w] # Idle => CallIsSound(dacDo[w])'
    BY <2>1, DacAssumption DEF ReadCall, CallIsSound
  <2> QED BY <2>2, <2>3, <2>4, <1>r DEF DacIInv
<1>1. CASE CopyAges \/ EepromReady
  <2>1. /\ UNCHANGED <<dacReg, dacEep, fChannelSetting, fChannelSettingEep, fBusy, dacDo, dacDone>>
        /\ dacFresh' \in {dacFresh, FALSE} /\ dacBusy' \in {dacBusy, FALSE}
    BY <1>1 DEF CopyAges, EepromReady, dacDevice, dacCopy
  <2>2. DacTypeOK' BY <2>1, <1>t DEF DacTypeOK
  <2>3. CopyIsRecent' BY <2>1, <1>t DEF DacIInv, CopyIsRecent
  <2>4. DoneIsSo' BY <2>1 DEF DacIInv, DoneIsSo
  <2> QED BY <2>1, <2>2, <2>3, <2>4 DEF DacIInv, CallIsSound
<1>2. ASSUME NEW c \in DacChannels, NEW v \in Voltages, setDacValue(w, c, v) PROVE DacIInv'
  <2>1. v \in Nat /\ 2 * MaxCode \in Nat BY DacAssumption
  <2>2. Min({v, 2 * MaxCode}) \in {v, 2 * MaxCode}
    <3>1. \E x \in {v, 2 * MaxCode} : \A y \in {v, 2 * MaxCode} : x =< y BY <2>1
    <3> QED BY <3>1 DEF Min
  <2>3. Min({v, 2 * MaxCode}) \in Nat BY <2>1, <2>2
  <2>4. PICK u \in Nat, then \in {"no", "readIfSet"} :
           ~Refused(SetCall(c, u, then)) /\ DacCall(w, SetCall(c, u, then))
    BY <1>2, <2>1, <2>3 DEF setDacValue
  <2> QED BY <2>4, SetCalled
<1>3. ASSUME NEW v \in Voltages, setBiasVoltage(w, v) PROVE DacIInv'
  <2>1. v \in Nat /\ BiasChannel \in DacChannels BY DacAssumption
  <2>2. CASE ~Refused(SetCall(BiasChannel, v, "read"))
    BY <2>1, <2>2, <1>3, SetCalled DEF setBiasVoltage
  <2>3. CASE Refused(SetCall(BiasChannel, v, "read"))
    <3>1. DacCall(w, ReadCall) BY <2>3, <1>3 DEF setBiasVoltage
    <3>2. ReadCall \in OtherCalls /\ ReadCall.step = "read" /\ ReadCall.lost = {} /\ ReadCall.op # "setVoltage"
      BY DEF ReadCall, OtherCalls, DacSteps, DacGot
    <3> QED BY <3>1, <3>2, DacCalled
  <2> QED BY <2>2, <2>3
<1>4. CASE requestDac(w)
  <2>1. ReadCall \in OtherCalls /\ ReadCall.step = "read" /\ ReadCall.lost = {} /\ ReadCall.op # "setVoltage"
    BY DEF ReadCall, OtherCalls, DacSteps, DacGot
  <2> QED BY <2>1, <1>4, DacCalled DEF requestDac
<1>5. CASE saveDacValuesToEeprom(w)
  <2> DEFINE call == [op |-> "storeSettings", step |-> "read", got |-> <<>>, lost |-> {}]
  <2>1. call \in OtherCalls /\ call.step = "read" /\ call.lost = {} /\ call.op # "setVoltage"
    BY DEF OtherCalls, DacSteps, DacGot
  <2>2. DacCall(w, call) BY <1>5 DEF saveDacValuesToEeprom
  <2> HIDE DEF call
  <2> QED BY <2>1, <2>2, DacCalled
<1>c. ASSUME dacDo[w] = Idle \/ dacDo[w].step # "written", UNCHANGED <<dacReg, dacEep, fChannelSetting, fChannelSettingEep>>,
             dacFresh' \in {dacFresh, FALSE}
      PROVE  CopyIsRecent'
  BY <1>c, <1>t DEF DacIInv, CopyIsRecent
<1>6. CASE DacFetch(w)
  <2>1. /\ dacDo[w] # Idle /\ dacDo[w].step = "read"
        /\ UNCHANGED <<dacReg, dacEep, dacBusy, fChannelSetting, fChannelSettingEep, fBusy>>
    BY <1>6 DEF DacFetch, dacDevice, dacCopy
  <2>2. dacDo[w].got \in DacGot /\ dacDo[w].lost \in SUBSET DacChannels BY <2>1, <1>n
  <2>3. CASE UNCHANGED <<dacDo, dacDone>> /\ dacFresh' = FALSE
    <3>1. CopyIsRecent' BY <2>1, <2>3, <1>c
    <3>2. DacTypeOK' BY <2>1, <2>3, <1>t DEF DacTypeOK
    <3>3. DoneIsSo' BY <2>1, <2>3 DEF DacIInv, DoneIsSo
    <3> QED BY <2>1, <2>3, <3>1, <3>2, <3>3 DEF DacIInv, CallIsSound
  <2>4. CASE Step(w, "go") /\ UNCHANGED <<dacFresh, dacDone>>
    <3>1. CopyIsRecent' BY <2>1, <2>4, <1>c
    <3>2. GoesOn(w, "go", dacDo[w].got, dacDo[w].lost)
      BY <2>1, <2>4, <1>t, OnlyTheStep
    <3>3. "go" \in DacSteps /\ "go" # "parse" /\ "go" # "written" /\ "go" # "read" BY DEF DacSteps
    <3>f. UNCHANGED <<dacReg, dacEep, dacDone>> /\ dacBusy' \in BOOLEAN
          /\ fChannelSetting' \in DacRegisters /\ fChannelSettingEep' \in DacRegisters /\ fBusy' \in BOOLEAN
          /\ dacFresh' \in BOOLEAN
      BY <2>1, <2>4, <1>t
    <3> QED BY <3>1, <3>2, <3>3, <3>f, <2>1, <2>2, <1>g, Zenon
  <2>5. CASE dacDo' = [dacDo EXCEPT ![w].step = "parse", ![w].got = dacDevice] /\ UNCHANGED <<dacFresh, dacDone>>
    <3>1. CopyIsRecent' BY <2>1, <2>5, <1>c
    <3>2. GoesOn(w, "parse", dacDevice, dacDo[w].lost)
      <4>1. CASE dacDo[w] \in SetCalls BY <4>1, <2>5, <1>t DEF SetCalls, GoesOn
      <4>2. CASE dacDo[w] \in OtherCalls BY <4>2, <2>5, <1>t DEF OtherCalls, GoesOn
      <4> QED BY <4>1, <4>2, <1>s, <2>1
    <3>3. "parse" \in DacSteps /\ "parse" # "written" /\ "parse" # "read" BY DEF DacSteps
    <3>4. dacDevice \in DacGot /\ dacDevice = <<dacReg, dacEep, dacDevice[3]>> /\ dacDevice[3] \in BOOLEAN
      BY <1>t DEF dacDevice, DacGot
    <3>f. UNCHANGED <<dacReg, dacEep, dacDone>> /\ dacBusy' \in BOOLEAN
          /\ fChannelSetting' \in DacRegisters /\ fChannelSettingEep' \in DacRegisters /\ fBusy' \in BOOLEAN
          /\ dacFresh' \in BOOLEAN
      BY <2>1, <2>5, <1>t
    <3> QED BY <3>1, <3>2, <3>3, <3>4, <3>f, <2>1, <2>2, <1>g, Zenon
  <2>6. ASSUME dacDo[w].op = "readDac", NEW l, l = dacDo[w].lost \cup {Min(DacChannels \ dacDo[w].lost)},
               NEW st, st = IF l = DacChannels THEN "go" ELSE "read",
               dacDo' = [dacDo EXCEPT ![w].lost = l, ![w].step = st], UNCHANGED <<dacFresh, dacDone>>
        PROVE  DacIInv'
    <3> DEFINE rest == DacChannels \ dacDo[w].lost
    <3>1. rest # {} /\ rest \subseteq Nat
      <4>1. dacDo[w].lost # DacChannels BY <2>1, <2>6, <1>s DEF CallIsSound
      <4>2. rest # {} BY <4>1, <2>2, Zenon
      <4>3. DacChannels \subseteq Nat
        <5>1. 0 .. 3 \subseteq Nat OBVIOUS
        <5> QED BY <5>1, DacAssumption
      <4>4. rest \subseteq Nat BY <4>3, Zenon
      <4> QED BY <4>2, <4>4
    <3> HIDE DEF rest
    <3>2. Min(rest) \in rest
      <4>1. \E x \in rest : \A y \in rest : x =< y BY <3>1, LeastNumber
      <4> QED BY <4>1 DEF Min
    <3>3. l \in SUBSET DacChannels BY <3>2, <2>2, <2>6 DEF rest
    <3>4. CopyIsRecent' BY <2>1, <2>6, <1>c
    <3>5. GoesOn(w, st, dacDo[w].got, l)
      <4>1. CASE dacDo[w] \in SetCalls BY <4>1, <2>6 DEF SetCalls, GoesOn
      <4>2. CASE dacDo[w] \in OtherCalls BY <4>2, <2>6, <1>t DEF OtherCalls, GoesOn
      <4> QED BY <4>1, <4>2, <1>s, <2>1
    <3>6. st \in DacSteps /\ st # "parse" /\ st # "written"
          /\ (st = "read" => dacDo[w].op # "readDac" \/ l # DacChannels)
      BY <2>6 DEF DacSteps
    <3>8. dacDo[w] # Idle /\ dacDo[w].got \in DacGot BY <2>1, <2>2
    <3>7. UNCHANGED <<dacReg, dacEep, dacDone>> /\ dacBusy' \in BOOLEAN
          /\ fChannelSetting' \in DacRegisters /\ fChannelSettingEep' \in DacRegisters /\ fBusy' \in BOOLEAN
          /\ dacFresh' \in BOOLEAN
      BY <2>1, <2>6, <1>t
    <3> QED BY <3>3, <3>4, <3>5, <3>6, <3>7, <3>8, <1>g, ZenonT(60)
  <2>7. CASE Returned(w, FALSE) /\ UNCHANGED dacFresh
    <3>1. CopyIsRecent' BY <2>1, <2>7, <1>c
    <3> QED BY <3>1, <2>1, <2>7, <1>r, <1>t
  <2> QED BY <2>3, <2>4, <2>5, <2>6, <2>7, <1>6 DEF DacFetch
<1>7. CASE DacParse(w)
  <2>1. /\ dacDo[w] # Idle /\ dacDo[w].step = "parse"
        /\ fChannelSetting' = dacReg /\ fChannelSettingEep' = dacEep /\ fBusy' \in BOOLEAN
        /\ UNCHANGED <<dacReg, dacEep, dacBusy>>
    BY <1>7, <1>s DEF DacParse, dacDevice, CallIsSound
  <2>2. dacDo[w].got \in DacGot /\ dacDo[w].lost \in SUBSET DacChannels BY <2>1, <1>n
  <2>3. CopyIsRecent' BY <2>1 DEF CopyIsRecent
  <2>4. dacFresh' \in BOOLEAN BY <1>7 DEF DacParse
  <2>5. ASSUME NEW st \in {"go", "read"}, Step(w, st), UNCHANGED dacDone,
               st = "read" => dacDo[w].op # "readDac"
        PROVE  DacIInv'
    <3>1. GoesOn(w, st, dacDo[w].got, dacDo[w].lost)
      BY <2>1, <2>5, <1>t, OnlyTheStep
    <3>2. st \in DacSteps /\ st # "parse" /\ st # "written" BY DEF DacSteps
    <3> QED BY <3>1, <3>2, <2>1, <2>2, <2>3, <2>4, <2>5, <1>g, <1>t, ZenonT(40)
  <2>6. CASE Returned(w, FALSE) BY <2>6, <2>1, <2>3, <2>4, <1>r, <1>t
  <2> QED BY <2>5, <2>6, <1>7 DEF DacParse, Waits
<1>8. CASE writeChannel(w)
  <2>1. /\ dacDo[w] # Idle /\ dacDo[w].op = "setVoltage" /\ dacDo[w].step = "go"
        /\ UNCHANGED <<dacEep, dacBusy, fChannelSetting, fChannelSettingEep, fBusy, dacFresh>>
    BY <1>8 DEF writeChannel, dacCopy
  <2>2. CASE dacReg' = dacReg /\ Returned(w, FALSE)
    <3>1. CopyIsRecent' BY <2>1, <2>2, <1>c
    <3> QED BY <3>1, <2>1, <2>2, <1>r, <1>t
  <2>3. CASE dacReg' = [dacReg EXCEPT ![dacDo[w].channel] = dacDo[w].data] /\ Step(w, "written") /\ UNCHANGED dacDone
    <3> DEFINE call == dacDo[w]
    <3>1. GoesOn(w, "written", dacDo[w].got, dacDo[w].lost)
      BY <2>1, <2>3, <1>t, OnlyTheStep
    <3>2. dacDo[w].got \in DacGot /\ dacDo[w].lost \in SUBSET DacChannels /\ "written" \in DacSteps
          /\ DacTypeOK /\ dacDo[w] # Idle
      BY <2>1, <1>n, <1>t DEF DacSteps
    <3>3. /\ dacDo' \in [DacWorkers -> {Idle} \cup SetCalls \cup OtherCalls] /\ dacDo'[w] # Idle
          /\ dacDo'[w].step = "written" /\ dacDo'[w].op = "setVoltage"
          /\ dacDo'[w].channel = call.channel /\ dacDo'[w].data = call.data
          /\ dacDo'[w].voltage = call.voltage
      <4>1. /\ dacDo' \in [DacWorkers -> {Idle} \cup SetCalls \cup OtherCalls] /\ dacDo'[w] # Idle
            /\ dacDo'[w].step = "written" /\ dacDo'[w].op = dacDo[w].op
            /\ dacDo[w].op = "setVoltage" =>
                 /\ dacDo'[w].channel = dacDo[w].channel /\ dacDo'[w].data = dacDo[w].data
                 /\ dacDo'[w].voltage = dacDo[w].voltage
        BY <3>1, <3>2, <1>n, DacGoesOn
      <4> QED BY <4>1, <2>1
    <3>4. call.channel \in DacChannels /\ call.data \in [value : Nat, gain : {1, 2}, vref : {"2V", "Vdd"}]
      BY <2>1, <1>s DEF SetCalls, OtherCalls
    <3> HIDE DEF call
    <3>5. dacReg' = [dacReg EXCEPT ![call.channel] = call.data] BY <2>3 DEF call
    <3>6. dacReg' \in DacRegisters /\ dacReg'[call.channel] = call.data
      BY <3>4, <3>5, <1>t DEF DacRegisters
    <3>7. DacTypeOK' BY <3>3, <3>6, <2>1, <1>t DEF DacTypeOK
    <3>8. CopyIsRecent' BY <3>3 DEF CopyIsRecent
    <3>9. dacDone.op = "none" /\ call.data.value <= MaxCode /\ \E r \in {"2V", "Vdd"} : call.data = Coded(r, call.voltage)
      BY <2>1, <1>s DEF CallIsSound, call
    <3>10. DoneIsSo' BY <3>9, <2>3 DEF DoneIsSo
    <3>11. CallIsSound(dacDo[w])' BY <3>3, <3>6, <3>9, <2>3 DEF CallIsSound
    <3> QED BY <3>7, <3>8, <3>10, <3>11 DEF DacIInv
  <2> QED BY <2>2, <2>3, <1>8 DEF writeChannel
<1>9. CASE Written(w)
  <2> DEFINE call == dacDo[w]
  <2>1. /\ call # Idle /\ call.op = "setVoltage" /\ call.step = "written" /\ Returned(w, TRUE)
        /\ fChannelSetting' = [fChannelSetting EXCEPT ![call.channel] = call.data]
        /\ UNCHANGED <<dacReg, dacEep, dacBusy, fChannelSettingEep, fBusy>> /\ dacFresh' = FALSE
    BY <1>9 DEF Written, dacDevice
  <2>2. call.channel \in DacChannels /\ call.data \in [value : Nat, gain : {1, 2}, vref : {"2V", "Vdd"}]
        /\ call.voltage \in Nat
    BY <2>1, <1>s DEF SetCalls, OtherCalls
  <2>3. dacReg[call.channel] = call.data /\ call.data.value <= MaxCode BY <2>1, <1>s DEF CallIsSound
  <2>4. PICK r \in {"2V", "Vdd"} : call.data = Coded(r, call.voltage) BY <2>1, <1>s DEF CallIsSound
  <2>5. dacDone' = [op |-> call.op, ok |-> TRUE, call |-> call] BY <2>1 DEF Returned
  <2> HIDE DEF call
  <2>6. fChannelSetting' \in DacRegisters BY <2>1, <2>2, <1>t DEF DacRegisters
  <2>7. CopyIsRecent' BY <2>1 DEF CopyIsRecent
  <2>8. DoneIsSo'
    <3>1. dacDone'.op = "setVoltage" /\ dacDone'.call = call BY <2>1, <2>5
    <3>2. dacReg'[call.channel] = Coded(r, call.voltage) /\ dacReg'[call.channel].vref = r
      BY <2>1, <2>2, <2>3, <2>4, CodedType
    <3>3. r = "2V" \/ call.voltage < Modulus => Near(Coded(r, call.voltage), call.voltage % Modulus)
      BY <2>2, <2>3, <2>4, CodedIsNear
    <3> QED BY <3>1, <3>2, <3>3 DEF DoneIsSo
  <2> QED BY <2>1, <2>6, <2>7, <2>8, <1>r, <1>t DEF call
<1>10. CASE storeSettings(w)
  <2>1. /\ dacDo[w] # Idle /\ dacDo[w].op = "storeSettings" /\ dacDo[w].step = "go"
        /\ UNCHANGED <<fChannelSetting, fChannelSettingEep, fBusy>>
    BY <1>10 DEF storeSettings, dacCopy
  <2>2. CASE dacReg' = fChannelSetting /\ dacEep' = fChannelSetting /\ dacBusy' = TRUE /\ dacFresh' = FALSE /\ Returned(w, TRUE)
    <3>1. CopyIsRecent' BY <2>2 DEF CopyIsRecent
    <3>2. dacDone'.op = "storeSettings" BY <2>1, <2>2 DEF Returned
    <3>3. DoneIsSo' BY <3>2, <2>2 DEF DoneIsSo
    <3> QED BY <3>1, <3>3, <2>1, <2>2, <1>r, <1>t
  <2>3. CASE Returned(w, FALSE) /\ UNCHANGED <<dacDevice, dacFresh>>
    <3>1. CopyIsRecent' BY <2>1, <2>3, <1>c DEF dacDevice
    <3> QED BY <3>1, <2>1, <2>3, <1>r, <1>t DEF dacDevice
  <2> QED BY <2>2, <2>3, <1>10 DEF storeSettings
<1>11. CASE readDac(w)
  <2>1. /\ dacDo[w] # Idle /\ dacDo[w].op = "readDac" /\ dacDo[w].step = "go" /\ Returned(w, TRUE)
        /\ UNCHANGED <<dacReg, dacEep, dacBusy, fChannelSetting, fChannelSettingEep, fBusy, dacFresh>>
    BY <1>11 DEF readDac, dacDevice, dacCopy
  <2>2. CopyIsRecent' BY <2>1, <1>c
  <2>3. dacDone'.op = "readDac" BY <2>1 DEF Returned
  <2>4. DoneIsSo' BY <2>3 DEF DoneIsSo
  <2> QED BY <2>1, <2>2, <2>4, <1>r, <1>t
<1>12. CASE UNCHANGED dacVars
  <2>1. CopyIsRecent' BY <1>12 DEF dacVars, DacIInv, CopyIsRecent
  <2>2. DacTypeOK' BY <1>12, <1>t DEF dacVars, DacTypeOK
  <2>3. DoneIsSo' BY <1>12 DEF dacVars, DacIInv, DoneIsSo
  <2> QED BY <1>12, <2>1, <2>2, <2>3 DEF dacVars, DacIInv, CallIsSound
<1> QED BY <1>1, <1>2, <1>3, <1>4, <1>5, <1>6, <1>7, <1>8, <1>9, <1>10, <1>11, <1>12 DEF DacNext

\* MCP4728 and MCP4728Driver (mcp4728.cpp, mcp4728_driver.cpp): when one worker handles the commands,
\* whatever transfers fail and whenever the copy ages, the driver believes nothing of the DAC that is
\* not so, for every reference voltage, width and set of voltages and channels.
THEOREM DacIsAsBelievedByOneWorker == (\E w : DacWorkers = {w}) /\ DacSpec => []DacIsAsBelieved
<1> SUFFICES ASSUME NEW w, DacWorkers = {w} PROVE DacSpec => []DacIsAsBelieved OBVIOUS
<1>1. DacInit => DacIInv
  <2> SUFFICES ASSUME DacInit PROVE DacIInv OBVIOUS
  <2>1. DacChannel \in [value : Nat, gain : {1, 2}, vref : {"2V", "Vdd"}]
        /\ [DacChannel EXCEPT !.vref = "Vdd"] \in [value : Nat, gain : {1, 2}, vref : {"2V", "Vdd"}]
        /\ [DacChannel EXCEPT !.value = 1] \in [value : Nat, gain : {1, 2}, vref : {"2V", "Vdd"}]
    BY DEF DacChannel
  <2>2. DacTypeOK BY <2>1 DEF DacInit, DacTypeOK, DacRegisters
  <2> QED BY <2>2 DEF DacInit, DacIInv, CopyIsRecent, DoneIsSo, Idle
<1>2. DacIInv => DacIsAsBelieved BY DEF DacIInv, CopyIsRecent, DoneIsSo, DacIsAsBelieved
<1>3. DacIInv /\ [DacNext]_dacVars => DacIInv' BY DacStep
<1> QED BY <1>1, <1>2, <1>3, PTL DEF DacSpec

-----------------------------------------------------------------------------
(* The layout of the EEPROM.  The addresses are defined by recursion over   *)
(* the items; what holds of all of them is shown by looking at the least    *)
(* number that would be an exception (LeastNumber).                         *)

\* There is such a function as `address`, for as many items as one likes.
LEMMA AddressExists ==
    \A n \in Nat : \E f :
        f = [i \in 1 .. n |-> IF i = 1 THEN HeaderSize ELSE f[i - 1] + CALIBITEMS[i - 1]]
<1> DEFINE Entry(f, i) == IF i = 1 THEN HeaderSize ELSE f[i - 1] + CALIBITEMS[i - 1]
           T == {n \in Nat : ~\E f : f = [i \in 1 .. n |-> Entry(f, i)]}
<1>1. SUFFICES ASSUME T # {} PROVE FALSE OBVIOUS
<1>2. PICK n \in T : \A m \in T : n <= m
  <2> HIDE DEF T
  <2>1. T \subseteq Nat BY DEF T
  <2> QED BY <2>1, <1>1, LeastNumber
<1>3. n # 0
  <2> SUFFICES << >> = [i \in 1 .. 0 |-> Entry(<< >>, i)] OBVIOUS
  <2> QED OBVIOUS
<1>4. n - 1 \in Nat /\ n - 1 \notin T
  <2> HIDE DEF T
  <2>1. n \in Nat BY DEF T
  <2> QED BY <2>1, <1>2, <1>3
<1>5. PICK f : f = [i \in 1 .. n - 1 |-> Entry(f, i)] BY <1>4
<1> DEFINE g == [i \in 1 .. n |-> Entry(f, i)]
<1>6. \A i \in 1 .. n - 1 : g[i] = f[i] BY <1>5
<1>7. g = [i \in 1 .. n |-> Entry(g, i)]
  <2>1. \A i \in 1 .. n : i # 1 => i - 1 \in 1 .. n - 1 BY <1>4
  <2> QED BY <1>6, <2>1
<1> QED BY <1>7, <1>2

LEMMA AddressRecursion ==
    /\ Cycles \in Nat \ {0} /\ address[1] = HeaderSize
    /\ \A i \in Items : i # 1 => address[i] = address[i - 1] + CALIBITEMS[i - 1]
<1>1. Cycles \in Nat \ {0} BY CalibAssumption, LenProperties DEF Cycles
<1>2. \E f : f = [i \in Items |-> IF i = 1 THEN HeaderSize ELSE f[i - 1] + CALIBITEMS[i - 1]]
  BY <1>1, AddressExists DEF Items
<1>3. address = [i \in Items |-> IF i = 1 THEN HeaderSize ELSE address[i - 1] + CALIBITEMS[i - 1]]
  BY <1>2 DEF address
<1> QED BY <1>1, <1>3 DEF Items

\* An item ends before a later one begins.
LEMMA AddressOrder ==
    /\ \A i \in Items : address[i] \in Nat /\ address[i] >= HeaderSize /\ CALIBITEMS[i] \in Nat \ {0}
    /\ \A i, j \in Items : i < j => address[i] + CALIBITEMS[i] <= address[j]
<1> DEFINE Good(n) == /\ address[n] \in Nat /\ address[n] >= HeaderSize
                      /\ \A i \in Items : i < n => address[i] + CALIBITEMS[i] <= address[n]
           T == {n \in Items : ~Good(n)}
<1>a. \A i \in Items : CALIBITEMS[i] \in Nat \ {0} BY CalibAssumption, ElementOfSeq DEF Items, Cycles
<1>b. Items \subseteq Nat /\ 1 \in Items /\ Cycles \in Nat BY AddressRecursion DEF Items
<1>1. SUFFICES ASSUME T # {} PROVE FALSE BY <1>a
<1>2. PICK n \in T : \A m \in T : n <= m
  <2> HIDE DEF T
  <2>1. T \subseteq Nat BY <1>b DEF T
  <2> QED BY <2>1, <1>1, LeastNumber
<1> HIDE DEF Good
<1>3. n \in Items /\ n \in Nat BY <1>2, <1>b
<1>4. n # 1
  <2>1. Good(1) BY AddressRecursion DEF Good, HeaderSize, Items
  <2> QED BY <2>1, <1>2
<1>5. n - 1 \in Items /\ Good(n - 1)
  <2>1. n - 1 \in Items BY <1>3, <1>4, <1>b DEF Items
  <2>2. ~(n <= n - 1) BY <1>3
  <2> QED BY <2>1, <2>2, <1>2
<1>6. address[n] = address[n - 1] + CALIBITEMS[n - 1] BY AddressRecursion, <1>3, <1>4
<1>7. Good(n)
  <2>1. address[n] \in Nat /\ address[n] >= HeaderSize BY <1>5, <1>6, <1>a DEF Good, HeaderSize
  <2>2. ASSUME NEW i \in Items, i < n PROVE address[i] + CALIBITEMS[i] <= address[n]
    <3>1. CASE i = n - 1 BY <3>1, <1>5, <1>6, <1>a, <2>1
    <3>2. CASE i < n - 1
      <4>1. address[i] + CALIBITEMS[i] <= address[n - 1] BY <3>2, <1>5 DEF Good
      <4>2. address[i] \in Nat
        <5>1. i \notin T BY <2>2, <1>2, <1>3, <1>b
        <5> QED BY <5>1 DEF Good
      <4> QED BY <4>1, <4>2, <1>5, <1>6, <1>a, <2>1 DEF Good
    <3> QED BY <3>1, <3>2, <2>2, <1>3, <1>b
  <2> QED BY <2>1, <2>2 DEF Good
<1> QED BY <1>7, <1>2

\* The items lie between the header and the unique id, and no byte is of two of them.
LEMMA ItemsAreApart ==
    /\ \A i \in Items : /\ address[i] \in ItemBytes(i) /\ ItemBytes(i) \subseteq EepromBytes
                         /\ \A b \in ItemBytes(i) : b >= HeaderSize /\ b \notin Serial
    /\ \A i, j \in Items : i # j => ItemBytes(i) \cap ItemBytes(j) = {}
    /\ 0 .. HeaderSize - 1 \subseteq EepromBytes /\ (0 .. HeaderSize - 1) \cap Serial = {}
    /\ Serial \subseteq EepromBytes
<1>1. Cycles \in Items /\ Cycles \in Nat /\ Items \subseteq Nat BY AddressRecursion DEF Items
<1>2. ASSUME NEW i \in Items PROVE address[i] + CALIBITEMS[i] <= EepromSize - SerialSize
  <2>1. CASE i = Cycles BY <2>1, CalibAssumption
  <2>2. CASE i # Cycles
    <3>1. i < Cycles BY <2>2, <1>1 DEF Items
    <3> QED BY <3>1, <1>1, AddressOrder, CalibAssumption, SMTT(30)
  <2> QED BY <2>1, <2>2
<1>3. ASSUME NEW i \in Items
      PROVE  /\ address[i] \in ItemBytes(i) /\ ItemBytes(i) \subseteq EepromBytes
             /\ \A b \in ItemBytes(i) : b >= HeaderSize /\ b \notin Serial
  BY <1>2, AddressOrder, CalibAssumption, SMTT(30) DEF ItemBytes, EepromBytes, Serial, HeaderSize
<1>4. ASSUME NEW i \in Items, NEW j \in Items, i # j PROVE ItemBytes(i) \cap ItemBytes(j) = {}
  <2>1. i < j \/ j < i BY <1>4, <1>1
  <2> QED BY <2>1, AddressOrder DEF ItemBytes
<1>5. 0 .. HeaderSize - 1 \subseteq EepromBytes /\ (0 .. HeaderSize - 1) \cap Serial = {}
  BY <1>1, <1>2, AddressOrder, CalibAssumption DEF EepromBytes, Serial, HeaderSize
<1>6. Serial \subseteq EepromBytes
  <2>1. EepromSize - SerialSize >= 0 BY <1>1, <1>2, AddressOrder, CalibAssumption
  <2> QED BY <2>1, CalibAssumption DEF Serial, EepromBytes
<1> QED BY <1>3, <1>4, <1>5, <1>6

-----------------------------------------------------------------------------
(* The calibration.                                                         *)

CalTypeOK ==
    /\ calEeprom \in [EepromBytes -> Int] /\ fEepBuffer \in [EepromBytes -> Int]
    /\ fCalibList \in [Items -> Int] /\ fEepromValid \in BOOLEAN
    /\ calPage \in Int /\ calSuccess \in BOOLEAN
    /\ calWritten \in [list : [Items -> Int], ok : BOOLEAN]

\* The bytes are those of the calibration that was written last.
Holds(bytes) ==
    HasHeader(bytes) /\ \A i \in Items : \A b \in ItemBytes(i) : bytes[b] = calWritten.list[i]

\* The buffer of a valid EEPROM was read from it, unique id included; in a write the buffer is what
\* is to be written, and as long as no page failed the bytes below the next page are written.
CalIInv ==
    /\ CalTypeOK
    /\ \A b \in Serial : calEeprom[b] = Id
    /\ fEepromValid => \A b \in Serial : fEepBuffer[b] = Id
    /\ calPage # NotWriting =>
          /\ fEepromValid /\ ~calWritten.ok /\ Holds(fEepBuffer)
          /\ calSuccess => \A b \in EepromBytes : b < calPage => calEeprom[b] = fEepBuffer[b]
    /\ calWritten.ok => Holds(calEeprom)

\* What updateBuffer() fills in: the header and the list, and the rest of the bytes unchanged.
LEMMA UpdatedBuffer ==
    ASSUME NEW list \in [Items -> Int], fEepBuffer \in [EepromBytes -> Int]
    PROVE  /\ updateBuffer(list) \in [EepromBytes -> Int] /\ HasHeader(updateBuffer(list))
           /\ \A i \in Items : \A b \in ItemBytes(i) : updateBuffer(list)[b] = list[i]
           /\ \A b \in Serial \cap EepromBytes : updateBuffer(list)[b] = fEepBuffer[b]
<1>1. ASSUME NEW i \in Items, NEW b \in ItemBytes(i)
      PROVE  b \in EepromBytes /\ ~(b < HeaderSize) /\ (CHOOSE j \in Items : b \in ItemBytes(j)) = i
  <2>1. b \in EepromBytes /\ b >= HeaderSize BY ItemsAreApart
  <2>2. \A j \in Items : b \in ItemBytes(j) => j = i BY ItemsAreApart
  <2>3. (CHOOSE j \in Items : b \in ItemBytes(j)) = i BY <2>2
  <2> QED BY <2>1, <2>3 DEF EepromBytes, HeaderSize
<1>2. \A i \in Items : \A b \in ItemBytes(i) : updateBuffer(list)[b] = list[i]
  BY <1>1 DEF updateBuffer
<1>3. HasHeader(updateBuffer(list)) BY ItemsAreApart DEF HasHeader, updateBuffer, HeaderSize
<1>4. ASSUME NEW b \in Serial \cap EepromBytes PROVE updateBuffer(list)[b] = fEepBuffer[b]
  <2>1. b \in Nat /\ ~(b < HeaderSize) BY ItemsAreApart DEF EepromBytes, HeaderSize
  <2>2. ~\E i \in Items : b \in ItemBytes(i) BY ItemsAreApart
  <2> QED BY <2>1, <2>2 DEF updateBuffer
<1>5. updateBuffer(list) \in [EepromBytes -> Int]
  <2> SUFFICES ASSUME NEW b \in EepromBytes PROVE updateBuffer(list)[b] \in Int
    BY DEF updateBuffer
  <2>1. CASE \E i \in Items : b \in ItemBytes(i) BY <2>1, <1>2
  <2>2. CASE ~\E i \in Items : b \in ItemBytes(i)
    BY <2>2 DEF updateBuffer, CALIB_HEADER
  <2> QED BY <2>1, <2>2
<1> QED BY <1>2, <1>3, <1>4, <1>5

\* What is read is a list of numbers.
LEMMA ReadList ==
    ASSUME NEW bytes \in [EepromBytes -> Int]
    PROVE  [i \in Items |-> ItemIn(bytes, i)] \in [Items -> Int]
<1> SUFFICES ASSUME NEW i \in Items PROVE ItemIn(bytes, i) \in Int OBVIOUS
<1>1. address[i] \in EepromBytes BY ItemsAreApart
<1> QED BY <1>1 DEF ItemIn, Torn

LEMMA CalStep == CalIInv /\ [CalNext]_calVars => CalIInv'
<1> SUFFICES ASSUME CalIInv, [CalNext]_calVars PROVE CalIInv' OBVIOUS
<1> USE DEF CalIInv
<1>a. Serial \subseteq EepromBytes BY ItemsAreApart
<1>b. Defaults \in [Items -> Int] /\ [b \in EepromBytes |-> 0] \in [EepromBytes -> Int]
  BY DEF Defaults
<1>1. CASE readFromEeprom
  <2>1. UNCHANGED <<calEeprom, calPage, calSuccess, calWritten>> /\ calPage = NotWriting
    BY <1>1 DEF readFromEeprom, CalCall
  <2>2. CASE ReadAll /\ UNCHANGED fEepromValid
    <3>1. fEepBuffer' = calEeprom /\ fCalibList' \in [Items -> Int]
      BY <2>2, ReadList DEF ReadAll, CalTypeOK
    <3> QED BY <3>1, <2>1, <2>2 DEF CalTypeOK, Holds
  <2>3. CASE ReadFails BY <2>3, <2>1, <1>b DEF ReadFails, CalTypeOK, Holds
  <2> QED BY <2>2, <2>3, <1>1 DEF readFromEeprom
<1>2. CASE CalRestart
  <2>1. UNCHANGED <<calEeprom, calWritten>> /\ calPage' = NotWriting /\ calSuccess' = TRUE
    BY <1>2 DEF CalRestart
  <2>2. CASE fEepBuffer' = calEeprom /\ fEepromValid' = TRUE
             /\ fCalibList' = IF HasHeader(calEeprom) THEN [i \in Items |-> ItemIn(calEeprom, i)] ELSE Defaults
    <3>1. fCalibList' \in [Items -> Int] BY <2>2, <1>b, ReadList DEF CalTypeOK
    <3> QED BY <3>1, <2>1, <2>2 DEF CalTypeOK, Holds, NotWriting
  <2>3. CASE fEepBuffer' = [b \in EepromBytes |-> 0] /\ fEepromValid' = FALSE /\ fCalibList' = Defaults
    <3>1. calPage' \in Int BY <2>1 DEF NotWriting
    <3>2. fEepBuffer' \in [EepromBytes -> Int] /\ fCalibList' \in [Items -> Int] BY <2>3, <1>b
    <3>3. CalTypeOK' BY <2>1, <2>3, <3>1, <3>2 DEF CalTypeOK
    <3> QED BY <3>3, <2>1, <2>3 DEF Holds
  <2> QED BY <2>2, <2>3, <1>2 DEF CalRestart
<1>3. CASE setCalibItem
  BY <1>3, CalibAssumption DEF setCalibItem, CalTypeOK, Holds, CalCall
<1>4. CASE writeToEeprom
  <2> DEFINE list == [fCalibList EXCEPT ![Cycles] = @ + 1]
  <2>1. list \in [Items -> Int] BY AddressRecursion DEF CalTypeOK, Items
  <2>2. /\ fCalibList' = list /\ fEepBuffer' = updateBuffer(list) /\ fEepromValid' = TRUE
        /\ calWritten' = [list |-> list, ok |-> FALSE] /\ calPage' = 0 /\ calSuccess' = TRUE
        /\ calEeprom' = calEeprom /\ fEepromValid
    BY <1>4 DEF writeToEeprom, CalTypeOK
  <2> HIDE DEF list
  <2>3. calWritten'.list = list /\ ~calWritten'.ok BY <2>2
  <2>4. CalTypeOK' BY <2>1, <2>2, UpdatedBuffer DEF CalTypeOK
  <2>5. Holds(fEepBuffer)' BY <2>1, <2>2, <2>3, UpdatedBuffer DEF Holds, CalTypeOK
  <2>6. \A b \in Serial : fEepBuffer'[b] = Id
    <3>1. \A b \in Serial : fEepBuffer[b] = Id BY <2>2
    <3> QED BY <3>1, <2>1, <2>2, <1>a, UpdatedBuffer DEF CalTypeOK
  <2>7. \A b \in EepromBytes : ~(b < calPage') BY <2>2 DEF EepromBytes
  <2> QED BY <2>2, <2>3, <2>4, <2>5, <2>6, <2>7
<1>5. CASE writeBytes
  <2> DEFINE next == calPage + pageRemainder(calPage)
  <2>1. next \in Int
    BY CalibAssumption DEF pageRemainder, CalTypeOK
  <2>2. UNCHANGED <<fEepBuffer, fCalibList, fEepromValid>> /\ calPage # NotWriting
        /\ calPage' = IF next >= EepromSize THEN NotWriting ELSE next
    BY <1>5 DEF writeBytes, calObject
  <2>3. CASE /\ calEeprom' = [b \in EepromBytes |-> IF b \in calPage .. next - 1 THEN fEepBuffer[b] ELSE calEeprom[b]]
             /\ calSuccess' = calSuccess
             /\ calWritten' = [calWritten EXCEPT !.ok = (next >= EepromSize) /\ calSuccess]
    <3> HIDE DEF next
    <3>1. CalTypeOK' BY <2>1, <2>2, <2>3 DEF CalTypeOK, NotWriting
    <3>2. calWritten'.list = calWritten.list /\ (calWritten'.ok <=> next >= EepromSize /\ calSuccess)
      BY <2>3 DEF CalTypeOK
    <3>3. \A b \in Serial : calEeprom'[b] = Id BY <2>2, <2>3, <1>a
    <3>4. calSuccess => \A b \in EepromBytes : b < next => calEeprom'[b] = fEepBuffer[b]
      BY <2>1, <2>2, <2>3 DEF EepromBytes, CalTypeOK
    <3>5. Holds(fEepBuffer)' BY <2>2, <3>2 DEF Holds
    <3>6. calWritten'.ok => Holds(calEeprom)'
      <4> SUFFICES ASSUME calWritten'.ok PROVE Holds(calEeprom)' OBVIOUS
      <4>1. \A b \in EepromBytes : calEeprom'[b] = fEepBuffer'[b]
        BY <3>2, <3>4, <2>1, <2>2, CalibAssumption DEF EepromBytes
      <4>2. HasHeader(calEeprom)' BY <4>1, <3>5, ItemsAreApart DEF Holds, HasHeader
      <4>3. \A i \in Items : \A b \in ItemBytes(i) : calEeprom'[b] = calWritten'.list[i]
        BY <4>1, <3>5, ItemsAreApart DEF Holds
      <4> QED BY <4>2, <4>3 DEF Holds
    <3>7. calPage' # NotWriting => calPage' = next /\ ~calWritten'.ok BY <2>2, <3>2
    <3> QED BY <3>1, <3>2, <3>3, <3>4, <3>5, <3>6, <3>7, <2>2, <2>3
  <2>4. CASE calSuccess' = FALSE /\ UNCHANGED <<calEeprom, calWritten>>
    <3> HIDE DEF next
    <3>1. calPage' \in Int BY <2>1, <2>2 DEF NotWriting
    <3>2. CalTypeOK' BY <3>1, <2>2, <2>4 DEF CalTypeOK
    <3> QED BY <3>2, <2>2, <2>4 DEF Holds
  <2> QED BY <2>3, <2>4, <1>5 DEF writeBytes
<1>6. CASE UNCHANGED calVars BY <1>6 DEF calVars, CalTypeOK, Holds
<1> QED BY <1>1, <1>2, <1>3, <1>4, <1>5, <1>6 DEF CalNext

\* ShowerDetectorCalib over EEPROM24AA02 (calibration.cpp, eeprom24aa02.cpp): whichever pages fail
\* and wherever the daemon ends, the unique id stays, and a write that returned true is in the
\* EEPROM as a whole, for every layout of items that ends before the id.
THEOREM CalibrationSurvivesFaults == CalSpec => []CalibrationSurvives
<1>1. CalInit => CalIInv
  <2> SUFFICES ASSUME CalInit PROVE CalIInv OBVIOUS
  <2>1. Serial \subseteq EepromBytes BY ItemsAreApart
  <2>2. CalTypeOK
    <3>1. Defaults \in [Items -> Int] BY DEF Defaults
    <3>2. calEeprom \in [EepromBytes -> Int] /\ fEepBuffer \in [EepromBytes -> Int]
      BY DEF CalInit, Id, Blank
    <3>3. calWritten \in [list : [Items -> Int], ok : BOOLEAN] BY <3>1 DEF CalInit
    <3>4. calPage \in Int BY DEF CalInit, NotWriting
    <3>5. fCalibList = Defaults /\ fEepromValid = FALSE /\ calSuccess = TRUE BY DEF CalInit
    <3> HIDE DEF CalInit
    <3> QED BY <3>1, <3>2, <3>3, <3>4, <3>5 DEF CalTypeOK
  <2>3. \A b \in Serial : calEeprom[b] = Id BY <2>1 DEF CalInit
  <2> QED BY <2>2, <2>3 DEF CalInit, CalIInv
<1>2. CalIInv => CalibrationSurvives
  <2> SUFFICES ASSUME CalIInv PROVE CalibrationSurvives OBVIOUS
  <2>1. ASSUME calWritten.ok, NEW i \in Items PROVE ItemIn(calEeprom, i) = calWritten.list[i]
    <3>1. \A b \in ItemBytes(i) : calEeprom[b] = calWritten.list[i] BY <2>1 DEF CalIInv, Holds
    <3>2. address[i] \in ItemBytes(i) BY ItemsAreApart
    <3> QED BY <3>1, <3>2 DEF ItemIn
  <2> QED BY <2>1 DEF CalIInv, Holds, CalibrationSurvives
<1> QED BY <1>1, <1>2, CalStep, PTL DEF CalSpec

-----------------------------------------------------------------------------
(* The position of the station.                                             *)

\* A position leaves a concluded lock-in alone: the mode is Static then, so it is neither published
\* nor a candidate.
LEMMA NewPositionKeepsLock ==
    ASSUME LockInIsSound, NewPosition
    PROVE  LockInIsSound'
<1>1. gpFilter' = gpFilter BY DEF NewPosition
<1>2. ASSUME UNCHANGED <<gpMode, gpStatic, gpPosition, gpTold, gpLock>> PROVE LockInIsSound'
  BY <1>1, <1>2 DEF LockInIsSound
<1>3. ASSUME NEW p, AutoPosition(p) PROVE LockInIsSound'
  <2>1. ~gpLock.set BY <1>3 DEF AutoPosition, LockInIsSound
  <2>2. gpLock' = gpLock BY <1>3 DEF AutoPosition
  <2> QED BY <2>1, <2>2 DEF LockInIsSound
<1>4. ASSUME NEW p, LockIn(p) PROVE LockInIsSound'
  <2>1. /\ gpMode' = "Static" /\ gpStatic' = p /\ gpTold' = p /\ p.precise
        /\ gpLock'.position = p /\ gpLock'.entries = Least(gpHistos)
    BY <1>4 DEF LockIn, LocksIn, processPos
  <2>2. gpFilter \in HistoFilters => Least(gpHistos) >= lock_in_min_histogram_entries
    BY <1>4 DEF LockIn, LocksIn, valid_lock_in_candidate
  <2> QED BY <1>1, <2>1, <2>2 DEF LockInIsSound
<1>5. ASSUME NEW p, NoPosition(p) PROVE LockInIsSound' BY <1>2, <1>5 DEF NoPosition
<1> QED BY <1>2, <1>3, <1>4, <1>5 DEF NewPosition

\* GeoPosManager (geoposmanager.cpp): once a lock-in was concluded the station stays at that place,
\* which was precise and came from histograms with enough entries, until it is configured anew; the
\* property is inductive as it stands.
THEOREM GeoLockInIsSound == GeoSpec => []LockInIsSound
<1>1. GeoInit => LockInIsSound BY DEF GeoInit, LockInIsSound, NoLock
<1>2. LockInIsSound /\ [GeoNext]_geoVars => LockInIsSound'
  <2> SUFFICES ASSUME LockInIsSound, [GeoNext]_geoVars PROVE LockInIsSound' OBVIOUS
  <2>1. CASE NewPosition BY <2>1, NewPositionKeepsLock
  <2>2. CASE set_mode_config BY <2>2 DEF set_mode_config, LockInIsSound, NoLock
  <2>3. CASE StoreDop BY <2>3 DEF StoreDop, LockInIsSound
  <2>4. CASE ClearHisto BY <2>4 DEF ClearHisto, LockInIsSound
  <2>5. CASE UNCHANGED geoVars BY <2>5 DEF geoVars, LockInIsSound
  <2> QED BY <2>1, <2>2, <2>3, <2>4, <2>5 DEF GeoNext
<1> QED BY <1>1, <1>2, PTL DEF GeoSpec

-----------------------------------------------------------------------------
(* The counter of edges, which wraps around.                                *)

Modulo == CounterMask + 1

\* What is left of a division is one number.
LEMMA OneRemainder ==
    ASSUME NEW m \in Nat \ {0}, NEW p \in Int, NEW q \in Int, NEW a \in 0 .. m - 1, NEW b \in 0 .. m - 1,
           p * m + a = q * m + b
    PROVE  p = q /\ a = b
<1>1. p * m \in Int /\ q * m \in Int OBVIOUS
<1>2. ~(p < q)
  <2> SUFFICES ASSUME p + 1 <= q PROVE FALSE OBVIOUS
  <2>1. (q - (p + 1)) * m >= 0 OBVIOUS
  <2>2. (q - (p + 1)) * m = q * m - p * m - m OBVIOUS
  <2> QED BY <1>1, <2>1, <2>2
<1>3. ~(q < p)
  <2> SUFFICES ASSUME q + 1 <= p PROVE FALSE OBVIOUS
  <2>1. (p - (q + 1)) * m >= 0 OBVIOUS
  <2>2. (p - (q + 1)) * m = p * m - q * m - m OBVIOUS
  <2> QED BY <1>1, <2>1, <2>2
<1> QED BY <1>1, <1>2, <1>3

LEMMA Divided ==
    ASSUME NEW m \in Nat \ {0}, NEW x \in Int
    PROVE  \E q \in Int : x = q * m + (x % m) /\ x % m \in 0 .. m - 1
<1>1. x = (x \div m) * m + (x % m) /\ x \div m \in Int /\ x % m \in 0 .. m - 1 OBVIOUS
<1> QED BY <1>1

\* Whole rounds of the counter do not show.
LEMMA RoundsDoNotShow ==
    ASSUME NEW m \in Nat \ {0}, NEW x \in Int, NEW y \in Int, NEW k \in Int, y = x + k * m
    PROVE  y % m = x % m
<1>1. PICK p \in Int : x = p * m + (x % m) /\ x % m \in 0 .. m - 1 BY Divided
<1>2. PICK q \in Int : y = q * m + (y % m) /\ y % m \in 0 .. m - 1 BY Divided
<1>3. p * m \in Int /\ q * m \in Int /\ k * m \in Int /\ (p + k) * m = p * m + k * m OBVIOUS
<1>4. (p + k) * m + (x % m) = q * m + (y % m) BY <1>1, <1>2, <1>3
<1> DEFINE a == x % m
           b == y % m
           r == p + k
<1>5. a \in 0 .. m - 1 /\ b \in 0 .. m - 1 /\ r \in Int /\ r * m + a = q * m + b BY <1>1, <1>2, <1>4
<1>6. a = b
  <2> HIDE DEF a, b, r
  <2> QED BY <1>5, OneRemainder
<1> QED BY <1>6

WithinRound(a, b) == b - a \in 0 .. CounterMask

\* Two values differ by the counts between them, but for whole rounds; by these exactly when
\* the counter did not wrap twice.
LEMMA DiffWithinRound ==
    ASSUME NEW a, NEW b, a.count \in Nat, b.count \in Nat,
           a.value = Counter(a.count), b.value = Counter(b.count)
    PROVE  /\ Diff(a, b) \in 0 .. CounterMask
           /\ \E k \in Int : Diff(a, b) = (b.count - a.count) + k * Modulo
           /\ WithinRound(a.count, b.count) => Diff(a, b) = b.count - a.count
<1>1. Modulo \in Nat \ {0} /\ CounterMask \in Nat /\ Modulo = CounterMask + 1
  BY CounterRateAssumption DEF Modulo
<1>2. a.value = a.count % Modulo /\ b.value = b.count % Modulo BY DEF Counter, Modulo
<1> DEFINE d == Diff(a, b)
<1>3. PICK p \in Int : a.count = p * Modulo + a.value /\ a.value \in 0 .. Modulo - 1
  <2> DEFINE x == a.count
  <2>1. x \in Int /\ a.value = x % Modulo BY <1>2
  <2> HIDE DEF x
  <2>2. \E p \in Int : x = p * Modulo + (x % Modulo) /\ x % Modulo \in 0 .. Modulo - 1
    BY <1>1, <2>1, Divided
  <2> QED BY <2>1, <2>2 DEF x
<1>4. PICK q \in Int : b.count = q * Modulo + b.value /\ b.value \in 0 .. Modulo - 1
  <2> DEFINE x == b.count
  <2>1. x \in Int /\ b.value = x % Modulo BY <1>2
  <2> HIDE DEF x
  <2>2. \E q \in Int : x = q * Modulo + (x % Modulo) /\ x % Modulo \in 0 .. Modulo - 1
    BY <1>1, <2>1, Divided
  <2> QED BY <2>1, <2>2 DEF x
<1>5. p * Modulo \in Int /\ q * Modulo \in Int /\ (p - q) * Modulo = p * Modulo - q * Modulo
      /\ ((p - q) + 1) * Modulo = p * Modulo - q * Modulo + Modulo
  BY <1>1
<1>6. d \in 0 .. CounterMask /\ \E k \in Int : d = (b.count - a.count) + k * Modulo
  <2>1. CASE b.value < a.value
    <3>1. d = b.value - a.value + Modulo BY <2>1, <1>1, <1>3, <1>4 DEF Diff
    <3>2. d = (b.count - a.count) + ((p - q) + 1) * Modulo BY <3>1, <1>1, <1>3, <1>4, <1>5
    <3>3. d \in 0 .. CounterMask BY <3>1, <2>1, <1>1, <1>3, <1>4
    <3> QED BY <3>2, <3>3
  <2>2. CASE ~(b.value < a.value)
    <3>1. d = b.value - a.value BY <2>2 DEF Diff
    <3>2. d = (b.count - a.count) + (p - q) * Modulo BY <3>1, <1>1, <1>3, <1>4, <1>5
    <3>3. d \in 0 .. CounterMask BY <3>1, <2>2, <1>1, <1>3, <1>4
    <3> QED BY <3>2, <3>3
  <2> QED BY <2>1, <2>2
<1>7. ASSUME WithinRound(a.count, b.count) PROVE d = b.count - a.count
  <2> DEFINE e == b.count - a.count
  <2>1. e \in 0 .. CounterMask BY <1>7 DEF WithinRound
  <2>2. PICK k \in Int : d = e + k * Modulo BY <1>6
  <2> HIDE DEF d, e
  <2>3. k * Modulo + e = 0 * Modulo + d BY <2>1, <2>2, <1>1
  <2>4. e \in 0 .. Modulo - 1 /\ d \in 0 .. Modulo - 1 BY <2>1, <1>6, <1>1
  <2>5. e = d BY <2>3, <2>4, <1>1, OneRemainder
  <2> QED BY <2>5 DEF d, e
<1> QED BY <1>6, <1>7

-----------------------------------------------------------------------------
(* The sum of the counts.                                                   *)

\* There is such a function as CountsUpTo, for a buffer of any length.
LEMMA CountsExist ==
    \A n \in Nat : \E f :
        f = [i \in 1 .. n |-> IF i <= FirstCounted THEN 0 ELSE f[i - 1] + Diff(cBuffer[i - 1], cBuffer[i])]
<1> DEFINE Entry(f, i) == IF i <= FirstCounted THEN 0 ELSE f[i - 1] + Diff(cBuffer[i - 1], cBuffer[i])
           T == {n \in Nat : ~\E f : f = [i \in 1 .. n |-> Entry(f, i)]}
<1>1. SUFFICES ASSUME T # {} PROVE FALSE OBVIOUS
<1>2. PICK n \in T : \A m \in T : n <= m
  <2> HIDE DEF T
  <2>1. T \subseteq Nat BY DEF T
  <2> QED BY <2>1, <1>1, LeastNumber
<1>3. n # 0
  <2> SUFFICES << >> = [i \in 1 .. 0 |-> Entry(<< >>, i)] OBVIOUS
  <2> QED OBVIOUS
<1>4. n - 1 \in Nat /\ n - 1 \notin T
  <2> HIDE DEF T
  <2>1. n \in Nat BY DEF T
  <2> QED BY <2>1, <1>2, <1>3
<1>5. PICK f : f = [i \in 1 .. n - 1 |-> Entry(f, i)] BY <1>4
<1> DEFINE g == [i \in 1 .. n |-> Entry(f, i)]
<1>6. \A i \in 1 .. n - 1 : g[i] = f[i]
  <2>1. \A i \in 1 .. n - 1 : i \in 1 .. n BY <1>4
  <2> HIDE DEF Entry
  <2> QED BY <1>5, <2>1
<1>7. g = [i \in 1 .. n |-> Entry(g, i)]
  <2>1. FirstCounted \in {1, 2} BY DEF FirstCounted
  <2>2. \A i \in 1 .. n : ~(i <= FirstCounted) => i - 1 \in 1 .. n - 1 BY <1>4, <2>1
  <2> HIDE DEF g
  <2>3. \A i \in 1 .. n : Entry(f, i) = Entry(g, i) BY <1>6, <2>2
  <2> QED BY <2>3 DEF g
<1> QED BY <1>7, <1>2

LEMMA CountsRecursion ==
    ASSUME Len(cBuffer) \in Nat
    PROVE  \A i \in 1 .. Len(cBuffer) : CountsUpTo[i] =
              IF i <= FirstCounted THEN 0 ELSE CountsUpTo[i - 1] + Diff(cBuffer[i - 1], cBuffer[i])
<1>1. \E f : f = [i \in 1 .. Len(cBuffer) |->
                    IF i <= FirstCounted THEN 0 ELSE f[i - 1] + Diff(cBuffer[i - 1], cBuffer[i])]
  BY CountsExist
<1>2. CountsUpTo = [i \in 1 .. Len(cBuffer) |->
                    IF i <= FirstCounted THEN 0 ELSE CountsUpTo[i - 1] + Diff(cBuffer[i - 1], cBuffer[i])]
  BY <1>1 DEF CountsUpTo
<1> QED BY <1>2

CounterTypeOK ==
    /\ cCount \in Nat /\ cSwaps \in Nat /\ cNow \in Nat /\ cOnWay \in Seq(Nat)
    /\ cBuffer \in Seq([time : Nat, value : Nat, count : Nat])

\* What is in the buffer is what the counter showed.
ValuesAreShown == \A i \in 1 .. Len(cBuffer) : cBuffer[i].value = Counter(cBuffer[i].count)

\* As long as no value was overtaken the buffer, what is on its way and the counter are one
\* sequence, in which no step is a whole round.
NoRoundIsMissed ==
    /\ \A i \in 1 .. Len(cBuffer) - 1 : WithinRound(cBuffer[i].count, cBuffer[i + 1].count)
    /\ \A i \in 1 .. Len(cOnWay) - 1 : WithinRound(cOnWay[i], cOnWay[i + 1])
    /\ cOnWay # << >> => cOnWay[Len(cOnWay)] = cCount
    /\ cBuffer # << >> =>
          IF cOnWay = << >> THEN cBuffer[Len(cBuffer)].count = cCount
                            ELSE WithinRound(cBuffer[Len(cBuffer)].count, cOnWay[1])

CounterIInv ==
    /\ CounterTypeOK /\ ValuesAreShown
    /\ cSwaps = 0 => NoRoundIsMissed
    /\ CountsAreEdges

\* The sum telescopes.
LEMMA CountsTelescope ==
    ASSUME CounterTypeOK, ValuesAreShown, Len(cBuffer) >= 2
    PROVE  LET f == FirstCounted
               n == Len(cBuffer)
               edges == cBuffer[n].count - cBuffer[f].count
           IN /\ CountsUpTo[n] \in Int
              /\ \E k \in Int : CountsUpTo[n] = edges + k * Modulo
              /\ (\A i \in 1 .. n - 1 : WithinRound(cBuffer[i].count, cBuffer[i + 1].count)) => CountsUpTo[n] = edges
<1> DEFINE f == FirstCounted
           n == Len(cBuffer)
           edges(i) == cBuffer[i].count - cBuffer[f].count
           stepped == \A i \in 1 .. n - 1 : WithinRound(cBuffer[i].count, cBuffer[i + 1].count)
           Good(i) == /\ CountsUpTo[i] \in Int
                      /\ \E k \in Int : CountsUpTo[i] = edges(i) + k * Modulo
                      /\ stepped => CountsUpTo[i] = edges(i)
           T == {i \in f .. n : ~Good(i)}
<1>1. f \in {1, 2} /\ n \in Nat /\ f <= n BY DEF FirstCounted, CounterTypeOK
<1>2. Modulo \in Nat BY CounterRateAssumption DEF Modulo
<1>3. \A i \in 1 .. n : cBuffer[i].count \in Nat /\ cBuffer[i].value = Counter(cBuffer[i].count)
  <2>1. \A i \in 1 .. n : cBuffer[i] \in [time : Nat, value : Nat, count : Nat]
    BY ElementOfSeq DEF CounterTypeOK
  <2> QED BY <2>1 DEF ValuesAreShown
<1>4. \A i \in 1 .. n : CountsUpTo[i] = IF i <= f THEN 0 ELSE CountsUpTo[i - 1] + Diff(cBuffer[i - 1], cBuffer[i])
  BY <1>1, CountsRecursion
<1> HIDE DEF f, n
<1>5. SUFFICES ASSUME T # {} PROVE FALSE
  <2>1. n \in f .. n BY <1>1
  <2>2. Good(n) BY <1>5, <2>1
  <2> QED BY <2>2 DEF f, n
<1>6. PICK m \in T : \A i \in T : m <= i
  <2>1. T \subseteq Nat BY <1>1
  <2> HIDE DEF T
  <2> QED BY <2>1, <1>5, LeastNumber
<1>7. m \in f .. n /\ ~Good(m) BY <1>6
<1>8. m # f
  <2>1. f \in 1 .. n BY <1>1
  <2>2. CountsUpTo[f] = 0 BY <1>1, <1>4, <2>1
  <2>3. edges(f) = 0 /\ 0 * Modulo = 0 BY <1>2, <1>3, <2>1
  <2>4. Good(f) BY <2>2, <2>3
  <2> QED BY <2>4, <1>7
<1>9. m - 1 \in f .. n /\ m - 1 \in 1 .. n - 1 /\ m \in 1 .. n /\ f \in 1 .. n /\ ~(m <= f) BY <1>1, <1>7, <1>8
<1>10. Good(m - 1)
  <2>1. ~(m <= m - 1) BY <1>1, <1>7
  <2>2. m - 1 \notin T BY <1>6, <2>1
  <2> QED BY <2>2, <1>9
<1> DEFINE a == cBuffer[m - 1]
           b == cBuffer[m]
<1>11. /\ Diff(a, b) \in 0 .. CounterMask
       /\ \E k \in Int : Diff(a, b) = (b.count - a.count) + k * Modulo
       /\ WithinRound(a.count, b.count) => Diff(a, b) = b.count - a.count
  <2>1. m - 1 \in 1 .. n BY <1>1, <1>9
  <2>2. a.count \in Nat /\ b.count \in Nat /\ a.value = Counter(a.count) /\ b.value = Counter(b.count)
    BY <2>1, <1>3, <1>9
  <2> HIDE DEF a, b
  <2> QED BY <2>2, DiffWithinRound
<1>12. CountsUpTo[m] = CountsUpTo[m - 1] + Diff(a, b) BY <1>4, <1>9
<1>13. a.count \in Nat /\ b.count \in Nat /\ cBuffer[f].count \in Nat /\ m - 1 \in 1 .. n BY <1>1, <1>3, <1>9
<1>14. edges(m - 1) = a.count - cBuffer[f].count /\ edges(m) = b.count - cBuffer[f].count OBVIOUS
<1>15. CountsUpTo[m] \in Int
  <2>1. Diff(a, b) \in Int BY <1>11, CounterRateAssumption
  <2> QED BY <2>1, <1>10, <1>12
<1>16. \E k \in Int : CountsUpTo[m] = edges(m) + k * Modulo
  <2>1. PICK k \in Int : CountsUpTo[m - 1] = edges(m - 1) + k * Modulo BY <1>10
  <2>2. PICK l \in Int : Diff(a, b) = (b.count - a.count) + l * Modulo BY <1>11
  <2>3. (k + l) * Modulo = k * Modulo + l * Modulo /\ k * Modulo \in Int /\ l * Modulo \in Int BY <1>2
  <2>4. CountsUpTo[m - 1] \in Int BY <1>10
  <2> HIDE DEF a, b, edges
  <2>5. CountsUpTo[m] = (edges(m - 1) + k * Modulo) + ((b.count - a.count) + l * Modulo)
    BY <2>1, <2>2, <1>12
  <2>6. edges(m - 1) + (b.count - a.count) = edges(m) /\ edges(m) \in Int /\ edges(m - 1) \in Int
    BY <1>13, <1>14
  <2> DEFINE rounds == k * Modulo
             more == l * Modulo
             all == (k + l) * Modulo
  <2>7. rounds \in Int /\ more \in Int /\ all = rounds + more BY <2>3
  <2>8. CountsUpTo[m] = (edges(m - 1) + rounds) + ((b.count - a.count) + more) BY <2>5
  <2> HIDE DEF rounds, more, all
  <2>9. CountsUpTo[m] = edges(m) + all BY <2>6, <2>7, <2>8, <1>13, SMTT(30)
  <2>10. CountsUpTo[m] = edges(m) + (k + l) * Modulo BY <2>9 DEF all
  <2> QED BY <2>10
<1>17. stepped => CountsUpTo[m] = edges(m)
  <2> SUFFICES ASSUME stepped PROVE CountsUpTo[m] = edges(m) OBVIOUS
  <2>1. (m - 1) + 1 = m BY <1>1, <1>7
  <2>2. WithinRound(a.count, b.count) BY <2>1, <1>9
  <2>3. CountsUpTo[m - 1] = edges(m - 1) BY <1>10
  <2> HIDE DEF a, b, edges
  <2> QED BY <2>2, <2>3, <1>11, <1>12, <1>13, <1>14
<1> QED BY <1>7, <1>15, <1>16, <1>17

\* What trimming leaves: the last entries.
LEMMA TrimmedIs ==
    \A S : \A q \in Seq(S) : q # << >> =>
        \E k \in 0 .. Len(q) - 1 :
            /\ Trimmed(q) \in Seq(S) /\ Len(Trimmed(q)) = Len(q) - k
            /\ \A j \in 1 .. Len(q) - k : Trimmed(q)[j] = q[k + j]
<1> SUFFICES ASSUME NEW S, NEW s \in Seq(S), s # << >>
             PROVE  \E k \in 0 .. Len(s) - 1 :
                       /\ Trimmed(s) \in Seq(S) /\ Len(Trimmed(s)) = Len(s) - k
                       /\ \A j \in 1 .. Len(s) - k : Trimmed(s)[j] = s[k + j]
  OBVIOUS
<1> DEFINE n == Len(s)
           old == {i \in 1 .. (n - 2) : \A j \in 1 .. i : cNow - s[j].time > BufferTime}
           k == Cardinality(old)
<1>1. n \in Nat /\ n >= 1
  <2>1. n \in Nat BY LenProperties
  <2>2. n # 0 BY EmptySeq, LenProperties
  <2> QED BY <2>1, <2>2
<1>2. k \in 0 .. n - 1
  <2> HIDE DEF n
  <2>1. IsFiniteSet(1 .. (n - 2)) /\ Cardinality(1 .. (n - 2)) = IF 1 > n - 2 THEN 0 ELSE n - 2
    <3>1. n - 2 \in Int /\ (n - 2) - 1 + 1 = n - 2 BY <1>1
    <3> QED BY <3>1, FS_Interval, SMTT(30)
  <2>2. old \subseteq 1 .. (n - 2) OBVIOUS
  <2> HIDE DEF old
  <2>3. k \in Nat /\ k <= Cardinality(1 .. (n - 2)) BY <2>1, <2>2, FS_Subset, FS_CardinalityType
  <2> HIDE DEF k
  <2> QED BY <1>1, <2>1, <2>3
<1>3. Trimmed(s) = SubSeq(s, k + 1, n) BY DEF Trimmed
<1> HIDE DEF k, n
<1>4. k + 1 \in 1 .. n + 1 /\ n \in (k + 1) - 1 .. n BY <1>1, <1>2
<1>5. /\ Trimmed(s) \in Seq(S) /\ Len(Trimmed(s)) = n - (k + 1) + 1
      /\ \A i \in 1 .. n - (k + 1) + 1 : Trimmed(s)[i] = s[(k + 1) + i - 1]
  BY <1>3, <1>4, SubSeqProperties DEF n
<1>6. n - (k + 1) + 1 = n - k /\ \A i \in Int : (k + 1) + i - 1 = k + i BY <1>1, <1>2
<1>7. /\ Trimmed(s) \in Seq(S) /\ Len(Trimmed(s)) = n - k
      /\ \A i \in 1 .. n - k : Trimmed(s)[i] = s[k + i]
  <2>1. Trimmed(s) \in Seq(S) /\ Len(Trimmed(s)) = n - k BY <1>5, <1>6
  <2>2. ASSUME NEW i \in 1 .. n - k PROVE Trimmed(s)[i] = s[k + i]
    <3>1. i \in 1 .. n - (k + 1) + 1 /\ (k + 1) + i - 1 = k + i BY <1>6
    <3>2. Trimmed(s)[i] = s[(k + 1) + i - 1] BY <3>1, <1>5
    <3> QED BY <3>1, <3>2
  <2> QED BY <2>1, <2>2
<1> QED BY <1>2, <1>7 DEF n

LEMMA CounterReports ==
    ASSUME CounterIInv, NEW n \in 0 .. CounterMask, Report(n)
    PROVE  CounterIInv'
<1>1. /\ cOnWay \in Seq(Nat) /\ cOnWay' = Append(cOnWay, cCount') /\ cCount' = cCount + n /\ cCount \in Nat
      /\ cBuffer' = cBuffer /\ cSwaps' = cSwaps /\ cNow' = cNow /\ cTotal' = cTotal
      /\ n \in Nat /\ Len(cOnWay) \in Nat
  BY CounterRateAssumption, LenProperties DEF Report, CounterIInv, CounterTypeOK
<1>2. /\ cOnWay' \in Seq(Nat) /\ Len(cOnWay') = Len(cOnWay) + 1 /\ cOnWay' # << >>
      /\ cOnWay'[Len(cOnWay) + 1] = cCount' /\ \A i \in 1 .. Len(cOnWay) : cOnWay'[i] = cOnWay[i]
  <2>1. cCount' \in Nat BY <1>1
  <2> QED BY <1>1, <2>1, AppendProperties
<1>3. CounterTypeOK' /\ ValuesAreShown' /\ CountsAreEdges'
  BY <1>1, <1>2 DEF CounterIInv, CounterTypeOK, ValuesAreShown, CountsAreEdges, Counter
<1>4. ASSUME cSwaps = 0 PROVE NoRoundIsMissed'
  <2>1. NoRoundIsMissed BY <1>4 DEF CounterIInv
  <2>2. \A i \in 1 .. Len(cOnWay') - 1 : WithinRound(cOnWay'[i], cOnWay'[i + 1])
    <3> SUFFICES ASSUME NEW i \in 1 .. Len(cOnWay) PROVE WithinRound(cOnWay'[i], cOnWay'[i + 1]) BY <1>1, <1>2
    <3>1. CASE i = Len(cOnWay)
      <4>1. cOnWay'[i] = cCount /\ cOnWay'[i + 1] = cCount + n
        <5>1. cOnWay # << >> BY <3>1, EmptySeq
        <5> QED BY <5>1, <3>1, <1>1, <1>2, <2>1 DEF NoRoundIsMissed
      <4> QED BY <4>1, <1>1 DEF WithinRound
    <3>2. CASE i # Len(cOnWay)
      <4>1. i \in 1 .. Len(cOnWay) - 1 /\ i + 1 \in 1 .. Len(cOnWay) BY <3>2, <1>1
      <4> QED BY <4>1, <1>2, <2>1 DEF NoRoundIsMissed
    <3> QED BY <3>1, <3>2
  <2>3. ASSUME cBuffer # << >> PROVE WithinRound(cBuffer[Len(cBuffer)].count, cOnWay'[1])
    <3>1. CASE cOnWay = << >>
      <4>1. cBuffer[Len(cBuffer)].count = cCount BY <2>1, <2>3, <3>1 DEF NoRoundIsMissed
      <4>2. cOnWay'[1] = cCount + n BY <1>1, <1>2, <3>1, EmptySeq
      <4> QED BY <4>1, <4>2, <1>1 DEF WithinRound
    <3>2. CASE cOnWay # << >>
      <4>1. Len(cOnWay) # 0 BY <1>1, <3>2, EmptySeq
      <4>2. cOnWay'[1] = cOnWay[1] BY <4>1, <1>1, <1>2
      <4> QED BY <4>2, <2>1, <2>3, <3>2 DEF NoRoundIsMissed
    <3> QED BY <3>1, <3>2
  <2> QED BY <1>1, <1>2, <2>1, <2>2, <2>3 DEF NoRoundIsMissed, WithinRound
<1> QED BY <1>1, <1>3, <1>4 DEF CounterIInv

LEMMA CounterIsHandled ==
    ASSUME CounterIInv, NEW i \in 1 .. Len(cOnWay), CounterValue(i)
    PROVE  CounterIInv'
<1> DEFINE c == cOnWay[i]
           e == [time |-> cNow, value |-> Counter(c), count |-> c]
           s == Append(cBuffer, e)
           Entries == [time : Nat, value : Nat, count : Nat]
<1>1. /\ cOnWay \in Seq(Nat) /\ cBuffer \in Seq(Entries) /\ cNow \in Nat /\ cSwaps \in Nat
      /\ Len(cOnWay) \in Nat /\ Len(cBuffer) \in Nat /\ c \in Nat /\ i \in Nat
  BY LenProperties, ElementOfSeq DEF CounterIInv, CounterTypeOK
<1>2. /\ cSwaps' = cSwaps + (i - 1) /\ cOnWay' = RemoveAt(cOnWay, i) /\ cBuffer' = Trimmed(s)
      /\ cCount' = cCount /\ cNow' = cNow /\ cTotal' = cTotal
  BY DEF CounterValue
<1>3. /\ cOnWay' \in Seq(Nat) /\ Len(cOnWay') = Len(cOnWay) - 1
      /\ \A j \in 1 .. Len(cOnWay) - 1 : cOnWay'[j] = IF j < i THEN cOnWay[j] ELSE cOnWay[j + 1]
  BY <1>1, <1>2, RemovedAt
<1>4. e \in Entries
  <2> DEFINE m == CounterMask + 1
  <2>1. m \in Nat /\ m > 0 BY CounterRateAssumption
  <2>2. c \in Nat BY <1>1
  <2> HIDE DEF m, c
  <2>3. c % m \in Nat BY <2>1, <2>2
  <2>4. Counter(c) \in Nat BY <2>3 DEF Counter, m
  <2> QED BY <1>1, <2>2, <2>4
<1> HIDE DEF e, Entries
<1>5. /\ s \in Seq(Entries) /\ Len(s) = Len(cBuffer) + 1 /\ s[Len(cBuffer) + 1] = e /\ s # << >>
      /\ \A j \in 1 .. Len(cBuffer) : s[j] = cBuffer[j]
  BY <1>1, <1>4, AppendProperties
<1> HIDE DEF s
<1>6. PICK k \in 0 .. Len(s) - 1 :
         /\ cBuffer' \in Seq(Entries) /\ Len(cBuffer') = Len(s) - k
         /\ \A j \in 1 .. Len(s) - k : cBuffer'[j] = s[k + j]
  <2>1. \E k \in 0 .. Len(s) - 1 :
           /\ Trimmed(s) \in Seq(Entries) /\ Len(Trimmed(s)) = Len(s) - k
           /\ \A j \in 1 .. Len(s) - k : Trimmed(s)[j] = s[k + j]
    <3>1. s \in Seq(Entries) /\ s # << >> BY <1>5
    <3> HIDE DEF s
    <3> QED BY <3>1, TrimmedIs
  <2> QED BY <2>1, <1>2
<1>7. \A j \in 1 .. Len(s) - k : k + j \in 1 .. Len(s) BY <1>1, <1>5, <1>6
<1>8. \A j \in 1 .. Len(s) : s[j].value = Counter(s[j].count)
  <2>1. e.value = Counter(e.count) BY DEF e
  <2>2. \A j \in 1 .. Len(cBuffer) : cBuffer[j].value = Counter(cBuffer[j].count)
    BY DEF CounterIInv, ValuesAreShown
  <2>3. \A j \in 1 .. Len(s) : j \in 1 .. Len(cBuffer) \/ j = Len(cBuffer) + 1 BY <1>1, <1>5
  <2> QED BY <2>1, <2>2, <2>3, <1>5
<1>9. ValuesAreShown'
  <2>1. \A j \in 1 .. Len(cBuffer') : cBuffer'[j].value = Counter(cBuffer'[j].count) BY <1>6, <1>7, <1>8
  <2> QED BY <2>1 DEF ValuesAreShown, Counter
<1>10. CounterTypeOK' BY <1>1, <1>2, <1>3, <1>6 DEF CounterIInv, CounterTypeOK, Entries
<1>11. CountsAreEdges' /\ (cSwaps' = 0 => cSwaps = 0 /\ i = 1)
  <2>1. cSwaps' = 0 => cSwaps = 0 /\ i = 1 BY <1>1, <1>2
  <2> QED BY <2>1, <1>2 DEF CounterIInv, CountsAreEdges, Counter
<1>12. ASSUME cSwaps = 0, i = 1 PROVE NoRoundIsMissed'
  <2>1. NoRoundIsMissed BY <1>12 DEF CounterIInv
  <2>2. \A j \in 1 .. Len(s) - 1 : WithinRound(s[j].count, s[j + 1].count)
    <3> SUFFICES ASSUME NEW j \in 1 .. Len(cBuffer) PROVE WithinRound(s[j].count, s[j + 1].count) BY <1>1, <1>5
    <3>1. CASE j = Len(cBuffer)
      <4>1. cBuffer # << >> /\ cOnWay # << >> BY <3>1, EmptySeq
      <4>2. e.count = cOnWay[1] BY <1>12 DEF e
      <4> QED BY <3>1, <4>1, <4>2, <1>5, <2>1 DEF NoRoundIsMissed
    <3>2. CASE j # Len(cBuffer)
      <4>1. j \in 1 .. Len(cBuffer) - 1 /\ j + 1 \in 1 .. Len(cBuffer) BY <3>2, <1>1
      <4> QED BY <4>1, <1>5, <2>1 DEF NoRoundIsMissed
    <3> QED BY <3>1, <3>2
  <2>3. \A j \in 1 .. Len(cBuffer') - 1 : WithinRound(cBuffer'[j].count, cBuffer'[j + 1].count)
    <3> SUFFICES ASSUME NEW j \in 1 .. Len(cBuffer') - 1 PROVE WithinRound(cBuffer'[j].count, cBuffer'[j + 1].count)
      OBVIOUS
    <3>1. /\ j \in 1 .. Len(s) - k /\ j + 1 \in 1 .. Len(s) - k /\ k + j \in 1 .. Len(s) - 1
          /\ k + (j + 1) = (k + j) + 1
      BY <1>1, <1>5, <1>6
    <3> QED BY <3>1, <1>6, <2>2
  <2>4. cBuffer'[Len(cBuffer')].count = cOnWay[1]
    <3>1. Len(s) - k \in 1 .. Len(s) - k /\ k + (Len(s) - k) = Len(cBuffer) + 1 BY <1>1, <1>5, <1>6
    <3>2. cBuffer'[Len(cBuffer')] = e BY <3>1, <1>5, <1>6
    <3> QED BY <3>2, <1>12 DEF e
  <2>5. \A j \in 1 .. Len(cOnWay') : cOnWay'[j] = cOnWay[j + 1] BY <1>3, <1>12
  <2>6. \A j \in 1 .. Len(cOnWay') - 1 : WithinRound(cOnWay'[j], cOnWay'[j + 1])
    <3> SUFFICES ASSUME NEW j \in 1 .. Len(cOnWay') - 1 PROVE WithinRound(cOnWay'[j], cOnWay'[j + 1]) OBVIOUS
    <3>1. j \in 1 .. Len(cOnWay') /\ j + 1 \in 1 .. Len(cOnWay') /\ j + 1 \in 1 .. Len(cOnWay) - 1
      BY <1>1, <1>3
    <3> QED BY <3>1, <2>5, <2>1 DEF NoRoundIsMissed
  <2>7. CASE cOnWay' = << >>
    <3>1. Len(cOnWay) = 1
      <4>1. Len(cOnWay') = 0 BY <2>7, EmptySeq
      <4> QED BY <4>1, <1>1, <1>3
    <3>2. cOnWay[1] = cCount
      <4>1. cOnWay # << >> BY <3>1, EmptySeq
      <4> QED BY <3>1, <4>1, <2>1 DEF NoRoundIsMissed
    <3> QED BY <2>3, <2>4, <2>6, <2>7, <3>2, <1>2 DEF NoRoundIsMissed, WithinRound
  <2>8. CASE cOnWay' # << >>
    <3>1. Len(cOnWay') # 0 /\ Len(cOnWay') \in Nat BY <2>8, <1>3, EmptySeq, LenProperties
    <3>2. Len(cOnWay') \in 1 .. Len(cOnWay') /\ 1 \in 1 .. Len(cOnWay') /\ Len(cOnWay') + 1 = Len(cOnWay)
          /\ 1 \in 1 .. Len(cOnWay) - 1
      BY <3>1, <1>1, <1>3
    <3>3. cOnWay'[Len(cOnWay')] = cOnWay[Len(cOnWay)] BY <3>2, <2>5
    <3>4. cOnWay # << >> BY <3>2, EmptySeq
    <3>5. cOnWay'[Len(cOnWay')] = cCount' BY <3>3, <3>4, <2>1, <1>2 DEF NoRoundIsMissed
    <3>6. cOnWay'[1] = cOnWay[1 + 1] BY <3>2, <2>5
    <3>7. WithinRound(cOnWay[1], cOnWay'[1]) BY <3>2, <3>6, <2>1 DEF NoRoundIsMissed
    <3> QED BY <2>3, <2>4, <2>6, <2>8, <3>5, <3>7 DEF NoRoundIsMissed, WithinRound
  <2> QED BY <2>7, <2>8
<1> QED BY <1>9, <1>10, <1>11, <1>12 DEF CounterIInv

LEMMA CounterAverages == ASSUME CounterIInv, AvgRate PROVE CounterIInv'
<1> DEFINE n == Len(cBuffer)
           f == FirstCounted
           edges == cBuffer[n].count - cBuffer[f].count
<1>1. CounterTypeOK /\ ValuesAreShown /\ Len(cBuffer) >= 2 BY DEF CounterIInv, AvgRate
<1>2. /\ CountsUpTo[n] \in Int
      /\ \E k \in Int : CountsUpTo[n] = edges + k * Modulo
      /\ (\A i \in 1 .. n - 1 : WithinRound(cBuffer[i].count, cBuffer[i + 1].count)) => CountsUpTo[n] = edges
  BY <1>1, CountsTelescope
<1>3. cTotal'.counts = CountsUpTo[n] /\ cTotal'.last - cTotal'.first = edges BY DEF AvgRate
<1>4. edges \in Int
  <2>1. f \in 1 .. n /\ n \in 1 .. n
    <3>1. n \in Nat BY <1>1, LenProperties DEF CounterTypeOK
    <3> QED BY <1>1, <3>1 DEF FirstCounted
  <2>2. \A i \in 1 .. n : cBuffer[i] \in [time : Nat, value : Nat, count : Nat]
    BY <1>1, ElementOfSeq DEF CounterTypeOK
  <2>3. cBuffer[n].count \in Nat /\ cBuffer[f].count \in Nat BY <2>1, <2>2
  <2> QED BY <2>3
<1>5. Counter(CountsUpTo[n]) = Counter(edges)
  <2> PICK k \in Int : CountsUpTo[n] = edges + k * Modulo BY <1>2
  <2>1. Modulo \in Nat \ {0} BY CounterRateAssumption DEF Modulo
  <2> DEFINE x == edges
             y == CountsUpTo[n]
  <2>2. x \in Int /\ y \in Int /\ y = x + k * Modulo BY <1>2, <1>4
  <2> HIDE DEF x, y
  <2>3. y % Modulo = x % Modulo BY <2>1, <2>2, RoundsDoNotShow
  <2> QED BY <2>3 DEF x, y, Counter, Modulo
<1>6. cSwaps = 0 => CountsUpTo[n] = edges BY <1>2 DEF CounterIInv, NoRoundIsMissed
<1> HIDE DEF n, edges
<1>7. /\ cCount' = cCount /\ cSwaps' = cSwaps /\ cNow' = cNow /\ cOnWay' = cOnWay /\ cBuffer' = cBuffer
  BY DEF AvgRate
<1>8. CountsAreEdges' BY <1>3, <1>5, <1>6, <1>7 DEF CountsAreEdges, Counter
<1> QED BY <1>7, <1>8 DEF CounterIInv, CounterTypeOK, ValuesAreShown, Counter, NoRoundIsMissed, WithinRound

LEMMA CounterStep == CounterIInv /\ [CounterNext]_counterVars => CounterIInv'
<1> SUFFICES ASSUME CounterIInv, [CounterNext]_counterVars PROVE CounterIInv' OBVIOUS
<1>1. ASSUME NEW n \in 0 .. CounterMask, Report(n) PROVE CounterIInv' BY <1>1, CounterReports
<1>2. ASSUME NEW i \in 1 .. Len(cOnWay), CounterValue(i) PROVE CounterIInv' BY <1>2, CounterIsHandled
<1>3. CASE AvgRate BY <1>3, CounterAverages
<1>4. CASE CounterTick
  <2>1. cNow' \in Nat BY <1>4 DEF CounterTick, CounterIInv, CounterTypeOK
  <2> QED BY <1>4, <2>1
    DEF CounterTick, CounterIInv, CounterTypeOK, ValuesAreShown, Counter, NoRoundIsMissed, WithinRound, CountsAreEdges
<1>5. CASE UNCHANGED counterVars
  BY <1>5
  DEF counterVars, CounterIInv, CounterTypeOK, ValuesAreShown, Counter, NoRoundIsMissed, WithinRound, CountsAreEdges
<1> QED BY <1>1, <1>2, <1>3, <1>4, <1>5 DEF CounterNext

\* CounterRateBuffer (ublox_ratebuffer.cpp): the counts of the average rate are the edges between the
\* first and the last value it uses, for every width of the counter, length of the buffer and number
\* of values; when workers handle values in the wrong order they are off by whole rounds.
THEOREM CounterCountsEdges == CounterSpec => []CountsAreEdges
<1>1. CounterInit => CounterIInv
  <2> SUFFICES ASSUME CounterInit PROVE CounterIInv OBVIOUS
  <2>1. Len(cBuffer) = 0 /\ Len(cOnWay) = 0 BY EmptySeq DEF CounterInit
  <2>2. CountsAreEdges BY DEF CounterInit, NoTotal, CountsAreEdges
  <2> QED BY <2>1, <2>2, EmptySeq DEF CounterInit, CounterIInv, CounterTypeOK, ValuesAreShown, NoRoundIsMissed
<1>2. CounterIInv => CountsAreEdges BY DEF CounterIInv
<1> QED BY <1>1, <1>2, CounterStep, PTL DEF CounterSpec

-----------------------------------------------------------------------------
(* The GPIO thread.  What it has published is a choice of the edges of the  *)
(* line, given by their places; a step that publishes adds one place.       *)

\* A sequence r is what there is of s from the first of some places on.
IsRestOf(S, s, places, r) ==
    \E p \in places :
       /\ \A j \in places : p <= j
       /\ r \in Seq(S) /\ Len(r) = Len(s) - p + 1
       /\ \A i \in 1..(Len(s) - p + 1) : r[i] = s[p + i - 1]

LEMMA FrontIsDropped ==
    ASSUME NEW S, NEW s \in Seq(S), NEW places \in SUBSET (1..Len(s)), places # {}
    PROVE  IsRestOf(S, s, places, KeptFrom(s, places))
<1> DEFINE p == CHOOSE i \in places : \A j \in places : i <= j
<1>1. places \subseteq Nat OBVIOUS
<1>2. p \in places /\ \A j \in places : p <= j
  <2>1. \E i \in places : \A j \in places : i <= j BY <1>1, LeastNumber
  <2> QED BY <2>1
<1>3. KeptFrom(s, places) = SubSeq(s, p, Len(s)) BY DEF KeptFrom
<1> HIDE DEF p
<1>4. p \in Int /\ Len(s) \in Int /\ p <= Len(s) /\ 1 <= p BY <1>2
<1>5. \A i \in p..Len(s) : s[i] \in S BY <1>4, ElementOfSeq
<1>6. /\ SubSeq(s, p, Len(s)) \in Seq(S)
      /\ Len(SubSeq(s, p, Len(s))) = Len(s) - p + 1
      /\ \A i \in 1..(Len(s) - p + 1) : SubSeq(s, p, Len(s))[i] = s[p + i - 1]
  BY <1>4, <1>5, SubSeqProperties
<1> QED BY <1>2, <1>3, <1>6 DEF IsRestOf

\* The edges the thread has gone through, and their times.
Seen == Len(gEdges) - Len(gQueue) - Len(gBatch)

Edges == [ts : Nat, edge : LineEdges]
GpioSamples == [ts : Nat, rate : {"any"} \cup (Nat \X Nat)]
Buffers ==
    [last : Nat \cup {NoTime}, interval : Nat, events : Seq(Nat), samples : Seq(GpioSamples), latest : Nat]
GpioTypeOK ==
    /\ gEdges \in Seq(Edges) /\ gQueue \in Seq(Edges) /\ gBatch \in Seq(Edges)
    /\ gBus \in Seq([ts : Nat, interval : Nat]) /\ gNow \in Nat
    /\ gBuf \in Buffers
    /\ gSample \in Nat \cup {NoTime} /\ gRaced \in BOOLEAN

\* Time does not run back.
EdgesInOrder ==
    /\ \A i, j \in 1..Len(gEdges) : i <= j => gEdges[i].ts <= gEdges[j].ts
    /\ \A i \in 1..Len(gEdges) : gEdges[i].ts <= gNow
    /\ \A m, n \in 1..Len(gBus) : m <= n => gBus[m].ts <= gBus[n].ts

\* The batch and what the kernel holds are the end of the line's history.
NothingIsLost ==
    /\ Seen >= 0
    /\ \A i \in 1..Len(gBatch) : gEdges[Seen + i] = gBatch[i]
    /\ \A i \in 1..Len(gQueue) : gEdges[Seen + Len(gBatch) + i] = gQueue[i]

\* The buffer's last time and interval are those published last; its events are the last ones published,
\* and the others have left the window that ends with the last one.
BufferIsOfBus ==
    LET n == Len(gBus)
        m == Len(gBuf.events)
    IN /\ n = 0 => gBuf.last = NoTime /\ gBuf.interval = 0
       /\ n # 0 => gBuf.last = gBus[n].ts /\ gBuf.last <= gNow
       /\ m <= n
       /\ \A i \in 1..m : gBuf.events[i] = gBus[n - m + i].ts
       /\ \A i \in 1..(n - m) : gBuf.last - gBus[i].ts > Window

\* The clock of a sampling is not behind what the buffer has seen.
SampleIsLate ==
    /\ gSample # NoTime => gSample <= gNow /\ gBuf.latest <= gSample
    /\ gSample # NoTime /\ ~gRaced => gBuf.last <= gSample

GpioIInv ==
    GpioTypeOK /\ EdgesInOrder /\ NothingIsLost /\ EdgesArePublished /\ BufferIsOfBus /\ SampleIsLate

\* The edges e are chosen as b by their places among the first k.
Chosen(at, e, b, k) ==
    /\ at \in [1..Len(b) -> 1..k]
    /\ \A m, n \in 1..Len(b) : m < n => at[m] < at[n]
    /\ \A i \in 1..k :
          (\E n \in 1..Len(b) : at[n] = i) <=>
             /\ FilterEdge \in {"any", e[i].edge}
             /\ \A n \in 1..Len(b) : at[n] < i => e[i].ts - e[at[n]].ts >= Deadtime
    /\ \A n \in 1..Len(b) :
          b[n] = [ts |-> e[at[n]].ts, interval |-> IF n = 1 THEN 0 ELSE e[at[n]].ts - e[at[n - 1]].ts]

LEMMA PublishedAreChosen == EdgesArePublished <=> \E at : Chosen(at, gEdges, gBus, Seen)
BY Zenon DEF EdgesArePublished, Chosen, Seen

LEMMA ChosenNext == EdgesArePublished' <=> \E at : Chosen(at, gEdges', gBus', Seen')
BY Zenon DEF EdgesArePublished, Chosen, Seen

\* The choice is of the edges gone through only.
LEMMA ChoiceStays ==
    ASSUME NEW k \in Nat, NEW at, NEW e, NEW b, NEW f, Chosen(at, e, b, k), Len(b) \in Nat, \A i \in 1..k : f[i] = e[i]
    PROVE  Chosen(at, f, b, k)
<1>1. \A n \in 1..Len(b) : at[n] \in 1..k /\ f[at[n]] = e[at[n]] BY DEF Chosen
<1>2. \A n \in 1..Len(b) : n # 1 => n - 1 \in 1..Len(b) OBVIOUS
<1>3. \A n \in 1..Len(b) : n # 1 => f[at[n - 1]] = e[at[n - 1]] BY <1>1, <1>2
<1> QED BY <1>1, <1>3 DEF Chosen

LEMMA GpioStutters ==
    GpioIInv /\ UNCHANGED <<gQueue, gBatch, gBus, gEdges, gNow, gBuf, gSample, gRaced>> => GpioIInv'
<1> SUFFICES ASSUME GpioIInv, UNCHANGED <<gQueue, gBatch, gBus, gEdges, gNow, gBuf, gSample, gRaced>> PROVE GpioIInv'
  OBVIOUS
<1>1. Seen' = Seen BY DEF Seen
<1>2. GpioTypeOK' /\ EdgesInOrder' /\ NothingIsLost' /\ BufferIsOfBus' /\ SampleIsLate'
  BY <1>1 DEF GpioIInv, GpioTypeOK, EdgesInOrder, NothingIsLost, BufferIsOfBus, SampleIsLate
<1>3. EdgesArePublished' BY <1>1, PublishedAreChosen, ChosenNext DEF GpioIInv
<1> QED BY <1>2, <1>3 DEF GpioIInv

\* Lengths, and the types of what is at a place.
LEMMA GpioLengths ==
    ASSUME GpioIInv
    PROVE  /\ Len(gEdges) \in Nat /\ Len(gQueue) \in Nat /\ Len(gBatch) \in Nat /\ Len(gBus) \in Nat
           /\ Seen \in Nat /\ Len(gEdges) = Seen + Len(gBatch) + Len(gQueue)
           /\ \A i \in 1..Len(gEdges) : gEdges[i] \in Edges
           /\ Deadtime \in Nat /\ Window \in Nat /\ ReadSize \in Nat \ {0} /\ HistoryLength \in Nat
<1>1. GpioTypeOK /\ Seen >= 0 BY DEF GpioIInv, NothingIsLost
<1>2. Len(gEdges) \in Nat /\ Len(gQueue) \in Nat /\ Len(gBatch) \in Nat /\ Len(gBus) \in Nat
  BY <1>1 DEF GpioTypeOK
<1>3. \A i \in 1..Len(gEdges) : gEdges[i] \in Edges BY <1>1, ElementOfSeq DEF GpioTypeOK
<1> QED BY <1>1, <1>2, <1>3, GpioDriverAssumption DEF Seen

\* What one read takes out of the queue it puts into the batch.
LEMMA ReadKeeps == GpioIInv /\ LoopRead => GpioIInv'
<1> SUFFICES ASSUME GpioIInv, LoopRead PROVE GpioIInv' OBVIOUS
<1> DEFINE c == ReadCount
<1>1. /\ gBatch = <<>> /\ gBatch' = SubSeq(gQueue, 1, c) /\ gQueue' = SubSeq(gQueue, c + 1, Len(gQueue))
      /\ UNCHANGED <<gBus, gEdges, gNow, gBuf, gSample, gRaced>>
  BY DEF LoopRead, loopVars
<1>2. c \in 0..Len(gQueue) /\ Len(gQueue) \in Nat BY GpioLengths DEF ReadCount
<1> HIDE DEF c
<1>3. \A i \in 1..Len(gQueue) : gQueue[i] \in Edges BY ElementOfSeq DEF GpioIInv, GpioTypeOK
<1>4. gBatch' \in Seq(Edges) /\ Len(gBatch') = c /\ \A i \in 1..c : gBatch'[i] = gQueue[i]
  <2>1. \A i \in 1..c : gQueue[i] \in Edges BY <1>2, <1>3
  <2>2. 1 \in Int /\ c \in Int BY <1>2
  <2>3. /\ SubSeq(gQueue, 1, c) \in Seq(Edges) /\ Len(SubSeq(gQueue, 1, c)) = IF 1 <= c THEN c - 1 + 1 ELSE 0
        /\ \A i \in 1..(c - 1 + 1) : SubSeq(gQueue, 1, c)[i] = gQueue[1 + i - 1]
    BY <2>1, <2>2, SubSeqProperties
  <2> QED BY <1>1, <1>2, <2>3
<1> DEFINE l == Len(gQueue)
           a == c + 1
<1>5. /\ gQueue' \in Seq(Edges) /\ Len(gQueue') = l - c
      /\ \A i \in 1..(l - c) : gQueue'[i] = gQueue[c + i]
  <2>1. \A i \in a..l : gQueue[i] \in Edges BY <1>2, <1>3
  <2>2. a \in Int /\ l \in Int BY <1>2
  <2>3. IF a <= l THEN l - a + 1 = l - c ELSE l - c = 0 BY <1>2
  <2>4. \A i \in 1..(l - c) : i \in 1..(l - a + 1) /\ a + i - 1 = c + i BY <1>2
  <2>5. gQueue' = SubSeq(gQueue, a, l) BY <1>1
  <2> HIDE DEF l, a
  <2>6. /\ SubSeq(gQueue, a, l) \in Seq(Edges) /\ Len(SubSeq(gQueue, a, l)) = IF a <= l THEN l - a + 1 ELSE 0
        /\ \A i \in 1..(l - a + 1) : SubSeq(gQueue, a, l)[i] = gQueue[a + i - 1]
    BY <2>1, <2>2, SubSeqProperties
  <2>7. \A i \in 1..(l - c) : gQueue'[i] = gQueue[c + i] BY <2>4, <2>5, <2>6
  <2>8. gQueue' \in Seq(Edges) /\ Len(gQueue') = l - c BY <2>3, <2>5, <2>6
  <2> QED BY <2>7, <2>8
<1>6. Seen' = Seen
  <2>1. Seen' = Len(gEdges') - Len(gQueue') - Len(gBatch') /\ Seen = Len(gEdges) - Len(gQueue) - Len(gBatch)
    BY DEF Seen
  <2>2. Len(gBatch) = 0 /\ Len(gEdges) \in Nat BY <1>1, GpioLengths
  <2>3. Len(gQueue') = Len(gQueue) - c /\ Len(gBatch') = c /\ gEdges' = gEdges BY <1>1, <1>4, <1>5
  <2> QED BY <1>2, <2>1, <2>2, <2>3
<1>7. GpioTypeOK' BY <1>1, <1>4, <1>5 DEF GpioIInv, GpioTypeOK
<1>8. NothingIsLost'
  <2>1. Len(gBatch) = 0 BY <1>1
  <2>2. \A i \in 1..Len(gQueue) : gEdges[Seen + i] = gQueue[i]
    BY <2>1, GpioLengths DEF GpioIInv, NothingIsLost
  <2>3. \A i \in 1..c : gEdges'[Seen' + i] = gBatch'[i] BY <1>1, <1>2, <1>4, <1>6, <2>2
  <2>4. ASSUME NEW i \in 1..(Len(gQueue) - c) PROVE gEdges'[Seen' + c + i] = gQueue'[i]
    <3>1. c + i \in 1..Len(gQueue) BY <1>2
    <3>2. gEdges[Seen + (c + i)] = gQueue[c + i] BY <2>2, <3>1
    <3>3. Seen + (c + i) = Seen + c + i BY <1>2, GpioLengths
    <3> QED BY <1>1, <1>5, <1>6, <3>2, <3>3
  <2> QED BY <1>4, <1>5, <1>6, <2>3, <2>4, GpioLengths DEF NothingIsLost
<1>9. EdgesInOrder' /\ BufferIsOfBus' /\ SampleIsLate'
  BY <1>1 DEF GpioIInv, EdgesInOrder, BufferIsOfBus, SampleIsLate
<1>10. EdgesArePublished'
  <2>1. PICK at : Chosen(at, gEdges, gBus, Seen) BY PublishedAreChosen DEF GpioIInv
  <2>2. Chosen(at, gEdges', gBus', Seen') BY <1>1, <1>6, <2>1
  <2> QED BY <2>2, ChosenNext
<1> QED BY <1>7, <1>8, <1>9, <1>10 DEF GpioIInv

\* The buffer takes an edge if it passes the filter and the dead time is over since each published edge.
LEMMA AcceptsByChoice ==
    ASSUME GpioIInv, NEW at, Chosen(at, gEdges, gBus, Seen), NEW e \in Edges
    PROVE  Accepts(gBuf, e) <=> /\ FilterEdge \in {"any", e.edge}
                                /\ \A n \in 1..Len(gBus) : e.ts - gEdges[at[n]].ts >= Deadtime
<1> DEFINE l == Len(gBus)
<1>1. /\ \A n \in 1..l : gBus[n].ts = gEdges[at[n]].ts /\ gBus[n].ts \in Nat
      /\ l \in Nat /\ e.ts \in Nat /\ Deadtime \in Nat
  <2>1. \A n \in 1..l : gBus[n] \in [ts : Nat, interval : Nat] BY ElementOfSeq DEF GpioIInv, GpioTypeOK
  <2>2. ASSUME NEW n \in 1..l PROVE gBus[n].ts = gEdges[at[n]].ts
    <3>1. gBus[n] = [ts |-> gEdges[at[n]].ts,
                     interval |-> IF n = 1 THEN 0 ELSE gEdges[at[n]].ts - gEdges[at[n - 1]].ts]
      BY Zenon DEF Chosen
    <3> QED BY <3>1
  <2>3. e.ts \in Nat BY DEF Edges
  <2> QED BY <2>1, <2>2, <2>3, GpioLengths
<1>2. \A n \in 1..l : gBus[n].ts <= gBus[l].ts BY <1>1 DEF GpioIInv, EdgesInOrder
<1>3. CASE l = 0 BY <1>3 DEF GpioIInv, BufferIsOfBus, Accepts
<1>4. CASE l # 0
  <2>1. gBuf.last = gBus[l].ts /\ l \in 1..l BY <1>1, <1>4 DEF GpioIInv, BufferIsOfBus
  <2>2. gBuf.last # NoTime BY <1>1, <2>1 DEF NoTime
  <2>3. e.ts - gBuf.last >= Deadtime <=> \A n \in 1..l : e.ts - gBus[n].ts >= Deadtime
    <3> HIDE DEF l
    <3> QED BY <1>1, <1>2, <2>1
  <2> QED BY <1>1, <2>2, <2>3 DEF Accepts
<1> QED BY <1>3, <1>4

\* The next edge of the batch is the next one of the line.
LEMMA ProcessTakesNext ==
    ASSUME GpioIInv, LoopProcess
    PROVE  /\ Seen + 1 \in 1..Len(gEdges) /\ Head(gBatch) = gEdges[Seen + 1] /\ Head(gBatch) \in Edges
           /\ Seen' = Seen + 1 /\ NothingIsLost' /\ gBatch' \in Seq(Edges)
           /\ UNCHANGED <<gEdges, gQueue, gNow, gSample>>
<1>1. gBatch # <<>> /\ gBatch' = Tail(gBatch) /\ UNCHANGED <<gEdges, gQueue, gNow, gSample>> BY DEF LoopProcess
<1>2. gBatch \in Seq(Edges) BY DEF GpioIInv, GpioTypeOK
<1>3. /\ Head(gBatch) = gBatch[1] /\ Head(gBatch) \in Edges /\ Len(gBatch) \in Nat \ {0}
      /\ gBatch' \in Seq(Edges) /\ Len(gBatch') = Len(gBatch) - 1
      /\ \A i \in 1..(Len(gBatch) - 1) : gBatch'[i] = gBatch[i + 1]
  BY <1>1, <1>2
<1>4. Seen' = Seen + 1 /\ Seen \in Nat /\ Len(gEdges) = Seen + Len(gBatch) + Len(gQueue) /\ Len(gQueue) \in Nat
  <2>1. Seen' = Len(gEdges') - Len(gQueue') - Len(gBatch') BY DEF Seen
  <2> QED BY <1>1, <1>3, <2>1, GpioLengths DEF Seen
<1>5. \A i \in 1..Len(gBatch) : gEdges[Seen + i] = gBatch[i] BY DEF GpioIInv, NothingIsLost
<1>6. Seen + 1 \in 1..Len(gEdges) /\ Head(gBatch) = gEdges[Seen + 1] BY <1>3, <1>4, <1>5
<1>7. NothingIsLost'
  <2>1. ASSUME NEW i \in 1..Len(gBatch') PROVE gEdges'[Seen' + i] = gBatch'[i]
    <3>1. i + 1 \in 1..Len(gBatch) /\ Seen' + i = Seen + (i + 1) BY <1>3, <1>4
    <3> QED BY <1>1, <1>3, <1>5, <3>1
  <2>2. ASSUME NEW i \in 1..Len(gQueue') PROVE gEdges'[Seen' + Len(gBatch') + i] = gQueue'[i]
    <3>1. Seen' + Len(gBatch') + i = Seen + Len(gBatch) + i BY <1>1, <1>3, <1>4
    <3> QED BY <1>1, <3>1 DEF GpioIInv, NothingIsLost
  <2> QED BY <1>4, <2>1, <2>2 DEF NothingIsLost
<1> QED BY <1>1, <1>3, <1>4, <1>6, <1>7

\* An edge that is not accepted is not of the choice.
LEMMA RejectKeeps == GpioIInv /\ LoopProcess /\ ~Accepts(gBuf, Head(gBatch)) => GpioIInv'
<1> SUFFICES ASSUME GpioIInv, LoopProcess, ~Accepts(gBuf, Head(gBatch)) PROVE GpioIInv' OBVIOUS
<1> DEFINE e == Head(gBatch)
           k == Seen + 1
<1>1. UNCHANGED <<gBuf, gBus>> /\ gRaced' = (gSample # NoTime) BY DEF LoopProcess
<1>2. /\ k \in 1..Len(gEdges) /\ e = gEdges[k] /\ e \in Edges /\ Seen' = k /\ NothingIsLost' /\ gBatch' \in Seq(Edges)
      /\ UNCHANGED <<gEdges, gQueue, gNow, gSample>>
  BY ProcessTakesNext
<1>3. PICK at : Chosen(at, gEdges, gBus, Seen) BY PublishedAreChosen DEF GpioIInv
<1>4. ~(/\ FilterEdge \in {"any", e.edge} /\ \A n \in 1..Len(gBus) : e.ts - gEdges[at[n]].ts >= Deadtime)
  BY <1>2, <1>3, AcceptsByChoice
<1>5. Chosen(at, gEdges, gBus, k)
  <2>1. Len(gBus) \in Nat /\ Seen \in Nat BY GpioLengths
  <2>2. \A n \in 1..Len(gBus) : at[n] \in 1..Seen BY <1>3 DEF Chosen
  <2>3. at \in [1..Len(gBus) -> 1..k] BY <1>3, <2>1 DEF Chosen
  <2>4. ASSUME NEW i \in 1..k
        PROVE  (\E n \in 1..Len(gBus) : at[n] = i) <=>
                 /\ FilterEdge \in {"any", gEdges[i].edge}
                 /\ \A n \in 1..Len(gBus) : at[n] < i => gEdges[i].ts - gEdges[at[n]].ts >= Deadtime
    <3>1. CASE i = k
      <4>1. \A n \in 1..Len(gBus) : at[n] < i /\ at[n] # i BY <2>1, <2>2, <3>1
      <4> QED BY <1>2, <1>4, <3>1, <4>1
    <3>2. CASE i # k
      <4>1. i \in 1..Seen BY <2>1, <3>2
      <4> QED BY <1>3, <4>1 DEF Chosen
    <3> QED BY <3>1, <3>2
  <2> HIDE DEF k
  <2> QED BY <1>3, <2>3, <2>4 DEF Chosen
<1>6. EdgesArePublished' BY <1>1, <1>2, <1>5, ChosenNext
<1>7. GpioTypeOK' /\ EdgesInOrder' /\ BufferIsOfBus'
  BY <1>1, <1>2 DEF GpioIInv, GpioTypeOK, EdgesInOrder, BufferIsOfBus
<1>8. SampleIsLate' BY <1>1, <1>2 DEF GpioIInv, SampleIsLate
<1> QED BY <1>2, <1>6, <1>7, <1>8 DEF GpioIInv

\* An edge that is accepted is published after all others and with its distance to the last one.
LEMMA AcceptPublishes ==
    ASSUME GpioIInv, LoopProcess, Accepts(gBuf, Head(gBatch))
    PROVE  LET e == Head(gBatch)
               l == Len(gBus)
               t == IF l = 0 THEN 0 ELSE e.ts - gBus[l].ts
           IN /\ gBuf' = BufferHandled(gBuf, e) /\ BufferHandled(gBuf, e).interval = t
              /\ gBus' = Append(gBus, [ts |-> e.ts, interval |-> t]) /\ t \in Nat
              /\ e.ts \in Nat /\ e.ts <= gNow
              /\ \A n \in 1..l : gBus[n].ts \in Nat /\ gBus[n].ts <= e.ts
              /\ EdgesArePublished'
<1> DEFINE e == Head(gBatch)
           l == Len(gBus)
           t == IF l = 0 THEN 0 ELSE e.ts - gBus[l].ts
           b == BufferHandled(gBuf, e)
           k == Seen + 1
<1>1. gBuf' = b /\ gBus' = Append(gBus, [ts |-> e.ts, interval |-> b.interval]) BY DEF LoopProcess
<1>2. k \in 1..Len(gEdges) /\ e = gEdges[k] /\ e \in Edges /\ Seen' = k /\ UNCHANGED gEdges BY ProcessTakesNext
<1>3. l \in Nat /\ Seen \in Nat BY GpioLengths
<1>4. e.ts \in Nat /\ e.ts <= gNow BY <1>2 DEF GpioIInv, EdgesInOrder, Edges
<1>5. PICK at : Chosen(at, gEdges, gBus, Seen) BY PublishedAreChosen DEF GpioIInv
<1>6. ASSUME NEW n \in 1..l
      PROVE  gBus[n].ts \in Nat /\ gBus[n].ts = gEdges[at[n]].ts /\ at[n] \in 1..Seen /\ gBus[n].ts <= e.ts
  <2>1. gBus[n] = [ts |-> gEdges[at[n]].ts,
                   interval |-> IF n = 1 THEN 0 ELSE gEdges[at[n]].ts - gEdges[at[n - 1]].ts]
    BY <1>5, Zenon DEF Chosen
  <2>2. at[n] \in 1..Seen BY <1>5 DEF Chosen
  <2>3. at[n] \in 1..Len(gEdges) /\ at[n] <= k BY <1>2, <1>3, <2>2
  <2>4. gEdges[at[n]].ts <= gEdges[k].ts BY <1>2, <2>3 DEF GpioIInv, EdgesInOrder
  <2>5. gBus[n] \in [ts : Nat, interval : Nat] BY ElementOfSeq DEF GpioIInv, GpioTypeOK
  <2> QED BY <1>2, <2>1, <2>2, <2>4, <2>5
<1>7. b.interval = t /\ t \in Nat
  <2>1. b.interval = IF gBuf.last # NoTime THEN e.ts - gBuf.last ELSE gBuf.interval
    BY DEF GpioIInv, GpioTypeOK, Buffers, BufferHandled
  <2>2. CASE l = 0 BY <2>1, <2>2 DEF GpioIInv, BufferIsOfBus
  <2>3. CASE l # 0
    <3>1. l \in 1..l /\ gBuf.last = gBus[l].ts BY <1>3, <2>3 DEF GpioIInv, BufferIsOfBus
    <3>2. gBus[l].ts \in Nat /\ gBus[l].ts <= e.ts BY <1>6, <3>1
    <3> QED BY <1>4, <2>1, <2>3, <3>1, <3>2 DEF NoTime
  <2> QED BY <2>2, <2>3
<1>8. gBus' = Append(gBus, [ts |-> e.ts, interval |-> t]) BY <1>1, <1>7
<1> HIDE DEF e, b
<1> DEFINE r == [ts |-> e.ts, interval |-> t]
           at2 == [n \in 1..(l + 1) |-> IF n = l + 1 THEN k ELSE at[n]]
<1>9. Len(gBus') = l + 1 /\ gBus'[l + 1] = r /\ \A n \in 1..l : gBus'[n] = gBus[n]
  <2>1. gBus \in Seq([ts : Nat, interval : Nat]) /\ r \in [ts : Nat, interval : Nat]
    BY <1>4, <1>7 DEF GpioIInv, GpioTypeOK
  <2> HIDE DEF r
  <2> QED BY <1>8, <2>1 DEF r
<1>10. Chosen(at2, gEdges, gBus', k)
  <2>1. /\ at2 = [n \in 1..(l + 1) |-> at2[n]]
        /\ \A n \in 1..(l + 1) : at2[n] = IF n = l + 1 THEN k ELSE at[n]
    OBVIOUS
  <2> HIDE DEF at2
  <2>2. \A n \in 1..l : at2[n] = at[n] /\ at2[n] \in 1..Seen /\ at2[n] < k /\ gBus[n].ts = gEdges[at2[n]].ts
    BY <1>3, <1>6, <2>1
  <2>3. at2[l + 1] = k BY <1>3, <2>1
  <2>4. at2 \in [1..(l + 1) -> 1..k]
    <3>1. \A n \in 1..(l + 1) : n \in 1..l \/ n = l + 1 BY <1>3
    <3>2. k \in 1..k /\ 1..Seen \subseteq 1..k BY <1>3
    <3>3. \A n \in 1..(l + 1) : at2[n] \in 1..k BY <2>2, <2>3, <3>1, <3>2
    <3> HIDE DEF k, l
    <3> QED BY <2>1, <3>3
  <2>5. ASSUME NEW m \in 1..(l + 1), NEW n \in 1..(l + 1), m < n PROVE at2[m] < at2[n]
    <3>1. CASE n = l + 1 BY <1>3, <2>2, <2>3, <2>5, <3>1
    <3>2. CASE n # l + 1
      <4>1. m \in 1..l /\ n \in 1..l BY <1>3, <2>5, <3>2
      <4> QED BY <1>5, <2>2, <2>5, <4>1 DEF Chosen
    <3> QED BY <3>1, <3>2
  <2>6. ASSUME NEW i \in 1..k
        PROVE  (\E n \in 1..(l + 1) : at2[n] = i) <=>
                 /\ FilterEdge \in {"any", gEdges[i].edge}
                 /\ \A n \in 1..(l + 1) : at2[n] < i => gEdges[i].ts - gEdges[at2[n]].ts >= Deadtime
    <3>1. CASE i = k
      <4>1. /\ FilterEdge \in {"any", e.edge}
            /\ \A n \in 1..l : e.ts - gEdges[at[n]].ts >= Deadtime
        BY <1>2, <1>5, AcceptsByChoice DEF e
      <4>2. \A n \in 1..(l + 1) : at2[n] < i => n \in 1..l BY <1>3, <2>3, <3>1
      <4>3. l + 1 \in 1..(l + 1) BY <1>3
      <4> QED BY <1>2, <2>2, <2>3, <3>1, <4>1, <4>2, <4>3
    <3>2. CASE i # k
      <4>1. i \in 1..Seen /\ ~(k < i) BY <1>3, <3>2
      <4>2. (\E n \in 1..l : at[n] = i) <=>
              /\ FilterEdge \in {"any", gEdges[i].edge}
              /\ \A n \in 1..l : at[n] < i => gEdges[i].ts - gEdges[at[n]].ts >= Deadtime
        BY <1>5, <4>1 DEF Chosen
      <4>3. \A n \in 1..(l + 1) : n \in 1..l \/ n = l + 1 BY <1>3
      <4>4. \A n \in 1..l : n \in 1..(l + 1) BY <1>3
      <4> HIDE DEF k, l
      <4>5. (\E n \in 1..(l + 1) : at2[n] = i) <=> (\E n \in 1..l : at[n] = i)
        BY <2>2, <2>3, <3>2, <4>3, <4>4
      <4>6. (\A n \in 1..(l + 1) : at2[n] < i => gEdges[i].ts - gEdges[at2[n]].ts >= Deadtime)
              <=> (\A n \in 1..l : at[n] < i => gEdges[i].ts - gEdges[at[n]].ts >= Deadtime)
        BY <2>2, <2>3, <4>1, <4>3, <4>4
      <4> QED BY <4>2, <4>5, <4>6
    <3> QED BY <3>1, <3>2
  <2>7. ASSUME NEW n \in 1..(l + 1)
        PROVE  gBus'[n] = [ts |-> gEdges[at2[n]].ts,
                           interval |-> IF n = 1 THEN 0 ELSE gEdges[at2[n]].ts - gEdges[at2[n - 1]].ts]
    <3>1. CASE n = l + 1
      <4>1. gEdges[at2[n]].ts = e.ts BY <1>2, <2>3, <3>1
      <4>2. n # 1 => l # 0 /\ n - 1 = l /\ l \in 1..l BY <1>3, <3>1
      <4>3. n # 1 => gBus[l].ts = gEdges[at2[n - 1]].ts BY <2>2, <4>2
      <4>4. n = 1 => l = 0 BY <1>3, <3>1
      <4>5. t = IF n = 1 THEN 0 ELSE gEdges[at2[n]].ts - gEdges[at2[n - 1]].ts BY <4>1, <4>2, <4>3, <4>4
      <4> QED BY <1>9, <3>1, <4>1, <4>5
    <3>2. CASE n # l + 1
      <4>1. n \in 1..l /\ (n # 1 => n - 1 \in 1..l) BY <1>3, <3>2
      <4>2. gBus[n] = [ts |-> gEdges[at[n]].ts,
                       interval |-> IF n = 1 THEN 0 ELSE gEdges[at[n]].ts - gEdges[at[n - 1]].ts]
        BY <1>5, <4>1, Zenon DEF Chosen
      <4>3. at2[n] = at[n] /\ (n # 1 => at2[n - 1] = at[n - 1]) BY <2>2, <4>1
      <4> QED BY <1>9, <4>1, <4>2, <4>3
    <3> QED BY <3>1, <3>2
  <2> HIDE DEF k, l, t, r
  <2> QED BY <1>9, <2>4, <2>5, <2>6, <2>7 DEF Chosen
<1>11. EdgesArePublished' BY <1>2, <1>10, ChosenNext
<1> HIDE DEF t, l
<1> QED BY <1>1, <1>4, <1>6, <1>7, <1>8, <1>11 DEF e, b, t, l

\* The sliding window: the events kept are the last ones published, the others are too old.
WindowIsOf(bus, kept, t) ==
    LET d == Len(bus) - Len(kept)
    IN /\ kept \in Seq(Nat) /\ d \in Nat
       /\ \A i \in 1..Len(kept) : kept[i] = bus[d + i].ts
       /\ \A i \in 1..d : t - bus[i].ts > Window

LEMMA WindowSlides ==
    ASSUME GpioIInv, NEW t \in Nat, NEW x, x.ts = t,
           \A n \in 1..Len(gBus) : gBus[n].ts \in Nat /\ gBus[n].ts <= t
    PROVE  WindowIsOf(Append(gBus, x), DropOld(Append(gBuf.events, t), t), t)
<1> DEFINE l == Len(gBus)
           m == Len(gBuf.events)
           bus == Append(gBus, x)
           s == Append(gBuf.events, t)
           places == {i \in 1..Len(s) : t - s[i] <= Window}
           kept == KeptFrom(s, places)
<1>1. /\ gBus \in Seq([ts : Nat, interval : Nat]) /\ gBuf.events \in Seq(Nat) /\ l \in Nat /\ m \in Nat /\ m <= l
      /\ Window \in Nat
  <2>1. gBuf.events \in Seq(Nat) /\ gBus \in Seq([ts : Nat, interval : Nat]) BY DEF GpioIInv, GpioTypeOK, Buffers
  <2>2. l \in Nat /\ Window \in Nat BY GpioLengths
  <2>3. m \in Nat BY <2>1
  <2>4. m <= l BY DEF GpioIInv, BufferIsOfBus
  <2> QED BY <2>1, <2>2, <2>3, <2>4
<1>2. s \in Seq(Nat) /\ Len(s) = m + 1 /\ s[m + 1] = t /\ \A i \in 1..m : s[i] = gBuf.events[i] BY <1>1
<1>3. bus[l + 1] = x /\ Len(bus) = l + 1 /\ \A i \in 1..l : bus[i] = gBus[i] BY <1>1
<1>4. kept = DropOld(s, t) BY DEF DropOld
<1>5. places \in SUBSET (1..Len(s)) /\ m + 1 \in places BY <1>1, <1>2
<1> HIDE DEF places, kept, s, bus
<1>6. PICK p \in places :
         /\ \A j \in places : p <= j
         /\ kept \in Seq(Nat) /\ Len(kept) = Len(s) - p + 1
         /\ \A i \in 1..(Len(s) - p + 1) : kept[i] = s[p + i - 1]
  <2>1. places # {} BY <1>5
  <2>2. IsRestOf(Nat, s, places, KeptFrom(s, places))
    <3>1. s \in Seq(Nat) BY <1>2
    <3>2. places \in SUBSET (1..Len(s)) BY <1>5
    <3> QED BY <3>1, <3>2, <2>1, FrontIsDropped
  <2> QED BY <2>2 DEF kept, IsRestOf
<1>7. p \in 1..(m + 1) BY <1>2, <1>5
<1>12. \A i \in 1..(l - m) : gBuf.last - gBus[i].ts > Window /\ gBuf.last = gBus[l].ts
  <2> SUFFICES ASSUME NEW i \in 1..(l - m) PROVE gBuf.last - gBus[i].ts > Window /\ gBuf.last = gBus[l].ts
    OBVIOUS
  <2>1. l # 0 BY <1>1
  <2> QED BY <2>1 DEF GpioIInv, BufferIsOfBus
<1> HIDE DEF l, m
<1> DEFINE d == l + 1 - Len(kept)
<1>8. Len(kept) = m + 2 - p /\ d = l - m + p - 1 /\ d \in Nat BY <1>1, <1>2, <1>6, <1>7
<1>9. \A j \in 1..(m + 1) : s[j] = bus[l - m + j].ts
  <2> SUFFICES ASSUME NEW j \in 1..(m + 1) PROVE s[j] = bus[l - m + j].ts OBVIOUS
  <2>1. CASE j = m + 1 BY <1>1, <1>2, <1>3, <2>1
  <2>2. CASE j # m + 1
    <3>1. j \in 1..m /\ l - m + j \in 1..l BY <1>1, <2>2
    <3>2. gBuf.events[j] = gBus[l - m + j].ts BY <3>1 DEF GpioIInv, BufferIsOfBus, l, m
    <3> QED BY <1>2, <1>3, <3>1, <3>2
  <2> QED BY <2>1, <2>2
<1>10. ASSUME NEW i \in 1..Len(kept) PROVE kept[i] = bus[d + i].ts
  <2>1. p + i - 1 \in 1..(m + 1) /\ i \in 1..(Len(s) - p + 1) /\ l - m + (p + i - 1) = d + i
    BY <1>1, <1>2, <1>7, <1>8
  <2>2. kept[i] = s[p + i - 1] BY <1>6, <2>1
  <2>3. s[p + i - 1] = bus[l - m + (p + i - 1)].ts BY <1>9, <2>1
  <2> QED BY <2>1, <2>2, <2>3
<1>11. ASSUME NEW i \in 1..d PROVE t - bus[i].ts > Window
  <2>1. CASE i <= l - m
    <3>1. i \in 1..(l - m) /\ i \in 1..l /\ l # 0 BY <1>1, <2>1
    <3>2. gBuf.last - gBus[i].ts > Window /\ gBuf.last = gBus[l].ts /\ l \in 1..l
      BY <1>1, <1>12, <3>1
    <3>3. gBus[l].ts <= t /\ gBus[l].ts \in Nat /\ gBus[i].ts \in Nat BY <3>1, <3>2 DEF l
    <3>4. bus[i] = gBus[i] BY <1>3, <3>1
    <3>5. gBus[l].ts - gBus[i].ts > Window BY <3>2
    <3>6. \A a, c, w \in Nat : a - c > w /\ a <= t => t - c > w OBVIOUS
    <3>7. t - gBus[i].ts > Window BY <1>1, <3>3, <3>5, <3>6
    <3> QED BY <3>4, <3>7
  <2>2. CASE ~(i <= l - m)
    <3> DEFINE j == i - (l - m)
    <3>1. j \in 1..(m + 1) /\ j < p /\ l - m + j = i BY <1>1, <1>7, <1>8, <2>2
    <3>2. j \notin places BY <1>6, <3>1, <1>7, <1>5, <1>2
    <3>3. ~(t - s[j] <= Window) BY <1>2, <3>1, <3>2 DEF places
    <3>4. s[j] = bus[i].ts /\ s[j] \in Nat
      <4>1. s[j] = bus[l - m + j].ts BY <1>9, <3>1
      <4>2. s[j] \in Nat BY <1>2, <3>1, ElementOfSeq
      <4> QED BY <3>1, <4>1, <4>2
    <3> QED BY <1>1, <3>3, <3>4
  <2> QED BY <2>1, <2>2
<1>13. WindowIsOf(bus, kept, t)
  <2>1. Len(bus) - Len(kept) = d BY <1>1, <1>3, <1>6
  <2>2. kept \in Seq(Nat) /\ d \in Nat BY <1>6, <1>8
  <2> HIDE DEF d
  <2> QED BY <1>10, <1>11, <2>1, <2>2 DEF WindowIsOf
<1> QED BY <1>4, <1>13 DEF s, bus

LEMMA AcceptKeeps == GpioIInv /\ LoopProcess /\ Accepts(gBuf, Head(gBatch)) => GpioIInv'
<1> SUFFICES ASSUME GpioIInv, LoopProcess, Accepts(gBuf, Head(gBatch)) PROVE GpioIInv' OBVIOUS
<1> DEFINE e == Head(gBatch)
           l == Len(gBus)
           b == BufferHandled(gBuf, e)
           x == [ts |-> e.ts, interval |-> b.interval]
<1>1. /\ gBuf' = b /\ gBus' = Append(gBus, x) /\ b.interval \in Nat
      /\ e.ts \in Nat /\ e.ts <= gNow
      /\ \A n \in 1..l : gBus[n].ts \in Nat /\ gBus[n].ts <= e.ts
      /\ EdgesArePublished'
  BY AcceptPublishes
<1>2. /\ NothingIsLost' /\ gBatch' \in Seq(Edges) /\ UNCHANGED <<gEdges, gQueue, gNow, gSample>>
      /\ gRaced' = (gSample # NoTime)
  BY ProcessTakesNext DEF LoopProcess
<1>3. /\ b.last = e.ts /\ b.events = DropOld(Append(gBuf.events, e.ts), e.ts)
      /\ b.samples = gBuf.samples /\ b.latest = gBuf.latest
      /\ b.interval \in Nat /\ b.events \in Seq(Nat) => b \in Buffers
  <2>1. gBuf \in Buffers BY DEF GpioIInv, GpioTypeOK
  <2>2. /\ b.last = e.ts /\ b.events = DropOld(Append(gBuf.events, e.ts), e.ts)
        /\ b.samples = gBuf.samples /\ b.latest = gBuf.latest
    BY <2>1 DEF BufferHandled, Buffers
  <2>3. b.interval \in Nat /\ b.events \in Seq(Nat) => b \in Buffers BY <1>1, <2>1 DEF BufferHandled, Buffers
  <2> QED BY <2>2, <2>3
<1> HIDE DEF e, b
<1>4. WindowIsOf(gBus', b.events, e.ts)
  <2> DEFINE t == e.ts
  <2>1. t \in Nat /\ \A n \in 1..Len(gBus) : gBus[n].ts \in Nat /\ gBus[n].ts <= t BY <1>1
  <2>2. x.ts = t OBVIOUS
  <2> HIDE DEF t, x
  <2>3. WindowIsOf(Append(gBus, x), DropOld(Append(gBuf.events, t), t), t) BY <2>1, <2>2, WindowSlides
  <2> QED BY <1>1, <1>3, <2>3 DEF t
<1>5. /\ l \in Nat /\ gBus' \in Seq([ts : Nat, interval : Nat]) /\ Len(gBus') = l + 1 /\ gBus'[l + 1] = x
      /\ \A n \in 1..l : gBus'[n] = gBus[n]
  <2>1. gBus \in Seq([ts : Nat, interval : Nat]) /\ x \in [ts : Nat, interval : Nat]
    BY <1>1 DEF GpioIInv, GpioTypeOK
  <2> HIDE DEF x
  <2> QED BY <1>1, <2>1
<1>6. GpioTypeOK'
  <2>2. gBuf' \in Buffers BY <1>1, <1>3, <1>4 DEF WindowIsOf
  <2> QED BY <1>2, <1>5, <2>2 DEF GpioIInv, GpioTypeOK
<1>7. EdgesInOrder'
  <2>1. ASSUME NEW m \in 1..(l + 1), NEW n \in 1..(l + 1), m <= n PROVE gBus'[m].ts <= gBus'[n].ts
    <3>1. CASE n = l + 1
      <4>1. gBus'[n].ts = e.ts BY <1>5, <3>1
      <4>2. CASE m = l + 1 BY <1>1, <1>5, <4>1, <4>2
      <4>3. CASE m # l + 1
        <5>1. m \in 1..l BY <1>5, <4>3
        <5> QED BY <1>1, <1>5, <4>1, <5>1
      <4> QED BY <4>2, <4>3
    <3>2. CASE n # l + 1
      <4>1. m \in 1..l /\ n \in 1..l BY <1>5, <2>1, <3>2
      <4> QED BY <1>5, <2>1, <4>1 DEF GpioIInv, EdgesInOrder
    <3> QED BY <3>1, <3>2
  <2> QED BY <1>2, <1>5, <2>1 DEF GpioIInv, EdgesInOrder
<1>8. BufferIsOfBus'
  <2>1. gBuf'.last = e.ts /\ gBuf'.events = b.events /\ gNow' = gNow BY <1>1, <1>2, <1>3
  <2>2. gBus'[l + 1].ts = e.ts BY <1>5
  <2> DEFINE n == Len(gBus')
             m == Len(gBuf'.events)
  <2>3. n = l + 1 /\ n \in Nat \ {0} BY <1>5
  <2>4. /\ m \in Nat /\ m <= n
        /\ \A i \in 1..m : gBuf'.events[i] = gBus'[n - m + i].ts
        /\ \A i \in 1..(n - m) : gBuf'.last - gBus'[i].ts > Window
    <3>1. /\ b.events \in Seq(Nat) /\ Len(gBus') - Len(b.events) \in Nat
          /\ \A i \in 1..Len(b.events) : b.events[i] = gBus'[Len(gBus') - Len(b.events) + i].ts
          /\ \A i \in 1..(Len(gBus') - Len(b.events)) : e.ts - gBus'[i].ts > Window
      BY <1>4 DEF WindowIsOf
    <3>2. m = Len(b.events) BY <2>1
    <3>3. m \in Nat BY <3>1, <3>2
    <3>4. n - m \in Nat BY <3>1, <3>2
    <3>5. m <= n BY <2>3, <3>3, <3>4
    <3> HIDE DEF n
    <3> QED BY <2>1, <3>1, <3>2, <3>3, <3>5 DEF n
  <2>5. gBuf'.last = gBus'[n].ts /\ gBuf'.last <= gNow' BY <1>1, <2>1, <2>2, <2>3
  <2> HIDE DEF l, x
  <2> QED BY <2>3, <2>4, <2>5 DEF BufferIsOfBus
<1>9. SampleIsLate' BY <1>1, <1>2, <1>3 DEF GpioIInv, SampleIsLate
<1> QED BY <1>1, <1>2, <1>6, <1>7, <1>8, <1>9 DEF GpioIInv

LEMMA KeptIsSeq ==
    ASSUME NEW S, NEW s \in Seq(S), NEW places \in SUBSET (1..Len(s))
    PROVE  KeptFrom(s, places) \in Seq(S)
<1>1. CASE places = {} BY <1>1 DEF KeptFrom
<1>2. CASE places # {} BY <1>2, FrontIsDropped DEF IsRestOf
<1> QED BY <1>1, <1>2

LEMMA LastIsKept ==
    ASSUME NEW S, NEW s \in Seq(S), NEW places \in SUBSET (1..Len(s)), Len(s) \in places
    PROVE  LET r == KeptFrom(s, places) IN r \in Seq(S) /\ Len(r) \in Nat \ {0} /\ r[Len(r)] = s[Len(s)]
<1> DEFINE r == KeptFrom(s, places)
<1>1. IsRestOf(S, s, places, r) BY FrontIsDropped
<1> HIDE DEF r
<1>2. PICK p \in places : /\ r \in Seq(S) /\ Len(r) = Len(s) - p + 1
                          /\ \A i \in 1..(Len(s) - p + 1) : r[i] = s[p + i - 1]
  BY <1>1 DEF IsRestOf
<1>3. p \in 1..Len(s) /\ Len(s) \in Nat OBVIOUS
<1>4. Len(r) \in 1..(Len(s) - p + 1) /\ p + Len(r) - 1 = Len(s) BY <1>2, <1>3
<1>5. r[Len(r)] = s[Len(s)] BY <1>2, <1>4
<1>6. Len(r) \in Nat \ {0} BY <1>3, <1>4
<1> QED BY <1>2, <1>5, <1>6 DEF r

LEMMA RateIsTyped == ASSUME NEW b \in Buffers, NEW t \in Nat PROVE CurrentRate(b, t) \in Nat \X Nat
<1> DEFINE v == DropOld(b.events, t)
<1>1. v \in Seq(Nat)
  <2> DEFINE places == {i \in 1..Len(b.events) : t - b.events[i] <= Window}
  <2>1. b.events \in Seq(Nat) BY DEF Buffers
  <2>2. v = KeptFrom(b.events, places) BY DEF DropOld
  <2>3. places \in SUBSET (1..Len(b.events)) OBVIOUS
  <2> HIDE DEF places, v
  <2> QED BY <2>1, <2>2, <2>3, KeptIsSeq
<1>2. CurrentRate(b, t) = IF Len(b.events) < 2 \/ Len(v) < 2 \/ v[Len(v)] <= v[1] THEN NoRate
                          ELSE <<Len(v), v[Len(v)] - v[1]>>
  BY DEF CurrentRate
<1> HIDE DEF v
<1>3. Len(v) \in Nat BY <1>1
<1>4. ASSUME ~(Len(v) < 2), ~(v[Len(v)] <= v[1]) PROVE v[Len(v)] - v[1] \in Nat
  <2>1. v[Len(v)] \in Nat /\ v[1] \in Nat BY <1>1, <1>3, <1>4, ElementOfSeq
  <2> QED BY <1>4, <2>1
<1> QED BY <1>2, <1>3, <1>4 DEF NoRate

\* A sample is added to the history only, and is the last one sent.
LEMMA SampleIsAdded ==
    ASSUME GpioIInv, gSample # NoTime, NEW rate \in {"any"} \cup (Nat \X Nat)
    PROVE  LET b == Sampled(gBuf, gSample, rate)
               sent == Retrieved(gBuf, b.samples)
           IN /\ b \in Buffers /\ b.latest = gSample
              /\ b.last = gBuf.last /\ b.interval = gBuf.interval /\ b.events = gBuf.events
              /\ sent[Len(sent)] = [ts |-> gSample, rate |-> rate]
<1> DEFINE x == [ts |-> gSample, rate |-> rate]
           s == Append(gBuf.samples, x)
           places == {i \in 1..Len(s) : gSample - s[i].ts <= HistoryLength}
           kept == KeptFrom(s, places)
           b == Sampled(gBuf, gSample, rate)
           late == {i \in 1..Len(kept) : \A j \in i..Len(kept) : kept[j].ts >= gBuf.latest}
<1>1. gBuf \in Buffers /\ gSample \in Nat /\ gBuf.latest \in Nat /\ gBuf.latest <= gSample
  BY DEF GpioIInv, GpioTypeOK, SampleIsLate, Buffers
<1>2. x \in GpioSamples /\ x.ts = gSample BY <1>1 DEF GpioSamples
<1>3. b = [gBuf EXCEPT !.samples = kept, !.latest = gSample] BY DEF Sampled
<1>4. Retrieved(gBuf, kept) = KeptFrom(kept, late) BY DEF Retrieved
<1> HIDE DEF x
<1>5. s \in Seq(GpioSamples) /\ Len(s) \in Nat \ {0} /\ s[Len(s)] = x
  <2>1. gBuf.samples \in Seq(GpioSamples) BY <1>1 DEF Buffers
  <2> QED BY <1>2, <2>1
<1> HIDE DEF s
<1>6. Len(s) \in places
  <2>1. HistoryLength \in Nat BY GpioDriverAssumption
  <2> QED BY <1>1, <1>2, <1>5, <2>1
<1>7. places \in SUBSET (1..Len(s)) OBVIOUS
<1> HIDE DEF places
<1>8. kept \in Seq(GpioSamples) /\ Len(kept) \in Nat \ {0} /\ kept[Len(kept)] = x
  BY <1>5, <1>6, <1>7, LastIsKept
<1> HIDE DEF kept, b
<1>9. Len(kept) \in late BY <1>1, <1>2, <1>8
<1>10. late \in SUBSET (1..Len(kept)) OBVIOUS
<1> HIDE DEF late
<1>11. LET sent == KeptFrom(kept, late) IN sent[Len(sent)] = x BY <1>8, <1>9, <1>10, LastIsKept
<1>12. /\ b \in Buffers /\ b.latest = gSample /\ b.samples = kept
       /\ b.last = gBuf.last /\ b.interval = gBuf.interval /\ b.events = gBuf.events
  BY <1>1, <1>3, <1>8 DEF Buffers
<1> QED BY <1>4, <1>11, <1>12 DEF b, x

LEMMA SampleKeeps == GpioIInv /\ SampleEnd => GpioIInv'
<1> SUFFICES ASSUME GpioIInv, SampleEnd PROVE GpioIInv' OBVIOUS
<1> DEFINE rate == IF gRaced THEN "any" ELSE CurrentRate(gBuf, gSample)
<1>1. /\ gSample # NoTime /\ gBuf' = Sampled(gBuf, gSample, rate) /\ gSample' = NoTime
      /\ UNCHANGED <<gQueue, gBatch, gBus, gEdges, gNow, gRaced>>
  BY DEF SampleEnd
<1>2. rate \in {"any"} \cup (Nat \X Nat)
  <2>1. gBuf \in Buffers /\ gSample \in Nat BY <1>1 DEF GpioIInv, GpioTypeOK
  <2> QED BY <2>1, RateIsTyped
<1> HIDE DEF rate
<1>3. /\ gBuf' \in Buffers /\ gBuf'.last = gBuf.last /\ gBuf'.interval = gBuf.interval
      /\ gBuf'.events = gBuf.events
  BY <1>1, <1>2, SampleIsAdded
<1>4. Seen' = Seen BY <1>1 DEF Seen
<1>5. GpioTypeOK' BY <1>1, <1>3 DEF GpioIInv, GpioTypeOK
<1>6. EdgesInOrder' /\ NothingIsLost' /\ BufferIsOfBus'
  BY <1>1, <1>3, <1>4 DEF GpioIInv, EdgesInOrder, NothingIsLost, BufferIsOfBus
<1>7. EdgesArePublished' BY <1>1, <1>4, PublishedAreChosen, ChosenNext DEF GpioIInv
<1>8. SampleIsLate' BY <1>1 DEF SampleIsLate
<1> QED BY <1>5, <1>6, <1>7, <1>8 DEF GpioIInv

\* The edges of the window are those whose times the buffer keeps, and the others it keeps are dropped.
LEMMA RateMatches ==
    ASSUME GpioIInv, gSample # NoTime, ~gRaced
    PROVE  CurrentRate(gBuf, gSample) = RateOf(gSample)
<1> DEFINE t == gSample
           n == Len(gBus)
           ev == gBuf.events
           m == Len(ev)
           places == {i \in 1..m : t - ev[i] <= Window}
           v == KeptFrom(ev, places)
           edges == {k \in 1..n : t - gBus[k].ts <= Window}
           times == {gBus[k].ts : k \in edges}
<1>1. /\ t \in Nat /\ n \in Nat /\ ev \in Seq(Nat) /\ m \in Nat /\ m <= n /\ Window \in Nat
      /\ \A k \in 1..n : gBus[k].ts \in Nat
  <2>1. gBuf \in Buffers /\ t \in Nat BY DEF GpioIInv, GpioTypeOK
  <2>2. ev \in Seq(Nat) BY <2>1 DEF Buffers
  <2>3. m \in Nat BY <2>2
  <2>4. n \in Nat /\ Window \in Nat BY GpioLengths
  <2>5. m <= n BY DEF GpioIInv, BufferIsOfBus
  <2>6. \A k \in 1..n : gBus[k] \in [ts : Nat, interval : Nat] BY ElementOfSeq DEF GpioIInv, GpioTypeOK
  <2>7. \A k \in 1..n : gBus[k].ts \in Nat BY <2>6
  <2> QED BY <2>1, <2>2, <2>3, <2>4, <2>5, <2>7
<1>2. \A j, k \in 1..n : j <= k => gBus[j].ts <= gBus[k].ts BY DEF GpioIInv, EdgesInOrder
<1>3. \A i \in 1..m : ev[i] = gBus[n - m + i].ts BY DEF GpioIInv, BufferIsOfBus
<1>4. \A k \in 1..(n - m) : k \notin edges
  <2> SUFFICES ASSUME NEW k \in 1..(n - m) PROVE t - gBus[k].ts > Window BY <1>1
  <2>1. n # 0 /\ k \in 1..n /\ n \in 1..n BY <1>1
  <2>2. gBuf.last = gBus[n].ts /\ gBuf.last - gBus[k].ts > Window BY <2>1 DEF GpioIInv, BufferIsOfBus
  <2>3. gBuf.last <= t BY DEF GpioIInv, SampleIsLate
  <2>4. gBus[n].ts - gBus[k].ts > Window /\ gBus[n].ts <= t BY <2>2, <2>3
  <2>5. gBus[n].ts \in Nat /\ gBus[k].ts \in Nat BY <1>1, <2>1
  <2>6. \A a, c, w \in Nat : a - c > w /\ a <= t => t - c > w BY <1>1
  <2> QED BY <1>1, <2>4, <2>5, <2>6
<1>5. CurrentRate(gBuf, t) = IF m < 2 \/ Len(v) < 2 \/ v[Len(v)] <= v[1] THEN NoRate
                             ELSE <<Len(v), v[Len(v)] - v[1]>>
  BY DEF CurrentRate, DropOld
<1>6. RateOf(t) = IF \A a, u \in times : a = u THEN NoRate
                  ELSE <<Cardinality(edges), (CHOOSE a \in times : \A u \in times : u <= a)
                                               - (CHOOSE a \in times : \A u \in times : a <= u)>>
  BY DEF RateOf
<1>7. \A k \in edges : k \in 1..n /\ t - gBus[k].ts <= Window OBVIOUS
<1>8. \A i \in places : i \in 1..m /\ t - ev[i] <= Window OBVIOUS
<1>9. \A k \in 1..n : t - gBus[k].ts <= Window => k \in edges OBVIOUS
<1>10. \A i \in 1..m : t - ev[i] <= Window => i \in places OBVIOUS
<1>11. times = {gBus[k].ts : k \in edges} OBVIOUS
<1>12. places \in SUBSET (1..m) /\ edges \in SUBSET (1..n) OBVIOUS
<1>13. places = {} => v = <<>> BY DEF KeptFrom
<1>14. places # {} => IsRestOf(Nat, ev, places, v)
  <2> HIDE DEF places, ev
  <2> QED BY <1>1, <1>12, FrontIsDropped DEF m
<1> HIDE DEF t, n, ev, m, places, v, edges, times
\* The places of the buffer and those of the line.
<1>15. \A k \in edges : k - (n - m) \in places
  <2> SUFFICES ASSUME NEW k \in edges PROVE k - (n - m) \in places OBVIOUS
  <2> DEFINE i == k - (n - m)
  <2>1. k \in 1..n /\ ~(k \in 1..(n - m)) BY <1>4, <1>7
  <2>2. i \in 1..m /\ n - m + i = k BY <1>1, <2>1
  <2> HIDE DEF i
  <2>3. ev[i] = gBus[k].ts BY <1>3, <2>2
  <2>4. t - ev[i] <= Window BY <1>7, <2>3
  <2>5. i \in places BY <1>10, <2>2, <2>4
  <2> QED BY <2>5 DEF i
<1>16. CASE places = {}
  <2>1. edges = {} BY <1>15, <1>16
  <2>2. times = {} BY <1>11, <2>1
  <2>3. Len(v) = 0 BY <1>13, <1>16
  <2>4. CurrentRate(gBuf, t) = NoRate BY <1>5, <2>3
  <2>5. RateOf(t) = NoRate BY <1>6, <2>2
  <2> QED BY <2>4, <2>5 DEF t
<1>17. CASE places # {}
  <2>1. PICK p \in places :
           /\ \A j \in places : p <= j
           /\ v \in Seq(Nat) /\ Len(v) = Len(ev) - p + 1
           /\ \A i \in 1..(Len(ev) - p + 1) : v[i] = ev[p + i - 1]
    BY <1>14, <1>17 DEF IsRestOf
  <2> DEFINE q == n - m + p
             c == m - p + 1
  <2>2. p \in 1..m /\ q \in 1..n /\ c \in Nat \ {0} /\ n - q + 1 = c /\ n \in 1..n BY <1>1, <1>8, <2>1
  <2>3. Len(v) = c BY <2>1 DEF m
  <2>4. v[1] = gBus[q].ts /\ v[c] = gBus[n].ts
    <3>1. \A i \in 1..c : v[i] = ev[p + i - 1] BY <2>1 DEF m
    <3>2. 1 \in 1..c /\ c \in 1..c /\ p + 1 - 1 = p /\ p + c - 1 = m BY <1>1, <2>2
    <3>3. v[1] = ev[p] /\ v[c] = ev[m]
      <4> HIDE DEF c
      <4> QED BY <3>1, <3>2
    <3>4. m \in 1..m /\ n - m + m = n BY <1>1, <2>2
    <3> QED BY <1>3, <2>2, <3>3, <3>4
  <2>5. \A k \in q..n : k \in edges
    <3> SUFFICES ASSUME NEW k \in q..n PROVE k \in edges OBVIOUS
    <3>1. k \in 1..n /\ q <= k BY <1>1, <2>2
    <3>2. gBus[q].ts <= gBus[k].ts BY <1>2, <2>2, <3>1
    <3>3. t - gBus[q].ts <= Window BY <1>3, <1>8, <2>1, <2>2
    <3>4. gBus[q].ts \in Nat /\ gBus[k].ts \in Nat BY <1>1, <2>2, <3>1
    <3>5. \A a, d, w \in Nat : a <= d /\ t - a <= w => t - d <= w BY <1>1
    <3>6. t - gBus[k].ts <= Window BY <1>1, <3>2, <3>3, <3>4, <3>5
    <3> QED BY <1>9, <3>1, <3>6
  <2>6. \A k \in edges : k \in q..n
    <3> SUFFICES ASSUME NEW k \in edges PROVE k \in q..n OBVIOUS
    <3>1. p <= k - (n - m) /\ k \in 1..n BY <1>7, <1>15, <2>1
    <3> QED BY <1>1, <2>2, <3>1
  <2>7. edges = q..n BY <2>5, <2>6
  <2>8. Cardinality(edges) = c
    <3> HIDE DEF q, c
    <3>1. q \in Int /\ n \in Int /\ ~(q > n) BY <2>2
    <3>2. Cardinality(q..n) = n - q + 1 BY <3>1, FS_Interval
    <3> QED BY <2>2, <2>7, <3>2
  <2> HIDE DEF q, c
  <2> DEFINE first == gBus[q].ts
             last == gBus[n].ts
  <2>9. /\ first \in times /\ last \in times /\ first \in Nat /\ last \in Nat
        /\ \A a \in times : a \in Nat /\ first <= a /\ a <= last
    <3>1. q \in edges /\ n \in edges BY <1>1, <2>2, <2>7
    <3>2. first \in times /\ last \in times BY <1>11, <3>1
    <3>3. ASSUME NEW k \in edges PROVE gBus[k].ts \in Nat /\ first <= gBus[k].ts /\ gBus[k].ts <= last
      <4>1. k \in 1..n /\ q <= k /\ k <= n BY <1>7, <2>2, <2>6
      <4> QED BY <1>1, <1>2, <2>2, <4>1
    <3>4. first \in Nat /\ last \in Nat BY <1>1, <2>2
    <3> QED BY <1>11, <3>2, <3>3, <3>4
  <2>10. v[1] = first /\ v[Len(v)] = last BY <2>3, <2>4
  <2>11. m < 2 => Len(v) < 2
    <3>1. c <= m BY <1>1, <2>2 DEF c
    <3> QED BY <1>1, <2>2, <2>3, <3>1
  <2>12. Len(v) < 2 => first = last
    <3>1. c < 2 => q = n BY <1>1, <2>2
    <3> QED BY <2>3, <3>1
  <2> HIDE DEF first, last
  <2>13. CASE first = last
    <3>1. \A a, u \in times : a = u BY <2>9, <2>13
    <3>2. CurrentRate(gBuf, t) = NoRate BY <1>5, <2>9, <2>10, <2>13
    <3> QED BY <1>6, <3>1, <3>2 DEF t
  <2>14. CASE first # last
    <3>1. ~(\A a, u \in times : a = u) BY <2>9, <2>14
    <3>2. (CHOOSE a \in times : \A u \in times : u <= a) = last
      <4>1. \A a \in times : (\A u \in times : u <= a) => a = last BY <2>9
      <4> QED BY <2>9, <4>1
    <3>3. (CHOOSE a \in times : \A u \in times : a <= u) = first
      <4>1. \A a \in times : (\A u \in times : a <= u) => a = first BY <2>9
      <4> QED BY <2>9, <4>1
    <3>4. RateOf(t) = <<c, last - first>> BY <1>6, <2>8, <3>1, <3>2, <3>3
    <3>5. ~(m < 2) /\ ~(Len(v) < 2) /\ ~(v[Len(v)] <= v[1]) BY <2>9, <2>10, <2>11, <2>12, <2>14
    <3>6. CurrentRate(gBuf, t) = <<c, last - first>> BY <1>5, <2>3, <2>10, <3>5
    <3> QED BY <3>4, <3>6 DEF t
  <2> QED BY <2>13, <2>14
<1> QED BY <1>16, <1>17

LEMMA EdgeKeeps == ASSUME GpioIInv, NEW edge \in LineEdges, GpioEdge(edge) PROVE GpioIInv'
<1> DEFINE r == [ts |-> gNow, edge |-> edge]
<1>1. /\ gEdges' = Append(gEdges, r) /\ gQueue' = Append(gQueue, r)
      /\ UNCHANGED <<gBatch, gBus, gNow, gBuf, gSample, gRaced>>
  BY DEF GpioEdge
<1>2. gNow \in Nat /\ r \in Edges /\ r.ts = gNow BY DEF GpioIInv, GpioTypeOK, Edges
<1> HIDE DEF r
<1>3. gEdges \in Seq(Edges) /\ gQueue \in Seq(Edges) BY DEF GpioIInv, GpioTypeOK
<1>4. /\ gEdges' \in Seq(Edges) /\ Len(gEdges') = Len(gEdges) + 1 /\ gEdges'[Len(gEdges) + 1] = r
      /\ \A i \in 1..Len(gEdges) : gEdges'[i] = gEdges[i]
  BY <1>1, <1>2, <1>3
<1>5. /\ gQueue' \in Seq(Edges) /\ Len(gQueue') = Len(gQueue) + 1 /\ gQueue'[Len(gQueue) + 1] = r
      /\ \A i \in 1..Len(gQueue) : gQueue'[i] = gQueue[i]
  BY <1>1, <1>2, <1>3
<1>6. Seen' = Seen
  <2>1. Seen' = Len(gEdges') - Len(gQueue') - Len(gBatch') BY DEF Seen
  <2> QED BY <1>1, <1>4, <1>5, <2>1, GpioLengths DEF Seen
<1>7. GpioTypeOK' BY <1>1, <1>4, <1>5 DEF GpioIInv, GpioTypeOK
<1>8. EdgesInOrder'
  <2>1. \A i \in 1..Len(gEdges) : gEdges[i].ts \in Nat /\ gEdges[i].ts <= gNow
    BY GpioLengths DEF GpioIInv, EdgesInOrder, Edges
  <2>2. \A i \in 1..Len(gEdges') : i \in 1..Len(gEdges) \/ i = Len(gEdges) + 1 BY <1>4, GpioLengths
  <2>3. \A i \in 1..Len(gEdges') : gEdges'[i].ts <= gNow' BY <1>1, <1>2, <1>4, <2>1, <2>2
  <2>4. ASSUME NEW i \in 1..Len(gEdges'), NEW j \in 1..Len(gEdges'), i <= j
        PROVE  gEdges'[i].ts <= gEdges'[j].ts
    <3>1. CASE j = Len(gEdges) + 1 BY <1>1, <1>2, <1>4, <2>3, <3>1
    <3>2. CASE j # Len(gEdges) + 1
      <4>1. j \in 1..Len(gEdges) BY <2>2, <3>2
      <4>2. i \in 1..Len(gEdges) BY <2>4, <4>1, GpioLengths
      <4> QED BY <1>4, <2>4, <4>1, <4>2 DEF GpioIInv, EdgesInOrder
    <3> QED BY <3>1, <3>2
  <2> QED BY <1>1, <2>3, <2>4 DEF GpioIInv, EdgesInOrder
<1>9. NothingIsLost'
  <2>1. /\ Seen \in Nat /\ Len(gBatch) \in Nat /\ Len(gQueue) \in Nat
        /\ Len(gEdges) = Seen + Len(gBatch) + Len(gQueue)
    BY GpioLengths
  <2>2. /\ \A i \in 1..Len(gBatch) : gEdges[Seen + i] = gBatch[i]
        /\ \A i \in 1..Len(gQueue) : gEdges[Seen + Len(gBatch) + i] = gQueue[i]
    BY DEF GpioIInv, NothingIsLost
  <2>3. ASSUME NEW i \in 1..Len(gBatch') PROVE gEdges'[Seen' + i] = gBatch'[i]
    <3>1. i \in 1..Len(gBatch) BY <1>1
    <3>2. Seen + i \in 1..Len(gEdges) BY <2>1, <3>1
    <3>3. gEdges'[Seen + i] = gBatch[i] BY <1>4, <2>2, <3>1, <3>2
    <3> QED BY <1>1, <1>6, <3>3
  <2>4. ASSUME NEW i \in 1..Len(gQueue') PROVE gEdges'[Seen' + Len(gBatch') + i] = gQueue'[i]
    <3>1. CASE i = Len(gQueue) + 1
      <4>1. Seen + Len(gBatch) + i = Len(gEdges) + 1 BY <2>1, <3>1
      <4>2. gQueue'[i] = r /\ gEdges'[Seen + Len(gBatch) + i] = r BY <1>4, <1>5, <3>1, <4>1
      <4> QED BY <1>1, <1>6, <4>2
    <3>2. CASE i # Len(gQueue) + 1
      <4>1. i \in 1..Len(gQueue) BY <1>5, <2>1, <3>2
      <4>2. Seen + Len(gBatch) + i \in 1..Len(gEdges) BY <2>1, <4>1
      <4>3. gEdges'[Seen + Len(gBatch) + i] = gQueue'[i] BY <1>4, <1>5, <2>2, <4>1, <4>2
      <4> QED BY <1>1, <1>6, <4>3
    <3> QED BY <3>1, <3>2
  <2> QED BY <1>6, <2>3, <2>4, <2>1 DEF NothingIsLost
<1>10. EdgesArePublished'
  <2>1. PICK at : Chosen(at, gEdges, gBus, Seen) BY PublishedAreChosen DEF GpioIInv
  <2>2. \A i \in 1..Seen : gEdges'[i] = gEdges[i] BY <1>4, GpioLengths
  <2>3. Chosen(at, gEdges', gBus, Seen) BY <2>1, <2>2, GpioLengths, ChoiceStays
  <2> QED BY <1>1, <1>6, <2>3, ChosenNext
<1>11. BufferIsOfBus' /\ SampleIsLate' BY <1>1 DEF GpioIInv, BufferIsOfBus, SampleIsLate
<1> QED BY <1>7, <1>8, <1>9, <1>10, <1>11 DEF GpioIInv

LEMMA ClockKeeps == GpioIInv /\ GpioTick => GpioIInv'
<1> SUFFICES ASSUME GpioIInv, GpioTick PROVE GpioIInv' OBVIOUS
<1>1. gNow' = gNow + 1 /\ UNCHANGED <<gQueue, gBatch, gBus, gEdges, gBuf, gSample, gRaced>> BY DEF GpioTick
<1>2. gNow \in Nat /\ gBuf.last \in Nat \cup {NoTime} /\ gSample \in Nat \cup {NoTime} /\ NoTime \in Int
  BY DEF GpioIInv, GpioTypeOK, Buffers, NoTime
<1>3. Seen' = Seen BY <1>1 DEF Seen
<1>4. GpioTypeOK' /\ NothingIsLost' BY <1>1, <1>2, <1>3 DEF GpioIInv, GpioTypeOK, NothingIsLost
<1>5. EdgesInOrder'
  <2>1. \A i \in 1..Len(gEdges) : gEdges[i].ts \in Nat /\ gEdges[i].ts <= gNow
    BY GpioLengths DEF GpioIInv, EdgesInOrder, Edges
  <2>2. \A i \in 1..Len(gEdges) : gEdges[i].ts <= gNow + 1 BY <1>2, <2>1
  <2> QED BY <1>1, <2>2 DEF GpioIInv, EdgesInOrder
<1>6. EdgesArePublished' BY <1>1, <1>3, PublishedAreChosen, ChosenNext DEF GpioIInv
<1>7. BufferIsOfBus'
  <2>1. gBuf.last <= gNow => gBuf.last <= gNow + 1 BY <1>2
  <2> QED BY <1>1, <2>1 DEF GpioIInv, BufferIsOfBus
<1>8. SampleIsLate'
  <2>1. gSample <= gNow => gSample <= gNow + 1 BY <1>2
  <2> QED BY <1>1, <2>1 DEF GpioIInv, SampleIsLate
<1> QED BY <1>4, <1>5, <1>6, <1>7, <1>8 DEF GpioIInv

LEMMA BeginKeeps == GpioIInv /\ SampleBegin => GpioIInv'
<1> SUFFICES ASSUME GpioIInv, SampleBegin PROVE GpioIInv' OBVIOUS
<1>1. /\ gSample' = gNow /\ gRaced' = FALSE /\ gNow > gBuf.latest
      /\ UNCHANGED <<gQueue, gBatch, gBus, gEdges, gNow, gBuf>>
  BY DEF SampleBegin
<1>2. gNow \in Nat /\ gBuf.latest \in Nat BY DEF GpioIInv, GpioTypeOK, Buffers
<1>3. Seen' = Seen BY <1>1 DEF Seen
<1>4. GpioTypeOK' /\ EdgesInOrder' /\ NothingIsLost' /\ BufferIsOfBus'
  BY <1>1, <1>2, <1>3 DEF GpioIInv, GpioTypeOK, EdgesInOrder, NothingIsLost, BufferIsOfBus
<1>5. EdgesArePublished' BY <1>1, <1>3, PublishedAreChosen, ChosenNext DEF GpioIInv
<1>6. gBuf.last <= gNow
  <2>1. Len(gBus) = 0 => gBuf.last = NoTime BY DEF GpioIInv, BufferIsOfBus
  <2>2. Len(gBus) # 0 => gBuf.last <= gNow BY DEF GpioIInv, BufferIsOfBus
  <2> QED BY <1>2, <2>1, <2>2 DEF NoTime
<1>7. SampleIsLate' BY <1>1, <1>2, <1>6 DEF SampleIsLate
<1> QED BY <1>4, <1>5, <1>7 DEF GpioIInv

LEMMA GpioStarts == GpioInit => GpioIInv
<1> SUFFICES ASSUME GpioInit PROVE GpioIInv OBVIOUS
<1>1. /\ gQueue = <<>> /\ gBatch = <<>> /\ gBus = <<>> /\ gEdges = <<>> /\ gNow = 0
      /\ gBuf = NewBuffer /\ gSample = NoTime /\ gRaced = FALSE
  BY DEF GpioInit
<1>2. Seen = 0
  <2>1. Len(gEdges) = 0 /\ Len(gQueue) = 0 /\ Len(gBatch) = 0 BY <1>1
  <2> QED BY <2>1 DEF Seen
<1>3. gBuf \in Buffers
  <2>1. <<>> \in Seq(Nat) OBVIOUS
  <2>2. <<>> \in Seq(GpioSamples) OBVIOUS
  <2>3. NewBuffer \in Buffers BY <2>1, <2>2 DEF Buffers, NewBuffer
  <2> QED BY <1>1, <2>3
<1>4. GpioTypeOK
  <2>1. gEdges \in Seq(Edges) /\ gQueue \in Seq(Edges) /\ gBatch \in Seq(Edges) BY <1>1
  <2>2. gBus \in Seq([ts : Nat, interval : Nat]) BY <1>1
  <2>3. gNow \in Nat /\ gSample \in Nat \cup {NoTime} /\ gRaced \in BOOLEAN BY <1>1
  <2> QED BY <1>3, <2>1, <2>2, <2>3 DEF GpioTypeOK
<1>5. EdgesInOrder /\ NothingIsLost /\ SampleIsLate BY <1>1, <1>2 DEF EdgesInOrder, NothingIsLost, SampleIsLate
<1>6. BufferIsOfBus BY <1>1 DEF BufferIsOfBus, NewBuffer
<1>7. Chosen([n \in 1..0 |-> 0], gEdges, gBus, Seen) BY <1>1, <1>2 DEF Chosen
<1>8. EdgesArePublished BY <1>7, PublishedAreChosen
<1> QED BY <1>4, <1>5, <1>6, <1>8 DEF GpioIInv

LEMMA GpioStepKeeps == GpioIInv /\ [GpioNext]_gpioVars => GpioIInv'
<1> SUFFICES ASSUME GpioIInv, [GpioNext]_gpioVars PROVE GpioIInv' OBVIOUS
<1>1. CASE GpioStart \/ LoopInterrupted \/ StopFlag \/ GpioStopping
  BY <1>1, GpioStutters DEF GpioStart, LoopInterrupted, StopFlag, GpioStopping, StopWrite, StopJoin, loopVars
<1>2. CASE GpioLoop
  <2>1. CASE LoopTop \/ LoopPoll \/ LoopAgain
    BY <2>1, GpioStutters DEF LoopTop, LoopPoll, LoopAgain, loopVars
  <2>2. CASE LoopRead BY <2>2, ReadKeeps
  <2>3. CASE LoopProcess BY <2>3, AcceptKeeps, RejectKeeps
  <2> QED BY <1>2, <2>1, <2>2, <2>3 DEF GpioLoop
<1>3. CASE SampleBegin BY <1>3, BeginKeeps
<1>4. CASE SampleEnd BY <1>4, SampleKeeps
<1>5. CASE GpioTick BY <1>5, ClockKeeps
<1>6. CASE \E edge \in LineEdges : GpioEdge(edge) BY <1>6, EdgeKeeps
<1>7. CASE UNCHANGED gpioVars BY <1>7, GpioStutters DEF gpioVars
<1> QED BY <1>1, <1>2, <1>3, <1>4, <1>5, <1>6, <1>7 DEF GpioNext

\* Only the end of a sampling ends it.
LEMMA SamplesAreOfTheirWindow == GpioIInv /\ GpioNext => RateIsOfWindow
<1> SUFFICES ASSUME GpioIInv, GpioNext, gSample # NoTime, gSample' = NoTime, ~gRaced
             PROVE  gSent'[Len(gSent')] = [ts |-> gSample, rate |-> RateOf(gSample)]
  BY DEF RateIsOfWindow
<1>1. SampleEnd
  BY DEF GpioNext, GpioStart, GpioLoop, LoopTop, LoopPoll, LoopRead, LoopProcess, LoopAgain, LoopInterrupted,
     StopFlag, GpioStopping, StopWrite, StopJoin, SampleBegin, GpioTick, GpioEdge, loopVars
<1> DEFINE rate == RateOf(gSample)
           b == Sampled(gBuf, gSample, rate)
<1>2. CurrentRate(gBuf, gSample) = rate BY RateMatches
<1> HIDE DEF rate
<1>3. gSent' = Retrieved(gBuf, b.samples) BY <1>1, <1>2 DEF SampleEnd
<1>4. rate \in Nat \X Nat
  <2>1. gBuf \in Buffers /\ gSample \in Nat BY DEF GpioIInv, GpioTypeOK
  <2> QED BY <1>2, <2>1, RateIsTyped
<1>5. gSent'[Len(gSent')] = [ts |-> gSample, rate |-> rate] BY <1>3, <1>4, SampleIsAdded
<1> QED BY <1>5 DEF rate

\* The driver follows the line (GpioDriver::eventLoop, EventRateBuffer::handle, SlidingRateEstimator): it has
\* published, once and in order, just the edges that pass the filters, with the time since the one before,
\* however they were read; and a rate sampled while the thread left the buffer alone is that of all edges
\* published in the window, for any lengths of window, dead time, history and read.
THEOREM GpioFollowsItsLine == GpioSpec => LineIsFollowed
<1>1. GpioIInv /\ [GpioNext]_gpioVars => GpioIInv' BY GpioStepKeeps
<1>2. GpioIInv /\ [GpioNext]_gpioVars => [EdgesArePublished' /\ RateIsOfWindow]_gpioVars
  <2>1. GpioIInv /\ GpioNext => EdgesArePublished' BY GpioStepKeeps DEF GpioIInv
  <2> QED BY <2>1, SamplesAreOfTheirWindow
<1> QED BY <1>1, <1>2, GpioStarts, PTL DEF GpioSpec, LineIsFollowed

=============================================================================
