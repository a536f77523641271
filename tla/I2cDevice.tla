----------------------------- MODULE I2cDevice -----------------------------
(***************************************************************************)
(* The base class of the I2C devices                                       *)
(* (daemon/src/hardware/i2c/i2cdevice.cpp): construction and destruction,  *)
(* the global list, the mode flags, the plain transfers with their         *)
(* accounting, the register transfers with their retries, and the mutex.   *)
(* The data are abstracted away: a transfer is complete, short or an       *)
(* error, and a call has a result.                                         *)
(***************************************************************************)
EXTENDS Integers, Sequences, FiniteSets, SequencesExt

CONSTANTS
    I2cObjects,     \* the device objects
    fNrRetries,     \* how often a register transfer is repeated
    MaxI2cCalls     \* bound: calls made

ASSUME I2cAssumption == fNrRetries \in Nat /\ MaxI2cCalls \in Nat

VARIABLES
    i2cHandle,      \* per object: "none" not constructed, "open", "closed" when open() failed
    i2cMode,        \* per object: fMode, a set of flags
    fIOErrors,      \* per object
    fNrDevices,     \* the static counter
    fGlobalDeviceList,
    i2cMutex,       \* per object: fMutex is "free", or "stuck" with a thread that waits for itself
    i2cLast,        \* ghost, per object: how the last plain transfer ended
    i2cCall,        \* the last call, the transfer that ended it and the result
    i2cCalls        \* the calls made

i2cVars == <<i2cHandle, i2cMode, fIOErrors, fNrDevices, fGlobalDeviceList, i2cMutex, i2cLast, i2cCall, i2cCalls>>

NoCall == [op |-> "none", ended |-> "none", result |-> FALSE]

I2cInit ==
    /\ i2cHandle = [o \in I2cObjects |-> "none"]
    /\ i2cMode = [o \in I2cObjects |-> {}]
    /\ fIOErrors = [o \in I2cObjects |-> 0]
    /\ fNrDevices = 0 /\ fGlobalDeviceList = <<>>
    /\ i2cMutex = [o \in I2cObjects |-> "free"]
    /\ i2cLast = [o \in I2cObjects |-> "none"]
    /\ i2cCall = NoCall /\ i2cCalls = 0

Counted == i2cCalls < MaxI2cCalls /\ i2cCalls' = i2cCalls + 1

-----------------------------------------------------------------------------
(* Objects.                                                                 *)

\* setAddress() as the constructors call it: the kernel may have to be forced, or refuse.
setAddress(o) ==
    \/ i2cMode' = [i2cMode EXCEPT ![o] = {"NORMAL"}] /\ UNCHANGED fIOErrors
    \/ i2cMode' = [i2cMode EXCEPT ![o] = {"FORCE"}] /\ UNCHANGED fIOErrors
    \/ i2cMode' = [i2cMode EXCEPT ![o] = {"FAILED"}] /\ fIOErrors' = [fIOErrors EXCEPT ![o] = @ + 1]

\* The constructors with an address.  A device whose address was refused is listed all the same.
Construct(o) ==
    /\ i2cHandle[o] = "none" /\ Counted
    /\ \/ /\ i2cHandle' = [i2cHandle EXCEPT ![o] = "open"]
          /\ setAddress(o)
          /\ fNrDevices' = fNrDevices + 1
          /\ fGlobalDeviceList' = Append(fGlobalDeviceList, o)
       \/ /\ i2cHandle' = [i2cHandle EXCEPT ![o] = "closed"]
          /\ i2cMode' = [i2cMode EXCEPT ![o] = {"FAILED"}]
          /\ UNCHANGED <<fIOErrors, fNrDevices, fGlobalDeviceList>>
    /\ i2cCall' = NoCall
    /\ UNCHANGED <<i2cMutex, i2cLast>>

\* A mutant: the list keeps the object.
LeaveListed(o) ==
    /\ i2cHandle[o] # "none" /\ i2cMutex[o] = "free" /\ Counted
    /\ fNrDevices' = fNrDevices - (IF i2cHandle[o] = "open" THEN 1 ELSE 0)
    /\ i2cHandle' = [i2cHandle EXCEPT ![o] = "none"]
    /\ i2cMode' = [i2cMode EXCEPT ![o] = {}] /\ fIOErrors' = [fIOErrors EXCEPT ![o] = 0]
    /\ i2cLast' = [i2cLast EXCEPT ![o] = "none"] /\ i2cCall' = NoCall
    /\ UNCHANGED <<i2cMutex, fGlobalDeviceList>>

\* The destructor.
Destroy(o) ==
    /\ i2cHandle[o] # "none" /\ i2cMutex[o] = "free" /\ Counted
    /\ fNrDevices' = fNrDevices - (IF i2cHandle[o] = "open" THEN 1 ELSE 0)
    /\ i2cHandle' = [i2cHandle EXCEPT ![o] = "none"]
    /\ fGlobalDeviceList' = RemoveFirst(fGlobalDeviceList, o)
    /\ i2cMode' = [i2cMode EXCEPT ![o] = {}] /\ fIOErrors' = [fIOErrors EXCEPT ![o] = 0]
    /\ i2cLast' = [i2cLast EXCEPT ![o] = "none"] /\ i2cCall' = NoCall
    /\ UNCHANGED i2cMutex

lock(o, locked) ==
    /\ i2cHandle[o] # "none" /\ Counted
    /\ i2cMode' = [i2cMode EXCEPT ![o] = IF locked THEN @ \cup {"LOCKED"} ELSE @ \ {"LOCKED"}]
    /\ i2cCall' = NoCall
    /\ UNCHANGED <<i2cHandle, fIOErrors, fNrDevices, fGlobalDeviceList, i2cMutex, i2cLast>>

-----------------------------------------------------------------------------
(* Transfers.                                                               *)

Closed(o) == i2cHandle[o] = "closed" \/ "LOCKED" \in i2cMode[o]

\* The transfers a call makes: it repeats while they fail, fNrRetries times at the most.
Attempts(outcomes) ==
    {s \in UNION {[1 .. n -> outcomes] : n \in 1 .. fNrRetries + 1} :
        /\ \A i \in 1 .. Len(s) - 1 : s[i] # "complete"
        /\ Last(s) = "complete" \/ Len(s) = fNrRetries + 1}

\* What read() and write() do to the flags and the counters for each of the transfers.
Accounted(o, s) ==
    /\ i2cMode' = [i2cMode EXCEPT ![o] = IF Last(s) = "error" THEN @ \cup {"UNREACHABLE"} ELSE @ \ {"UNREACHABLE"}]
    /\ fIOErrors' = [fIOErrors EXCEPT ![o] = @ + Len(SelectSeq(s, LAMBDA x : x = "error"))]
    /\ i2cLast' = [i2cLast EXCEPT ![o] = Last(s)]

Unaccounted == UNCHANGED <<i2cMode, fIOErrors, i2cLast>>

Returns(op, ended, result) == i2cCall' = [op |-> op, ended |-> ended, result |-> result]

\* A call made of plain transfers: a closed or locked device is not touched and counts as zero bytes.
Plain(o, op, transfers, Result(_)) ==
    /\ i2cHandle[o] # "none" /\ Counted
    /\ IF Closed(o)
       THEN Unaccounted /\ Returns(op, "closed", Result("closed"))
       ELSE \E s \in transfers : Accounted(o, s) /\ Returns(op, Last(s), Result(Last(s)))
    /\ UNCHANGED <<i2cHandle, fNrDevices, fGlobalDeviceList, i2cMutex>>

Complete(ended) == ended = "complete"
Once == {<<x>> : x \in {"complete", "short", "error"}}
Again == Attempts({"complete", "short", "error"})

\* devicePresent(): one byte read; readWords() without a register; writeWords().
devicePresent(o) == Plain(o, "devicePresent", {<<"complete">>, <<"error">>}, Complete)
readPlainWord(o) == Plain(o, "readWord", Again, Complete)
writeWord(o) == Plain(o, "writeWord", Again, Complete)

\* writeByte() and writeBytes(): the number of bytes, which is negative for an error and for a
\* locked device, is returned as a truth value.  A short transfer may have left the register only.
writeByte(o) ==
    \/ Plain(o, "writeByte", Again, LAMBDA ended : TRUE)
    \/ Plain(o, "writeByte", {s \in Again : Last(s) = "short"}, LAMBDA ended : ended # "short")

\* readReg() and what repeats it: under the mutex, without the lock and without the accounting.
readRegister(o) ==
    /\ i2cHandle[o] # "none" /\ i2cMutex[o] = "free" /\ Counted
    /\ \E s \in Attempts(IF i2cHandle[o] = "open" THEN {"complete", "error"} ELSE {"error"}) :
          Returns("readByte", Last(s), Complete(Last(s)))
    /\ Unaccounted
    /\ UNCHANGED <<i2cHandle, fNrDevices, fGlobalDeviceList, i2cMutex>>

\* writeBit() and writeBits() take the mutex and call readByte(), which takes it again.
writeBits(o) ==
    /\ i2cHandle[o] # "none" /\ i2cMutex[o] = "free" /\ Counted
    /\ i2cMutex' = [i2cMutex EXCEPT ![o] = "stuck"]
    /\ Returns("writeBits", "stuck", FALSE)
    /\ Unaccounted
    /\ UNCHANGED <<i2cHandle, fNrDevices, fGlobalDeviceList>>

I2cNext ==
    \E o \in I2cObjects :
        \/ Construct(o) \/ Destroy(o) \/ \E locked \in BOOLEAN : lock(o, locked)
        \/ devicePresent(o) \/ readPlainWord(o) \/ writeWord(o) \/ writeByte(o)
        \/ readRegister(o) \/ writeBits(o)

I2cSpec == I2cInit /\ [][I2cNext]_i2cVars

-----------------------------------------------------------------------------
(* The properties.                                                          *)

\* What the daemon shows of its devices is so: the counter and the list hold the objects with an
\* open handle, each once; a device is called unreachable when, and only when, the last plain
\* transfer with it failed; and a call says yes to a transfer that was completed and to no other,
\* after whatever retries, locks and failures.  writeByte() is the exception: it converts the
\* number of bytes to bool, so that its errors, which are negative, are a yes.
DevicesAreAsShown ==
    /\ ToSet(fGlobalDeviceList) = {o \in I2cObjects : i2cHandle[o] = "open"}
    /\ IsInjective(fGlobalDeviceList) /\ fNrDevices = Len(fGlobalDeviceList)
    /\ \A o \in I2cObjects : ("UNREACHABLE" \in i2cMode[o]) = (i2cLast[o] = "error")
    /\ i2cCall.op \notin {"none", "writeByte"} => i2cCall.result = (i2cCall.ended = "complete")
=============================================================================
