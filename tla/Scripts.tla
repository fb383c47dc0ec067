------------------------------ MODULE Scripts ------------------------------
(***************************************************************************)
(* Scripts of the old virtual machine: what vm/script-builder.ts, the      *)
(* builders over it (link/easy-script.ts, tx/contract-tx-helper.ts) and    *)
(* tx/contract-artifacts.ts emit, and a machine that runs it.              *)
(*                                                                         *)
(* A script is the sequence of its instructions; one that loads a value    *)
(* carries the bytes of the value.  The machine is not in this repository: *)
(* it does what the comments and the golden vectors of the tests take for  *)
(* granted, and with the SDK's own VMObject for its values.                *)
(***************************************************************************)
EXTENDS VMObjects

CONSTANTS
    MaxLoad,        \* the longest value a script loads, 0xffff
    MaxInteger,     \* Number.MAX_SAFE_INTEGER
    NullAddress     \* the text of the null address

ASSUME ScriptsAssumption == {MaxLoad, MaxInteger} \subseteq Nat

Ins(op, args, bytes) == [op |-> op, args |-> args, bytes |-> bytes]
Plainly(op, args) == <<Ins(op, args, <<>>)>>

\* One after the other; a builder that throws leaves no script.
Joined(parts) == IF Failed(parts) THEN Thrown ELSE FlattenSeq(parts)

-----------------------------------------------------------------------------
(* ScriptBuilder.                                                          *)

emitPush(reg) == Plainly("PUSH", <<reg>>)

emitLoadBytes(reg, bytes, type) ==
    IF Len(bytes) > MaxLoad THEN Thrown
    ELSE <<Ins("LOAD", <<reg, TypeCode(type)>>, bytes)>>

emitLoadBigInt(reg, n) == emitLoadBytes(reg, bigIntToTwosComplementLE(n), "Number")
emitLoadAddress(reg, bytes) == emitLoadBytes(reg, writeByteArray(bytes), "Bytes")
emitLoadTimestamp(reg, seconds) == emitLoadBytes(reg, Fixed(seconds, 4), "Timestamp")

\* What serializeObjectCall() writes; an object without a type has no length either.
emitLoadVmObject(reg, o) ==
    <<Ins("LOAD", <<reg, TypeCode(o.type)>>,
          IF o.type = "None" THEN Thrown ELSE serializeObjectCall(o))>>

RECURSIVE emitLoad(_, _)

emitLoadArray(reg, values) ==
    Joined(<<Plainly("CAST", <<reg, reg, TypeCode("None")>>)>>
           \o [i \in DOMAIN values |->
                 Joined(<<emitLoad(reg + 1, values[i]),
                          emitLoad(reg + 2, Host("bigint", i - 1)),
                          Plainly("PUT", <<reg + 1, reg, reg + 2>>)>>)])

\* A number is loaded as the text of its digits.
emitLoad(reg, h) ==
    CASE h.js = "string" -> emitLoadBytes(reg, h.content, "String")
      [] h.js = "boolean" -> emitLoadBytes(reg, <<IF h.content THEN 1 ELSE 0>>, "Bool")
      [] h.js = "bigint" -> emitLoadBigInt(reg, h.content)
      [] h.js = "number" -> emitLoadBytes(reg, Decimal(h.content), "String")
      [] h.js = "bytes" -> emitLoadBytes(reg, h.content, "Bytes")
      [] h.js = "array" -> emitLoadArray(reg, h.content)
      [] h.js = "timestamp" -> emitLoadTimestamp(reg, h.content)
      [] h.js = "address" -> emitLoadAddress(reg, h.content)
      [] h.js = "vmobject" -> emitLoadVmObject(reg, h.content)
      [] h.js = "null" -> Thrown

\* Mutant: the first argument is pushed first.
insertMethodArgs_Forward(args) ==
    Joined([i \in DOMAIN args |-> Joined(<<emitLoad(0, args[i]), emitPush(0)>>)])

\* The last argument is pushed first.
insertMethodArgs(args) ==
    Joined([i \in DOMAIN args |->
              Joined(<<emitLoad(0, args[Len(args) + 1 - i]), emitPush(0)>>)])

callInterop(method, args) ==
    Joined(<<insertMethodArgs(args), emitLoad(0, Host("string", method)),
             Plainly("EXTCALL", <<0>>)>>)

callContract(contract, method, args) ==
    Joined(<<insertMethodArgs(args), emitLoad(0, Host("string", method)), emitPush(0),
             emitLoad(0, Host("string", contract)), Plainly("CTX", <<0, 1>>),
             Plainly("SWITCH", <<1>>)>>)

endScript(parts) == Joined(Append(parts, Plainly("RET", <<>>)))

-----------------------------------------------------------------------------
(* The calls that have a method of their own.  Names are short texts that  *)
(* tell them apart: [contract, method], no contract for an interop call.   *)

Interop == <<>>
Call(contract, method, args) == [contract |-> contract, method |-> method, args |-> args]
emitCall(c) ==
    IF c.contract = Interop THEN callInterop(c.method, c.args)
    ELSE callContract(c.contract, c.method, c.args)

Gas == <<103>>
StakeName == <<115>>
allowGas(from, to, price, limit) == Call(Gas, <<65, 71>>, <<from, to, price, limit>>)
spendGas(address) == Call(Gas, <<83, 71>>, <<address>>)
mintTokens(symbol, from, to, amount) == Call(Interop, <<77>>, <<from, to, symbol, amount>>)
transferTokens(symbol, from, to, amount) == Call(Interop, <<84>>, <<from, to, symbol, amount>>)
transferBalance(symbol, from, to) == Call(Interop, <<66>>, <<from, to, symbol>>)
crossTransferToken(chain, symbol, from, to, amount) ==
    Call(Interop, <<67>>, <<chain, from, to, symbol, amount>>)
stake(address, amount) == Call(StakeName, <<83>>, <<address, amount>>)
callNft(symbol, series, method, args) ==
    Call(symbol.content \o <<35>> \o Decimal(series.content), method, args)

\* EasyScript.buildScript().
buildScript(type, contract, method, args) ==
    LET called == Call(IF type = "interop" THEN Interop ELSE contract, method, args)
        WithGas == <<Call(Gas, <<65, 71>>, <<>>), called, Call(Gas, <<83, 71>>, <<>>)>>
    IN IF type = "invoke" THEN <<called>> ELSE WithGas

-----------------------------------------------------------------------------
(* ContractTxHelper.buildContractLifecycleScript().                        *)

normalizeSmallInteger(h) ==
    IF h.content <= 0 \/ h.content > MaxInteger THEN Thrown ELSE Host("number", h.content)

\* Bytes, or the text of their hex digits; never none.
coerceContractBytes(bytes) == IF bytes = <<>> THEN Thrown ELSE Host("bytes", bytes)
normalizeText(text) == IF Trimmed(text) = <<>> THEN Thrown ELSE Host("string", Trimmed(text))
normalizeAddress(from) == IF from.js = "string" THEN normalizeText(from.content) ELSE from

\* The three calls, or Thrown.  The gas price and the limit have defaults.
buildContractLifecycleScript(method, p) ==
    LET from == normalizeAddress(p.from)
        name == normalizeText(p.contractName)
        script == coerceContractBytes(p.script)
        abi == coerceContractBytes(p.abi)
        price == normalizeSmallInteger(p.gasPrice)
        limit == normalizeSmallInteger(p.gasLimit)
    IN IF Failed(<<from, name, script, abi, price, limit>>) THEN Thrown
       ELSE <<allowGas(from, Host("string", NullAddress), price, limit),
              Call(Interop, method, <<from, name, script, abi>>),
              spendGas(from)>>

BuiltScript(calls) ==
    IF calls = Thrown THEN Thrown ELSE endScript([i \in DOMAIN calls |-> emitCall(calls[i])])

-----------------------------------------------------------------------------
(* The machine (external).                                                 *)

Machine == [regs |-> [r \in 0..31 |-> None], stack |-> <<>>, calls |-> <<>>, status |-> "running"]

\* The value of loaded bytes.
Loaded(type, bytes) ==
    CASE type = "Bytes" -> Object(type, bytes)
      [] type = "String" -> Object(type, bytes)
      [] type = "Number" -> Object(type, twosComplementLEToBigInt(bytes))
      [] type = "Bool" -> Object(type, bytes[1] # 0)
      [] type = "Timestamp" -> Object(type, Magnitude(bytes))

\* A call takes the arguments that are on the stack, the top one first.
Called(m, contract, method, args) ==
    [m EXCEPT !.stack = <<>>,
              !.calls = Append(@, [contract |-> contract, method |-> method, args |-> args])]

Execute(m, i) ==
    LET Reg(n) == m.regs[i.args[n]]
    IN CASE m.status # "running" -> m
         [] i.op = "LOAD" ->
              [m EXCEPT !.regs[i.args[1]] = Loaded(Types[i.args[2] + 1], i.bytes)]
         [] i.op = "CAST" ->
              [m EXCEPT !.regs[i.args[2]] = castTo(Reg(1), Types[i.args[3] + 1])]
         [] i.op = "PUT" -> [m EXCEPT !.regs[i.args[2]] = setKey(Reg(2), Reg(3), Reg(1))]
         [] i.op = "PUSH" -> [m EXCEPT !.stack = <<Reg(1)>> \o @]
         [] i.op = "EXTCALL" -> Called(m, Interop, Reg(1).data, m.stack)
         [] i.op = "CTX" -> [m EXCEPT !.regs[i.args[2]] = Reg(1)]
         [] i.op = "SWITCH" -> Called(m, Reg(1).data, m.stack[1].data, Tail(m.stack))
         [] i.op = "RET" -> [m EXCEPT !.status = "halted"]

Run(script) == FoldLeft(Execute, Machine, script)

-----------------------------------------------------------------------------
(* Properties.                                                             *)

\* What a callee gets for a value: a number is the text of its digits, an address its bytes
\* with their length, an array a struct by index, and no array at all when it is empty.
RECURSIVE Arrives(_)
Arrives(h) ==
    CASE h.js = "string" -> Object("String", h.content)
      [] h.js = "boolean" -> Object("Bool", h.content)
      [] h.js = "bigint" -> Object("Number", h.content)
      [] h.js = "number" -> Object("String", Decimal(h.content))
      [] h.js = "bytes" -> Object("Bytes", h.content)
      [] h.js = "timestamp" -> Object("Timestamp", h.content)
      [] h.js = "address" -> Object("Bytes", writeByteArray(h.content))
      [] h.js = "array" ->
           IF h.content = <<>> THEN None
           ELSE Object("Struct", [i \in DOMAIN h.content |->
                                    Entry(Object("Number", i - 1), Arrives(h.content[i]))])

\* A value the builder refuses, alone or inside an array.
RECURSIVE Unloadable(_)
Unloadable(h) ==
    CASE h.js = "null" -> TRUE
      [] h.js = "array" -> \E i \in DOMAIN h.content : Unloadable(h.content[i])
      [] h.js \in {"string", "bytes"} -> Len(h.content) > MaxLoad
      [] OTHER -> FALSE

\* A script makes the calls it was built for, in their order, each with the arguments in the
\* order they were given; a value that cannot be loaded leaves no script.
CallsArrive(calls) ==
    \A script \in {BuiltScript(calls)} :
       IF calls = Thrown \/ (\E i \in DOMAIN calls, k \in 1..5 :
                               k <= Len(calls[i].args) /\ Unloadable(calls[i].args[k]))
       THEN script = Thrown
       ELSE /\ script # Thrown
            /\ \A m \in {Run(script)} :
               /\ m.status = "halted" /\ m.stack = <<>>
               /\ m.calls = [i \in DOMAIN calls |->
                    Call(calls[i].contract, calls[i].method,
                         [k \in DOMAIN calls[i].args |-> Arrives(calls[i].args[k])])]

\* The script of a contract pays before and after it for one deployment, with amounts that
\* the gas contract takes for the numbers it was given, or there is none at all.
LifecycleSound(method, p) ==
    \A calls \in {buildContractLifecycleScript(method, p)} :
       IF \/ p.script = <<>> \/ p.abi = <<>> \/ p.gasPrice.content \notin 1..MaxInteger
          \/ p.gasLimit.content \notin 1..MaxInteger \/ Trimmed(p.contractName) = <<>>
          \/ (p.from.js = "string" /\ Trimmed(p.from.content) = <<>>)
       THEN calls = Thrown
       ELSE Len(p.script) <= MaxLoad /\ Len(p.abi) <= MaxLoad =>
            \A m \in {Run(BuiltScript(calls))} :
              /\ CallsArrive(calls)
              /\ [i \in 1..3 |-> m.calls[i].contract] = <<Gas, Interop, Gas>>
              /\ asNumber(m.calls[1].args[3]) = p.gasPrice.content
              /\ asNumber(m.calls[1].args[4]) = p.gasLimit.content
              /\ m.calls[2].method = method
              /\ m.calls[1].args[1] = m.calls[2].args[1] /\ m.calls[1].args[1] = m.calls[3].args[1]
=============================================================================
